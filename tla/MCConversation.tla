----------------------------- MODULE MCConversation -----------------------------
(***************************************************************************)
(* The proposals the model may make in the runs of Conversation.  Each     *)
(* moves one thing away from the plain turn; together the ones of a run    *)
(* reach every branch of the rules the run is about.                       *)
(***************************************************************************)
EXTENDS ConversationProperties, TLC

\* The plain turn: it continues, and proposes and claims nothing.
Quiet ==
    [route |-> "CONTINUE", intent |-> "NONE", action |-> None, focus |-> "NONE",
     mode |-> None, finished |-> FALSE, request |-> FALSE, observation |-> "NONE",
     cause |-> None, claims |-> {}]

AskReset ==
    [Quiet EXCEPT !.intent = "REQUEST", !.action = Reset, !.mode = "AUTONOMOUS",
                  !.request = TRUE]
AskUnlock == [Quiet EXCEPT !.intent = "REQUEST", !.action = Unlock, !.focus = "PROGRESS"]
Affirm == [Quiet EXCEPT !.observation = "AFFIRMATIVE"]

\* Planning, confirming, cancelling and every route, legal or not.
PlanDecisions ==
    {AskReset, AskUnlock, Affirm,
     [Quiet EXCEPT !.mode = "GUIDED"],
     [Quiet EXCEPT !.mode = "AUTONOMOUS", !.observation = "AFFIRMATIVE"],
     [Quiet EXCEPT !.intent = "CORRECT", !.action = Unlock, !.observation = "AFFIRMATIVE"],
     [Quiet EXCEPT !.intent = "CANCEL"],
     [Quiet EXCEPT !.intent = "REQUEST"],
     [Quiet EXCEPT !.request = TRUE, !.focus = "PROGRESS"],
     [Quiet EXCEPT !.request = TRUE, !.claims = {"OPERATION_SUCCEEDED"}],
     [Quiet EXCEPT !.request = TRUE, !.route = "COMPLETE"],
     [Quiet EXCEPT !.request = TRUE, !.route = "ESCALATE", !.cause = "CALLER_REQUEST"],
     [Quiet EXCEPT !.observation = "CANCEL"],
     [Quiet EXCEPT !.route = "COLLECT_IDENTITY"],
     [Quiet EXCEPT !.route = "ESCALATE", !.cause = "CALLER_REQUEST"]}

\* After the operation is settled: asking again, the other action, closing, handing over.
SettlementDecisions ==
    {AskReset, AskUnlock, Affirm,
     [Quiet EXCEPT !.intent = "CORRECT", !.action = Unlock],
     [Quiet EXCEPT !.intent = "CANCEL"],
     [Quiet EXCEPT !.request = TRUE],
     [Quiet EXCEPT !.route = "COMPLETE"],
     [Quiet EXCEPT !.route = "ESCALATE", !.cause = "TERMINAL_FAILURE"]}

\* A confirmed reset: dictating the password, closing with and without being done.
ResetDecisions ==
    {AskReset, Affirm,
     [Quiet EXCEPT !.route = "COMPLETE"],
     [Quiet EXCEPT !.route = "COMPLETE", !.finished = TRUE]}

\* Two requests in flight: asking and confirming against each other.
OverlapDecisions == {[AskUnlock EXCEPT !.request = TRUE], Affirm}

HandlerSymmetry == Permutations(Handlers)
================================================================================
