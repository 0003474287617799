------------------------------- MODULE MCBoundary -------------------------------
(***************************************************************************)
(* The documents a conversation may already have when a request reaches    *)
(* this version of the service, one for each thing a migration must get    *)
(* right, and the proposals of the model.  Identifiers below FirstFresh.   *)
(***************************************************************************)
EXTENDS BoundaryProperties

Quiet ==
    [route |-> "CONTINUE", intent |-> "NONE", action |-> None, focus |-> "NONE",
     mode |-> None, finished |-> FALSE, request |-> FALSE, observation |-> "NONE",
     cause |-> None, claims |-> {}]
Affirm == [Quiet EXCEPT !.observation = "AFFIRMATIVE"]
AskUnlock == [Quiet EXCEPT !.intent = "REQUEST", !.action = Unlock, !.request = TRUE]

BoundaryDecisions == {Quiet, Affirm, AskUnlock, [Affirm EXCEPT !.mode = "AUTONOMOUS"]}

Validated == [validatedAt |-> 0, failures |-> 0]
GoalOf(action) == [action |-> action, revision |-> 1, mode |-> None]
ChallengeOf(action) == [id |-> 1, action |-> action, revision |-> 1, validatedAt |-> 0]
DispatchOf(action) == [operation |-> 2, action |-> action, revision |-> 1, challenge |-> 1]
OperationOf(action, status) == [id |-> 2, action |-> action, status |-> status]

\* Records as versions 4 and 5 stored them: a goal without a mode.
Asked(action) ==
    [NewRecord EXCEPT !.turned = TRUE, !.goal = GoalOf(action), !.identity = Validated,
                      !.confirmation = ChallengeOf(action)]
Dispatched(action, status) ==
    [NewRecord EXCEPT !.turned = TRUE, !.identity = Validated,
                      !.goal = IF status = "confirmed" THEN None ELSE GoalOf(action),
                      !.dispatch = DispatchOf(action),
                      !.operation = OperationOf(action, status)]
PollingOf(seen) ==
    [operation |-> 2, receipts |-> <<[sequence |-> 1, fingerprint |-> seen]>>,
     attempted |-> None, messages |-> 0]
Presented ==
    [operation |-> 2, revision |-> 1, voice |-> "PLAYBACK_RETURNED", finished |-> FALSE]

\* The planes versions 2 and 3 had.
AsV2(rec) ==
    [plane \in {"turned", "goal", "identity", "confirmation", "dispatch", "operation"} |->
        rec[plane]]
AsV3(rec) == [plane \in DOMAIN rec \ {"voiceRetry"} |-> rec[plane]]

\* A plane no version ever defined.
WithTools(rec) ==
    [plane \in DOMAIN rec \cup {"tools"} |-> IF plane = "tools" THEN TRUE ELSE rec[plane]]

At1(requested, pending) ==
    [version |-> 1,
     planes |-> [turned |-> TRUE, validated |-> TRUE, requested |-> requested,
                 pending |-> pending]]
AtVersion(version, planes) == [version |-> version, planes |-> planes]

StoredDocuments ==
    {None,
     At1(Unlock, None), At1(Unlock, OperationOf(Unlock, "pending")),
     At1(None, OperationOf(Reset, "confirmed")),
     AtVersion(2, AsV2(Asked(Reset))), AtVersion(2, AsV2(Dispatched(Unlock, "pending"))),
     AtVersion(3, AsV3([Dispatched(Reset, "pending") EXCEPT !.polling = PollingOf("PENDING")])),
     AtVersion(4, [Dispatched(Reset, "confirmed") EXCEPT !.presentation = Presented]),
     AtVersion(5, Asked(Reset)), AtVersion(5, Dispatched(Reset, "confirmed")),
     AtVersion(6, Asked(Unlock)),
     AtVersion(7, Asked(Unlock)),
     AtVersion(5, WithTools(Asked(Reset))),
     AtVersion(6, [Asked(Unlock) EXCEPT !.goal.mode = "GUIDED"])}
================================================================================
