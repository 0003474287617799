---------------------------------- MODULE MCLab ----------------------------------
(***************************************************************************)
(* A corpus of small cases, one per kind of fixture and event the real one *)
(* (evals/conversation/cases.yaml) has, and what the model may answer.     *)
(***************************************************************************)
EXTENDS LabProperties

Quiet ==
    [route |-> "CONTINUE", intent |-> "NONE", action |-> None, focus |-> "NONE",
     mode |-> None, finished |-> FALSE, request |-> FALSE, observation |-> "NONE",
     cause |-> None, claims |-> {}]

AskReset ==
    [Quiet EXCEPT !.intent = "REQUEST", !.action = Reset, !.mode = "AUTONOMOUS",
                  !.request = TRUE]
AskUnlock == [Quiet EXCEPT !.intent = "REQUEST", !.action = Unlock, !.request = TRUE]
SwitchToUnlock == [Quiet EXCEPT !.intent = "CORRECT", !.action = Unlock]
SwitchToReset == [Quiet EXCEPT !.intent = "CORRECT", !.action = Reset]
Affirm == [Quiet EXCEPT !.observation = "AFFIRMATIVE"]
Cancel == [Quiet EXCEPT !.intent = "CANCEL"]

Plainly(decision) == [decision |-> decision, cue |-> "NONE", size |-> 1]
Cued(cue, size) == [decision |-> Quiet, cue |-> cue, size |-> size]

Semantic ==
    {Plainly(d) : d \in {Quiet, AskReset, AskUnlock, SwitchToUnlock, SwitchToReset, Affirm, Cancel,
        [Affirm EXCEPT !.mode = "AUTONOMOUS"],
        [Affirm EXCEPT !.intent = "CORRECT", !.action = Unlock, !.request = TRUE],
        [Quiet EXCEPT !.request = TRUE],
        [Quiet EXCEPT !.request = TRUE, !.claims = {"OPERATION_SUCCEEDED"}],
        [Quiet EXCEPT !.observation = "NEGATIVE"],
        [Quiet EXCEPT !.observation = "CANCEL"],
        [Quiet EXCEPT !.route = "COMPLETE"],
        [Quiet EXCEPT !.route = "COLLECT_IDENTITY"],
        [Quiet EXCEPT !.route = "ESCALATE", !.cause = "TERMINAL_FAILURE"]}}

\* The steps of the procedure, changes of goal around it, and pairs up to an oversize one.
Guided ==
    {Cued(cue, 1) : cue \in {"ADVANCE", "REGRESS", "PAUSE", "RESUME"}}
      \cup {Cued("NONE", 3), Cued("NONE", 4), Plainly(SwitchToUnlock), Plainly(SwitchToReset),
            Plainly(Cancel)}

Fresh ==
    [action |-> None, revision |-> 0, mode |-> None, identity |-> "none", failures |-> 0,
     confirmation |-> "none", asked |-> 0, operation |-> None, operationAction |-> None]
ResetWanted == [Fresh EXCEPT !.action = Reset, !.revision = 1, !.asked = 1]
ToConfirm == [ResetWanted EXCEPT !.identity = "valid", !.confirmation = "pending"]

Event(kind, result) == [kind |-> kind, result |-> result]
Say1(event, expect) == [spoken |-> TRUE, event |-> event, expect |-> expect]
NoExpect == <<>>

Paraphrase(state, event, expected) ==
    [kind |-> "independent_trial", listed |-> TRUE, state |-> state, expected |-> expected,
     turns |-> <<Say1(event, NoExpect)>>]

MCCorpus ==
    [confirm |->
        [kind |-> "sequence", listed |-> TRUE, state |-> ToConfirm,
         expected |-> [dispatch_count |-> 1],
         turns |-> <<Say1(NoEvent, [confirmation |-> "authorized", operation |-> "pending"]),
                     Say1(Event("dispatch_timeout", "none"), [operation |-> "active"])>>],
     fresh |->
        [kind |-> "sequence", listed |-> TRUE, state |-> Fresh,
         expected |-> [confirmation_state |-> "pending", assistance_mode |-> "AUTONOMOUS",
                       conversation_goal |-> Reset],
         turns |-> <<Say1(NoEvent, [goal_transition |-> "created", route |-> "CONTINUE"]),
                     Say1(Event("identity_validation", "VALIDATED"),
                          [identity_valid |-> TRUE, dispatch_count_unchanged |-> TRUE])>>],
     guided |->
        [kind |-> "sequence", listed |-> TRUE, state |-> [ResetWanted EXCEPT !.mode = "GUIDED"],
         expected |-> [conversation_goal |-> "unchanged"],
         turns |-> <<Say1(NoEvent, [procedure_current |-> 2, window_pairs |-> 1]),
                     Say1(NoEvent, [procedure_last_completed |-> 1]),
                     Say1(NoEvent, [revision_transition |-> "same"]),
                     Say1(NoEvent, NoExpect)>>],
     stale |-> Paraphrase([ToConfirm EXCEPT !.asked = 0], NoEvent,
                          [confirmation_state |-> "not_valid", dispatch_count |-> 0]),
     expired |-> Paraphrase([ToConfirm EXCEPT !.identity = "expired"], NoEvent,
                            [action_eligibility |-> "not_eligible"]),
     revalidated |-> Paraphrase(ToConfirm, Event("identity_validation", "VALIDATED"),
                                [confirmation_state |-> "none"]),
     timeout |-> Paraphrase(ToConfirm, Event("confirmation_timeout", "none"),
                            [confirmation_state |-> "invalidated"]),
     exhausted |-> Paraphrase([ResetWanted EXCEPT !.failures = 1],
                              Event("identity_validation", "CALLER_FAILURE"),
                              [route |-> "ESCALATE", handoff_cause |-> "TERMINAL_FAILURE",
                               escalation_eligibility |-> "eligible"]),
     refused |->
        [kind |-> "sequence", listed |-> FALSE, state |-> [ResetWanted EXCEPT !.failures = 1],
         expected |-> [route |-> "ESCALATE", escalation_eligibility |-> "eligible"],
         turns |-> <<[spoken |-> FALSE,
                      event |-> Event("identity_validation", "CALLER_FAILURE"),
                      expect |-> NoExpect]>>],
     technical |-> Paraphrase([Fresh EXCEPT !.action = Unlock, !.operation = "unknown"],
                              Event("identity_validation", "TECHNICAL_FAILURE"),
                              [dispatch_count |-> 0]),
     settled |->
        [kind |-> "sequence", listed |-> TRUE,
         state |-> [ToConfirm EXCEPT !.confirmation = "authorized", !.operation = "pending"],
         expected |-> [conversation_goal |-> None],
         turns |-> <<[spoken |-> FALSE, event |-> Event("late_result", "confirmed"),
                      expect |-> [obsolete_goal_absent |-> TRUE]],
                     Say1(NoEvent, NoExpect)>>],
     failed |-> Paraphrase([ToConfirm EXCEPT !.confirmation = "authorized",
                                             !.operation = "pending"],
                           Event("result", "failed"), [action_eligibility |-> "not_eligible"]),
     unlocked |-> Paraphrase([Fresh EXCEPT !.identity = "valid", !.operation = "confirmed",
                                           !.operationAction = Unlock],
                             NoEvent, [conversation_goal |-> None, unsupported |-> TRUE])]

MCAnswers ==
    [l \in Lane |-> [case \in DOMAIN MCCorpus |->
        IF case = "guided"
        THEN IF l = "baseline" THEN {Cued("ADVANCE", 1)} ELSE Guided
        ELSE IF l = "baseline" THEN {Plainly(Affirm), Plainly(AskReset)} ELSE Semantic]]

MCFocus == {"stale", "timeout", "settled"}
MCVariant == [baseline |-> "procedure_progress_only", candidate |-> "recent_conversation_memory"]
MCStore == [baseline |-> "direct", candidate |-> "repository"]

MCSettings ==
    {[differing |-> d, variables |-> v, confounders |-> c, tokensChanged |-> t, latencyUp |-> l] :
        d \in {{"model"}, {"prompt", "other"}}, v \in {{"model"}, {"prompt"}},
        c \in {{"other"}}, t \in BOOLEAN, l \in BOOLEAN}
================================================================================
