------------------------------- MODULE MCRecovery -------------------------------
(***************************************************************************)
(* A caller who was asked to confirm a reset or an unlock, and who may     *)
(* then affirm, talk of something else, finish or ask for a person.        *)
(***************************************************************************)
EXTENDS PollingClientProperties

Quiet ==
    [route |-> "CONTINUE", intent |-> "NONE", action |-> None, focus |-> "NONE",
     mode |-> None, finished |-> FALSE, request |-> FALSE, observation |-> "NONE",
     cause |-> None, claims |-> {}]

RecoveryDecisions ==
    {Quiet,
     [Quiet EXCEPT !.observation = "AFFIRMATIVE"],
     [Quiet EXCEPT !.route = "COMPLETE", !.finished = TRUE],
     [Quiet EXCEPT !.route = "ESCALATE", !.cause = "CALLER_REQUEST"]}

AskedAbout(goal) ==
    [NewRecord EXCEPT
        !.turned = TRUE, !.goal = goal, !.identity.validatedAt = 0,
        !.confirmation = [id |-> 1, action |-> goal.action, revision |-> 1, validatedAt |-> 0]]

AskedRecords ==
    {AskedAbout([action |-> Reset, revision |-> 1, mode |-> "AUTONOMOUS"]),
     AskedAbout([action |-> Unlock, revision |-> 1, mode |-> None])}
================================================================================
