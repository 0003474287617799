------------------------------ MODULE LabProperties ------------------------------
(***************************************************************************)
(* What makes an evaluation trustworthy: the lab must see what the runtime *)
(* did, execute nothing critical itself, carry the procedure and the       *)
(* window faithfully from turn to turn, and never accept what got worse.   *)
(***************************************************************************)
EXTENDS Lab

Criticals ==
    (IF trial = None THEN {} ELSE trial.criticals)
      \cup UNION {UNION {artifact[l][case].criticals : case \in DOMAIN artifact[l]} : l \in Lane}

(* No replay executes a critical violation: the runtime never dispatches what the record
   before the turn did not permit, never twice, and never hands over without a cause.  The
   one class left is a challenge the lab itself takes for unpresented. *)
NothingCriticalIsExecuted == Criticals \subseteq {"INCOHERENT_CHALLENGE_PRESENTATION"}

Reconfirmed == {"RECOVERY_RECONFIRMATION", "INITIAL_DETERMINISTIC_CONFIRMATION"}

(* The lab names the source of the caller-facing words from projections alone; still it
   names a canonical confirmation exactly when the runtime spoke one, and finds every
   challenge coherent that did not replace another in the same turn. *)
ProvenanceIsHonest ==
    trial # None /\ trial.last # None =>
        /\ trial.last.source \in Reconfirmed => trial.message = "confirmation"
        /\ trial.last.before.challenge = None =>
             /\ trial.message = "confirmation" => trial.last.source \in Reconfirmed
             /\ trial.last.coherent

(* The answer the lab expects after a turn is the one the next turn is read for: the caller
   who is asked to confirm is next read as confirming what is still consumable, and a mode
   the caller was asked to choose is still to be chosen, once no operation is running: what
   the caller asks for beside a running operation waits for it. *)
ObligationFollowsExpectation ==
    trial # None /\ trial.last # None =>
        /\ trial.last.expects = "ACTION_CONFIRMATION" =>
             DeriveSemanticObligation(trial.rec, Now) = "ACTION_CONFIRMATION"
        /\ trial.last.expects = "ASSISTANCE_MODE_CHOICE" =>
             DeriveSemanticObligation(trial.rec, Now) =
                (IF IsActive(trial.rec.operation) THEN "NONE" ELSE "ASSISTANCE_MODE_CHOICE")

(* The guided procedure belongs to the reset the record wants, at its revision, and only
   an unlock leaves one waiting: no turn, event or change of goal strands it. *)
ProcedureFollowsGoal ==
    trial # None /\ Variant[lane] # "no_recent_memory" /\ trial.last # None =>
        LET goal == trial.rec.goal
        IN  /\ trial.memory.procedure # None <=> goal # None /\ goal.action = Reset
            /\ trial.memory.procedure # None => trial.memory.procedure.revision = goal.revision
            /\ trial.memory.suspended # None => goal # None /\ goal.action = Unlock

(* Every cue leaves a procedure the document of the next turn can be read with. *)
ProcedureIsLegal ==
    trial # None =>
        /\ trial.memory.procedure # None => StepsAreLegal(trial.memory.procedure)
        /\ trial.memory.suspended # None => StepsAreLegal(trial.memory.suspended)

(* The window is the longest end of everything said that fits its two limits. *)
WindowKeepsRecentPairs ==
    trial # None =>
        \E n \in 0..Len(trial.said) :
            /\ trial.memory.window = DropOldest(trial.said, n)
            /\ Fits(trial.memory.window)
            /\ n > 0 => ~Fits(DropOldest(trial.said, n - 1))

Accepted == report # None /\ report.verdict = "ACCEPT"

(* An accepted candidate was measured on everything the baseline was.  As a case it fails
   only where the baseline failed or gave no valid answer; in each of its turns it fails no
   oracle that the baseline did not fail in that turn; and it executes no new critical. *)
AcceptedIsNoWorse ==
    Accepted =>
        /\ DOMAIN artifact["candidate"] = DOMAIN artifact["baseline"]
        /\ \A case \in Chosen :
             LET before == artifact["baseline"][case]
                 after == artifact["candidate"][case]
             IN  /\ before.status = "valid" /\ after.status = "valid"
                 /\ after.classification = "FAIL" =>
                      before.classification \in {"FAIL", "MODEL_FAILURE"}
                 /\ \A i \in DOMAIN after.turns :
                      Failed(after.turns[i]) \subseteq Failed(TurnVerdicts(before, i))
                 /\ after.criticals \subseteq before.criticals

FailLike == {"FAIL", "MODEL_FAILURE", "NOT_REPRESENTABLE"}

(* "Complete paired evidence with no criticals and no regressions can ACCEPT": what passed
   and fails in any way now is not accepted. *)
AcceptMeansNoRegression ==
    Accepted =>
        \A case \in Chosen :
            artifact["baseline"][case].classification = "PASS"
              => artifact["candidate"][case].classification \notin FailLike
================================================================================
