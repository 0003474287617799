------------------------------- MODULE Projection -------------------------------
(***************************************************************************)
(* What the model is told before it proposes: the projection of the        *)
(* durable state (app/session/state_projection.py) and the pending caller  *)
(* response (app/session/semantic_obligation.py).  Both are derived anew   *)
(* from the loaded record, and neither decides anything: the turn rules    *)
(* judge the proposal again, on their own conditions.                      *)
(*                                                                         *)
(* The procedure of experiment 0009 is left to the module LabOracle and    *)
(* the mailed delivery to none: the deployed engine fills neither.         *)
(***************************************************************************)
EXTENDS TurnRules

\* identity_status_for, in its order of precedence.
IdentityStatusFor(identity, now) ==
    CASE RequiresHandoff(identity) -> "HANDOFF_REQUIRED"
      [] ~RequiresHandoff(identity) /\ identity.validatedAt = None -> "MISSING"
      [] ~RequiresHandoff(identity) /\ IsValidAt(identity, now) -> "VALID"
      [] OTHER -> "EXPIRED"

\* A dispatch authorizes an execution until its operation is settled.
DispatchIsLive(dispatch, operation) ==
    dispatch # None /\ (operation = None \/ IsActive(operation))

PresentationStatus(rec) ==
    IF \/ rec.operation = None
       \/ rec.operation.action # Reset
       \/ rec.operation.status # "confirmed"
    THEN "not_applicable"
    ELSE IF rec.presentation = None THEN "pending"
    ELSE IF rec.presentation.voice = "PLAYBACK_RETURNED" THEN "returned"
    ELSE "failed_before_playback"

ConfirmationIsAllowed(rec, now) ==
    /\ rec.goal # None
    /\ IsValidAt(rec.identity, now)
    /\ ~RequiresHandoff(rec.identity)
    /\ rec.confirmation = None
    /\ ~DispatchIsLive(rec.dispatch, rec.operation)
    /\ ~IsActive(rec.operation)

\* project_model_state: facts and permissions, never orders.
ProjectModelState(rec, now) ==
    [goal |-> rec.goal,
     identity |-> IdentityStatusFor(rec.identity, now),
     confirmationPending |-> rec.confirmation # None,
     confirmationAllowed |-> ConfirmationIsAllowed(rec, now),
     actionAllowed |-> DispatchIsLive(rec.dispatch, rec.operation),
     successClaimAllowed |-> rec.operation # None /\ rec.operation.status = "confirmed",
     operation |-> IF rec.operation = None THEN "none" ELSE rec.operation.status,
     presentation |-> PresentationStatus(rec),
     dictating |-> PresentationIsActive(rec)]

\* projection_from_turn_inputs: what the adapter mirrors when no projection reaches it.
ProjectionFromTurnInputs(rec, now) ==
    [ProjectModelState(rec, now) EXCEPT
        !.identity = IF IsValidAt(rec.identity, now) THEN "VALID" ELSE "MISSING",
        !.confirmationAllowed =
            /\ rec.goal # None /\ IsValidAt(rec.identity, now)
            /\ rec.confirmation = None /\ ~IsActive(rec.operation),
        !.actionAllowed = FALSE,
        !.presentation = "not_applicable",
        !.dictating = FALSE]

--------------------------------------------------------------------------------
(* The response the turn is waiting for. *)

\* Mutant of ChallengeIsConsumable: an expired identity still waits for the answer.
ConsumableWhenExpired(rec, now) ==
    /\ rec.confirmation # None /\ Matches(rec.confirmation, rec.goal)
    /\ rec.confirmation.validatedAt = rec.identity.validatedAt

ChallengeIsConsumable(rec, now) ==
    /\ rec.confirmation # None /\ Matches(rec.confirmation, rec.goal)
    /\ rec.confirmation.validatedAt = rec.identity.validatedAt
    /\ IsValidAt(rec.identity, now)

ModeIsChosen(rec, now) ==
    /\ rec.goal # None /\ rec.goal.action = Reset /\ rec.goal.mode = "UNDECIDED"
    /\ ~ChallengeIsConsumable(rec, now)
    /\ ~IsActive(rec.operation)
    /\ rec.presentation = None

DeriveSemanticObligation(rec, now) ==
    CASE ModeIsChosen(rec, now) -> "ASSISTANCE_MODE_CHOICE"
      [] ChallengeIsConsumable(rec, now) -> "ACTION_CONFIRMATION"
      [] OTHER -> "NONE"

\* run_model renders it on turns the dictation of a password does not own.
RenderedObligation(rec, now) ==
    IF PresentationIsActive(rec) THEN "NONE" ELSE DeriveSemanticObligation(rec, now)
================================================================================
