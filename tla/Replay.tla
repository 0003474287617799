--------------------------------- MODULE Replay ---------------------------------
(***************************************************************************)
(* A turn as the evaluation lab replays it: the fixture a corpus case      *)
(* starts from (evals/conversation_eval.py), and advance_turn with the     *)
(* simulated inputs only the lab sets, the identity outcome, the voice     *)
(* timeout and the external event, and with the experimental memory        *)
(* (app/session/turns.py).                                                 *)
(*                                                                         *)
(* A replay never carries a temporary password, and the delivery of a      *)
(* mailed password is left out with the plane that records it.             *)
(***************************************************************************)
EXTENDS TurnRules, GuidedProcedure

CONSTANT Now      \* the instant every turn of a replay uses

FixtureOperation == 0      \* OPERATION_ID
FixtureChallenge == 1      \* "fixture-challenge"
FirstFreshId == 2

\* Only a clock past the backdated fixtures makes sense.
ASSUME NowAssumption == Now \in Nat /\ Now > IdentityTTL

CorpusEventKind == {"none", "identity_validation", "confirmation_timeout",
                    "dispatch_timeout", "result", "late_result"}
IdentityOutcome == {"VALIDATED", "CALLER_FAILURE", "TECHNICAL_FAILURE"}

CorpusEvent ==
    {e \in [kind : CorpusEventKind, result : {"none"} \cup IdentityOutcome \cup OperationStatus] :
        /\ e.kind = "identity_validation" => e.result \in IdentityOutcome
        /\ e.kind \in {"result", "late_result"} => e.result \in OperationStatus}

NoEvent == [kind |-> "none", result |-> "none"]

\* The answer to a turn: its decision, its cue to the procedure, and the size of its pair.
ModelReply ==
    [decision : ModelTurnDecision, cue : ProcedureObservation, size : Nat \ {0}]

ASSUME NoReplyAssumption == None \notin ModelReply

ReplayedInput(spoken) == [kind |-> "turn", transcript |-> spoken, secret |-> FALSE]

--------------------------------------------------------------------------------
(* The fixture. *)

Identity == {"none", "valid", "expired"}

(* initial_state of a case.  confirmation names the revision a pending challenge was
   issued for, or "authorized"; mode is the declared one, if any. *)
InitialState ==
    [action : Optional(Action), revision : Nat, mode : Optional(AssistanceMode),
     identity : Identity, failures : Nat,
     confirmation : {"none", "pending", "authorized"}, asked : Nat,
     operation : Optional(OperationStatus), operationAction : Optional(Action)]

FixtureMode(state) ==
    IF state.action # Reset THEN None
    ELSE IF state.mode # None THEN state.mode
    ELSE IF state.confirmation # "none" \/ state.operation # None THEN "AUTONOMOUS"
    ELSE "UNDECIDED"

FixtureValidation(state) ==
    CASE state.identity = "none" -> None
      [] state.identity = "valid" -> Now - 1
      [] state.identity = "expired" -> Now - IdentityTTL

FixtureChallengeOf(state) ==
    IF state.confirmation # "pending" \/ state.action = None THEN None
    ELSE [id |-> FixtureChallenge, action |-> state.action, revision |-> state.asked,
          validatedAt |-> IF state.identity = "none" THEN Now ELSE FixtureValidation(state)]

FixtureDispatch(state) ==
    IF state.confirmation # "authorized" \/ state.action = None THEN None
    ELSE [operation |-> FixtureOperation, action |-> state.action,
          revision |-> state.revision, challenge |-> FixtureChallenge]

FixtureOperationOf(state) ==
    IF state.operation = None \/ (state.action = None /\ state.operationAction = None)
    THEN None
    ELSE [id |-> FixtureOperation, status |-> state.operation,
          action |-> IF state.action # None THEN state.action ELSE state.operationAction]

BuildInitialRecord(state) ==
    [NewRecord EXCEPT
        !.goal = IF state.action = None THEN None
                 ELSE [action |-> state.action, revision |-> state.revision,
                       mode |-> FixtureMode(state)],
        !.identity = [validatedAt |-> FixtureValidation(state), failures |-> state.failures],
        !.confirmation = FixtureChallengeOf(state),
        !.dispatch = FixtureDispatch(state),
        !.operation = FixtureOperationOf(state)]

--------------------------------------------------------------------------------
(* The simulated inputs. *)

\* Only the mistakes of the caller count, and a success clears them.
ApplyIdentityOutcome(identity, event) ==
    CASE event.kind = "identity_validation" /\ event.result = "VALIDATED" ->
            [validatedAt |-> Now, failures |-> 0]
      [] event.kind = "identity_validation" /\ event.result = "CALLER_FAILURE" ->
            [identity EXCEPT !.failures = @ + 1]
      [] OTHER -> identity

\* The record the turn is planned on.
Reconciled(rec, event) ==
    LET identity == ApplyIdentityOutcome(rec.identity, event)
    IN  [rec EXCEPT
            !.identity = identity,
            !.confirmation = IF \/ identity.validatedAt # rec.identity.validatedAt
                                \/ event.kind = "confirmation_timeout"
                             THEN None
                             ELSE RepairedChallenge(rec)]

\* An external event names the operation of the fixture and never creates one.
ApplyExternalEvent(operation, event) ==
    IF operation = None THEN None
    ELSE IF /\ operation.id = FixtureOperation
            /\ event.kind = "dispatch_timeout" /\ operation.status = "pending"
    THEN [operation EXCEPT !.status = "unknown"]
    ELSE IF /\ operation.id = FixtureOperation
            /\ event.kind \in {"result", "late_result"}
            /\ event.result \in {"confirmed", "failed"}
    THEN [operation EXCEPT !.status = event.result]
    ELSE operation

ConfirmsOperation(operation, event) ==
    /\ IsActive(operation)
    /\ ApplyExternalEvent(operation, event).status = "confirmed"

--------------------------------------------------------------------------------
(* The turn. *)

(* loaded: the record the turn was planned on; met: the same with the operation as the
   external event leaves it, which claims, routes and guards are judged against. *)
ReplayedOutcome(loaded, met, turn, dec, plan, fresh) ==
    IF plan.limit
    THEN [Say("TRANSFER", "limit") EXCEPT !.violated = plan.proposal]
    ELSE IF PresentationIsActive(loaded) THEN PresentationOutcome(met, turn, dec)
    ELSE SpokenOutcome(met, dec, Now, plan, fresh)

MemoryAfter(variant, memory, rec, goal, reply, kept) ==
    LET moved == ApplyGoalLifecycle(memory, rec.goal, goal)
        cued == IF reply = None THEN moved
                ELSE [moved EXCEPT !.procedure = ApplyProcedureObservation(@, reply.cue)]
    IN  CASE variant = "no_recent_memory" -> memory
          [] variant = "procedure_progress_only" -> cued
          [] variant = "recent_conversation_memory" ->
                IF ~kept THEN cued
                ELSE [cued EXCEPT !.window =
                        AppendPair(@, MakePair(reply.size, NextSequence(@), goal))]

\* What the turn leaves: kept, whether its pair is complete and may be remembered.
Concluded(variant, rec, memory, reply, met, turn, dec, plan, outcome, kept, fresh) ==
    [record |-> Consolidate(met, turn, dec, plan, ConfirmationAfter(dec, plan, outcome), fresh),
     outcome |-> outcome,
     goal |-> plan.goal,
     kept |-> kept,
     memory |-> MemoryAfter(variant, memory, rec, plan.goal, reply, kept)]

Selected(variant, rec, memory, reply, loaded, met, turn, dec, plan, outcome, fresh) ==
    Concluded(variant, rec, memory, reply, met, turn, dec, plan, outcome,
              ~PresentationIsActive(loaded) /\ reply # None /\ outcome # None, fresh)

\* The plan of the turn meets the external event, which may resolve the operation.
Planned(variant, rec, memory, event, reply, loaded, met, turn, dec, plan, fresh) ==
    Selected(variant, rec, memory, reply, loaded, met, turn, dec, plan,
             ReplayedOutcome(loaded, met, turn, dec, plan, fresh), fresh)

Drawn(variant, rec, memory, event, reply, loaded, turn, dec, drawn, fresh) ==
    Planned(variant, rec, memory, event, reply, loaded,
            [loaded EXCEPT !.operation = ApplyExternalEvent(@, event)], turn, dec,
            [drawn EXCEPT !.goal =
                IF /\ ~drawn.dispatched
                   /\ ConfirmsOperation(loaded.operation, event)
                THEN None ELSE @],
            fresh)

Met(variant, rec, memory, event, reply, loaded, turn, dec, fresh) ==
    Drawn(variant, rec, memory, event, reply, loaded, turn, dec,
          TurnPlan(loaded, dec, Now, fresh), fresh)

\* reply: what the model answered, None when the turn carries no speech.
ReplayTurn(variant, rec, memory, event, reply, fresh) ==
    Met(variant, rec, memory, event, reply, Reconciled(rec, event),
        ReplayedInput(reply # None), IF reply = None THEN None ELSE reply.decision, fresh)
================================================================================
