------------------------------- MODULE TurnRules -------------------------------
(***************************************************************************)
(* One deterministic conversational turn: advance_turn and its helpers in  *)
(* app/session/turns.py, the presentation test it takes from               *)
(* app/session/state_projection.py and the consolidation of                *)
(* app/session/service.py.  Everything here is a function of the loaded    *)
(* record, the turn's input, the model's decision and the instant the      *)
(* handler read before loading.                                            *)
(*                                                                         *)
(* A message is kept as its kind: the model's own candidate, or one of the *)
(* runtime's canonical phrases.  The inputs identity_outcome,              *)
(* confirmation_event and external_event of TurnInput are not modelled:    *)
(* the engine behind /turns never sets them.                               *)
(***************************************************************************)
EXTENDS SessionRecord

Route == {"CONTINUE", "COLLECT_IDENTITY", "COMPLETE", "ESCALATE"}
GoalIntent == {"NONE", "REQUEST", "CORRECT", "CANCEL"}
GoalFocus == {"NONE", "PROGRESS", "SIDE"}
ConfirmationObservation == {"NONE", "AFFIRMATIVE", "NEGATIVE", "AMBIGUOUS", "CANCEL"}
HandoffCause == {"CALLER_REQUEST", "TERMINAL_FAILURE"}
ClaimKind == {"IDENTITY_VALID", "ACTION_AUTHORIZED", "OPERATION_SUCCEEDED",
              "OPERATION_FAILED", "RESET_CONFIRMED", "DELIVERY_CONFIRMED"}
NextStep == {"LISTEN", "COLLECT_IDENTITY", "EXECUTE_ACTION", "POLL_RD",
             "DELIVER_PASSWORD", "TRANSFER", "COMPLETE"}
Message == {"none", "candidate", "confirmation", "fallback", "escalation", "processing",
            "farewell", "waiting", "finished", "limit", "identity_valid",
            "identity_invalid", "identity_technical", "retry", "voice_transfer",
            "exhausted", "terminal", "feedback"}

\* The model's semantic proposal.  An absent goal proposal is intent "NONE".
ModelTurnDecision ==
    [route : Route, intent : GoalIntent, action : Optional(Action), focus : GoalFocus,
     mode : Optional(AssistanceMode), finished : BOOLEAN, request : BOOLEAN,
     observation : ConfirmationObservation, cause : Optional(HandoffCause),
     claims : SUBSET ClaimKind]

\* A turn carries a transcript, or the ephemeral password, or both.
TurnInput ==
    {t \in [kind : {"turn"}, transcript : BOOLEAN, secret : BOOLEAN] :
        t.transcript \/ t.secret}

ExternalActionCommand == [operation : Nat, action : Action, revision : Nat]

Outcome ==
    [step : NextStep, message : Message, command : Optional(ExternalActionCommand),
     violated : BOOLEAN]

ASSUME NoOutcomeAssumption ==
    None \notin Outcome \cup ExternalActionCommand \cup ModelTurnDecision \cup HandoffCause

Say(step, message) ==
    [step |-> step, message |-> message, command |-> None, violated |-> FALSE]

--------------------------------------------------------------------------------
(* The presentation of the temporary password. *)

\* A confirmed reset owes the spoken password until the caller says it is finished.
PresentationIsActive(rec) ==
    /\ rec.operation # None
    /\ rec.operation.action = Reset
    /\ rec.operation.status = "confirmed"
    /\ rec.presentation # None => ~rec.presentation.finished

\* run_model asks the model for a transcript, or for a secret it may dictate.
ModelIsAsked(rec, turn) == turn.transcript \/ (turn.secret /\ PresentationIsActive(rec))

\* Mutant of CompleteIsBacked: an unpresented password does not keep the call open.
CompleteOnceTerminal(rec) == ~IsActive(rec.operation)

CompleteIsBacked(rec) ==
    /\ ~IsActive(rec.operation)
    /\ PresentationIsActive(rec) => rec.presentation # None

PresentationOutcome(rec, turn, dec) ==
    IF ~turn.secret THEN Say("LISTEN", "waiting")
    ELSE IF dec.finished /\ dec.route = "COMPLETE" /\ CompleteIsBacked(rec)
         THEN Say("COMPLETE", "farewell")
    ELSE IF dec.finished THEN Say("LISTEN", "finished")
    ELSE Say("DELIVER_PASSWORD", "candidate")

PresentationAfter(rec, turn, dec) ==
    IF /\ PresentationIsActive(rec) /\ turn.secret
       /\ dec.finished /\ rec.presentation # None
    THEN [rec.presentation EXCEPT !.finished = TRUE]
    ELSE rec.presentation

--------------------------------------------------------------------------------
(* The semantic plan. *)

ProposalError(dec) == dec.intent \in {"REQUEST", "CORRECT"} /\ dec.action = None

\* Mutant of ProposedGoal: a corrected goal is a copy that keeps its assistance mode.
ProposedGoalByCopy(goal, dec) ==
    IF dec.intent = "CANCEL" THEN None
    ELSE IF dec.intent = "NONE" THEN goal
    ELSE IF goal = None THEN [action |-> dec.action, revision |-> 1, mode |-> None]
    ELSE IF goal.action = dec.action /\ dec.intent = "REQUEST" THEN goal
    ELSE [goal EXCEPT !.action = dec.action, !.revision = goal.revision + 1]

\* The goal an accepted proposal asks for, its mode still open when it is a new revision.
ProposedGoal(goal, dec) ==
    IF dec.intent = "CANCEL" THEN None
    ELSE IF dec.intent = "NONE" THEN goal
    ELSE IF goal = None THEN [action |-> dec.action, revision |-> 1, mode |-> None]
    ELSE IF goal.action = dec.action /\ dec.intent = "REQUEST" THEN goal
    ELSE [action |-> dec.action, revision |-> goal.revision + 1, mode |-> None]

\* An established mode is never degraded to UNDECIDED.
SwitchesMode(goal, mode) ==
    /\ goal # None
    /\ goal.action = Reset
    /\ mode # None
    /\ mode # goal.mode
    /\ mode = "UNDECIDED" => goal.mode \notin {"GUIDED", "AUTONOMOUS"}

WithMode(goal, mode) ==
    IF SwitchesMode(goal, mode) THEN [goal EXCEPT !.mode = mode]
    ELSE IF goal # None /\ goal.action = Reset /\ goal.mode = None
         THEN [goal EXCEPT !.mode = "UNDECIDED"]
         ELSE goal

GoalAfter(goal, dec) ==
    IF ProposalError(dec) THEN goal ELSE WithMode(ProposedGoal(goal, dec), dec.mode)

\* A durable challenge of a superseded goal is dropped whatever the turn proposes.
RepairedChallenge(rec) ==
    IF rec.confirmation # None /\ Matches(rec.confirmation, rec.goal)
    THEN rec.confirmation
    ELSE None

\* Mutant of ChallengeAfter: a switch of assistance mode keeps the challenge.
ChallengeSurvivingSwitch(goal, challenge, dec) ==
    IF ProposalError(dec) \/ (challenge # None /\ Matches(challenge, GoalAfter(goal, dec)))
    THEN challenge
    ELSE None

\* A revision, a cancellation or a mode switch invalidates the challenge.
ChallengeAfter(goal, challenge, dec) ==
    IF \/ ProposalError(dec)
       \/ /\ challenge # None
          /\ ~SwitchesMode(ProposedGoal(goal, dec), dec.mode)
          /\ Matches(challenge, GoalAfter(goal, dec))
    THEN challenge
    ELSE None

--------------------------------------------------------------------------------
(* One mutating AD action per call. *)

\* Mutant of BudgetConsumed: only a running operation counts.
BudgetFreedByTerminal(rec) == IsActive(rec.operation)

\* One dispatched action consumes the call's budget for good.
BudgetConsumed(rec) == rec.dispatch # None \/ rec.operation # None

\* A goal that would produce an AD POST if it were confirmed.
GoalIsDispatchable(goal) ==
    /\ goal # None
    /\ goal.action = Reset => goal.mode = "AUTONOMOUS"

\* The goal is the one whose operation is still running.
ContinuesActiveOperation(rec, goal) ==
    /\ IsActive(rec.operation)
    /\ goal.action = rec.operation.action
    /\ rec.dispatch # None =>
         /\ rec.dispatch.action = rec.operation.action
         /\ goal.revision = rec.dispatch.revision

SecondMutationRequested(rec, goal) ==
    /\ BudgetConsumed(rec)
    /\ GoalIsDispatchable(goal)
    /\ ~ContinuesActiveOperation(rec, goal)
    /\ \/ rec.goal = None
       \/ /\ rec.dispatch # None
          /\ goal.action # rec.dispatch.action \/ goal.revision # rec.dispatch.revision
       \/ /\ rec.dispatch = None
          /\ goal.action # rec.operation.action \/ ~IsActive(rec.operation)

--------------------------------------------------------------------------------
(* Confirmation and dispatch. *)

\* Mutant of EligibleForChallenge: an identity that was validated once is enough.
EligibleWhenExpired(rec, goal, now) ==
    /\ GoalIsDispatchable(goal)
    /\ ~BudgetConsumed(rec)
    /\ rec.identity.validatedAt # None
    /\ ~RequiresHandoff(rec.identity)
    /\ ~IsActive(rec.operation)

EligibleForChallenge(rec, goal, now) ==
    /\ GoalIsDispatchable(goal)
    /\ ~BudgetConsumed(rec)
    /\ IsValidAt(rec.identity, now)
    /\ ~RequiresHandoff(rec.identity)
    /\ ~IsActive(rec.operation)

NewChallenge(goal, identity, fresh) ==
    [id |-> fresh, action |-> goal.action, revision |-> goal.revision,
     validatedAt |-> identity.validatedAt]

\* What the dispatch guard requires of the challenge before any budget question.
ChallengeBinds(challenge, rec, goal, now) ==
    /\ IsValidAt(rec.identity, now)
    /\ ~RequiresHandoff(rec.identity)
    /\ GoalIsDispatchable(goal)
    /\ Matches(challenge, goal)
    /\ challenge.validatedAt = rec.identity.validatedAt
    /\ rec.dispatch # None => rec.dispatch.challenge # challenge.id

\* Why the caller's answer authorizes nothing; "none" when it does or was not an affirmation.
ConfirmationError(challenge, rec, goal, dec, now) ==
    IF dec.observation # "AFFIRMATIVE" THEN "none"
    ELSE IF challenge = None THEN "no_challenge"
    ELSE IF ~ChallengeBinds(challenge, rec, goal, now) THEN "unbound"
    ELSE IF BudgetConsumed(rec) /\ ~ContinuesActiveOperation(rec, goal)
         THEN "second_mutation"
    ELSE IF IsActive(rec.operation) THEN "active_operation"
    ELSE "none"

NewDispatch(challenge, fresh) ==
    [operation |-> fresh, action |-> challenge.action, revision |-> challenge.revision,
     challenge |-> challenge.id]

\* Mutant of NewOperation: the operation is named after the challenge.
OperationOfChallenge(challenge, fresh) ==
    [id |-> challenge.id, action |-> challenge.action, status |-> "pending"]

NewOperation(challenge, fresh) ==
    [id |-> fresh, action |-> challenge.action, status |-> "pending"]

--------------------------------------------------------------------------------
(* Claims, routes and the guarded outcome. *)

ClaimIsBacked(kind, rec, now) ==
    CASE kind = "IDENTITY_VALID" -> IsValidAt(rec.identity, now)
      [] kind = "ACTION_AUTHORIZED" -> rec.dispatch # None
      [] kind = "OPERATION_SUCCEEDED" ->
            rec.operation # None /\ rec.operation.status = "confirmed"
      [] kind = "OPERATION_FAILED" ->
            rec.operation # None /\ rec.operation.status = "failed"
      [] kind = "RESET_CONFIRMED" ->
            /\ rec.operation # None
            /\ rec.operation.action = Reset /\ rec.operation.status = "confirmed"
      [] OTHER -> FALSE    \* a delivery: only an operation an older version wrote carries one

ClaimsAreBacked(rec, dec, now) == \A kind \in dec.claims : ClaimIsBacked(kind, rec, now)

HandoffCauseIsBacked(rec, dec) ==
    \/ dec.cause = "CALLER_REQUEST"
    \/ /\ dec.cause = "TERMINAL_FAILURE"
       /\ \/ RequiresHandoff(rec.identity)
          \/ rec.operation # None /\ rec.operation.status = "failed"

RequiresIdentityCollection(rec, goal, dec, now) ==
    /\ dec.route = "CONTINUE"
    /\ dec.focus = "PROGRESS"
    /\ GoalIsDispatchable(goal)
    /\ ~IsValidAt(rec.identity, now)
    /\ ~IsActive(rec.operation)

RouteIsLegal(rec, goal, dec, now) ==
    /\ dec.route = "COLLECT_IDENTITY" =>
         GoalIsDispatchable(goal) /\ ~IsValidAt(rec.identity, now)
    /\ dec.route = "ESCALATE" =>
         RequiresHandoff(rec.identity) \/ HandoffCauseIsBacked(rec, dec)
    /\ dec.route = "COMPLETE" => CompleteIsBacked(rec)

NextStepByRoute ==
    [CONTINUE |-> "LISTEN", COLLECT_IDENTITY |-> "COLLECT_IDENTITY",
     COMPLETE |-> "COMPLETE", ESCALATE |-> "TRANSFER"]

\* _next_step_for_state: the state may turn a residual CONTINUE into identity capture.
NextStepForState(rec, goal, dec, now) ==
    IF RequiresIdentityCollection(rec, goal, dec, now) THEN "COLLECT_IDENTITY"
    ELSE NextStepByRoute[dec.route]

\* error: a proposal or binding error was already recorded this turn.
GuardOutcome(rec, goal, dec, error, now) ==
    LET violated == \/ error
                    \/ dec # None /\ ~ClaimsAreBacked(rec, dec, now)
                    \/ dec # None /\ ~RouteIsLegal(rec, goal, dec, now)
    IN  IF RequiresHandoff(rec.identity)
        THEN [Say("TRANSFER", "escalation") EXCEPT !.violated = violated]
        ELSE IF dec = None THEN None
        ELSE IF violated
        THEN [Say(IF RequiresIdentityCollection(rec, goal, dec, now)
                  THEN "COLLECT_IDENTITY" ELSE "LISTEN", "fallback")
              EXCEPT !.violated = TRUE]
        ELSE LET step == NextStepForState(rec, goal, dec, now)
             IN  Say(step, IF step = "COMPLETE" THEN "farewell" ELSE "candidate")

--------------------------------------------------------------------------------
(* The turn. *)

\* Mutant of CommitIsCoherent: whatever the step, what was said is the question.
CommitWithoutListening(staged, outcome, dec, canonical) ==
    /\ outcome # None
    /\ ~outcome.violated
    /\ outcome.message = (IF canonical THEN "confirmation" ELSE "candidate")
    /\ canonical \/ dec.request

\* The atomic gate: a challenge survives only when the outcome presents its confirmation.
CommitIsCoherent(staged, outcome, dec, canonical) ==
    /\ outcome # None
    /\ outcome.step = "LISTEN"
    /\ ~outcome.violated
    /\ outcome.message = (IF canonical THEN "confirmation" ELSE "candidate")
    /\ canonical \/ dec.request

(* Everything the turn decides before it picks an outcome.  decided: the model proposed
   something and the password dictation does not own the turn.  before: the challenge
   the caller may be answering.  staged: the challenge the turn would leave open. *)
TurnPlan(rec, dec, now, fresh) ==
    LET decided == dec # None /\ ~PresentationIsActive(rec)
        planned == IF decided THEN GoalAfter(rec.goal, dec) ELSE rec.goal
        second == ~PresentationIsActive(rec) /\ SecondMutationRequested(rec, planned)
        before == IF second THEN None
                  ELSE IF decided
                  THEN ChallengeAfter(rec.goal, RepairedChallenge(rec), dec)
                  ELSE RepairedChallenge(rec)
        goal == IF decided /\ dec.observation = "CANCEL" /\ before # None
                THEN None ELSE planned
        error == IF decided THEN ConfirmationError(before, rec, goal, dec, now) ELSE "none"
        dispatched == decided /\ dec.observation = "AFFIRMATIVE" /\ error = "none"
        eligible == decided /\ ~dispatched /\ EligibleForChallenge(rec, goal, now)
        reissued == eligible /\ error = "no_challenge"
        requested == eligible /\ error # "no_challenge" /\ dec.request
    IN  [decided |-> decided, goal |-> goal, before |-> before, dispatched |-> dispatched,
         limit |-> second \/ error = "second_mutation",
         proposal |-> decided /\ ProposalError(dec),
         binding |-> error # "none" /\ ~reissued,
         reissued |-> reissued,
         first |-> requested /\ before = None,
         staged |-> IF reissued \/ requested
                    THEN NewChallenge(goal, rec.identity, fresh) ELSE None]

\* What a turn says when neither the limit nor the dictation of a password owns it.
SpokenOutcome(rec, dec, now, plan, fresh) ==
    IF plan.reissued THEN Say("LISTEN", "confirmation")
    ELSE IF plan.first /\ ~plan.proposal /\ dec.route = "CONTINUE"
            /\ ClaimsAreBacked(rec, dec, now)
    THEN Say("LISTEN", "confirmation")
    ELSE IF plan.dispatched
    THEN [step |-> "EXECUTE_ACTION", message |-> "processing",
          command |-> [operation |-> fresh, action |-> plan.before.action,
                       revision |-> plan.before.revision],
          violated |-> plan.proposal \/ plan.binding]
    ELSE GuardOutcome(rec, plan.goal, dec, plan.proposal \/ plan.binding, now)

TurnOutcome(rec, turn, dec, now, plan, fresh) ==
    IF plan.limit
    THEN [Say("TRANSFER", "limit") EXCEPT !.violated = plan.proposal]
    ELSE IF PresentationIsActive(rec) THEN PresentationOutcome(rec, turn, dec)
    ELSE SpokenOutcome(rec, dec, now, plan, fresh)

ConfirmationAfter(dec, plan, outcome) ==
    IF plan.limit THEN None
    ELSE IF ~plan.decided THEN plan.before
    ELSE IF plan.staged # None
            /\ CommitIsCoherent(plan.staged, outcome, dec, plan.reissued \/ plan.first)
         THEN plan.staged
         ELSE None

\* Mutant of Consolidate: the record is rebuilt without the planes a turn does not own.
ConsolidateAfresh(rec, turn, dec, plan, confirmation, fresh) ==
    [NewRecord EXCEPT
        !.turned = TRUE, !.goal = plan.goal, !.identity = rec.identity,
        !.confirmation = confirmation,
        !.dispatch = IF plan.dispatched THEN NewDispatch(plan.before, fresh) ELSE None,
        !.operation = IF plan.dispatched THEN NewOperation(plan.before, fresh) ELSE None]

\* consolidate: identity and polling are preserved, a valid turn closes the retry cycle.
Consolidate(rec, turn, dec, plan, confirmation, fresh) ==
    [rec EXCEPT
        !.turned = TRUE,
        !.goal = plan.goal,
        !.confirmation = confirmation,
        !.dispatch = IF plan.dispatched THEN NewDispatch(plan.before, fresh) ELSE @,
        !.operation = IF plan.dispatched THEN NewOperation(plan.before, fresh) ELSE @,
        !.presentation = PresentationAfter(rec, turn, dec),
        !.voiceRetry = 0]

\* The consolidated record and the outcome of one turn; dec is None when nobody was asked.
AdvanceTurn(rec, turn, dec, now, fresh) ==
    LET plan == TurnPlan(rec, dec, now, fresh)
        outcome == TurnOutcome(rec, turn, dec, now, plan, fresh)
    IN  [record |-> Consolidate(rec, turn, dec, plan,
                                ConfirmationAfter(dec, plan, outcome), fresh),
         outcome |-> outcome]
================================================================================
