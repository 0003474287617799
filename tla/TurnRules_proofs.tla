---------------------------- MODULE TurnRules_proofs ----------------------------
(***************************************************************************)
(* A turn keeps the record well formed and coherent, whatever the model    *)
(* proposes and whenever the record was loaded.                            *)
(***************************************************************************)
EXTENDS RecordProperties, TLAPS

\* Applying a proposal yields a well-formed goal: only a RESET goal carries a mode.
LEMMA GoalAfterType ==
    ASSUME NEW goal \in Optional(ConversationGoal), NEW dec \in ModelTurnDecision
    PROVE  GoalAfter(goal, dec) \in Optional(ConversationGoal)
<1>1. ProposalError(dec) \/ ProposedGoal(goal, dec) \in Optional(ConversationGoal)
  BY DEF ProposalError, ProposedGoal, Optional, ConversationGoal, ModelTurnDecision,
         GoalIntent, Action
<1>2. ASSUME NEW g \in Optional(ConversationGoal), NEW mode \in Optional(AssistanceMode)
      PROVE  WithMode(g, mode) \in Optional(ConversationGoal)
  BY DEF WithMode, SwitchesMode, Optional, ConversationGoal, AssistanceMode
<1>3. dec.mode \in Optional(AssistanceMode)
  BY DEF ModelTurnDecision
<1> QED
  BY <1>1, <1>2, <1>3 DEF GoalAfter

\* The revision a turn leaves open is the one the record had, the one proposed, or none.
LEMMA ChallengeAfterType ==
    ASSUME NEW rec \in Record, NEW dec \in ModelTurnDecision
    PROVE  /\ RepairedChallenge(rec) \in Optional(ConfirmationChallenge)
           /\ ChallengeAfter(rec.goal, RepairedChallenge(rec), dec)
                \in Optional(ConfirmationChallenge)
  BY DEF RepairedChallenge, ChallengeAfter, Record, Optional

\* A challenge opened for a goal under a dated validation is well formed.
LEMMA NewChallengeType ==
    ASSUME NEW goal \in ConversationGoal, NEW identity \in IdentityState,
           identity.validatedAt # None, NEW fresh \in Nat
    PROVE  NewChallenge(goal, identity, fresh) \in ConfirmationChallenge
  BY DEF NewChallenge, ConversationGoal, IdentityState, Optional, ConfirmationChallenge

\* What the plan of a turn is made of, and that it dispatches only what it can consume.
LEMMA TurnPlanFacts ==
    ASSUME NEW rec \in Record, NEW dec \in Optional(ModelTurnDecision), NEW now \in Nat,
           NEW fresh \in Nat, NEW plan, plan = TurnPlan(rec, dec, now, fresh)
    PROVE  /\ plan.goal \in Optional(ConversationGoal)
           /\ plan.before \in Optional(ConfirmationChallenge)
           /\ plan.staged \in Optional(ConfirmationChallenge)
           /\ {plan.decided, plan.limit, plan.proposal, plan.binding} \subseteq BOOLEAN
           /\ plan.decided => dec # None
           /\ ~plan.decided =>
                /\ plan.goal = rec.goal /\ plan.staged = None
                /\ plan.before \in {None, RepairedChallenge(rec)}
           /\ plan.staged # None =>
                /\ plan.staged = NewChallenge(plan.goal, rec.identity, fresh)
                /\ plan.goal # None
                /\ EligibleForChallenge(rec, plan.goal, now)
           /\ plan.dispatched =>
                /\ plan.decided
                /\ plan.before # None
                /\ plan.staged = None
                /\ ~plan.limit /\ ~plan.reissued /\ ~plan.first
                /\ ~PresentationIsActive(rec)
                /\ ChallengeBinds(plan.before, rec, plan.goal, now)
                /\ rec.dispatch = None /\ rec.operation = None
<1> DEFINE decided == dec # None /\ ~PresentationIsActive(rec)
           planned == IF decided THEN GoalAfter(rec.goal, dec) ELSE rec.goal
           second == ~PresentationIsActive(rec) /\ SecondMutationRequested(rec, planned)
           before == IF second THEN None
                     ELSE IF decided
                     THEN ChallengeAfter(rec.goal, RepairedChallenge(rec), dec)
                     ELSE RepairedChallenge(rec)
           goal == IF decided /\ dec.observation = "CANCEL" /\ before # None
                   THEN None ELSE planned
           error == IF decided THEN ConfirmationError(before, rec, goal, dec, now)
                    ELSE "none"
           dispatched == decided /\ dec.observation = "AFFIRMATIVE" /\ error = "none"
           eligible == decided /\ ~dispatched /\ EligibleForChallenge(rec, goal, now)
           reissued == eligible /\ error = "no_challenge"
           requested == eligible /\ error # "no_challenge" /\ dec.request
           staged == IF reissued \/ requested
                     THEN NewChallenge(goal, rec.identity, fresh) ELSE None
<1>1. /\ plan.decided = decided /\ plan.goal = goal /\ plan.before = before
      /\ plan.dispatched = dispatched /\ plan.staged = staged
      /\ plan.limit = (second \/ error = "second_mutation")
      /\ plan.proposal = (decided /\ ProposalError(dec))
      /\ plan.binding = (error # "none" /\ ~reissued)
      /\ plan.reissued = reissued
      /\ plan.first = (requested /\ before = None)
  BY DEF TurnPlan
<1>2. rec.goal \in Optional(ConversationGoal) /\ rec.identity \in IdentityState
  BY DEF Record
<1>3. decided => dec \in ModelTurnDecision
  BY DEF Optional
<1>4. planned \in Optional(ConversationGoal) /\ goal \in Optional(ConversationGoal)
  BY <1>2, <1>3, GoalAfterType DEF Optional
<1>5. before \in Optional(ConfirmationChallenge)
  <2>1. RepairedChallenge(rec) \in Optional(ConfirmationChallenge)
    BY DEF RepairedChallenge, Record, Optional
  <2> QED
    BY <1>3, <2>1, ChallengeAfterType DEF Optional
<1>6. staged # None => /\ eligible
                       /\ staged = NewChallenge(goal, rec.identity, fresh)
                       /\ goal # None /\ rec.identity.validatedAt # None
  BY DEF EligibleForChallenge, GoalIsDispatchable, IsValidAt
<1>7. staged \in Optional(ConfirmationChallenge)
  BY <1>2, <1>4, <1>6, NewChallengeType DEF Optional
<1>8. dispatched => /\ before # None
                    /\ ChallengeBinds(before, rec, goal, now)
                    /\ ~BudgetConsumed(rec) /\ ~second
  BY DEF ConfirmationError, ContinuesActiveOperation, SecondMutationRequested
<1>9. ~decided => planned = rec.goal /\ goal = rec.goal
                  /\ before \in {None, RepairedChallenge(rec)}
  OBVIOUS
<1>10. {decided, second \/ error = "second_mutation", decided /\ ProposalError(dec),
        error # "none" /\ ~reissued} \subseteq BOOLEAN
  OBVIOUS
<1> HIDE DEF planned, second, before, goal, error
<1> QED
  BY <1>1, <1>4, <1>5, <1>6, <1>7, <1>8, <1>9, <1>10 DEF BudgetConsumed

\* Every outcome a turn answers is well formed.
LEMMA TurnOutcomeType ==
    ASSUME NEW rec \in Record, NEW turn \in TurnInput, NEW dec \in Optional(ModelTurnDecision),
           NEW now \in Nat, NEW fresh \in Nat,
           NEW plan, plan = TurnPlan(rec, dec, now, fresh)
    PROVE  /\ TurnOutcome(rec, turn, dec, now, plan, fresh) \in Optional(Outcome)
           /\ dec # None => TurnOutcome(rec, turn, dec, now, plan, fresh) \in Outcome
<1>1. /\ plan.before \in Optional(ConfirmationChallenge)
      /\ {plan.limit, plan.proposal, plan.binding} \subseteq BOOLEAN
      /\ plan.dispatched => plan.before # None
  BY TurnPlanFacts
<1>2. ASSUME NEW step \in NextStep, NEW message \in Message
      PROVE  /\ Say(step, message) \in Outcome
             /\ \A v \in BOOLEAN : [Say(step, message) EXCEPT !.violated = v] \in Outcome
  BY DEF Say, Outcome, Optional
<1>3. PresentationOutcome(rec, turn, dec) \in Outcome
  BY <1>2 DEF PresentationOutcome, NextStep, Message
<1>4. /\ GuardOutcome(rec, plan.goal, dec, plan.proposal \/ plan.binding, now)
           \in Optional(Outcome)
      /\ dec # None =>
           GuardOutcome(rec, plan.goal, dec, plan.proposal \/ plan.binding, now) \in Outcome
  <2> DEFINE error == plan.proposal \/ plan.binding
             violated == \/ error
                         \/ dec # None /\ ~ClaimsAreBacked(rec, dec, now)
                         \/ dec # None /\ ~RouteIsLegal(rec, plan.goal, dec, now)
  <2>1. violated \in BOOLEAN
    BY <1>1
  <2>2. dec # None => NextStepForState(rec, plan.goal, dec, now) \in NextStep
    BY DEF NextStepForState, NextStepByRoute, Optional, ModelTurnDecision, Route, NextStep
  <2>3. GuardOutcome(rec, plan.goal, dec, error, now) =
          IF RequiresHandoff(rec.identity)
          THEN [Say("TRANSFER", "escalation") EXCEPT !.violated = violated]
          ELSE IF dec = None THEN None
          ELSE IF violated
          THEN [Say(IF RequiresIdentityCollection(rec, plan.goal, dec, now)
                    THEN "COLLECT_IDENTITY" ELSE "LISTEN", "fallback")
                EXCEPT !.violated = TRUE]
          ELSE Say(NextStepForState(rec, plan.goal, dec, now),
                   IF NextStepForState(rec, plan.goal, dec, now) = "COMPLETE"
                   THEN "farewell" ELSE "candidate")
    BY DEF GuardOutcome
  <2>4. {"TRANSFER", "COLLECT_IDENTITY", "LISTEN"} \subseteq NextStep
        /\ {"escalation", "fallback", "farewell", "candidate"} \subseteq Message
    BY DEF NextStep, Message
  <2> DEFINE step == NextStepForState(rec, plan.goal, dec, now)
  <2>5. [Say("TRANSFER", "escalation") EXCEPT !.violated = violated] \in Outcome
    BY <1>2, <2>1, <2>4
  <2>6. [Say(IF RequiresIdentityCollection(rec, plan.goal, dec, now)
             THEN "COLLECT_IDENTITY" ELSE "LISTEN", "fallback")
         EXCEPT !.violated = TRUE] \in Outcome
    BY <1>2, <2>4
  <2>7. dec # None =>
          Say(step, IF step = "COMPLETE" THEN "farewell" ELSE "candidate") \in Outcome
    BY <1>2, <2>2, <2>4
  <2> HIDE DEF violated, error, step
  <2>8. /\ GuardOutcome(rec, plan.goal, dec, error, now) \in Optional(Outcome)
        /\ dec # None => GuardOutcome(rec, plan.goal, dec, error, now) \in Outcome
    BY <2>3, <2>5, <2>6, <2>7 DEF Optional, step
  <2> QED
    BY <2>8 DEF error
<1>5. plan.dispatched =>
        [step |-> "EXECUTE_ACTION", message |-> "processing",
         command |-> [operation |-> fresh, action |-> plan.before.action,
                      revision |-> plan.before.revision],
         violated |-> plan.proposal \/ plan.binding] \in Outcome
  BY <1>1 DEF Optional, ConfirmationChallenge, Outcome, NextStep, Message,
              ExternalActionCommand
<1>6. /\ [Say("TRANSFER", "limit") EXCEPT !.violated = plan.proposal] \in Outcome
      /\ Say("LISTEN", "confirmation") \in Outcome
  BY <1>1, <1>2 DEF NextStep, Message
<1> QED
  BY <1>3, <1>4, <1>5, <1>6 DEF TurnOutcome, SpokenOutcome, Optional

\* What is left of the challenge is the one the caller may still answer, or the one staged.
LEMMA ConfirmationAfterFacts ==
    ASSUME NEW rec \in Record, NEW dec \in Optional(ModelTurnDecision), NEW now \in Nat,
           NEW fresh \in Nat, NEW plan, plan = TurnPlan(rec, dec, now, fresh), NEW outcome
    PROVE  \/ ConfirmationAfter(dec, plan, outcome) = None
           \/ /\ ~plan.decided
              /\ ConfirmationAfter(dec, plan, outcome) = RepairedChallenge(rec)
           \/ /\ plan.staged # None
              /\ ConfirmationAfter(dec, plan, outcome) = plan.staged
  BY TurnPlanFacts DEF ConfirmationAfter

\* Whatever the model proposes, a turn leaves a well-formed record.
LEMMA TurnKeepsRecord ==
    ASSUME NEW rec \in Record, NEW turn \in TurnInput, NEW dec \in Optional(ModelTurnDecision),
           NEW now \in Nat, NEW fresh \in Nat
    PROVE  /\ AdvanceTurn(rec, turn, dec, now, fresh).record \in Record
           /\ AdvanceTurn(rec, turn, dec, now, fresh).outcome \in Optional(Outcome)
<1> DEFINE plan == TurnPlan(rec, dec, now, fresh)
           outcome == TurnOutcome(rec, turn, dec, now, plan, fresh)
           confirmation == ConfirmationAfter(dec, plan, outcome)
<1>1. /\ AdvanceTurn(rec, turn, dec, now, fresh).outcome = outcome
      /\ AdvanceTurn(rec, turn, dec, now, fresh).record =
           Consolidate(rec, turn, dec, plan, confirmation, fresh)
  BY DEF AdvanceTurn
<1>2. /\ plan.goal \in Optional(ConversationGoal)
      /\ plan.before \in Optional(ConfirmationChallenge)
      /\ plan.staged \in Optional(ConfirmationChallenge)
      /\ plan.dispatched => plan.before # None
  BY TurnPlanFacts
<1>3. outcome \in Optional(Outcome)
  BY TurnOutcomeType
<1>4. confirmation \in Optional(ConfirmationChallenge)
  <2>1. RepairedChallenge(rec) \in Optional(ConfirmationChallenge)
    BY DEF RepairedChallenge, Record, Optional
  <2> QED
    BY <1>2, <2>1, ConfirmationAfterFacts DEF Optional
<1>5. plan.dispatched => /\ NewDispatch(plan.before, fresh) \in AuthorizedDispatch
                         /\ NewOperation(plan.before, fresh) \in ExternalOperation
  BY <1>2 DEF NewDispatch, NewOperation, AuthorizedDispatch, ExternalOperation, Optional,
              ConfirmationChallenge, OperationStatus
<1>6. PresentationAfter(rec, turn, dec) \in Optional(PasswordPresentation)
  BY DEF PresentationAfter, Record, Optional, PasswordPresentation
<1>7. 0 \in 0..MaxVoiceFailures
  BY LimitsAssumption
<1> HIDE DEF plan, outcome, confirmation
<1>8. Consolidate(rec, turn, dec, plan, confirmation, fresh) \in Record
  <2> DEFINE dispatch == IF plan.dispatched THEN NewDispatch(plan.before, fresh)
                         ELSE rec.dispatch
             operation == IF plan.dispatched THEN NewOperation(plan.before, fresh)
                          ELSE rec.operation
             presentation == PresentationAfter(rec, turn, dec)
  <2>1. /\ dispatch \in Optional(AuthorizedDispatch)
        /\ operation \in Optional(ExternalOperation)
    BY <1>5 DEF Record, Optional
  <2>2. Consolidate(rec, turn, dec, plan, confirmation, fresh) =
          [rec EXCEPT !.turned = TRUE, !.goal = plan.goal, !.confirmation = confirmation,
                      !.dispatch = dispatch, !.operation = operation,
                      !.presentation = presentation, !.voiceRetry = 0]
    BY DEF Consolidate
  <2> HIDE DEF dispatch, operation, presentation
  <2>3. presentation \in Optional(PasswordPresentation)
    BY <1>6 DEF presentation
  <2> QED
    BY <1>2, <1>4, <1>7, <2>1, <2>2, <2>3 DEF Record
<1> QED
  BY <1>1, <1>3, <1>8

\* A turn that dispatches answers the command of what it dispatches; no other orders.
LEMMA TurnOrders ==
    ASSUME NEW rec \in Record, NEW turn \in TurnInput, NEW dec \in Optional(ModelTurnDecision),
           NEW now \in Nat, NEW fresh \in Nat,
           NEW plan, plan = TurnPlan(rec, dec, now, fresh),
           NEW outcome, outcome = TurnOutcome(rec, turn, dec, now, plan, fresh)
    PROVE  IF plan.dispatched
           THEN /\ outcome # None
                /\ outcome.command = [operation |-> fresh, action |-> plan.before.action,
                                      revision |-> plan.before.revision]
           ELSE outcome # None => outcome.command = None
<1>1. CASE plan.dispatched
  <2>1. outcome = [step |-> "EXECUTE_ACTION", message |-> "processing",
                   command |-> [operation |-> fresh, action |-> plan.before.action,
                                revision |-> plan.before.revision],
                   violated |-> plan.proposal \/ plan.binding]
    BY <1>1, TurnPlanFacts DEF TurnOutcome, SpokenOutcome
  <2>2. outcome # None
    BY <2>1, TurnOutcomeType, <1>1, TurnPlanFacts, NoOutcomeAssumption
    DEF Outcome, Optional, ConfirmationChallenge, ExternalActionCommand, NextStep, Message
  <2> QED
    BY <1>1, <2>1, <2>2
<1>2. CASE ~plan.dispatched
  <2>1. ASSUME NEW step, NEW message, NEW v
        PROVE  /\ Say(step, message).command = None
               /\ [Say(step, message) EXCEPT !.violated = v].command = None
    BY DEF Say
  <2>2. PresentationOutcome(rec, turn, dec).command = None
    BY <2>1 DEF PresentationOutcome
  <2>3. \A error : GuardOutcome(rec, plan.goal, dec, error, now) # None =>
          GuardOutcome(rec, plan.goal, dec, error, now).command = None
    BY <2>1 DEF GuardOutcome
  <2> QED
    BY <1>2, <2>1, <2>2, <2>3 DEF TurnOutcome, SpokenOutcome
<1> QED
  BY <1>1, <1>2

\* result leaves the operation of rec alone, or starts the only one of the call and orders
\* exactly that.
KeepsOrStarts(rec, result, fresh) ==
    \/ /\ result.record.operation = rec.operation
       /\ result.record.dispatch = rec.dispatch
       /\ result.outcome # None => result.outcome.command = None
    \/ /\ rec.operation = None /\ rec.dispatch = None
       /\ result.record.operation # None /\ result.record.dispatch # None
       /\ result.record.operation.id = fresh
       /\ result.record.operation.status = "pending"
       /\ result.record.dispatch.operation = fresh
       /\ result.record.dispatch.action = result.record.operation.action
       /\ result.outcome # None
       /\ result.outcome.command = [operation |-> fresh,
                                    action |-> result.record.dispatch.action,
                                    revision |-> result.record.dispatch.revision]

\* A turn starts an operation only when the call has none, and answers its command.
LEMMA TurnOperation ==
    ASSUME NEW rec \in Record, NEW turn \in TurnInput, NEW dec \in Optional(ModelTurnDecision),
           NEW now \in Nat, NEW fresh \in Nat
    PROVE  KeepsOrStarts(rec, AdvanceTurn(rec, turn, dec, now, fresh), fresh)
<1> DEFINE result == AdvanceTurn(rec, turn, dec, now, fresh)
<1> DEFINE plan == TurnPlan(rec, dec, now, fresh)
           outcome == TurnOutcome(rec, turn, dec, now, plan, fresh)
           confirmation == ConfirmationAfter(dec, plan, outcome)
<1>1. /\ result.outcome = outcome
      /\ result.record = Consolidate(rec, turn, dec, plan, confirmation, fresh)
  BY DEF AdvanceTurn
<1>2. /\ plan.before \in Optional(ConfirmationChallenge)
      /\ plan.dispatched => /\ plan.before # None
                            /\ rec.operation = None /\ rec.dispatch = None
  BY TurnPlanFacts
<1>3. IF plan.dispatched
      THEN /\ outcome # None
           /\ outcome.command = [operation |-> fresh, action |-> plan.before.action,
                                 revision |-> plan.before.revision]
      ELSE outcome # None => outcome.command = None
  BY TurnOrders
<1> SUFFICES KeepsOrStarts(rec, result, fresh)
  OBVIOUS
<1> HIDE DEF result, plan, outcome, confirmation
<1>4. /\ result.record.operation = IF plan.dispatched THEN NewOperation(plan.before, fresh)
                                   ELSE rec.operation
      /\ result.record.dispatch = IF plan.dispatched THEN NewDispatch(plan.before, fresh)
                                  ELSE rec.dispatch
  BY <1>1 DEF Consolidate, Record
<1>5. CASE plan.dispatched
  <2>1. plan.before \in ConfirmationChallenge
    BY <1>2, <1>5 DEF Optional
  <2>2. /\ NewOperation(plan.before, fresh) \in ExternalOperation
        /\ NewDispatch(plan.before, fresh) \in AuthorizedDispatch
    BY <2>1 DEF NewDispatch, NewOperation, AuthorizedDispatch, ExternalOperation,
                ConfirmationChallenge, OperationStatus
  <2>3. result.record.operation # None /\ result.record.dispatch # None
    BY <1>4, <1>5, <2>2, NoneAssumption
  <2> QED
    BY <1>1, <1>2, <1>3, <1>4, <1>5, <2>3 DEF NewOperation, NewDispatch, KeepsOrStarts
<1>6. CASE ~plan.dispatched
  BY <1>1, <1>3, <1>4, <1>6 DEF KeepsOrStarts
<1> QED
  BY <1>5, <1>6

\* Whatever the model proposes, a turn keeps the planes of the record in agreement.
LEMMA TurnKeepsCoherence ==
    ASSUME NEW rec \in Record, NEW turn \in TurnInput, NEW dec \in Optional(ModelTurnDecision),
           NEW now \in Nat, NEW fresh \in Nat, Coherent(rec)
    PROVE  Coherent(AdvanceTurn(rec, turn, dec, now, fresh).record)
<1> DEFINE result == AdvanceTurn(rec, turn, dec, now, fresh)
           plan == TurnPlan(rec, dec, now, fresh)
           outcome == TurnOutcome(rec, turn, dec, now, plan, fresh)
           confirmation == ConfirmationAfter(dec, plan, outcome)
           new == result.record
<1>1. /\ new.goal = plan.goal
      /\ new.identity = rec.identity
      /\ new.polling = rec.polling
      /\ new.confirmation = confirmation
      /\ new.presentation = PresentationAfter(rec, turn, dec)
      /\ new.operation = IF plan.dispatched THEN NewOperation(plan.before, fresh)
                         ELSE rec.operation
  BY DEF AdvanceTurn, Consolidate, Record
<1>2. KeepsOrStarts(rec, result, fresh)
  BY TurnOperation
<1> HIDE DEF result
<1>3. DispatchNames(new)
  BY <1>2 DEF KeepsOrStarts, DispatchNames, Coherent
<1>4. ChallengeFits(new)
  <2>1. \/ confirmation = None
        \/ /\ ~plan.decided
           /\ confirmation = RepairedChallenge(rec)
        \/ /\ plan.staged # None
           /\ confirmation = plan.staged
    BY ConfirmationAfterFacts
  <2>2. ASSUME ~plan.decided, confirmation = RepairedChallenge(rec)
        PROVE  ChallengeFits(new)
    <3>1. plan.goal = rec.goal /\ ~plan.dispatched
      BY <2>2, TurnPlanFacts
    <3> QED
      BY <1>1, <2>2, <3>1 DEF RepairedChallenge, ChallengeFits, Coherent
  <2>3. ASSUME plan.staged # None, confirmation = plan.staged
        PROVE  ChallengeFits(new)
    <3>1. /\ plan.staged = NewChallenge(plan.goal, rec.identity, fresh)
          /\ plan.goal # None
          /\ ~IsActive(rec.operation)
          /\ ~plan.dispatched
      BY <2>3, TurnPlanFacts DEF EligibleForChallenge
    <3> QED
      BY <1>1, <2>3, <3>1 DEF NewChallenge, ChallengeFits, Matches
  <2> QED
    BY <1>1, <2>1, <2>2, <2>3 DEF ChallengeFits
<1>5. ReceiptsFit(new) /\ ReceiptsAgreeIn(new)
  BY <1>1, <1>2 DEF KeepsOrStarts, Coherent, ReceiptsFit, ReceiptsAgreeIn
<1>6. PresentationFits(new)
  <2>1. rec.presentation \in Optional(PasswordPresentation)
    BY DEF Record
  <2>2. new.presentation # None =>
          /\ rec.presentation # None
          /\ new.presentation.operation = rec.presentation.operation
          /\ new.presentation.revision = rec.presentation.revision
    BY <1>1, <2>1 DEF PresentationAfter, Optional, PasswordPresentation
  <2> QED
    BY <1>2, <2>2 DEF KeepsOrStarts, Coherent, PresentationFits
<1> QED
  BY <1>3, <1>4, <1>5, <1>6 DEF Coherent, result

--------------------------------------------------------------------------------
(* What a turn answers, against the record it leaves. *)

\* COMPLETE is answered with nothing running and a reset's password presented.
ClosingFits(outcome, rec) ==
    outcome.step = "COMPLETE" /\ rec.operation # None =>
        \/ rec.operation.status = "failed"
        \/ /\ rec.operation.status = "confirmed"
           /\ rec.operation.action = Reset => rec.presentation # None

\* The canonical question has its challenge.
QuestionFits(outcome, rec) == outcome.message = "confirmation" => rec.confirmation # None

\* DELIVER_PASSWORD is answered for a confirmed reset the caller has not closed.
DictationFits(outcome, rec) ==
    outcome.step = "DELIVER_PASSWORD" =>
        /\ rec.operation # None
        /\ rec.operation.action = Reset /\ rec.operation.status = "confirmed"
        /\ rec.presentation # None => ~rec.presentation.finished

\* EXECUTE_ACTION names the pending operation of the record.
CommandFits(outcome, rec) ==
    outcome.step = "EXECUTE_ACTION" =>
        /\ rec.operation # None /\ rec.operation.status = "pending"
        /\ rec.operation.id = outcome.command.operation
        /\ rec.dispatch.action = outcome.command.action
        /\ rec.dispatch.revision = outcome.command.revision

AnswerFits(outcome, rec) ==
    outcome # None =>
        /\ ClosingFits(outcome, rec)
        /\ QuestionFits(outcome, rec)
        /\ DictationFits(outcome, rec)
        /\ CommandFits(outcome, rec)

\* While a password is owed the goal it fulfilled is gone, and no turn proposes another.
OwedClearsGoal(rec) == PresentationIsActive(rec) => rec.goal = None

\* The outcome the guard selects: only an unviolated COMPLETE with its backing says farewell,
\* and what it says is never the runtime's own question.
LEMMA GuardOutcomeFacts ==
    ASSUME NEW rec, NEW goal, NEW dec \in Optional(ModelTurnDecision), NEW error \in BOOLEAN,
           NEW now, NEW outcome, outcome = GuardOutcome(rec, goal, dec, error, now),
           outcome # None
    PROVE  /\ outcome.step \in {"LISTEN", "COLLECT_IDENTITY", "TRANSFER", "COMPLETE"}
           /\ outcome.message \in {"escalation", "fallback", "farewell", "candidate"}
           /\ outcome.message \in {"fallback", "farewell"} => dec # None
           /\ outcome.step = "COMPLETE" => CompleteIsBacked(rec)
<1> DEFINE violated == \/ error
                       \/ dec # None /\ ~ClaimsAreBacked(rec, dec, now)
                       \/ dec # None /\ ~RouteIsLegal(rec, goal, dec, now)
           step == NextStepForState(rec, goal, dec, now)
           handoff == [Say("TRANSFER", "escalation") EXCEPT !.violated = violated]
           fallback == [Say(IF RequiresIdentityCollection(rec, goal, dec, now)
                            THEN "COLLECT_IDENTITY" ELSE "LISTEN", "fallback")
                        EXCEPT !.violated = TRUE]
           spoken == Say(step, IF step = "COMPLETE" THEN "farewell" ELSE "candidate")
<1>1. outcome = IF RequiresHandoff(rec.identity) THEN handoff
                ELSE IF dec = None THEN None
                ELSE IF violated THEN fallback ELSE spoken
  BY DEF GuardOutcome
<1>2. /\ handoff.step = "TRANSFER" /\ handoff.message = "escalation"
      /\ fallback.step \in {"LISTEN", "COLLECT_IDENTITY"} /\ fallback.message = "fallback"
      /\ spoken.step = step
      /\ spoken.message = (IF step = "COMPLETE" THEN "farewell" ELSE "candidate")
  BY DEF Say
<1>3. dec # None =>
        /\ step \in {"LISTEN", "COLLECT_IDENTITY", "TRANSFER", "COMPLETE"}
        /\ step = "COMPLETE" => dec.route = "COMPLETE"
  BY DEF NextStepForState, NextStepByRoute, Optional, ModelTurnDecision, Route
<1>4. dec # None /\ ~violated /\ dec.route = "COMPLETE" => CompleteIsBacked(rec)
  BY DEF RouteIsLegal
<1> HIDE DEF violated, step, handoff, fallback, spoken
<1> QED
  BY <1>1, <1>2, <1>3, <1>4

\* Who speaks for a turn: the limit, the dictation, the runtime's question, the dispatch or
\* the guard.
LEMMA TurnOutcomeCases ==
    ASSUME NEW rec \in Record, NEW turn \in TurnInput, NEW dec \in Optional(ModelTurnDecision),
           NEW now \in Nat, NEW fresh \in Nat,
           NEW plan, plan = TurnPlan(rec, dec, now, fresh),
           NEW outcome, outcome = TurnOutcome(rec, turn, dec, now, plan, fresh)
    PROVE  \/ /\ plan.limit
              /\ outcome.step = "TRANSFER" /\ outcome.message = "limit"
           \/ /\ ~plan.limit /\ PresentationIsActive(rec)
              /\ outcome = PresentationOutcome(rec, turn, dec)
           \/ /\ ~plan.limit /\ ~PresentationIsActive(rec)
              /\ plan.reissued \/ plan.first
              /\ outcome = Say("LISTEN", "confirmation")
           \/ /\ plan.dispatched
              /\ outcome.step = "EXECUTE_ACTION" /\ outcome.message = "processing"
              /\ outcome.command = [operation |-> fresh, action |-> plan.before.action,
                                    revision |-> plan.before.revision]
           \/ /\ ~plan.limit /\ ~PresentationIsActive(rec) /\ ~plan.dispatched
              /\ outcome = GuardOutcome(rec, plan.goal, dec, plan.proposal \/ plan.binding, now)
<1>1. [Say("TRANSFER", "limit") EXCEPT !.violated = plan.proposal].step = "TRANSFER"
      /\ [Say("TRANSFER", "limit") EXCEPT !.violated = plan.proposal].message = "limit"
  BY DEF Say
<1> QED
  BY <1>1 DEF TurnOutcome, SpokenOutcome

\* A question the runtime asks by itself has a challenge staged for it.
LEMMA QuestionIsStaged ==
    ASSUME NEW rec \in Record, NEW dec \in Optional(ModelTurnDecision), NEW now \in Nat,
           NEW fresh \in Nat, NEW plan, plan = TurnPlan(rec, dec, now, fresh)
    PROVE  /\ plan.decided = (dec # None /\ ~PresentationIsActive(rec))
           /\ plan.reissued \/ plan.first => plan.decided /\ plan.staged # None
<1> DEFINE decided == dec # None /\ ~PresentationIsActive(rec)
<1>1. plan.decided = decided
  BY DEF TurnPlan
<1>2. ASSUME plan.reissued \/ plan.first
      PROVE  /\ decided /\ EligibleForChallenge(rec, plan.goal, now)
             /\ plan.staged = NewChallenge(plan.goal, rec.identity, fresh)
  BY <1>2 DEF TurnPlan
<1>3. ASSUME EligibleForChallenge(rec, plan.goal, now)
      PROVE  NewChallenge(plan.goal, rec.identity, fresh) \in ConfirmationChallenge
  <2>1. plan.goal \in ConversationGoal
    BY <1>3, TurnPlanFacts DEF EligibleForChallenge, GoalIsDispatchable, Optional
  <2>2. rec.identity \in IdentityState /\ rec.identity.validatedAt # None
    BY <1>3 DEF EligibleForChallenge, IsValidAt, Record
  <2> QED
    BY <2>1, <2>2, NewChallengeType
<1> QED
  BY <1>1, <1>2, <1>3, NoneAssumption

\* The planes of the record a turn leaves.
LEMMA TurnLeaves ==
    ASSUME NEW rec \in Record, NEW turn, NEW dec, NEW now, NEW fresh, NEW plan, NEW outcome,
           plan = TurnPlan(rec, dec, now, fresh),
           outcome = TurnOutcome(rec, turn, dec, now, plan, fresh)
    PROVE  LET result == AdvanceTurn(rec, turn, dec, now, fresh)
           IN  /\ result.outcome = outcome
               /\ result.record.goal = plan.goal
               /\ result.record.identity = rec.identity
               /\ result.record.polling = rec.polling
               /\ result.record.confirmation = ConfirmationAfter(dec, plan, outcome)
               /\ result.record.presentation = PresentationAfter(rec, turn, dec)
               /\ result.record.operation = IF plan.dispatched
                                            THEN NewOperation(plan.before, fresh)
                                            ELSE rec.operation
               /\ result.record.dispatch = IF plan.dispatched
                                           THEN NewDispatch(plan.before, fresh)
                                           ELSE rec.dispatch
  BY DEF AdvanceTurn, Consolidate, Record

\* A turn keeps a playback, and only ever closes it.
LEMMA TurnKeepsPlayback ==
    ASSUME NEW rec \in Record, NEW turn, NEW dec
    PROVE  LET after == PresentationAfter(rec, turn, dec)
           IN  /\ (after = None) = (rec.presentation = None)
               /\ rec.presentation # None =>
                    /\ after.voice = rec.presentation.voice
                    /\ rec.presentation.finished => after.finished
               /\ ~dec.finished => after = rec.presentation
<1>1. ASSUME NEW p \in PasswordPresentation
      PROVE  /\ [p EXCEPT !.finished = TRUE] # None
             /\ [p EXCEPT !.finished = TRUE].voice = p.voice
             /\ [p EXCEPT !.finished = TRUE].finished
  <2>1. [p EXCEPT !.finished = TRUE] \in PasswordPresentation
    BY DEF PasswordPresentation
  <2> QED
    BY <2>1, NoneAssumption DEF PasswordPresentation
<1>2. rec.presentation # None => rec.presentation \in PasswordPresentation
  BY DEF Record, Optional
<1> QED
  BY <1>1, <1>2 DEF PresentationAfter

\* What a turn answers fits the record it leaves: the four promises of the answer, whatever
\* the model proposes and whatever the caller was waiting for.
LEMMA TurnAnswerFits ==
    ASSUME NEW rec \in Record, NEW turn \in TurnInput, NEW dec \in Optional(ModelTurnDecision),
           NEW now \in Nat, NEW fresh \in Nat, Coherent(rec), OwedClearsGoal(rec)
    PROVE  LET result == AdvanceTurn(rec, turn, dec, now, fresh)
           IN  AnswerFits(result.outcome, result.record)
<1> DEFINE result == AdvanceTurn(rec, turn, dec, now, fresh)
           plan == TurnPlan(rec, dec, now, fresh)
           outcome == TurnOutcome(rec, turn, dec, now, plan, fresh)
           confirmation == ConfirmationAfter(dec, plan, outcome)
           new == result.record
<1>1. /\ result.outcome = outcome
      /\ new.confirmation = confirmation
      /\ new.presentation = PresentationAfter(rec, turn, dec)
      /\ new.operation = IF plan.dispatched THEN NewOperation(plan.before, fresh)
                         ELSE rec.operation
      /\ new.dispatch = IF plan.dispatched THEN NewDispatch(plan.before, fresh)
                        ELSE rec.dispatch
  BY TurnLeaves
<1>2. /\ plan.decided = (dec # None /\ ~PresentationIsActive(rec))
      /\ plan.reissued \/ plan.first => plan.decided /\ plan.staged # None
      /\ ~plan.decided => plan.before \in {None, RepairedChallenge(rec)}
      /\ plan.dispatched => /\ plan.decided /\ plan.staged = None
                            /\ plan.before \in ConfirmationChallenge
      /\ plan.proposal \/ plan.binding \in BOOLEAN
  BY QuestionIsStaged, TurnPlanFacts DEF Optional
<1>3. /\ (new.presentation = None) = (rec.presentation = None)
      /\ ~dec.finished => new.presentation = rec.presentation
  BY <1>1, TurnKeepsPlayback
<1> DEFINE guarded == GuardOutcome(rec, plan.goal, dec, plan.proposal \/ plan.binding, now)
<1>4. \/ /\ plan.limit
         /\ outcome.step = "TRANSFER" /\ outcome.message = "limit"
      \/ /\ ~plan.limit /\ PresentationIsActive(rec)
         /\ outcome = PresentationOutcome(rec, turn, dec)
      \/ /\ ~plan.limit /\ ~PresentationIsActive(rec)
         /\ plan.reissued \/ plan.first
         /\ outcome = Say("LISTEN", "confirmation")
      \/ /\ plan.dispatched
         /\ outcome.step = "EXECUTE_ACTION" /\ outcome.message = "processing"
         /\ outcome.command = [operation |-> fresh, action |-> plan.before.action,
                               revision |-> plan.before.revision]
      \/ /\ ~plan.limit /\ ~PresentationIsActive(rec) /\ ~plan.dispatched
         /\ outcome = guarded
  BY TurnOutcomeCases
<1>5. confirmation = IF plan.limit THEN None
                     ELSE IF ~plan.decided THEN plan.before
                     ELSE IF plan.staged # None
                             /\ CommitIsCoherent(plan.staged, outcome, dec,
                                                 plan.reissued \/ plan.first)
                     THEN plan.staged ELSE None
  BY DEF ConfirmationAfter
<1>6. guarded # None =>
        /\ guarded.step \in {"LISTEN", "COLLECT_IDENTITY", "TRANSFER", "COMPLETE"}
        /\ guarded.message \in {"escalation", "fallback", "farewell", "candidate"}
        /\ guarded.message \in {"fallback", "farewell"} => dec # None
        /\ guarded.step = "COMPLETE" => CompleteIsBacked(rec)
  BY <1>2, GuardOutcomeFacts
<1>7. CompleteIsBacked(rec) /\ rec.operation # None =>
        \/ rec.operation.status = "failed"
        \/ /\ rec.operation.status = "confirmed"
           /\ rec.operation.action = Reset => rec.presentation # None
  BY DEF CompleteIsBacked, IsActive, PresentationIsActive, Record, Optional,
         ExternalOperation, OperationStatus
<1> SUFFICES AnswerFits(outcome, new)
  BY <1>1
<1> HIDE DEF result, new, plan, outcome, confirmation, guarded
<1>8. CASE plan.limit
  <2>1. outcome.step = "TRANSFER" /\ outcome.message = "limit" /\ confirmation = None
    BY <1>2, <1>4, <1>5, <1>8, TurnPlanFacts DEF plan
  <2> QED
    BY <1>1, <2>1 DEF AnswerFits, ClosingFits, QuestionFits, DictationFits, CommandFits
<1>9. CASE ~plan.limit /\ PresentationIsActive(rec)
  <2>1. ~plan.decided /\ ~plan.dispatched /\ ~plan.reissued /\ ~plan.first
    BY <1>2, <1>9
  <2>2. outcome = PresentationOutcome(rec, turn, dec)
    BY <1>4, <1>9, <2>1
  <2>3. \/ outcome.step = "LISTEN" /\ outcome.message \in {"waiting", "finished"}
        \/ /\ outcome.step = "COMPLETE" /\ outcome.message = "farewell"
           /\ CompleteIsBacked(rec)
        \/ /\ outcome.step = "DELIVER_PASSWORD" /\ outcome.message = "candidate"
           /\ ~dec.finished
    BY <2>2 DEF PresentationOutcome, Say
  <2>4. confirmation = None
    <3>1. rec.goal = None
      BY <1>9 DEF OwedClearsGoal
    <3>2. RepairedChallenge(rec) = None
      BY <3>1 DEF RepairedChallenge, Matches
    <3> QED
      BY <1>2, <1>5, <1>9, <2>1, <3>2
  <2>5. new.operation = rec.operation
    BY <1>1, <2>1
  <2> QED
    BY <1>1, <1>3, <1>7, <1>9, <2>3, <2>4, <2>5
    DEF AnswerFits, ClosingFits, QuestionFits, DictationFits, CommandFits,
        PresentationIsActive
<1>10. CASE /\ ~plan.limit /\ ~PresentationIsActive(rec)
            /\ plan.reissued \/ plan.first
            /\ outcome = Say("LISTEN", "confirmation")
  <2>1. CommitIsCoherent(plan.staged, outcome, dec, plan.reissued \/ plan.first)
    <3>1. Say("LISTEN", "confirmation") \in Outcome
      BY DEF Say, Outcome, Optional, NextStep, Message
    <3> QED
      BY <1>10, <3>1, NoOutcomeAssumption DEF CommitIsCoherent, Say
  <2>2. confirmation # None
    BY <1>2, <1>5, <1>10, <2>1
  <2>3. outcome.step = "LISTEN" /\ outcome.message = "confirmation"
    BY <1>10 DEF Say
  <2> QED
    BY <1>1, <2>2, <2>3
    DEF AnswerFits, ClosingFits, QuestionFits, DictationFits, CommandFits
<1>11. CASE /\ plan.dispatched
            /\ outcome.step = "EXECUTE_ACTION" /\ outcome.message = "processing"
            /\ outcome.command = [operation |-> fresh, action |-> plan.before.action,
                                  revision |-> plan.before.revision]
  <2>1. confirmation = None
    BY <1>2, <1>5, <1>11
  <2>2. NewOperation(plan.before, fresh) \in ExternalOperation
    BY <1>2, <1>11 DEF NewOperation, ExternalOperation, ConfirmationChallenge, OperationStatus
  <2>3. new.operation # None /\ new.operation.status = "pending"
        /\ new.operation.id = fresh
    BY <1>1, <1>11, <2>2, NoneAssumption DEF NewOperation
  <2>4. /\ new.dispatch.action = plan.before.action
        /\ new.dispatch.revision = plan.before.revision
    BY <1>1, <1>11 DEF NewDispatch
  <2> QED
    BY <1>1, <1>11, <2>1, <2>3, <2>4
    DEF AnswerFits, ClosingFits, QuestionFits, DictationFits, CommandFits
<1>12. CASE /\ ~plan.limit /\ ~PresentationIsActive(rec) /\ ~plan.dispatched
            /\ outcome = guarded
  <2>1. CASE outcome = None
    BY <2>1 DEF AnswerFits
  <2>2. CASE outcome # None
    <3>1. new.operation = rec.operation
      BY <1>1, <1>12
    <3> QED
      BY <1>1, <1>3, <1>6, <1>7, <1>12, <2>2, <3>1
      DEF AnswerFits, ClosingFits, QuestionFits, DictationFits, CommandFits
  <2> QED
    BY <2>1, <2>2
<1> QED
  BY <1>4, <1>8, <1>9, <1>10, <1>11, <1>12

\* A turn that decides leaves a challenge only by staging it, and commits what it staged only
\* behind an unviolated question the caller is listened to for.
LEMMA UnaskedIsDropped ==
    ASSUME NEW rec \in Record, NEW turn \in TurnInput, NEW dec \in ModelTurnDecision,
           NEW now \in Nat, NEW fresh \in Nat, ~PresentationIsActive(rec),
           AdvanceTurn(rec, turn, dec, now, fresh).record.confirmation # None
    PROVE  LET outcome == AdvanceTurn(rec, turn, dec, now, fresh).outcome
           IN  /\ outcome.step = "LISTEN" /\ ~outcome.violated
               /\ outcome.message \in {"confirmation", "candidate"}
<1> DEFINE result == AdvanceTurn(rec, turn, dec, now, fresh)
           plan == TurnPlan(rec, dec, now, fresh)
           outcome == TurnOutcome(rec, turn, dec, now, plan, fresh)
<1>1. result.outcome = outcome
      /\ result.record.confirmation = ConfirmationAfter(dec, plan, outcome)
  BY TurnLeaves
<1>2. dec # None /\ dec \in Optional(ModelTurnDecision)
  BY NoOutcomeAssumption DEF Optional
<1>3. plan.decided
  BY <1>2, QuestionIsStaged
<1>4. CommitIsCoherent(plan.staged, outcome, dec, plan.reissued \/ plan.first)
  BY <1>1, <1>3 DEF ConfirmationAfter
<1> HIDE DEF result, plan, outcome
<1> QED
  BY <1>1, <1>4 DEF CommitIsCoherent, result

\* While a password is owed no turn gives the record a goal: the dictation owns it.
LEMMA TurnKeepsOwed ==
    ASSUME NEW rec \in Record, NEW turn, NEW dec \in Optional(ModelTurnDecision),
           NEW now \in Nat, NEW fresh \in Nat, OwedClearsGoal(rec)
    PROVE  OwedClearsGoal(AdvanceTurn(rec, turn, dec, now, fresh).record)
<1> DEFINE plan == TurnPlan(rec, dec, now, fresh)
           outcome == TurnOutcome(rec, turn, dec, now, plan, fresh)
           new == AdvanceTurn(rec, turn, dec, now, fresh).record
<1>1. /\ new.goal = plan.goal
      /\ new.presentation = PresentationAfter(rec, turn, dec)
      /\ new.operation = IF plan.dispatched THEN NewOperation(plan.before, fresh)
                         ELSE rec.operation
  BY TurnLeaves
<1>2. /\ plan.decided = (dec # None /\ ~PresentationIsActive(rec))
      /\ ~plan.decided => plan.goal = rec.goal
  BY QuestionIsStaged, TurnPlanFacts
<1>3. /\ (new.presentation = None) = (rec.presentation = None)
      /\ rec.presentation # None => (rec.presentation.finished => new.presentation.finished)
  BY <1>1, TurnKeepsPlayback
<1> SUFFICES OwedClearsGoal(new)
  OBVIOUS
<1> HIDE DEF new, plan
<1>4. PresentationIsActive(new) => PresentationIsActive(rec)
  BY <1>1, <1>3 DEF PresentationIsActive, NewOperation
<1> QED
  BY <1>1, <1>2, <1>4 DEF OwedClearsGoal

\* A challenge that survives the proposal of a turn is the stored one, and the goal it can be
\* dispatched for is the stored one: no revision, action or mode moved under it.
LEMMA SurvivingChallenge ==
    ASSUME NEW rec \in Record, NEW dec \in ModelTurnDecision,
           ChallengeAfter(rec.goal, RepairedChallenge(rec), dec) # None,
           GoalIsDispatchable(GoalAfter(rec.goal, dec))
    PROVE  /\ rec.confirmation # None
           /\ ChallengeAfter(rec.goal, RepairedChallenge(rec), dec) = rec.confirmation
           /\ Matches(rec.confirmation, rec.goal)
           /\ GoalAfter(rec.goal, dec) = rec.goal
<1> DEFINE challenge == rec.confirmation
           goal == rec.goal
           after == GoalAfter(goal, dec)
           proposed == ProposedGoal(goal, dec)
<1>1. /\ challenge # None /\ Matches(challenge, goal) /\ goal # None
      /\ ChallengeAfter(goal, RepairedChallenge(rec), dec) = challenge
      /\ ~ProposalError(dec) => ~SwitchesMode(proposed, dec.mode) /\ Matches(challenge, after)
  BY DEF ChallengeAfter, RepairedChallenge, Matches
<1>2. goal \in ConversationGoal
  BY <1>1 DEF Record, Optional
<1>3. CASE ProposalError(dec)
  BY <1>1, <1>3 DEF GoalAfter
<1>4. CASE ~ProposalError(dec)
  <2>1. after = WithMode(proposed, dec.mode) /\ after # None
    BY <1>1, <1>4 DEF GoalAfter, Matches
  <2>2. \/ after = proposed
        \/ /\ proposed # None /\ proposed.action = Reset
           /\ after = [proposed EXCEPT !.mode = "UNDECIDED"]
    BY <1>1, <1>4, <2>1 DEF WithMode
  <2>3. proposed \in Optional(ConversationGoal)
    BY <1>2, <1>4 DEF ProposedGoal, ProposalError, Optional, ConversationGoal,
                      ModelTurnDecision, GoalIntent, Action
  <2>4. proposed \in ConversationGoal
    BY <2>1, <2>2, <2>3 DEF Optional
  <2>5. after = proposed
    <3>1. [proposed EXCEPT !.mode = "UNDECIDED"].mode = "UNDECIDED"
          /\ [proposed EXCEPT !.mode = "UNDECIDED"].action = proposed.action
      BY <2>4 DEF ConversationGoal
    <3> QED
      BY <2>2, <3>1 DEF GoalIsDispatchable
  <2>6. proposed.revision = goal.revision
    BY <1>1, <1>4, <2>5 DEF Matches
  <2>7. proposed = goal
    BY <1>1, <1>2, <2>1, <2>5, <2>6 DEF ProposedGoal, ConversationGoal
  <2> QED
    BY <1>1, <2>5, <2>7
<1> QED
  BY <1>3, <1>4

\* What a dispatch stands on, all of it in the record as it was loaded.
Consented(rec, now) ==
    /\ rec.confirmation # None /\ Matches(rec.confirmation, rec.goal)
    /\ rec.goal.action = Reset => rec.goal.mode = "AUTONOMOUS"
    /\ IsValidAt(rec.identity, now)
    /\ ~RequiresHandoff(rec.identity)

\* A plan that dispatches consumes the stored challenge, for the stored goal, under an identity
\* valid at the instant the turn was received.
LEMMA DispatchedPlan ==
    ASSUME NEW rec \in Record, NEW dec \in Optional(ModelTurnDecision), NEW now \in Nat,
           NEW fresh \in Nat, NEW plan, plan = TurnPlan(rec, dec, now, fresh), plan.dispatched
    PROVE  /\ Consented(rec, now)
           /\ plan.before = rec.confirmation /\ plan.goal = rec.goal
           /\ dec \in ModelTurnDecision /\ dec.observation = "AFFIRMATIVE"
           /\ rec.confirmation.validatedAt = rec.identity.validatedAt
           /\ rec.dispatch = None /\ rec.operation = None
<1>1. /\ plan.decided /\ plan.before # None /\ ~PresentationIsActive(rec)
      /\ ChallengeBinds(plan.before, rec, plan.goal, now)
      /\ rec.dispatch = None /\ rec.operation = None
  BY TurnPlanFacts
<1>2. dec \in ModelTurnDecision
  BY <1>1, QuestionIsStaged DEF Optional
<1>3. /\ plan.before = ChallengeAfter(rec.goal, RepairedChallenge(rec), dec)
      /\ plan.goal # None => plan.goal = GoalAfter(rec.goal, dec)
      /\ dec.observation = "AFFIRMATIVE"
  BY <1>1 DEF TurnPlan
<1>4. GoalIsDispatchable(plan.goal) /\ plan.goal # None
  BY <1>1 DEF ChallengeBinds, GoalIsDispatchable
<1>5. plan.before = rec.confirmation /\ Matches(rec.confirmation, rec.goal)
      /\ plan.goal = rec.goal
  BY <1>1, <1>2, <1>3, <1>4, SurvivingChallenge
<1> QED
  BY <1>1, <1>2, <1>3, <1>4, <1>5 DEF Consented, ChallengeBinds, GoalIsDispatchable

\* So is every turn after which there is a dispatch where there was none.
LEMMA DispatchIsConsented ==
    ASSUME NEW rec \in Record, NEW turn, NEW dec \in Optional(ModelTurnDecision),
           NEW now \in Nat, NEW fresh \in Nat, rec.dispatch = None,
           AdvanceTurn(rec, turn, dec, now, fresh).record.dispatch # None
    PROVE  /\ Consented(rec, now)
           /\ AdvanceTurn(rec, turn, dec, now, fresh).record.dispatch.challenge
                = rec.confirmation.id
<1> DEFINE plan == TurnPlan(rec, dec, now, fresh)
           new == AdvanceTurn(rec, turn, dec, now, fresh).record
<1>1. new.dispatch = IF plan.dispatched THEN NewDispatch(plan.before, fresh) ELSE rec.dispatch
  BY TurnLeaves
<1>2. plan.dispatched
  BY <1>1
<1>3. Consented(rec, now) /\ plan.before = rec.confirmation
  BY <1>2, DispatchedPlan
<1> QED
  BY <1>1, <1>2, <1>3 DEF NewDispatch

\* Conversely, a plain affirmation to a challenge that has its consent, before any action was
\* dispatched, executes the waiting action.
LEMMA ConsentDispatches ==
    ASSUME NEW rec \in Record, NEW turn, NEW dec \in ModelTurnDecision, NEW now \in Nat,
           NEW fresh \in Nat, Consented(rec, now),
           rec.confirmation.validatedAt = rec.identity.validatedAt, ~BudgetConsumed(rec),
           dec.observation = "AFFIRMATIVE", dec.intent = "NONE", dec.mode = None
    PROVE  AdvanceTurn(rec, turn, dec, now, fresh).outcome.step = "EXECUTE_ACTION"
<1> DEFINE plan == TurnPlan(rec, dec, now, fresh)
<1>1. GoalIsDispatchable(rec.goal) /\ ~PresentationIsActive(rec)
  BY DEF Consented, Matches, GoalIsDispatchable, BudgetConsumed, PresentationIsActive
<1>2. dec # None
  BY NoOutcomeAssumption
<1>3. GoalAfter(rec.goal, dec) = rec.goal /\ ~SwitchesMode(rec.goal, dec.mode)
  <2>1. rec.goal.action = Reset => rec.goal.mode # None
    BY <1>1, NoneAssumption DEF GoalIsDispatchable, AssistanceMode
  <2> QED
    BY <2>1 DEF GoalAfter, ProposalError, ProposedGoal, WithMode, SwitchesMode
<1>4. ChallengeAfter(rec.goal, RepairedChallenge(rec), dec) = rec.confirmation
  BY <1>3 DEF ChallengeAfter, RepairedChallenge, ProposalError, ProposedGoal, Consented
<1>5. ConfirmationError(rec.confirmation, rec, rec.goal, dec, now) = "none"
  BY <1>1 DEF ConfirmationError, ChallengeBinds, Consented, BudgetConsumed, IsActive
<1>6. ~SecondMutationRequested(rec, rec.goal)
  BY DEF SecondMutationRequested
<1>7. plan.dispatched
  BY <1>1, <1>2, <1>3, <1>4, <1>5, <1>6 DEF TurnPlan
<1>8. ~plan.limit /\ ~plan.reissued /\ ~plan.first
  BY <1>7, TurnPlanFacts DEF Optional
<1>9. AdvanceTurn(rec, turn, dec, now, fresh).outcome
         = TurnOutcome(rec, turn, dec, now, plan, fresh)
  BY DEF AdvanceTurn
<1> HIDE DEF plan
<1> QED
  BY <1>1, <1>7, <1>8, <1>9 DEF TurnOutcome, SpokenOutcome
================================================================================
