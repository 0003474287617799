------------------------------- MODULE Lab_proofs -------------------------------
(***************************************************************************)
(* What an evaluation may be trusted for, for every corpus, every answer   *)
(* of the model and every number of reruns: first the guided procedure,    *)
(* then one replayed turn, then the trials, the runs and their comparison. *)
(***************************************************************************)
EXTENDS LabProperties, TurnRules_proofs, SequenceTheorems, WellFoundedInduction

\* A procedure that a document may hold and that the next read will not refuse.
LegalProcedure(procedure) ==
    procedure # None => procedure \in ProcedureState /\ StepsAreLegal(procedure)

\* What waits is the progress of a legal procedure.
LegalSuspended(suspended) ==
    suspended # None => suspended \in SuspendedProcedure /\ StepsAreLegal(suspended)

\* The three planes of the memory; the window is not looked into.
MemoryShape(memory) ==
    memory = [procedure |-> memory.procedure, suspended |-> memory.suspended,
              window |-> memory.window]

\* Whatever cue the model gives, ADVANCE and REGRESS included in any order and past either end,
\* the procedure that is saved is one the validator accepts when its document is read again.
THEOREM CuesKeepTheProcedure ==
    ASSUME NEW procedure, LegalProcedure(procedure), NEW cue \in ProcedureObservation
    PROVE  LegalProcedure(ApplyProcedureObservation(procedure, cue))
<1> DEFINE moved == ApplyProcedureObservation(procedure, cue)
<1>1. CASE procedure = None
  BY <1>1 DEF LegalProcedure, ApplyProcedureObservation
<1>2. CASE procedure # None
  <2> USE NoneAssumption, NoMemoryAssumption DEF LastStep, GuidedStep, Optional, Action
  <2>1. procedure \in ProcedureState /\ StepsAreLegal(procedure)
    BY <1>2 DEF LegalProcedure
  <2>2. CASE cue = "NONE"
    BY <1>2, <2>1, <2>2 DEF ApplyProcedureObservation, LegalProcedure
  <2>3. CASE cue \in {"PAUSE", "RESUME"}
    BY <1>2, <2>1, <2>3 DEF ApplyProcedureObservation, LegalProcedure, ProcedureState,
                            StepsAreLegal
  <2> DEFINE At(current, last) == [procedure EXCEPT !.current = current, !.last = last]
  <2>4. ASSUME NEW current \in Optional(GuidedStep), NEW last \in Optional(GuidedStep),
               current # None /\ last # None => last < current,
               current = None => last \in {None, LastStep}
        PROVE  LegalProcedure(At(current, last))
    BY <2>1, <2>4 DEF LegalProcedure, ProcedureState, StepsAreLegal
  <2>5. /\ procedure.current \in Optional(GuidedStep) /\ procedure.last \in Optional(GuidedStep)
        /\ procedure = At(procedure.current, procedure.last)
    BY <2>1 DEF ProcedureState
  <2>6. CASE cue = "ADVANCE"
    <3>1. moved = Advanced(procedure)
      BY <1>2, <2>6 DEF ApplyProcedureObservation
    <3>2. CASE procedure.current # None
      <4>1. moved = At(NextStepAfter(procedure.current), procedure.current)
        BY <3>1, <3>2 DEF Advanced
      <4>2. procedure.current \in {1, 2, 3}
        BY <2>5, <3>2
      <4>3. /\ procedure.current # 3 => NextStepAfter(procedure.current) = procedure.current + 1
            /\ procedure.current = 3 => NextStepAfter(procedure.current) = None
        BY DEF NextStepAfter
      <4> HIDE DEF At
      <4> QED
        BY <2>4, <4>1, <4>2, <4>3
    <3> QED
      BY <2>1, <3>1, <3>2 DEF Advanced, LegalProcedure
  <2>7. CASE cue = "REGRESS"
    <3>1. moved = Regressed(procedure)
      BY <1>2, <2>7 DEF ApplyProcedureObservation
    <3>2. CASE procedure.last # None
      <4>1. moved = At(procedure.last, PreviousStep(procedure.last))
        BY <3>1, <3>2 DEF Regressed
      <4>2. procedure.last \in {1, 2, 3}
        BY <2>5, <3>2
      <4>3. /\ procedure.last # 1 => PreviousStep(procedure.last) = procedure.last - 1
            /\ procedure.last = 1 => PreviousStep(procedure.last) = None
        BY <3>2 DEF PreviousStep
      <4> HIDE DEF At
      <4> QED
        BY <2>4, <4>1, <4>2, <4>3
    <3>3. CASE procedure.last = None /\ procedure.current = None
      <4>1. moved = At(None, None)
        BY <3>1, <3>3 DEF Regressed, PreviousStep
      <4> HIDE DEF At
      <4> QED
        BY <2>4, <4>1
    <3> QED
      BY <2>1, <3>1, <3>2, <3>3 DEF Regressed, LegalProcedure
  <2> QED
    BY <2>2, <2>3, <2>6, <2>7 DEF ProcedureObservation
<1> QED
  BY <1>1, <1>2

\* Whatever the turn makes of the goal, what runs and what waits stay legal, the procedure that
\* runs is at the revision of its goal, and none outlives the goal.
THEOREM GoalsKeepTheProcedure ==
    ASSUME NEW memory, MemoryShape(memory), LegalProcedure(memory.procedure),
           LegalSuspended(memory.suspended),
           NEW before \in Optional(ConversationGoal), NEW goal \in Optional(ConversationGoal),
           memory.procedure # None => before # None
    PROVE  LET left == ApplyGoalLifecycle(memory, before, goal)
           IN  /\ LegalProcedure(left.procedure) /\ LegalSuspended(left.suspended)
               /\ left.procedure # None => goal # None /\ left.procedure.revision = goal.revision
<1> DEFINE left == ApplyGoalLifecycle(memory, before, goal)
           waiting == Suspended(memory, before)
<1> USE NoneAssumption, NoMemoryAssumption DEF Optional
<1>1. LegalProcedure(None) /\ LegalSuspended(None)
  BY DEF LegalProcedure, LegalSuspended
<1>2. CASE goal = None
  BY <1>1, <1>2 DEF ApplyGoalLifecycle, MemoryShape
<1>3. ASSUME goal # None
      PROVE  /\ LegalProcedure(OpenProcedure(goal))
             /\ OpenProcedure(goal) # None => OpenProcedure(goal).revision = goal.revision
  BY <1>3 DEF OpenProcedure, LegalProcedure, ProcedureState, StepsAreLegal, GuidedStep,
              LastStep, ConversationGoal
<1>4. ASSUME before # None PROVE LegalSuspended(waiting)
  BY <1>4 DEF Suspended, LegalSuspended, LegalProcedure, SuspendedProcedure, ProcedureState,
              StepsAreLegal, ConversationGoal
<1>5. CASE goal # None /\ before # None /\ before.action # goal.action
  <2>1. CASE waiting # None /\ waiting.action = goal.action
    <3>1. left.procedure = Resumed(waiting, goal) /\ left.suspended = None
      BY <1>5, <2>1 DEF ApplyGoalLifecycle, MemoryShape
    <3>2. /\ LegalProcedure(Resumed(waiting, goal))
          /\ Resumed(waiting, goal).revision = goal.revision
      BY <1>4, <1>5, <2>1 DEF Resumed, LegalSuspended, SuspendedProcedure, LegalProcedure,
                              ProcedureState, StepsAreLegal, ConversationGoal
    <3> QED
      BY <1>1, <1>5, <3>1, <3>2
  <2>2. CASE ~(waiting # None /\ waiting.action = goal.action)
    <3>1. left.procedure = OpenProcedure(goal) /\ left.suspended = waiting
      BY <1>5, <2>2 DEF ApplyGoalLifecycle, MemoryShape
    <3> QED
      BY <1>3, <1>4, <1>5, <3>1
  <2> QED
    BY <2>1, <2>2
<1>6. CASE goal # None /\ ~(before # None /\ before.action # goal.action)
  <2>1. CASE memory.procedure = None
    BY <1>3, <1>6, <2>1 DEF ApplyGoalLifecycle, MemoryShape
  <2>2. CASE memory.procedure # None
    <3>1. /\ left.procedure = [memory.procedure EXCEPT !.revision = goal.revision]
          /\ left.suspended = memory.suspended
      BY <1>6, <2>2 DEF ApplyGoalLifecycle, MemoryShape
    <3>2. /\ LegalProcedure([memory.procedure EXCEPT !.revision = goal.revision])
          /\ [memory.procedure EXCEPT !.revision = goal.revision].revision = goal.revision
      BY <1>6, <2>2 DEF LegalProcedure, ProcedureState, StepsAreLegal, ConversationGoal
    <3> QED
      BY <1>6, <3>1, <3>2
  <2> QED
    BY <2>1, <2>2
<1> QED
  BY <1>2, <1>5, <1>6

\* What runs belongs to the reset the goal wants, and only an unlock leaves one waiting.
BelongsTo(memory, goal) ==
    /\ memory.procedure # None <=> goal # None /\ goal.action = Reset
    /\ memory.procedure # None => memory.procedure.revision = goal.revision
    /\ memory.suspended # None =>
         /\ memory.suspended.action = Reset
         /\ goal # None /\ goal.action = Unlock

\* A change of goal hands the procedure over: what belonged to the goal before the turn, or an
\* untouched memory, belongs to the goal after it.
LEMMA GoalsHandOver ==
    ASSUME NEW memory, MemoryShape(memory), LegalProcedure(memory.procedure),
           LegalSuspended(memory.suspended),
           NEW before \in Optional(ConversationGoal), NEW goal \in Optional(ConversationGoal),
           \/ BelongsTo(memory, before)
           \/ memory.procedure = None /\ memory.suspended = None
    PROVE  BelongsTo(ApplyGoalLifecycle(memory, before, goal), goal)
<1> DEFINE left == ApplyGoalLifecycle(memory, before, goal)
           waiting == Suspended(memory, before)
<1> USE NoneAssumption, NoMemoryAssumption DEF Optional
<1>1. /\ goal # None => goal.action \in {Reset, Unlock}
      /\ before # None => before.action \in {Reset, Unlock}
      /\ Reset # Unlock
  BY DEF ConversationGoal, Action, Reset, Unlock
<1>2. CASE goal = None
  BY <1>2 DEF ApplyGoalLifecycle, MemoryShape, BelongsTo
<1>3. ASSUME goal # None
      PROVE  /\ (OpenProcedure(goal) # None) = (goal.action = Reset)
             /\ OpenProcedure(goal) # None => OpenProcedure(goal).revision = goal.revision
  <2>1. [current |-> 1, last |-> None, awaiting |-> FALSE, revision |-> goal.revision]
          \in ProcedureState
    BY <1>3 DEF ProcedureState, GuidedStep, LastStep, ConversationGoal
  <2> QED
    BY <1>3, <2>1 DEF OpenProcedure
<1>4. CASE goal # None /\ before # None /\ before.action # goal.action
  <2>1. CASE before.action = Reset
    <3>1. goal.action = Unlock
      BY <1>1, <1>4, <2>1
    <3>2. waiting # None => waiting.action = Reset
      BY <1>4, <2>1 DEF Suspended, BelongsTo
    <3>3. left.procedure = OpenProcedure(goal) /\ left.suspended = waiting
      BY <1>1, <1>4, <3>1, <3>2 DEF ApplyGoalLifecycle, MemoryShape
    <3> QED
      BY <1>1, <1>3, <1>4, <3>1, <3>2, <3>3 DEF BelongsTo
  <2>2. CASE before.action = Unlock
    <3>1. goal.action = Reset /\ memory.procedure = None
      BY <1>1, <1>4, <2>2 DEF BelongsTo
    <3>2. waiting = memory.suspended /\ (waiting # None => waiting.action = Reset)
      BY <3>1, <1>1, <1>4, <2>2 DEF Suspended, BelongsTo
    <3>3. CASE waiting = None
      <4>1. left.procedure = OpenProcedure(goal) /\ left.suspended = None
        BY <1>4, <3>3 DEF ApplyGoalLifecycle, MemoryShape
      <4> QED
        BY <1>3, <1>4, <3>1, <4>1 DEF BelongsTo
    <3>4. CASE waiting # None
      <4>1. left.procedure = Resumed(waiting, goal) /\ left.suspended = None
        BY <1>4, <3>1, <3>2, <3>4 DEF ApplyGoalLifecycle, MemoryShape
      <4>2. Resumed(waiting, goal) \in ProcedureState
        BY <1>4, <3>2, <3>4 DEF Resumed, LegalSuspended, SuspendedProcedure, ProcedureState,
                                ConversationGoal
      <4>3. Resumed(waiting, goal).revision = goal.revision
        BY DEF Resumed
      <4> QED
        BY <1>4, <3>1, <4>1, <4>2, <4>3 DEF BelongsTo
    <3> QED
      BY <3>3, <3>4
  <2> QED
    BY <1>1, <1>4, <2>1, <2>2
<1>5. CASE goal # None /\ ~(before # None /\ before.action # goal.action)
  <2>1. CASE memory.procedure = None
    <3>1. left.procedure = OpenProcedure(goal) /\ left.suspended = memory.suspended
      BY <1>5, <2>1 DEF ApplyGoalLifecycle, MemoryShape
    <3>2. memory.suspended # None =>
            memory.suspended.action = Reset /\ goal.action = Unlock
      BY <1>5 DEF BelongsTo
    <3> QED
      BY <1>3, <1>5, <3>1, <3>2 DEF BelongsTo
  <2>2. CASE memory.procedure # None
    <3>1. /\ left.procedure = [memory.procedure EXCEPT !.revision = goal.revision]
          /\ left.suspended = memory.suspended
      BY <1>5, <2>2 DEF ApplyGoalLifecycle, MemoryShape
    <3>2. /\ [memory.procedure EXCEPT !.revision = goal.revision] \in ProcedureState
          /\ [memory.procedure EXCEPT !.revision = goal.revision].revision = goal.revision
      BY <1>5, <2>2 DEF LegalProcedure, ProcedureState, ConversationGoal
    <3>3. goal.action = Reset /\ memory.suspended = None
      BY <1>1, <1>5, <2>2 DEF BelongsTo
    <3> QED
      BY <1>5, <3>1, <3>2, <3>3 DEF BelongsTo
  <2> QED
    BY <2>1, <2>2
<1> QED
  BY <1>2, <1>4, <1>5

\* A cue moves the procedure that runs, and neither opens, closes nor renumbers one.
LEMMA CuesKeepBelonging ==
    ASSUME NEW procedure, LegalProcedure(procedure), NEW cue \in ProcedureObservation
    PROVE  LET moved == ApplyProcedureObservation(procedure, cue)
           IN  /\ (moved = None) = (procedure = None)
               /\ procedure # None => moved.revision = procedure.revision
<1> DEFINE moved == ApplyProcedureObservation(procedure, cue)
<1>1. CASE procedure = None
  BY <1>1 DEF ApplyProcedureObservation
<1>2. CASE procedure # None
  <2>1. procedure \in ProcedureState
    BY <1>2 DEF LegalProcedure
  <2>2. ASSUME NEW current, NEW last
        PROVE  [procedure EXCEPT !.current = current, !.last = last].revision
                 = procedure.revision
    BY <2>1 DEF ProcedureState
  <2>3. \A b : [procedure EXCEPT !.awaiting = b].revision = procedure.revision
    BY <2>1 DEF ProcedureState
  <2>4. moved.revision = procedure.revision
    BY <1>2, <2>2, <2>3 DEF ApplyProcedureObservation, Advanced, Regressed, ProcedureObservation
  <2>5. moved # None
    <3>1. CASE cue = "NONE"
      BY <1>2, <3>1 DEF ApplyProcedureObservation
    <3>2. CASE cue \in {"PAUSE", "RESUME"}
      <4>1. \A b \in BOOLEAN : [procedure EXCEPT !.awaiting = b] \in ProcedureState
        BY <2>1 DEF ProcedureState
      <4> QED
        BY <1>2, <3>2, <4>1, NoMemoryAssumption DEF ApplyProcedureObservation
    <3>3. ASSUME NEW current \in Optional(GuidedStep), NEW last \in Optional(GuidedStep)
          PROVE  [procedure EXCEPT !.current = current, !.last = last] # None
      <4>1. [procedure EXCEPT !.current = current, !.last = last] \in ProcedureState
        BY <2>1 DEF ProcedureState
      <4> QED
        BY <4>1, NoMemoryAssumption
    <3>4. /\ procedure.current \in Optional(GuidedStep)
          /\ procedure.last \in Optional(GuidedStep)
      BY <2>1 DEF ProcedureState
    <3>5. CASE cue = "ADVANCE"
      <4>1. procedure.current # None => NextStepAfter(procedure.current) \in Optional(GuidedStep)
        BY <3>4 DEF NextStepAfter, Optional, GuidedStep, LastStep
      <4> QED
        BY <1>2, <3>3, <3>4, <3>5, <4>1 DEF ApplyProcedureObservation, Advanced
    <3>6. CASE cue = "REGRESS"
      <4>1. PreviousStep(procedure.last) \in Optional(GuidedStep)
        BY <3>4, NoneAssumption DEF PreviousStep, Optional, GuidedStep, LastStep
      <4> QED
        BY <1>2, <3>3, <3>4, <3>6, <4>1 DEF ApplyProcedureObservation, Regressed
    <3> QED
      BY <3>1, <3>2, <3>5, <3>6 DEF ProcedureObservation
  <2> QED
    BY <1>2, <2>4, <2>5
<1> QED
  BY <1>1, <1>2

--------------------------------------------------------------------------------
(* One replayed turn. *)

\* A record a replay may meet: no password was played back, and a challenge waits only while
\* nothing was ordered.
Replayable(rec) ==
    /\ rec \in Record
    /\ rec.presentation = None
    /\ rec.confirmation # None => rec.operation = None

\* The fixture of a case is such a record, and names no operation but the fixture's.
LEMMA FixtureIsReplayable ==
    ASSUME NEW state \in InitialState,
           state.confirmation = "pending" => state.operation = None
    PROVE  LET rec == BuildInitialRecord(state)
           IN  /\ Replayable(rec)
               /\ rec.dispatch # None => rec.dispatch.operation = FixtureOperation
<1> DEFINE goal == IF state.action = None THEN None
                   ELSE [action |-> state.action, revision |-> state.revision,
                         mode |-> FixtureMode(state)]
           identity == [validatedAt |-> FixtureValidation(state), failures |-> state.failures]
           challenge == FixtureChallengeOf(state)
           dispatch == FixtureDispatch(state)
           operation == FixtureOperationOf(state)
           rec == BuildInitialRecord(state)
<1> USE NowAssumption, NoneAssumption, LimitsAssumption DEF Optional, InitialState
<1>1. FixtureMode(state) \in Optional(AssistanceMode)
      /\ (FixtureMode(state) # None => state.action = Reset)
  BY DEF FixtureMode, AssistanceMode
<1>2. goal \in Optional(ConversationGoal)
  BY <1>1 DEF ConversationGoal
<1>3. FixtureValidation(state) \in Optional(Nat)
      /\ (state.identity # "none" => FixtureValidation(state) \in Nat)
  BY DEF FixtureValidation, Identity
<1>4. identity \in IdentityState
  BY <1>3 DEF IdentityState
<1>5. challenge \in Optional(ConfirmationChallenge)
      /\ (challenge # None => state.confirmation = "pending")
  BY <1>3 DEF FixtureChallengeOf, ConfirmationChallenge, FixtureChallenge
<1>6. dispatch \in Optional(AuthorizedDispatch)
      /\ (dispatch # None => dispatch.operation = FixtureOperation)
  BY DEF FixtureDispatch, AuthorizedDispatch, FixtureOperation, FixtureChallenge
<1>7. operation \in Optional(ExternalOperation)
      /\ (state.operation = None => operation = None)
  BY DEF FixtureOperationOf, ExternalOperation, FixtureOperation
<1>8. rec = [NewRecord EXCEPT !.goal = goal, !.identity = identity, !.confirmation = challenge,
                              !.dispatch = dispatch, !.operation = operation]
  BY DEF BuildInitialRecord
<1> HIDE DEF goal, identity, challenge, dispatch, operation, rec
<1>9. rec = [turned |-> FALSE, goal |-> goal, identity |-> identity, confirmation |-> challenge,
             dispatch |-> dispatch, operation |-> operation, polling |-> None,
             presentation |-> None, voiceRetry |-> 0]
  BY <1>8 DEF NewRecord
<1>10. 0 \in 0..MaxVoiceFailures
  OBVIOUS
<1>11. rec \in Record
  BY <1>2, <1>4, <1>5, <1>6, <1>7, <1>9, <1>10 DEF Record
<1>12. Replayable(rec) /\ (rec.dispatch # None => rec.dispatch.operation = FixtureOperation)
  BY <1>5, <1>6, <1>7, <1>9, <1>11 DEF Replayable
<1> QED
  BY <1>12 DEF rec

\* An external event settles or blurs the operation there is, and never creates one.
LEMMA EventsKeepTheOperation ==
    ASSUME NEW operation \in Optional(ExternalOperation), NEW event \in CorpusEvent
    PROVE  LET met == ApplyExternalEvent(operation, event)
           IN  /\ met \in Optional(ExternalOperation)
               /\ (met = None) = (operation = None)
<1>1. CASE operation = None
  BY <1>1 DEF ApplyExternalEvent, Optional
<1>2. CASE operation # None
  <2>1. operation \in ExternalOperation
    BY <1>2 DEF Optional
  <2>2. \A status \in OperationStatus :
          [operation EXCEPT !.status = status] \in ExternalOperation
    BY <2>1 DEF ExternalOperation
  <2>3. {"unknown", "confirmed", "failed"} \subseteq OperationStatus
    BY DEF OperationStatus
  <2>4. ApplyExternalEvent(operation, event) \in ExternalOperation
    BY <1>2, <2>1, <2>2, <2>3 DEF ApplyExternalEvent
  <2> QED
    BY <1>2, <2>4, NoneAssumption DEF Optional
<1> QED
  BY <1>1, <1>2

\* What the simulated inputs leave of the record: the challenge that is still there is the
\* stored one, for the stored goal and under the same validation.
LEMMA ReconciledFacts ==
    ASSUME NEW rec, Replayable(rec), NEW event \in CorpusEvent
    PROVE  LET loaded == Reconciled(rec, event)
           IN  /\ loaded \in Record
               /\ loaded.goal = rec.goal /\ loaded.dispatch = rec.dispatch
               /\ loaded.operation = rec.operation /\ loaded.presentation = None
               /\ RepairedChallenge(loaded) = loaded.confirmation
               /\ loaded.confirmation # None =>
                    /\ loaded.confirmation = rec.confirmation
                    /\ rec.operation = None
                    /\ Matches(rec.confirmation, rec.goal)
                    /\ loaded.identity.validatedAt = rec.identity.validatedAt
                    /\ event.kind # "confirmation_timeout"
<1> DEFINE identity == ApplyIdentityOutcome(rec.identity, event)
           confirmation == IF \/ identity.validatedAt # rec.identity.validatedAt
                              \/ event.kind = "confirmation_timeout"
                           THEN None
                           ELSE RepairedChallenge(rec)
           loaded == Reconciled(rec, event)
<1>1. rec \in Record /\ rec.identity \in IdentityState
  BY DEF Replayable, Record
<1>2. identity \in IdentityState
  <2>1. [validatedAt |-> Now, failures |-> 0] \in IdentityState
    BY NowAssumption DEF IdentityState, Optional
  <2>2. [rec.identity EXCEPT !.failures = rec.identity.failures + 1] \in IdentityState
    BY <1>1 DEF IdentityState
  <2> QED
    BY <1>1, <2>1, <2>2 DEF ApplyIdentityOutcome
<1>3. confirmation \in Optional(ConfirmationChallenge)
  BY <1>1 DEF RepairedChallenge, Record, Optional
<1>4. loaded = [rec EXCEPT !.identity = identity, !.confirmation = confirmation]
  BY DEF Reconciled
<1>5. confirmation # None =>
        /\ confirmation = rec.confirmation /\ Matches(rec.confirmation, rec.goal)
        /\ identity.validatedAt = rec.identity.validatedAt
        /\ event.kind # "confirmation_timeout"
  BY DEF RepairedChallenge
<1> HIDE DEF identity, confirmation, loaded
<1>6. /\ loaded.goal = rec.goal /\ loaded.dispatch = rec.dispatch
      /\ loaded.operation = rec.operation /\ loaded.presentation = rec.presentation
      /\ loaded.identity = identity /\ loaded.confirmation = confirmation
  BY <1>1, <1>4 DEF Record
<1>7. loaded \in Record
  BY <1>1, <1>2, <1>3, <1>4 DEF Record
<1>8. RepairedChallenge(loaded) = loaded.confirmation
  BY <1>5, <1>6 DEF RepairedChallenge
<1>9. loaded.confirmation # None => rec.operation = None
  BY <1>5, <1>6 DEF Replayable
<1> QED
  BY <1>5, <1>6, <1>7, <1>8, <1>9 DEF Replayable, loaded

\* The plan a replayed turn draws, with the goal g in the place of its own.
LEMMA PlanWithGoal ==
    ASSUME NEW rec, NEW dec, NEW now, NEW fresh, NEW drawn,
           drawn = TurnPlan(rec, dec, now, fresh), NEW g
    PROVE  LET plan == [drawn EXCEPT !.goal = g]
           IN  /\ plan.goal = g
               /\ plan.decided = drawn.decided /\ plan.before = drawn.before
               /\ plan.dispatched = drawn.dispatched /\ plan.limit = drawn.limit
               /\ plan.proposal = drawn.proposal /\ plan.binding = drawn.binding
               /\ plan.reissued = drawn.reissued /\ plan.first = drawn.first
               /\ plan.staged = drawn.staged
<1>1. DOMAIN drawn = {"decided", "goal", "before", "dispatched", "limit", "proposal",
                      "binding", "reissued", "first", "staged"}
  BY DEF TurnPlan
<1> QED
  BY <1>1

DecisionOf(reply) == IF reply = None THEN None ELSE reply.decision

\* What a replayed turn does, from the plan drawn on the reconciled record: each plane, the
\* outcome and the memory.
LEMMA ReplayedFacts ==
    ASSUME NEW rec, Replayable(rec), NEW event \in CorpusEvent,
           NEW reply \in Optional(ModelReply), NEW fresh \in Nat, NEW variant, NEW memory,
           NEW step, step = ReplayTurn(variant, rec, memory, event, reply, fresh),
           NEW loaded, loaded = Reconciled(rec, event),
           NEW dec, dec = DecisionOf(reply),
           NEW plan, plan = TurnPlan(loaded, dec, Now, fresh)
    PROVE  /\ dec \in Optional(ModelTurnDecision) /\ (dec = None) = (reply = None)
           /\ step.record \in Record
           /\ step.record.goal = step.goal
           /\ step.goal = (IF ~plan.dispatched /\ ConfirmsOperation(rec.operation, event)
                           THEN None ELSE plan.goal)
           /\ step.record.identity = loaded.identity
           /\ step.record.presentation = None
           /\ step.record.dispatch = (IF plan.dispatched THEN NewDispatch(plan.before, fresh)
                                      ELSE rec.dispatch)
           /\ step.record.operation = (IF plan.dispatched THEN NewOperation(plan.before, fresh)
                                       ELSE ApplyExternalEvent(rec.operation, event))
           /\ step.record.confirmation = ConfirmationAfter(dec, plan, step.outcome)
           /\ step.memory = MemoryAfter(variant, memory, rec, step.goal, reply, step.kept)
<1> DEFINE turn == ReplayedInput(reply # None)
           goal == IF ~plan.dispatched /\ ConfirmsOperation(loaded.operation, event)
                   THEN None ELSE plan.goal
           moved == [plan EXCEPT !.goal = goal]
           operation == ApplyExternalEvent(loaded.operation, event)
           met == [loaded EXCEPT !.operation = operation]
           outcome == ReplayedOutcome(loaded, met, turn, dec, moved, fresh)
           kept == ~PresentationIsActive(loaded) /\ reply # None /\ outcome # None
           confirmation == ConfirmationAfter(dec, moved, outcome)
<1>1. /\ loaded \in Record
      /\ loaded.goal = rec.goal /\ loaded.dispatch = rec.dispatch
      /\ loaded.operation = rec.operation /\ loaded.presentation = None
      /\ RepairedChallenge(loaded) \in Optional(ConfirmationChallenge)
  BY ReconciledFacts DEF RepairedChallenge, Record, Optional
<1>2. /\ dec \in Optional(ModelTurnDecision) /\ (dec = None) = (reply = None)
  BY NoOutcomeAssumption, NoReplyAssumption DEF DecisionOf, Optional, ModelReply
<1>3. step = Concluded(variant, rec, memory, reply, met, turn, dec, moved, outcome, kept, fresh)
  <2>1. step = Drawn(variant, rec, memory, event, reply, loaded, turn, dec, plan, fresh)
    BY DEF ReplayTurn, Met, DecisionOf
  <2> QED
    BY <2>1 DEF Drawn, Planned, Selected
<1>4. /\ step.record = Consolidate(met, turn, dec, moved, confirmation, fresh)
      /\ step.outcome = outcome /\ step.kept = kept
      /\ step.goal = moved.goal
      /\ step.memory = MemoryAfter(variant, memory, rec, moved.goal, reply, kept)
  BY <1>3 DEF Concluded
<1>5. /\ moved.goal = goal
      /\ moved.decided = plan.decided /\ moved.before = plan.before
      /\ moved.dispatched = plan.dispatched /\ moved.limit = plan.limit
      /\ moved.proposal = plan.proposal /\ moved.binding = plan.binding
      /\ moved.reissued = plan.reissued /\ moved.first = plan.first
      /\ moved.staged = plan.staged
  BY PlanWithGoal
<1>6. confirmation = ConfirmationAfter(dec, plan, outcome)
  BY <1>5 DEF ConfirmationAfter
<1>7. /\ operation \in Optional(ExternalOperation)
      /\ met \in Record
      /\ met.operation = operation /\ met.identity = loaded.identity
      /\ met.dispatch = loaded.dispatch /\ met.presentation = None
  <2>1. operation \in Optional(ExternalOperation)
    BY <1>1, EventsKeepTheOperation DEF Record
  <2> HIDE DEF operation
  <2> QED
    BY <1>1, <2>1 DEF Record
<1>8. /\ plan.goal \in Optional(ConversationGoal)
      /\ plan.before \in Optional(ConfirmationChallenge)
      /\ plan.staged \in Optional(ConfirmationChallenge)
      /\ plan.dispatched => plan.before # None
  BY <1>1, <1>2, NowAssumption, TurnPlanFacts
<1>9. goal \in Optional(ConversationGoal)
  BY <1>8 DEF Optional
<1>10. confirmation \in Optional(ConfirmationChallenge)
  <2>1. ASSUME NEW o PROVE ConfirmationAfter(dec, plan, o) \in Optional(ConfirmationChallenge)
    BY <1>1, <1>2, <1>8, NowAssumption, ConfirmationAfterFacts DEF Optional
  <2> QED
    BY <1>6, <2>1
<1>11. plan.dispatched => /\ NewDispatch(plan.before, fresh) \in AuthorizedDispatch
                          /\ NewOperation(plan.before, fresh) \in ExternalOperation
  BY <1>8 DEF NewDispatch, NewOperation, AuthorizedDispatch, ExternalOperation, Optional,
              ConfirmationChallenge, OperationStatus
<1>12. PresentationAfter(met, turn, dec) = None
  BY <1>7 DEF PresentationAfter, ReplayedInput
<1>13. 0 \in 0..MaxVoiceFailures
  BY LimitsAssumption
<1> DEFINE ordered == IF plan.dispatched THEN NewDispatch(plan.before, fresh) ELSE met.dispatch
           begun == IF plan.dispatched THEN NewOperation(plan.before, fresh) ELSE met.operation
<1> HIDE DEF turn, goal, moved, operation, met, outcome, kept, confirmation
<1>14. /\ ordered \in Optional(AuthorizedDispatch)
       /\ begun \in Optional(ExternalOperation)
  BY <1>7, <1>11 DEF Record, Optional
<1>15. step.record = [met EXCEPT !.turned = TRUE, !.goal = goal, !.confirmation = confirmation,
                                 !.dispatch = ordered, !.operation = begun,
                                 !.presentation = None, !.voiceRetry = 0]
  BY <1>4, <1>5, <1>12 DEF Consolidate
<1>16. ordered = (IF plan.dispatched THEN NewDispatch(plan.before, fresh) ELSE rec.dispatch)
       /\ begun = (IF plan.dispatched THEN NewOperation(plan.before, fresh) ELSE operation)
  BY <1>1, <1>7
<1> HIDE DEF ordered, begun
<1>17. /\ step.record.goal = goal /\ step.record.confirmation = confirmation
       /\ step.record.dispatch = ordered /\ step.record.operation = begun
       /\ step.record.presentation = None /\ step.record.identity = met.identity
  BY <1>7, <1>15 DEF Record
<1>18. step.record \in Record
  BY <1>7, <1>9, <1>10, <1>13, <1>14, <1>15 DEF Record, Optional
<1>19. operation = ApplyExternalEvent(rec.operation, event)
  BY <1>1 DEF operation
<1>20. goal = (IF ~plan.dispatched /\ ConfirmsOperation(rec.operation, event)
               THEN None ELSE plan.goal)
  BY <1>1 DEF goal
<1> QED
  BY <1>2, <1>4, <1>5, <1>6, <1>7, <1>16, <1>17, <1>18, <1>19, <1>20

\* A confirmation is spoken only for a challenge the plan has staged, and each of its two
\* occasions is one the caller or the model gave.
LEMMA StagedOnAsking ==
    ASSUME NEW rec \in Record, NEW dec \in Optional(ModelTurnDecision), NEW now \in Nat,
           NEW fresh \in Nat, NEW plan, plan = TurnPlan(rec, dec, now, fresh)
    PROVE  /\ plan.reissued => dec.observation = "AFFIRMATIVE"
           /\ plan.first => dec.request
           /\ plan.dispatched => dec.observation = "AFFIRMATIVE"
  BY DEF TurnPlan, ConfirmationError

\* What a replayed turn can say: a canonical confirmation only when the plan calls for one.
LEMMA ReplayedSpeech ==
    ASSUME NEW rec, Replayable(rec), NEW event \in CorpusEvent,
           NEW reply \in Optional(ModelReply), NEW fresh \in Nat, NEW variant, NEW memory,
           NEW step, step = ReplayTurn(variant, rec, memory, event, reply, fresh),
           NEW loaded, loaded = Reconciled(rec, event),
           NEW dec, dec = DecisionOf(reply),
           NEW plan, plan = TurnPlan(loaded, dec, Now, fresh),
           step.outcome # None, step.outcome.message = "confirmation"
    PROVE  /\ ~plan.limit /\ plan.decided /\ (plan.reissued \/ plan.first)
           /\ step.outcome = Say("LISTEN", "confirmation")
<1> DEFINE turn == ReplayedInput(reply # None)
           goal == IF ~plan.dispatched /\ ConfirmsOperation(loaded.operation, event)
                   THEN None ELSE plan.goal
           moved == [plan EXCEPT !.goal = goal]
           met == [loaded EXCEPT !.operation = ApplyExternalEvent(loaded.operation, event)]
           outcome == ReplayedOutcome(loaded, met, turn, dec, moved, fresh)
<1>1. step.outcome = outcome
  BY DEF ReplayTurn, Met, DecisionOf, Drawn, Planned, Selected, Concluded
<1>2. /\ moved.limit = plan.limit /\ moved.reissued = plan.reissued
      /\ moved.first = plan.first /\ moved.dispatched = plan.dispatched
      /\ moved.proposal = plan.proposal /\ moved.binding = plan.binding
      /\ moved.before = plan.before
  BY PlanWithGoal
<1>3. loaded \in Record /\ dec \in Optional(ModelTurnDecision)
  BY ReconciledFacts, ReplayedFacts
<1>4. /\ plan.reissued \/ plan.first => plan.decided
      /\ {plan.proposal, plan.binding} \subseteq BOOLEAN
  BY <1>3, NowAssumption, QuestionIsStaged, TurnPlanFacts
<1> DEFINE guarded == GuardOutcome(met, moved.goal, dec, plan.proposal \/ plan.binding, Now)
<1>5. guarded # None => guarded.message # "confirmation"
  BY <1>3, <1>4, GuardOutcomeFacts
<1>6. PresentationOutcome(met, turn, dec) = Say("LISTEN", "waiting")
  BY DEF PresentationOutcome, ReplayedInput
<1> HIDE DEF guarded, turn, goal, moved, met
<1>7. outcome = IF plan.limit THEN [Say("TRANSFER", "limit") EXCEPT !.violated = plan.proposal]
                ELSE IF PresentationIsActive(loaded) THEN Say("LISTEN", "waiting")
                ELSE SpokenOutcome(met, dec, Now, moved, fresh)
  BY <1>2, <1>6 DEF ReplayedOutcome
<1> HIDE DEF outcome
<1>8. \/ plan.reissued \/ plan.first
      \/ SpokenOutcome(met, dec, Now, moved, fresh).message = "processing"
      \/ SpokenOutcome(met, dec, Now, moved, fresh) = guarded
  BY <1>2 DEF SpokenOutcome, guarded
<1>9. [Say("TRANSFER", "limit") EXCEPT !.violated = plan.proposal].message = "limit"
      /\ Say("LISTEN", "waiting").message = "waiting"
  BY DEF Say
<1>10. ~plan.limit /\ ~PresentationIsActive(loaded)
       /\ outcome = SpokenOutcome(met, dec, Now, moved, fresh)
  BY <1>1, <1>7, <1>9
<1>11. plan.reissued \/ plan.first
  BY <1>1, <1>5, <1>8, <1>10
<1>12. outcome = Say("LISTEN", "confirmation")
  <2>1. \/ outcome = Say("LISTEN", "confirmation")
        \/ outcome.message = "processing"
        \/ outcome = guarded
    BY <1>2, <1>10 DEF SpokenOutcome, guarded
  <2> QED
    BY <1>1, <1>5, <2>1
<1> QED
  BY <1>1, <1>4, <1>10, <1>11, <1>12

\* The one challenge of a replay: after a turn the model answered, a challenge is pending
\* exactly when the turn asked for it, and everything it stands on is in the record it leaves.
LEMMA ReplayedQuestion ==
    ASSUME NEW rec, Replayable(rec), NEW event \in CorpusEvent,
           NEW reply \in Optional(ModelReply), NEW fresh \in Nat, NEW variant, NEW memory,
           NEW step, step = ReplayTurn(variant, rec, memory, event, reply, fresh),
           NEW dec, dec = DecisionOf(reply)
    PROVE  /\ Replayable(step.record)
           /\ step.record.confirmation # None /\ dec # None =>
                /\ step.outcome # None
                /\ step.outcome.step = "LISTEN" /\ ~step.outcome.violated
                /\ step.outcome.message \in {"confirmation", "candidate"}
                /\ dec.request \/ dec.observation = "AFFIRMATIVE"
                /\ step.outcome.message = "candidate" => dec.request
                /\ GoalIsDispatchable(step.record.goal)
                /\ Matches(step.record.confirmation, step.record.goal)
                /\ step.record.confirmation.validatedAt = step.record.identity.validatedAt
                /\ IsValidAt(step.record.identity, Now)
           /\ step.outcome # None /\ step.outcome.message = "confirmation" =>
                dec # None /\ step.record.confirmation # None
<1> DEFINE loaded == Reconciled(rec, event)
           plan == TurnPlan(loaded, dec, Now, fresh)
           new == step.record
           outcome == step.outcome
<1>1. /\ loaded \in Record /\ loaded.operation = rec.operation
      /\ RepairedChallenge(loaded) = loaded.confirmation
      /\ loaded.confirmation # None => rec.operation = None
  BY ReconciledFacts
<1>2. /\ dec \in Optional(ModelTurnDecision)
      /\ new \in Record /\ new.presentation = None
      /\ new.goal = (IF ~plan.dispatched /\ ConfirmsOperation(rec.operation, event)
                     THEN None ELSE plan.goal)
      /\ new.identity = loaded.identity
      /\ new.operation = (IF plan.dispatched THEN NewOperation(plan.before, fresh)
                          ELSE ApplyExternalEvent(rec.operation, event))
      /\ new.confirmation = ConfirmationAfter(dec, plan, outcome)
  BY ReplayedFacts
<1>3. /\ plan.decided = (dec # None /\ ~PresentationIsActive(loaded))
      /\ plan.reissued \/ plan.first => plan.decided /\ plan.staged # None
      /\ plan.staged \in Optional(ConfirmationChallenge)
      /\ plan.staged # None =>
           /\ plan.staged = NewChallenge(plan.goal, loaded.identity, fresh)
           /\ plan.goal # None
           /\ EligibleForChallenge(loaded, plan.goal, Now)
      /\ plan.dispatched => plan.decided /\ plan.staged = None
      /\ ~plan.decided => plan.before \in {None, RepairedChallenge(loaded)}
  BY <1>1, <1>2, NowAssumption, QuestionIsStaged, TurnPlanFacts
<1>4. /\ plan.reissued => dec.observation = "AFFIRMATIVE"
      /\ plan.first => dec.request
  BY <1>1, <1>2, NowAssumption, StagedOnAsking
<1>5. outcome # None /\ outcome.message = "confirmation" =>
        /\ ~plan.limit /\ plan.decided /\ (plan.reissued \/ plan.first)
        /\ outcome = Say("LISTEN", "confirmation")
  BY ReplayedSpeech
<1>6. new.confirmation = IF plan.limit THEN None
                         ELSE IF ~plan.decided THEN plan.before
                         ELSE IF plan.staged # None
                                 /\ CommitIsCoherent(plan.staged, outcome, dec,
                                                     plan.reissued \/ plan.first)
                         THEN plan.staged ELSE None
  BY <1>2 DEF ConfirmationAfter
<1>7. ApplyExternalEvent(None, event) = None
  BY DEF ApplyExternalEvent
<1> HIDE DEF loaded, plan, new, outcome
<1>8. ASSUME plan.decided, new.confirmation # None
      PROVE  /\ new.confirmation = plan.staged /\ ~plan.dispatched
             /\ CommitIsCoherent(plan.staged, outcome, dec, plan.reissued \/ plan.first)
             /\ EligibleForChallenge(loaded, plan.goal, Now)
             /\ plan.goal # None /\ rec.operation = None /\ new.operation = None
             /\ new.goal = plan.goal
  <2>1. /\ new.confirmation = plan.staged /\ plan.staged # None
        /\ CommitIsCoherent(plan.staged, outcome, dec, plan.reissued \/ plan.first)
    BY <1>6, <1>8
  <2>2. EligibleForChallenge(loaded, plan.goal, Now) /\ ~plan.dispatched /\ plan.goal # None
    BY <1>3, <2>1
  <2>3. rec.operation = None
    BY <1>1, <2>2 DEF EligibleForChallenge, BudgetConsumed
  <2>4. ~ConfirmsOperation(rec.operation, event)
    BY <2>3 DEF ConfirmsOperation, IsActive
  <2> QED
    BY <1>2, <1>7, <2>1, <2>2, <2>3, <2>4
<1>9. ASSUME ~plan.decided, new.confirmation # None
      PROVE  new.operation = None /\ ~PresentationIsActive(loaded)
  <2>1. rec.operation = None
    BY <1>1, <1>3, <1>6, <1>9
  <2> QED
    BY <1>1, <1>2, <1>3, <1>7, <1>9, <2>1 DEF PresentationIsActive
<1>10. Replayable(new)
  BY <1>2, <1>8, <1>9 DEF Replayable
<1>11. ASSUME new.confirmation # None, dec # None
       PROVE  /\ outcome # None
              /\ outcome.step = "LISTEN" /\ ~outcome.violated
              /\ outcome.message \in {"confirmation", "candidate"}
              /\ dec.request \/ dec.observation = "AFFIRMATIVE"
              /\ outcome.message = "candidate" => dec.request
              /\ GoalIsDispatchable(new.goal)
              /\ Matches(new.confirmation, new.goal)
              /\ new.confirmation.validatedAt = new.identity.validatedAt
              /\ IsValidAt(new.identity, Now)
  <2>1. plan.decided
    BY <1>3, <1>9, <1>11
  <2>2. /\ new.confirmation = NewChallenge(plan.goal, loaded.identity, fresh)
        /\ CommitIsCoherent(plan.staged, outcome, dec, plan.reissued \/ plan.first)
        /\ EligibleForChallenge(loaded, plan.goal, Now)
        /\ plan.goal # None /\ new.goal = plan.goal
    BY <1>3, <1>8, <1>11, <2>1
  <2>3. /\ outcome # None
        /\ outcome.step = "LISTEN" /\ ~outcome.violated
        /\ outcome.message = (IF plan.reissued \/ plan.first THEN "confirmation"
                              ELSE "candidate")
        /\ (plan.reissued \/ plan.first) \/ dec.request
    BY <2>2 DEF CommitIsCoherent
  <2>4. /\ GoalIsDispatchable(new.goal) /\ IsValidAt(new.identity, Now)
        /\ Matches(new.confirmation, new.goal)
        /\ new.confirmation.validatedAt = new.identity.validatedAt
    BY <1>2, <2>2 DEF EligibleForChallenge, NewChallenge, Matches
  <2> QED
    BY <1>4, <2>3, <2>4
<1>12. ASSUME outcome # None, outcome.message = "confirmation"
       PROVE  dec # None /\ new.confirmation # None
  <2>1. /\ ~plan.limit /\ plan.decided /\ (plan.reissued \/ plan.first)
        /\ outcome = Say("LISTEN", "confirmation")
    BY <1>5, <1>12
  <2>2. CommitIsCoherent(plan.staged, outcome, dec, plan.reissued \/ plan.first)
    BY <1>12, <2>1 DEF CommitIsCoherent, Say
  <2> QED
    BY <1>3, <1>6, <2>1, <2>2
<1> QED
  BY <1>10, <1>11, <1>12 DEF new, outcome

\* A replayed turn leaves the dispatch alone, or makes the first one of the trial, which what
\* the lab saw before the turn permits.
LEMMA ReplayedOrder ==
    ASSUME NEW rec, Replayable(rec), NEW event \in CorpusEvent,
           NEW reply \in Optional(ModelReply), NEW fresh \in Nat, NEW variant, NEW memory,
           NEW step, step = ReplayTurn(variant, rec, memory, event, reply, fresh)
    PROVE  \/ step.record.dispatch = rec.dispatch
           \/ /\ rec.dispatch = None /\ step.record.dispatch # None
              /\ step.record.dispatch.operation = fresh
              /\ reply # None
              /\ DispatchEligible(ProjectRecord(rec, memory))
<1> DEFINE loaded == Reconciled(rec, event)
           dec == DecisionOf(reply)
           plan == TurnPlan(loaded, dec, Now, fresh)
           before == ProjectRecord(rec, memory)
<1>1. /\ loaded \in Record
      /\ loaded.goal = rec.goal /\ loaded.dispatch = rec.dispatch
      /\ loaded.operation = rec.operation
      /\ loaded.confirmation # None =>
           /\ loaded.confirmation = rec.confirmation
           /\ loaded.identity.validatedAt = rec.identity.validatedAt
  BY ReconciledFacts
<1>2. /\ dec \in Optional(ModelTurnDecision) /\ (dec = None) = (reply = None)
      /\ step.record \in Record
      /\ step.record.dispatch = (IF plan.dispatched THEN NewDispatch(plan.before, fresh)
                                 ELSE rec.dispatch)
  BY ReplayedFacts
<1>3. CASE ~plan.dispatched
  BY <1>2, <1>3
<1>4. CASE plan.dispatched
  <2>1. /\ Consented(loaded, Now) /\ plan.before = loaded.confirmation
        /\ dec # None
        /\ loaded.confirmation.validatedAt = loaded.identity.validatedAt
        /\ rec.dispatch = None /\ rec.operation = None
    BY <1>1, <1>2, <1>4, NowAssumption, NoOutcomeAssumption, DispatchedPlan
  <2> HIDE DEF loaded, plan, dec
  <2>2. step.record.dispatch = NewDispatch(loaded.confirmation, fresh)
    BY <1>2, <1>4, <2>1
  <2>3. loaded.confirmation \in ConfirmationChallenge
    BY <1>1, <2>1 DEF Record, Optional, Consented
  <2>4. NewDispatch(loaded.confirmation, fresh) \in AuthorizedDispatch
    BY <2>3 DEF NewDispatch, AuthorizedDispatch, ConfirmationChallenge
  <2>5. /\ step.record.dispatch # None /\ step.record.dispatch.operation = fresh
    BY <2>2, <2>4, NoneAssumption DEF NewDispatch
  <2>6. /\ rec.confirmation # None /\ Matches(rec.confirmation, rec.goal)
        /\ IsValidAt(rec.identity, Now)
        /\ rec.confirmation.validatedAt = rec.identity.validatedAt
    BY <1>1, <2>1 DEF Consented, IsValidAt
  <2>7. rec.goal \in ConversationGoal
    BY <2>6 DEF Replayable, Record, Optional, Matches
  <2>8. rec.goal.action # None
    BY <2>7, NoneAssumption DEF ConversationGoal
  <2>9. /\ before.identityValid /\ before.action = rec.goal.action
        /\ before.revision = rec.goal.revision /\ before.challenge = rec.confirmation
        /\ before.validatedAt = rec.identity.validatedAt
        /\ before.dispatch = None /\ before.operation = "none"
    BY <2>1, <2>6 DEF ProjectRecord, Matches
  <2>10. DispatchEligible(before)
    BY <2>6, <2>8, <2>9 DEF DispatchEligible, Matches
  <2> QED
    BY <1>2, <2>1, <2>5, <2>10
<1> QED
  BY <1>3, <1>4

\* The one class of critical the lab may report without the runtime being at fault.
Harmless == {"INCOHERENT_CHALLENGE_PRESENTATION"}

\* The lab reports no executed critical of a turn that dispatched only what was eligible, and
\* that no other dispatch of its trial went before.
LEMMA EligibleIsHarmless ==
    ASSUME NEW before, NEW after, NEW obligation, NEW dec \in Optional(ModelTurnDecision),
           NEW event, NEW outcome, NEW dispatched \in BOOLEAN, NEW count \in {0, 1},
           dispatched => dec # None /\ DispatchEligible(before)
    PROVE  ObserveTurn(before, after, obligation, dec, event, outcome, dispatched,
                       count).criticals \subseteq Harmless
<1> DEFINE route == IF outcome = None THEN None ELSE LegacyRoute[outcome.step]
           eligible == dec # None /\ DispatchEligible(before)
           cause == HandoffCauseOf(route, dec)
<1>1. route = "ESCALATE" => cause # None
  <2>1. "TERMINAL_FAILURE" # None
    BY NoOutcomeAssumption DEF HandoffCause
  <2> QED
    BY <2>1 DEF HandoffCauseOf
<1>2. dispatched => before.operation \notin {"pending", "unknown"}
  BY DEF DispatchEligible
<1>3. DetectExecutedCriticals(before, dispatched, eligible, count, route, cause) = {}
  BY <1>1, <1>2 DEF DetectExecutedCriticals
<1> QED
  BY <1>3 DEF ObserveTurn, Harmless

\* Reset and Unlock, the words: what the projection of a goal can be told apart by.
LEMMA ProjectedGoal ==
    ASSUME NEW rec \in Record, NEW memory
    PROVE  LET after == ProjectRecord(rec, memory)
           IN  /\ after.challenge = rec.confirmation
               /\ rec.goal # None =>
                    /\ after.action = rec.goal.action /\ after.revision = rec.goal.revision
                    /\ after.mode = rec.goal.mode
               /\ after.action = Reset => rec.goal # None
  BY NoneAssumption DEF ProjectRecord, Action

\* A turn nobody spoke opens no challenge, and beside a pending one says nothing but that the
\* call is handed over.
LEMMA ReplayedSilence ==
    ASSUME NEW rec, Replayable(rec), NEW event \in CorpusEvent, NEW fresh \in Nat,
           NEW variant, NEW memory,
           NEW step, step = ReplayTurn(variant, rec, memory, event, None, fresh),
           step.record.confirmation # None
    PROVE  /\ step.record.confirmation = rec.confirmation
           /\ step.outcome = None \/ step.outcome.step = "TRANSFER"
<1> DEFINE loaded == Reconciled(rec, event)
           plan == TurnPlan(loaded, None, Now, fresh)
           turn == ReplayedInput(FALSE)
           goal == IF ~plan.dispatched /\ ConfirmsOperation(loaded.operation, event)
                   THEN None ELSE plan.goal
           moved == [plan EXCEPT !.goal = goal]
           met == [loaded EXCEPT !.operation = ApplyExternalEvent(loaded.operation, event)]
           outcome == step.outcome
<1> USE DEF Optional
<1>1. /\ loaded \in Record /\ RepairedChallenge(loaded) = loaded.confirmation
      /\ loaded.operation = rec.operation
      /\ loaded.confirmation # None => /\ loaded.confirmation = rec.confirmation
                                       /\ rec.operation = None
  BY ReconciledFacts
<1>2. step.record.confirmation = ConfirmationAfter(None, plan, outcome)
  BY ReplayedFacts DEF DecisionOf
<1>3. /\ ~plan.decided /\ ~plan.dispatched /\ ~plan.reissued /\ ~plan.first
      /\ plan.before \in {None, RepairedChallenge(loaded)}
  BY <1>1, NowAssumption, QuestionIsStaged, TurnPlanFacts
<1>4. outcome = ReplayedOutcome(loaded, met, turn, None, moved, fresh)
  BY DEF ReplayTurn, Met, Drawn, Planned, Selected, Concluded
<1>5. /\ moved.limit = plan.limit /\ moved.reissued = plan.reissued
      /\ moved.first = plan.first /\ moved.dispatched = plan.dispatched
      /\ moved.proposal = plan.proposal /\ moved.binding = plan.binding
  BY PlanWithGoal
<1> HIDE DEF loaded, plan, turn, goal, moved, met, outcome
<1>6. ~plan.limit /\ plan.before # None
  BY <1>2, <1>3 DEF ConfirmationAfter
<1>7. ~PresentationIsActive(loaded) /\ plan.before = rec.confirmation
  BY <1>1, <1>3, <1>6 DEF PresentationIsActive
<1>8. outcome = GuardOutcome(met, moved.goal, None, moved.proposal \/ moved.binding, Now)
  BY <1>3, <1>4, <1>5, <1>6, <1>7 DEF ReplayedOutcome, SpokenOutcome
<1>9. outcome = None \/ outcome.step = "TRANSFER"
  BY <1>8 DEF GuardOutcome, Say
<1>10. step.record.confirmation = rec.confirmation
  BY <1>2, <1>3, <1>6, <1>7 DEF ConfirmationAfter
<1> QED
  BY <1>9, <1>10 DEF outcome

\* What the lab saw of a turn that said message and left rec is true to it: it names a
\* canonical confirmation exactly when one was spoken, finds coherent every challenge that
\* replaced none, and expects of the caller what the next turn is read for.
IsTrueTo(seen, message, rec) ==
    /\ seen.source \in Reconfirmed => message = "confirmation"
    /\ seen.before.challenge = None =>
         /\ message = "confirmation" => seen.source \in Reconfirmed
         /\ seen.coherent
    /\ seen.expects = "ACTION_CONFIRMATION" => ChallengeIsConsumable(rec, Now)
    /\ seen.expects = "ASSISTANCE_MODE_CHOICE" =>
         /\ rec.goal # None /\ rec.goal.action = Reset /\ rec.goal.mode = "UNDECIDED"
         /\ ~ChallengeIsConsumable(rec, Now)

MessageOf(outcome) == IF outcome = None THEN "none" ELSE outcome.message

\* What the lab sees of a replayed turn is true to it.
LEMMA SeenIsHonest ==
    ASSUME NEW rec, Replayable(rec), NEW event \in CorpusEvent,
           NEW reply \in Optional(ModelReply), NEW fresh \in Nat, NEW variant, NEW memory,
           NEW step, step = ReplayTurn(variant, rec, memory, event, reply, fresh),
           NEW dec, dec = DecisionOf(reply), NEW obligation, NEW dispatched, NEW count,
           NEW seen, seen = ObserveTurn(ProjectRecord(rec, memory),
                                        ProjectRecord(step.record, step.memory), obligation,
                                        dec, event, step.outcome, dispatched, count)
    PROVE  IsTrueTo(seen, MessageOf(step.outcome), step.record)
<1> DEFINE before == ProjectRecord(rec, memory)
           new == step.record
           after == ProjectRecord(new, step.memory)
           outcome == step.outcome
           message == MessageOf(outcome)
           transition == ConfirmationTransition(before, after, dispatched,
                             IF dec = None THEN "NONE" ELSE dec.observation)
           overridden == dec # None /\ outcome # None /\ outcome.message # "candidate"
           recovery == RecoveryObservationApplies(before, after, dec, event, outcome)
           first == /\ overridden /\ before.challenge = None /\ after.challenge # None
                    /\ outcome.step = "LISTEN" /\ ~outcome.violated /\ ~recovery
           act == RequiredAct(outcome, after, dec, recovery)
<1>1. /\ seen.before = before
      /\ seen.source = MessageSource(outcome, dec, overridden, transition.state, recovery, first)
      /\ seen.expects = ExpectedUserResponse(act, after)
      /\ seen.coherent = ChallengePresentationCoherent(after, transition.state, act)
  BY DEF ObserveTurn
<1>2. /\ Replayable(new)
      /\ new.confirmation # None /\ dec # None =>
           /\ outcome # None
           /\ outcome.step = "LISTEN" /\ ~outcome.violated
           /\ outcome.message \in {"confirmation", "candidate"}
           /\ dec.request \/ dec.observation = "AFFIRMATIVE"
           /\ outcome.message = "candidate" => dec.request
           /\ GoalIsDispatchable(new.goal)
           /\ Matches(new.confirmation, new.goal)
           /\ new.confirmation.validatedAt = new.identity.validatedAt
           /\ IsValidAt(new.identity, Now)
      /\ outcome # None /\ outcome.message = "confirmation" =>
           dec # None /\ new.confirmation # None
  BY ReplayedQuestion
<1>3. /\ after.challenge = new.confirmation
      /\ new.goal # None =>
           /\ after.action = new.goal.action /\ after.revision = new.goal.revision
           /\ after.mode = new.goal.mode
      /\ after.action = Reset => new.goal # None
  BY <1>2, ProjectedGoal DEF Replayable
<1>4. before.challenge = rec.confirmation
  BY DEF ProjectRecord
<1>5. dec # None \/ (dec = None /\ reply = None)
  BY ReplayedFacts
<1>6. dec = None /\ new.confirmation # None =>
        /\ new.confirmation = rec.confirmation
        /\ (outcome = None \/ outcome.step = "TRANSFER")
  BY <1>5, ReplayedSilence
<1>7. act = "ASK_ACTION_CONFIRMATION" =>
        /\ dec # None /\ after.challenge # None
        /\ outcome # None /\ outcome.step \notin {"EXECUTE_ACTION", "COMPLETE", "TRANSFER"}
  BY DEF RequiredAct, RecoveryObservationApplies
<1>8. ASSUME outcome # None, outcome.step = "LISTEN", ~outcome.violated,
             after.challenge # None, (dec # None /\ dec.request) \/ recovery
      PROVE  act = "ASK_ACTION_CONFIRMATION"
  <2> HIDE DEF recovery
  <2> QED
    BY <1>8 DEF RequiredAct
<1>9. seen.source \in Reconfirmed => message = "confirmation"
  <2> SUFFICES ASSUME seen.source \in Reconfirmed PROVE message = "confirmation"
    OBVIOUS
  <2>1. dec # None /\ outcome # None /\ overridden /\ (recovery \/ first)
    BY <1>1 DEF MessageSource, Reconfirmed
  <2>2. new.confirmation # None
    BY <1>3, <2>1 DEF RecoveryObservationApplies
  <2> QED
    BY <1>2, <2>1, <2>2 DEF MessageOf
<1>10. ASSUME before.challenge = None, new.confirmation # None
       PROVE  /\ dec # None
              /\ ~dec.request => recovery
              /\ act = "ASK_ACTION_CONFIRMATION"
  <2>1. dec # None
    BY <1>4, <1>6, <1>10
  <2>2. ~dec.request => recovery
    BY <1>2, <1>3, <1>10, <2>1 DEF RecoveryObservationApplies
  <2> HIDE DEF recovery, act
  <2> QED
    BY <1>2, <1>3, <1>8, <1>10, <2>1, <2>2
<1>11. ASSUME before.challenge = None, message = "confirmation"
       PROVE  seen.source \in Reconfirmed
  <2>1. /\ outcome # None /\ outcome.message = "confirmation"
        /\ dec # None /\ new.confirmation # None
    BY <1>2, <1>11 DEF MessageOf
  <2>2. overridden /\ (recovery \/ first)
    BY <1>2, <1>3, <1>11, <2>1
  <2> HIDE DEF recovery, first, overridden
  <2> QED
    BY <1>1, <2>1, <2>2 DEF MessageSource, Reconfirmed
<1>12. ASSUME before.challenge = None
       PROVE  seen.coherent
  <2>1. CASE new.confirmation = None
    BY <1>1, <1>3, <2>1 DEF ChallengePresentationCoherent
  <2>2. CASE new.confirmation # None
    <3>1. dec # None /\ act = "ASK_ACTION_CONFIRMATION"
      BY <1>10, <1>12, <2>2
    <3>2. Matches(new.confirmation, new.goal)
      BY <1>2, <2>2, <3>1
    <3> HIDE DEF act
    <3> QED
      BY <1>1, <1>3, <3>1, <3>2 DEF ChallengePresentationCoherent, Matches
  <2> QED
    BY <2>1, <2>2
<1>13. ASSUME seen.expects = "ACTION_CONFIRMATION"
       PROVE  ChallengeIsConsumable(new, Now)
  <2>1. act = "ASK_ACTION_CONFIRMATION"
    BY <1>1, <1>13 DEF ExpectedUserResponse
  <2>2. dec # None /\ new.confirmation # None
    BY <1>3, <1>7, <2>1
  <2> QED
    BY <1>2, <2>2 DEF ChallengeIsConsumable
<1>14. ASSUME seen.expects = "ASSISTANCE_MODE_CHOICE"
       PROVE  /\ new.goal # None /\ new.goal.action = Reset /\ new.goal.mode = "UNDECIDED"
              /\ ~ChallengeIsConsumable(new, Now)
  <2>1. /\ act \notin {"NONE", "TRANSFER_TO_HUMAN"}
        /\ after.action = Reset /\ after.mode = "UNDECIDED"
    BY <1>1, <1>14 DEF ExpectedUserResponse
  <2>2. new.goal # None /\ new.goal.action = Reset /\ new.goal.mode = "UNDECIDED"
    BY <1>3, <2>1
  <2>3. new.confirmation = None
    <3> SUFFICES ASSUME new.confirmation # None PROVE FALSE
      OBVIOUS
    <3>1. CASE dec # None
      BY <1>2, <2>2, <3>1 DEF GoalIsDispatchable
    <3>2. CASE dec = None
      BY <1>6, <2>1, <3>2 DEF RequiredAct
    <3> QED
      BY <3>1, <3>2
  <2> QED
    BY <2>2, <2>3 DEF ChallengeIsConsumable
<1> HIDE DEF new, outcome, before, act
<1> QED
  BY <1>1, <1>9, <1>11, <1>12, <1>13, <1>14 DEF new, outcome, IsTrueTo

\* What a turn makes of the memory: what ran and waited stays legal and is handed to the goal
\* the turn leaves, and a run without recent memory leaves it alone.
LEMMA MemoryMoves ==
    ASSUME NEW memory, MemoryShape(memory), LegalProcedure(memory.procedure),
           LegalSuspended(memory.suspended),
           NEW rec, rec.goal \in Optional(ConversationGoal),
           NEW goal \in Optional(ConversationGoal),
           \/ BelongsTo(memory, rec.goal)
           \/ memory.procedure = None /\ memory.suspended = None,
           NEW reply \in Optional(ModelReply), NEW kept,
           NEW variant \in MemoryVariant, variant # "no_recent_memory"
    PROVE  LET left == MemoryAfter(variant, memory, rec, goal, reply, kept)
           IN  /\ MemoryShape(left)
               /\ LegalProcedure(left.procedure) /\ LegalSuspended(left.suspended)
               /\ BelongsTo(left, goal)
<1> DEFINE moved == ApplyGoalLifecycle(memory, rec.goal, goal)
           procedure == IF reply = None THEN moved.procedure
                        ELSE ApplyProcedureObservation(moved.procedure, reply.cue)
           cued == IF reply = None THEN moved
                   ELSE [moved EXCEPT !.procedure =
                            ApplyProcedureObservation(moved.procedure, reply.cue)]
           left == MemoryAfter(variant, memory, rec, goal, reply, kept)
<1>1. /\ LegalProcedure(moved.procedure) /\ LegalSuspended(moved.suspended)
      /\ BelongsTo(moved, goal)
  BY GoalsKeepTheProcedure, GoalsHandOver DEF BelongsTo
<1>2. MemoryShape(moved)
  BY DEF ApplyGoalLifecycle, MemoryShape
<1>3. reply # None => reply.cue \in ProcedureObservation
  BY DEF Optional, ModelReply
<1> HIDE DEF moved
<1>4. /\ LegalProcedure(procedure)
      /\ (procedure = None) = (moved.procedure = None)
      /\ procedure # None => procedure.revision = moved.procedure.revision
  BY <1>1, <1>3, CuesKeepTheProcedure, CuesKeepBelonging
<1> HIDE DEF procedure
<1>5. /\ MemoryShape(cued)
      /\ cued.procedure = procedure /\ cued.suspended = moved.suspended
  BY <1>2 DEF MemoryShape, procedure
<1> HIDE DEF cued
<1>6. \A w : LET m == [cued EXCEPT !.window = w]
             IN  /\ MemoryShape(m)
                 /\ m.procedure = cued.procedure /\ m.suspended = cued.suspended
  BY <1>5 DEF MemoryShape
<1>7. left = cued \/ \E w : left = [cued EXCEPT !.window = w]
  BY DEF MemoryAfter, MemoryVariant, cued, moved
<1>8. /\ MemoryShape(left)
      /\ left.procedure = procedure /\ left.suspended = moved.suspended
  BY <1>5, <1>6, <1>7
<1> HIDE DEF left
<1> QED
  BY <1>1, <1>4, <1>8 DEF BelongsTo, left

--------------------------------------------------------------------------------
(* The window of recent pairs. *)

\* A set of naturals has a least element: the induction of this section goes by the first number
\* that would refute it.
LEMMA LeastNatural ==
    ASSUME NEW T, T \subseteq Nat, T # {}
    PROVE  \E x \in T : \A y \in T : x <= y
<1> DEFINE R == OpToRel(<, Nat)
<1>1. IsWellFoundedOn(R, Nat)
  BY NatLessThanWellFounded
<1>2. \A x, y \in Nat : x < y => <<x, y>> \in R
  BY DEF OpToRel
<1> HIDE DEF R
<1>3. PICK x \in T : \A y \in T : ~ (<<y, x>> \in R)
  BY <1>1, WFMin
<1>4. ASSUME NEW y \in T PROVE x <= y
  <2>1. x \in Nat /\ y \in Nat
    BY <1>3
  <2>2. ~ (<<y, x>> \in R)
    BY <1>3
  <2>3. ~ (y < x)
    BY <1>2, <2>1, <2>2
  <2> QED
    BY <2>1, <2>3
<1> QED
  BY <1>4

\* What Min picks.
LEMMA MinIsLeast ==
    ASSUME NEW T, T \subseteq Nat, T # {}
    PROVE  Min(T) \in T /\ \A y \in T : Min(T) <= y
  BY LeastNatural DEF Min

\* f adds up the sizes of the first n pairs of a window.
Adds(f, window, n) ==
    /\ f[0] = 0
    /\ \A i \in 1..n : f[i] = f[i - 1] + window[i].size

\* A window whose sizes can be added up.
Sized(window) ==
    /\ window \in Seq(TurnPair)
    /\ Len(window) \in Nat /\ DOMAIN window = 1..Len(window)
    /\ \A i \in 1..Len(window) : window[i].size \in Nat

\* Every stored window is sized.
LEMMA PairsAreSized ==
    ASSUME NEW window \in Seq(TurnPair) PROVE Sized(window)
<1>1. \A i \in 1..Len(window) : window[i] \in TurnPair
  OBVIOUS
<1>2. \A pair \in TurnPair : pair.size \in Nat
  BY WindowAssumption DEF TurnPair
<1> QED
  BY <1>1, <1>2 DEF Sized

\* There are such sums.
LEMMA SumsExist ==
    ASSUME NEW window, Sized(window)
    PROVE  \E f \in [0..Len(window) -> Nat] : Adds(f, window, Len(window))
<1> DEFINE Summed(n) == \E f \in [0..n -> Nat] : Adds(f, window, n)
           T == {n \in 0..Len(window) : ~Summed(n)}
<1>1. CASE T = {}
  <2>1. Len(window) \in 0..Len(window)
    BY DEF Sized
  <2> QED
    BY <1>1, <2>1
<1>2. CASE T # {}
  <2>1. T \subseteq Nat
    OBVIOUS
  <2>2. \A n : n \in T <=> n \in 0..Len(window) /\ ~Summed(n)
    OBVIOUS
  <2> HIDE DEF T
  <2>3. PICK n \in T : \A m \in T : n <= m
    BY <1>2, <2>1, LeastNatural
  <2>4. n \in Nat /\ n <= Len(window) /\ Len(window) \in Nat /\ ~Summed(n)
    BY <2>2, <2>3 DEF Sized
  <2>5. CASE n = 0
    <3>1. [i \in 0..0 |-> 0] \in [0..0 -> Nat] /\ Adds([i \in 0..0 |-> 0], window, 0)
      BY DEF Adds
    <3> QED
      BY <2>4, <2>5, <3>1
  <2>6. CASE n # 0
    <3>1. n - 1 \in 0..Len(window) /\ n - 1 \notin T
      BY <2>3, <2>4, <2>6
    <3>2. PICK f \in [0..(n - 1) -> Nat] : Adds(f, window, n - 1)
      BY <2>2, <3>1
    <3> DEFINE g == [i \in 0..n |-> IF i = n THEN f[n - 1] + window[n].size ELSE f[i]]
    <3>3. /\ f[0] = 0 /\ window[n].size \in Nat
          /\ \A i \in 1..(n - 1) : f[i] = f[i - 1] + window[i].size
      BY <2>4, <2>6, <3>2 DEF Adds, Sized
    <3>4. g \in [0..n -> Nat] /\ g[0] = 0
      BY <2>4, <2>6, <3>3
    <3>5. ASSUME NEW i \in 1..n PROVE g[i] = g[i - 1] + window[i].size
      BY <2>4, <2>6, <3>3, <3>5
    <3>6. Adds(g, window, n)
      BY <3>4, <3>5 DEF Adds
    <3> QED
      BY <2>4, <3>4, <3>6
  <2> QED
    BY <2>5, <2>6
<1> QED
  BY <1>1, <1>2

\* Two sums over the same sizes agree.
LEMMA SumsAgree ==
    ASSUME NEW window, NEW other, NEW n \in Nat, NEW f, Adds(f, window, n),
           NEW g, Adds(g, other, n), \A i \in 1..n : other[i].size = window[i].size
    PROVE  \A i \in 0..n : f[i] = g[i]
<1> DEFINE T == {i \in 0..n : f[i] # g[i]}
<1>1. CASE T = {}
  BY <1>1
<1>2. CASE T # {}
  <2>1. T \subseteq Nat /\ \A i : i \in T <=> i \in 0..n /\ f[i] # g[i]
    OBVIOUS
  <2> HIDE DEF T
  <2>2. PICK i \in T : \A j \in T : i <= j
    BY <1>2, <2>1, LeastNatural
  <2>3. i \in 0..n /\ f[i] # g[i] /\ i # 0
    BY <2>1, <2>2 DEF Adds
  <2>4. i - 1 \in 0..n /\ i - 1 \notin T
    BY <2>2, <2>3
  <2>5. f[i - 1] = g[i - 1]
    BY <2>1, <2>4
  <2>6. f[i] = f[i - 1] + window[i].size /\ g[i] = g[i - 1] + other[i].size
    BY <2>3 DEF Adds
  <2> QED
    BY <2>3, <2>5, <2>6
<1> QED
  BY <1>1, <1>2

\* BytesUpTo is such a sum.
LEMMA BytesAddUp ==
    ASSUME NEW window, Sized(window)
    PROVE  /\ Adds(BytesUpTo(window), window, Len(window))
           /\ \A i \in 0..Len(window) : BytesUpTo(window)[i] \in Nat
<1> DEFINE Step(f) == [i \in 0..Len(window) |->
                          IF i = 0 THEN 0 ELSE f[i - 1] + window[i].size]
           up == BytesUpTo(window)
<1>1. PICK f \in [0..Len(window) -> Nat] : Adds(f, window, Len(window))
  BY SumsExist
<1>2. f = Step(f)
  BY <1>1 DEF Adds, Sized
<1>3. up = CHOOSE upTo : upTo = Step(upTo)
  BY DEF BytesUpTo
<1> HIDE DEF up
<1>4. up = Step(up)
  BY <1>2, <1>3
<1>5. Adds(up, window, Len(window))
  BY <1>4 DEF Adds, Sized
<1>6. \A i \in 0..Len(window) : f[i] = up[i]
  BY <1>1, <1>5, SumsAgree DEF Sized
<1> QED
  BY <1>1, <1>5, <1>6 DEF up

\* The bytes of a window, one pair at a time.
LEMMA BytesOfAppend ==
    ASSUME NEW window \in Seq(TurnPair), NEW pair \in TurnPair
    PROVE  /\ BytesOf(<<>>) = 0
           /\ BytesOf(window) \in Nat
           /\ BytesOf(Append(window, pair)) = BytesOf(window) + pair.size
<1> DEFINE grown == Append(window, pair)
           n == Len(window)
           up == BytesUpTo(window)
           all == BytesUpTo(grown)
<1>0. grown \in Seq(TurnPair) /\ <<>> \in Seq(TurnPair)
  OBVIOUS
<1> HIDE DEF grown
<1>1. Sized(window) /\ Sized(grown) /\ Sized(<<>>)
  BY <1>0, PairsAreSized
<1>2. BytesOf(<<>>) = 0
  BY <1>1, BytesAddUp DEF BytesOf, Adds
<1>3. /\ n \in Nat /\ Len(grown) = n + 1
      /\ \A i \in 1..n : grown[i].size = window[i].size
      /\ grown[n + 1] = pair
  BY DEF grown
<1>4. Adds(up, window, n) /\ up[n] \in Nat
  BY <1>1, <1>3, BytesAddUp
<1>5. Adds(all, grown, n + 1)
  BY <1>1, <1>3, BytesAddUp
<1>6. BytesOf(window) = up[n] /\ BytesOf(grown) = all[n + 1]
  BY <1>3 DEF BytesOf
<1> HIDE DEF up, all, n
<1>7. Adds(all, grown, n) /\ all[n + 1] = all[n] + pair.size
  BY <1>3, <1>5 DEF Adds
<1>8. \A i \in 0..n : up[i] = all[i]
  BY <1>3, <1>4, <1>7, SumsAgree
<1> QED
  BY <1>2, <1>3, <1>4, <1>6, <1>7, <1>8 DEF grown

\* What is left when the oldest pairs are dropped.
LEMMA DroppedPairs ==
    ASSUME NEW window \in Seq(TurnPair), NEW n \in 0..Len(window)
    PROVE  /\ DropOldest(window, n) \in Seq(TurnPair)
           /\ Len(DropOldest(window, n)) = Len(window) - n
           /\ \A i \in 1..(Len(window) - n) : DropOldest(window, n)[i] = window[n + i]
<1>1. /\ n \in Int /\ n + 1 \in Int /\ Len(window) \in Int
      /\ \A i \in (n + 1)..Len(window) : window[i] \in TurnPair
  OBVIOUS
<1>2. /\ SubSeq(window, n + 1, Len(window)) \in Seq(TurnPair)
      /\ Len(SubSeq(window, n + 1, Len(window))) =
            IF n + 1 <= Len(window) THEN Len(window) - (n + 1) + 1 ELSE 0
      /\ \A i \in 1..(Len(window) - (n + 1) + 1) :
            SubSeq(window, n + 1, Len(window))[i] = window[n + 1 + i - 1]
  BY <1>1, SubSeqProperties
<1> QED
  BY <1>1, <1>2 DEF DropOldest

\* Dropping goes on where it stopped, and does not mind the pair that came in between.
LEMMA DropsCompose ==
    ASSUME NEW said \in Seq(TurnPair), NEW pair \in TurnPair, NEW n \in 0..Len(said),
           NEW k \in 0..(Len(said) - n)
    PROVE  /\ DropOldest(DropOldest(said, n), k) = DropOldest(said, n + k)
           /\ Append(DropOldest(said, n), pair) = DropOldest(Append(said, pair), n)
<1> DEFINE left == DropOldest(said, n)
           grown == Append(said, pair)
<1>1. /\ left \in Seq(TurnPair) /\ Len(left) = Len(said) - n
      /\ \A i \in 1..(Len(said) - n) : left[i] = said[n + i]
  BY DroppedPairs
<1>2. /\ grown \in Seq(TurnPair) /\ Len(grown) = Len(said) + 1
      /\ \A i \in 1..Len(said) : grown[i] = said[i]
      /\ grown[Len(said) + 1] = pair
  OBVIOUS
<1> HIDE DEF left, grown
<1>3. DropOldest(left, k) = DropOldest(said, n + k)
  <2> DEFINE s == DropOldest(left, k)
             t == DropOldest(said, n + k)
  <2>1. n + k \in 0..Len(said) /\ k \in 0..Len(left) /\ Len(said) \in Nat
    BY <1>1
  <2>2. /\ s \in Seq(TurnPair) /\ Len(s) = Len(left) - k
        /\ \A i \in 1..(Len(left) - k) : s[i] = left[k + i]
    BY <1>1, <2>1, DroppedPairs
  <2>3. /\ t \in Seq(TurnPair) /\ Len(t) = Len(said) - (n + k)
        /\ \A i \in 1..(Len(said) - (n + k)) : t[i] = said[n + k + i]
    BY <2>1, DroppedPairs
  <2> HIDE DEF s, t
  <2>4. Len(s) = Len(t) /\ Len(s) = Len(said) - n - k
    BY <1>1, <2>1, <2>2, <2>3
  <2>5. ASSUME NEW i \in 1..Len(s) PROVE s[i] = t[i]
    <3>1. /\ k + i \in 1..(Len(said) - n) /\ n + (k + i) = n + k + i
          /\ i \in 1..(Len(left) - k) /\ i \in 1..(Len(said) - (n + k))
      BY <1>1, <2>1, <2>4
    <3> QED
      BY <1>1, <2>2, <2>3, <3>1
  <2>6. s = t
    BY <2>2, <2>3, <2>4, <2>5, SeqEqual
  <2> QED
    BY <2>6 DEF s, t
<1>4. Append(left, pair) = DropOldest(grown, n)
  <2> DEFINE s == Append(left, pair)
             t == DropOldest(grown, n)
  <2>1. n \in 0..Len(grown) /\ Len(said) \in Nat /\ Len(left) \in Nat
    BY <1>1, <1>2
  <2>2. /\ t \in Seq(TurnPair) /\ Len(t) = Len(grown) - n
        /\ \A i \in 1..(Len(grown) - n) : t[i] = grown[n + i]
    BY <1>2, <2>1, DroppedPairs
  <2>3. /\ s \in Seq(TurnPair) /\ Len(s) = Len(left) + 1
        /\ \A i \in 1..Len(left) : s[i] = left[i]
        /\ s[Len(left) + 1] = pair
    BY <1>1
  <2> HIDE DEF s, t
  <2>4. Len(s) = Len(t) /\ Len(s) = Len(said) - n + 1
    BY <1>1, <1>2, <2>1, <2>2, <2>3
  <2>5. ASSUME NEW i \in 1..Len(s) PROVE s[i] = t[i]
    <3>1. t[i] = grown[n + i]
      BY <2>2, <2>4
    <3>2. CASE i \in 1..(Len(said) - n)
      <4>1. n + i \in 1..Len(said) /\ i \in 1..Len(left)
        BY <1>1, <2>1, <3>2
      <4> QED
        BY <1>1, <1>2, <2>3, <3>1, <3>2, <4>1
    <3>3. CASE i = Len(said) - n + 1
      <4>1. n + i = Len(said) + 1 /\ i = Len(left) + 1
        BY <1>1, <2>1, <3>3
      <4> QED
        BY <1>2, <2>3, <3>1, <4>1
    <3> QED
      BY <2>1, <2>4, <3>2, <3>3
  <2>6. s = t
    BY <2>2, <2>3, <2>4, <2>5, SeqEqual
  <2> QED
    BY <2>6 DEF s, t
<1> QED
  BY <1>3, <1>4 DEF left, grown

\* window is the longest end of said that fits.
IsRecent(window, said) ==
    \E n \in 0..Len(said) :
        /\ window = DropOldest(said, n)
        /\ Fits(window)
        /\ n > 0 => ~Fits(DropOldest(said, n - 1))

\* The pair just said always fits on its own, and a window that did not fit does not fit with it.
LEMMA FitsWithPair ==
    ASSUME NEW window \in Seq(TurnPair), NEW pair \in TurnPair
    PROVE  /\ Fits(Append(window, pair)) => Fits(window)
           /\ Fits(Append(<<>>, pair))
<1>1. pair.size \in Nat /\ pair.size <= WindowBytes /\ WindowBytes \in Nat /\ WindowPairs \in Nat
      /\ WindowPairs >= 1
  BY WindowAssumption DEF TurnPair
<1>2. /\ BytesOf(<<>>) = 0 /\ BytesOf(window) \in Nat
      /\ BytesOf(Append(window, pair)) = BytesOf(window) + pair.size
      /\ BytesOf(Append(<<>>, pair)) = 0 + pair.size
  <2>1. <<>> \in Seq(TurnPair)
    OBVIOUS
  <2>2. BytesOf(Append(<<>>, pair)) = BytesOf(<<>>) + pair.size
    BY <2>1, BytesOfAppend
  <2> QED
    BY <2>2, BytesOfAppend
<1>3. Len(Append(window, pair)) = Len(window) + 1 /\ Len(Append(<<>>, pair)) = 1
      /\ Len(window) \in Nat
  OBVIOUS
<1> QED
  BY <1>1, <1>2, <1>3 DEF Fits

\* One pair more: what append_pair drops from the window it would have dropped from everything said.
LEMMA AppendPairKeepsRecent ==
    ASSUME NEW said \in Seq(TurnPair), NEW window, IsRecent(window, said), NEW pair \in TurnPair
    PROVE  IsRecent(AppendPair(window, pair), Append(said, pair))
<1> DEFINE after == Append(said, pair)
           grown == Append(window, pair)
           T == {k \in 0..Len(grown) : Fits(DropOldest(grown, k))}
           m == Min(T)
<1>1. PICK n \in 0..Len(said) :
        /\ window = DropOldest(said, n)
        /\ Fits(window)
        /\ n > 0 => ~Fits(DropOldest(said, n - 1))
  BY DEF IsRecent
<1>2. /\ window \in Seq(TurnPair) /\ Len(window) = Len(said) - n
      /\ Len(said) \in Nat /\ Len(window) \in Nat
  BY <1>1, DroppedPairs
<1>3. /\ after \in Seq(TurnPair) /\ Len(after) = Len(said) + 1
      /\ grown \in Seq(TurnPair) /\ Len(grown) = Len(window) + 1
  BY <1>2
<1>4. grown = DropOldest(after, n)
  BY <1>1, <1>2, DropsCompose
<1>5. AppendPair(window, pair) = DropOldest(grown, m)
  BY DEF AppendPair
<1>6. T \subseteq Nat /\ \A k : k \in T <=> k \in 0..Len(grown) /\ Fits(DropOldest(grown, k))
  BY <1>3
<1> HIDE DEF after, T
<1>7. \A k \in 0..Len(grown) : DropOldest(grown, k) = DropOldest(after, n + k)
  <2>1. n \in 0..Len(after) /\ Len(grown) = Len(after) - n
    BY <1>2, <1>3
  <2> QED
    BY <1>3, <1>4, <2>1, DropsCompose
<1>8. Len(window) \in T
  <2>1. DropOldest(window, Len(window)) = <<>>
    BY <1>2 DEF DropOldest
  <2>2. Append(DropOldest(window, Len(window)), pair) = DropOldest(grown, Len(window))
    <3>1. Len(window) \in 0..Len(window) /\ 0 \in 0..(Len(window) - Len(window))
      BY <1>2
    <3> QED
      BY <1>2, <3>1, DropsCompose
  <2>3. Fits(DropOldest(grown, Len(window)))
    <3>1. Fits(Append(<<>>, pair))
      BY <1>2, FitsWithPair
    <3> QED
      BY <2>1, <2>2, <3>1
  <2> QED
    BY <1>2, <1>3, <1>6, <2>3
<1>9. m \in T /\ \A k \in T : m <= k
  BY <1>6, <1>8, MinIsLeast
<1> HIDE DEF m, grown
<1>10. /\ m \in 0..Len(grown) /\ Fits(DropOldest(grown, m))
       /\ DropOldest(grown, m) = DropOldest(after, n + m)
       /\ n + m \in 0..Len(after)
  BY <1>2, <1>3, <1>6, <1>7, <1>9
<1>11. ASSUME n + m > 0 PROVE ~Fits(DropOldest(after, n + m - 1))
  <2>1. CASE m > 0
    <3>1. m - 1 \in 0..Len(grown) /\ m - 1 \notin T
      BY <1>6, <1>9, <1>10, <2>1
    <3>2. DropOldest(grown, m - 1) = DropOldest(after, n + (m - 1))
      BY <1>7, <3>1
    <3>3. n + (m - 1) = n + m - 1
      BY <1>10
    <3> QED
      BY <1>6, <3>1, <3>2, <3>3
  <2>2. CASE m = 0
    <3>1. n > 0 /\ n - 1 \in 0..Len(said) /\ ~Fits(DropOldest(said, n - 1))
      BY <1>1, <1>11, <2>2
    <3>2. 0 \in 0..(Len(said) - (n - 1))
      BY <1>2, <3>1
    <3> DEFINE before == DropOldest(said, n - 1)
    <3>3. Append(before, pair) = DropOldest(after, n - 1)
      BY <3>1, <3>2, DropsCompose DEF after
    <3>4. before \in Seq(TurnPair) /\ ~Fits(before)
      BY <3>1, DroppedPairs
    <3> HIDE DEF before
    <3>5. ~Fits(Append(before, pair))
      BY <3>4, FitsWithPair
    <3>6. ~Fits(DropOldest(after, n - 1))
      BY <3>3, <3>5
    <3>7. n + m - 1 = n - 1
      BY <2>2
    <3> QED
      BY <3>6, <3>7
  <2> QED
    BY <1>10, <2>1, <2>2
<1> QED
  BY <1>5, <1>10, <1>11 DEF IsRecent, after

\* Nothing said is nothing to remember.
LEMMA NothingIsRecent == IsRecent(<<>>, <<>>)
<1>1. Sized(<<>>)
  <2>1. <<>> \in Seq(TurnPair)
    OBVIOUS
  <2> QED
    BY <2>1, PairsAreSized
<1>2. BytesOf(<<>>) = 0
  BY <1>1, BytesAddUp DEF BytesOf, Adds
<1>3. Fits(<<>>)
  BY <1>2, WindowAssumption DEF Fits
<1>4. DropOldest(<<>>, 0) = <<>>
  BY DEF DropOldest
<1> QED
  BY <1>3, <1>4 DEF IsRecent

\* What was said, numbered from one.
Numbered(said) ==
    /\ said \in Seq(TurnPair)
    /\ \A i \in 1..Len(said) : said[i].sequence = i

\* The window never forgets the last pair, so its next number is that of everything said.
LEMMA NextSequenceCounts ==
    ASSUME NEW said, Numbered(said), NEW window, IsRecent(window, said)
    PROVE  NextSequence(window) = Len(said) + 1
<1>1. said \in Seq(TurnPair) /\ Len(said) \in Nat
  BY DEF Numbered
<1>2. PICK n \in 0..Len(said) :
        /\ window = DropOldest(said, n)
        /\ Fits(window)
        /\ n > 0 => ~Fits(DropOldest(said, n - 1))
  BY DEF IsRecent
<1>3. /\ window \in Seq(TurnPair) /\ Len(window) = Len(said) - n
      /\ \A i \in 1..(Len(said) - n) : window[i] = said[n + i]
  BY <1>1, <1>2, DroppedPairs
<1>4. CASE Len(said) = 0
  <2>1. window = <<>>
    BY <1>1, <1>2, <1>3, <1>4
  <2> QED
    BY <1>4, <2>1 DEF NextSequence
<1>5. CASE Len(said) # 0
  <2>1. n # Len(said)
    <3> SUFFICES ASSUME n = Len(said) PROVE FALSE
      OBVIOUS
    <3> DEFINE one == DropOldest(said, n - 1)
    <3>1. ~Fits(one)
      BY <1>1, <1>2, <1>5
    <3>2. n - 1 \in 0..Len(said) /\ Len(said) - (n - 1) = 1
      BY <1>1, <1>5
    <3>3. /\ one \in Seq(TurnPair) /\ Len(one) = 1
          /\ \A i \in 1..1 : one[i] = said[n - 1 + i]
      BY <1>1, <3>2, DroppedPairs
    <3> HIDE DEF one
    <3>4. one[1] \in TurnPair /\ one = Append(<<>>, one[1])
      <4>1. one[1] \in TurnPair
        BY <3>3
      <4> DEFINE pair == one[1]
      <4> HIDE DEF pair
      <4>2. pair \in TurnPair => Append(<<>>, pair) \in Seq(TurnPair)
                                 /\ Len(Append(<<>>, pair)) = 1 /\ Append(<<>>, pair)[1] = pair
        OBVIOUS
      <4>3. \A i \in 1..Len(one) : one[i] = Append(<<>>, pair)[i]
        BY <3>3, <4>1, <4>2 DEF pair
      <4>4. one = Append(<<>>, pair)
        BY <3>3, <4>1, <4>2, <4>3, SeqEqual DEF pair
      <4> QED
        BY <4>1, <4>4 DEF pair
    <3>5. Fits(one)
      BY <1>1, <3>4, FitsWithPair
    <3> QED
      BY <3>1, <3>5
  <2>2. window # <<>> /\ DOMAIN window = 1..(Len(said) - n)
    BY <1>1, <1>2, <1>3, <2>1
  <2> DEFINE T == {window[i].sequence : i \in DOMAIN window}
  <2>3. \A i \in 1..(Len(said) - n) : window[i].sequence = n + i
    <3> SUFFICES ASSUME NEW i \in 1..(Len(said) - n) PROVE window[i].sequence = n + i
      OBVIOUS
    <3>1. n + i \in 1..Len(said)
      BY <1>1
    <3> QED
      BY <1>3, <3>1 DEF Numbered
  <2>4. \A x \in T : x \in Nat /\ x <= Len(said)
    BY <1>1, <2>2, <2>3
  <2>5. Len(said) \in T
    <3>1. Len(said) - n \in 1..(Len(said) - n) /\ n + (Len(said) - n) = Len(said)
      BY <1>1, <2>1
    <3> QED
      BY <2>2, <2>3, <3>1
  <2>6. NextSequence(window) = Max(T) + 1
    BY <2>2 DEF NextSequence
  <2> HIDE DEF T
  <2>7. Max(T) = Len(said)
    BY <1>1, <2>4, <2>5 DEF Max
  <2> QED
    BY <2>6, <2>7
<1> QED
  BY <1>4, <1>5

\* The pair of a turn is one a document may hold, the oversize one by its omission.
LEMMA MadePairs ==
    ASSUME NEW size \in Nat \ {0}, NEW sequence \in Nat, NEW goal \in Optional(ConversationGoal)
    PROVE  /\ MakePair(size, sequence, goal) \in TurnPair
           /\ MakePair(size, sequence, goal).sequence = sequence
<1>1. (IF goal = None THEN None ELSE goal.revision) \in Optional(Nat)
  BY DEF Optional, ConversationGoal
<1>2. (IF size > PairBytes THEN MarkerBytes ELSE size) \in 1..PairBytes
  BY WindowAssumption
<1>3. (size > PairBytes) \in BOOLEAN
  OBVIOUS
<1> QED
  BY <1>1, <1>2, <1>3 DEF MakePair, TurnPair

\* Neither the goal nor a cue touches the window; only a recent memory grows, by the pair of a
\* turn that was spoken.
LEMMA WindowMoves ==
    ASSUME NEW memory, MemoryShape(memory), NEW rec, NEW goal, NEW reply, NEW kept \in BOOLEAN,
           NEW variant \in MemoryVariant
    PROVE  LET left == MemoryAfter(variant, memory, rec, goal, reply, kept)
           IN  left.window =
                 IF kept /\ variant = "recent_conversation_memory"
                 THEN AppendPair(memory.window,
                                 MakePair(reply.size, NextSequence(memory.window), goal))
                 ELSE memory.window
<1> DEFINE moved == ApplyGoalLifecycle(memory, rec.goal, goal)
           cued == IF reply = None THEN moved
                   ELSE [moved EXCEPT !.procedure =
                            ApplyProcedureObservation(moved.procedure, reply.cue)]
           left == MemoryAfter(variant, memory, rec, goal, reply, kept)
           pair(window) == MakePair(reply.size, NextSequence(window), goal)
<1>1. MemoryShape(moved) /\ moved.window = memory.window
  BY DEF ApplyGoalLifecycle, MemoryShape
<1> HIDE DEF moved
<1>2. MemoryShape(cued) /\ cued.window = memory.window
  BY <1>1 DEF MemoryShape
<1>3. left = CASE variant = "no_recent_memory" -> memory
               [] variant = "procedure_progress_only" -> cued
               [] variant = "recent_conversation_memory" ->
                     IF ~kept THEN cued
                     ELSE [cued EXCEPT !.window = AppendPair(cued.window, pair(cued.window))]
  BY DEF MemoryAfter, moved
<1> HIDE DEF cued, left, pair
<1>4. \A w : [cued EXCEPT !.window = w].window = w
  BY <1>2 DEF MemoryShape
<1>5. left.window = IF kept /\ variant = "recent_conversation_memory"
                    THEN AppendPair(memory.window, pair(memory.window)) ELSE memory.window
  BY <1>2, <1>3, <1>4 DEF MemoryVariant
<1> QED
  BY <1>5 DEF left, pair

\* A pair is kept only of a turn that was spoken.
LEMMA KeptWasSpoken ==
    ASSUME NEW variant, NEW rec, NEW memory, NEW event, NEW reply, NEW fresh, NEW step,
           step = ReplayTurn(variant, rec, memory, event, reply, fresh)
    PROVE  /\ step.kept \in BOOLEAN
           /\ step.kept => reply # None
  BY DEF ReplayTurn, Met, Drawn, Planned, Selected, Concluded

--------------------------------------------------------------------------------
(* A trial. *)

TrialFields ==
    {"case", "position", "rec", "memory", "fresh", "known", "count", "verdicts", "criticals",
     "said", "message", "last"}

\* The trial t is one of a case of the corpus, at one of its turns.
IsPlaced(t) ==
    /\ DOMAIN t = TrialFields
    /\ t.case \in Cases
    /\ t.position \in 1..(Len(Corpus[t.case].turns) + 1)
    /\ t.fresh \in Nat \ {0}
    /\ Replayable(t.rec)
    /\ t.position = 1 => t.last = None

\* At most one dispatch is counted, the one the record carries, and the lab knows that one.
DispatchIsKnown(t) ==
    /\ t.known \subseteq 0..(t.fresh - 1)
    /\ t.rec.dispatch # None => t.rec.dispatch.operation \in t.known
    /\ t.count \in {0, 1}
    /\ t.count = 1 => t.rec.dispatch # None

\* What runs and what waits is legal, and after the first turn belongs to the goal; a run
\* without recent memory has neither.
MemoryIsSound(t, variant) ==
    /\ MemoryShape(t.memory)
    /\ LegalProcedure(t.memory.procedure) /\ LegalSuspended(t.memory.suspended)
    /\ IF t.position # 1 /\ variant # "no_recent_memory" THEN BelongsTo(t.memory, t.rec.goal)
       ELSE t.memory.procedure = None /\ t.memory.suspended = None

\* What the lab said of the last turn: nothing it reports is the runtime's fault, and it names
\* the words and the awaited answer truly.
LastIsHonest(t) ==
    /\ t.criticals \subseteq Harmless
    /\ t.last # None => IsTrueTo(t.last, t.message, t.rec)

TrialIsSound(t, variant) ==
    /\ IsPlaced(t) /\ DispatchIsKnown(t)
    /\ MemoryIsSound(t, variant) /\ LastIsHonest(t)

\* A trial starts sound: its fixture is one the corpus keeps to.
LEMMA NewTrialIsSound ==
    ASSUME NEW case \in Cases, NEW variant
    PROVE  TrialIsSound(NewTrial(case), variant)
<1> DEFINE t == NewTrial(case)
           rec == BuildInitialRecord(Corpus[case].state)
<1>1. /\ Corpus[case].state \in InitialState
      /\ Corpus[case].state.confirmation = "pending" => Corpus[case].state.operation = None
      /\ Len(Corpus[case].turns) \in Nat
  BY CorpusAssumption
<1>2. Replayable(rec) /\ (rec.dispatch # None => rec.dispatch.operation = FixtureOperation)
  BY <1>1, FixtureIsReplayable
<1>3. /\ DOMAIN t = TrialFields
      /\ t.case = case /\ t.position = 1 /\ t.rec = rec /\ t.memory = NoMemory
      /\ t.fresh = FirstFreshId
      /\ t.known = (IF rec.dispatch = None THEN {} ELSE {rec.dispatch.operation})
      /\ t.count = 0 /\ t.criticals = {} /\ t.last = None
  BY DEF NewTrial, TrialFields
<1> HIDE DEF t, rec
<1>4. IsPlaced(t)
  BY <1>1, <1>2, <1>3 DEF IsPlaced, FirstFreshId
<1>5. DispatchIsKnown(t)
  BY <1>2, <1>3 DEF DispatchIsKnown, FirstFreshId, FixtureOperation
<1>6. MemoryIsSound(t, variant)
  BY <1>3 DEF MemoryIsSound, NoMemory, MemoryShape, LegalProcedure, LegalSuspended
<1>7. LastIsHonest(t)
  BY <1>3 DEF LastIsHonest
<1> QED
  BY <1>4, <1>5, <1>6, <1>7 DEF TrialIsSound, t

\* A turn of a sound trial leaves it sound, whatever the model answers.
LEMMA TurnKeepsTrialSound ==
    ASSUME lane \in Lane, trial # None, IsRunning,
           TrialIsSound(trial, Variant[lane]),
           NEW reply \in Replies
    PROVE  TrialIsSound(Replayed(trial, NextTurn, reply), Variant[lane])
<1> DEFINE variant == Variant[lane]
           step == ReplayTurn(variant, trial.rec, trial.memory, NextTurn.event, reply, trial.fresh)
           dec == DecisionOf(reply)
           dispatched == Dispatched(trial, step.record)
           count == IF dispatched THEN trial.count + 1 ELSE trial.count
           seen == Seen(trial, NextTurn.event, reply, step, dispatched, count)
           next == Replayed(trial, NextTurn, reply)
<1>1. /\ IsPlaced(trial) /\ DispatchIsKnown(trial)
      /\ MemoryIsSound(trial, variant) /\ LastIsHonest(trial)
  BY DEF TrialIsSound
<1>2. /\ Replayable(trial.rec) /\ trial.fresh \in Nat \ {0}
      /\ trial.case \in Cases
      /\ trial.position \in 1..Len(Corpus[trial.case].turns)
      /\ Len(Corpus[trial.case].turns) \in Nat
      /\ NextTurn.event \in CorpusEvent
      /\ DOMAIN trial = TrialFields
  BY <1>1, CorpusAssumption DEF IsPlaced, IsRunning, NextTurn
<1>3. /\ variant \in MemoryVariant
      /\ reply \in Optional(ModelReply)
  BY <1>2, RunAssumption DEF Replies, Optional
<1>4. step = ReplayTurn(variant, trial.rec, trial.memory, NextTurn.event, reply, trial.fresh)
  OBVIOUS
<1>5. seen = ObserveTurn(ProjectRecord(trial.rec, trial.memory),
                         ProjectRecord(step.record, step.memory),
                         DeriveSemanticObligation(trial.rec, Now), dec, NextTurn.event,
                         step.outcome, dispatched, count)
  BY DEF Seen, DecisionOf
<1>6. next = Followed(trial, NextTurn, reply, step, seen)
  BY DEF Replayed, Judged, Counted
<1> HIDE DEF step, seen, dispatched, count, next, variant, dec
<1>7. seen.dispatched = dispatched /\ seen.count = count
  BY <1>5 DEF ObserveTurn
<1>8. seen.before.challenge = trial.rec.confirmation
  BY <1>5 DEF ObserveTurn, ProjectRecord
<1>9. /\ DOMAIN next = TrialFields
       /\ next.case = trial.case /\ next.position = trial.position + 1
       /\ next.rec = step.record /\ next.memory = step.memory
       /\ next.fresh = trial.fresh + 1
       /\ next.known = (IF dispatched THEN trial.known \cup {step.record.dispatch.operation}
                        ELSE trial.known)
       /\ next.count = count
       /\ next.criticals = trial.criticals \cup seen.criticals
       /\ next.message = MessageOf(step.outcome)
       /\ next.last = seen
  BY <1>2, <1>6, <1>7 DEF Followed, TrialFields, MessageOf
<1>10. Replayable(step.record)
  BY <1>2, <1>3, <1>4, ReplayedQuestion
<1>11. IsPlaced(next)
  BY <1>2, <1>9, <1>10 DEF IsPlaced
<1>12. \/ step.record.dispatch = trial.rec.dispatch
       \/ /\ trial.rec.dispatch = None /\ step.record.dispatch # None
          /\ step.record.dispatch.operation = trial.fresh
          /\ reply # None
          /\ DispatchEligible(ProjectRecord(trial.rec, trial.memory))
  BY <1>2, <1>3, <1>4, ReplayedOrder
<1>13. /\ (step.record.dispatch # None
             /\ step.record.dispatch.operation \notin trial.known) = dispatched
       /\ dispatched \in BOOLEAN
       /\ count = (IF dispatched THEN trial.count + 1 ELSE trial.count)
  BY DEF dispatched, Dispatched, count
<1>14. /\ trial.fresh \notin trial.known
       /\ \A operation \in trial.known : operation \in 0..(trial.fresh + 1 - 1)
       /\ trial.fresh \in 0..(trial.fresh + 1 - 1)
       /\ trial.known \subseteq 0..(trial.fresh + 1 - 1)
       /\ trial.count \in {0, 1}
       /\ trial.rec.dispatch # None => trial.rec.dispatch.operation \in trial.known
       /\ trial.count = 1 => trial.rec.dispatch # None
  <2>1. trial.known \subseteq 0..(trial.fresh - 1)
    BY <1>1 DEF DispatchIsKnown
  <2>2. \A operation \in trial.known : operation \in Int /\ 0 <= operation
                                       /\ operation <= trial.fresh - 1
    BY <2>1, <1>2
  <2> QED
    BY <1>1, <1>2, <2>2 DEF DispatchIsKnown
<1>15. /\ dispatched =>
            /\ trial.rec.dispatch = None
            /\ step.record.dispatch.operation = trial.fresh
            /\ reply # None
            /\ DispatchEligible(ProjectRecord(trial.rec, trial.memory))
       /\ ~dispatched => step.record.dispatch = trial.rec.dispatch
       /\ dispatched => step.record.dispatch # None
  BY <1>12, <1>13, <1>14
<1>16. /\ count \in {0, 1}
       /\ count = 1 => step.record.dispatch # None
  BY <1>13, <1>14, <1>15
<1>17. DispatchIsKnown(next)
  <2>1. next.known \subseteq 0..(next.fresh - 1)
    BY <1>9, <1>14, <1>15
  <2>2. next.rec.dispatch # None => next.rec.dispatch.operation \in next.known
    BY <1>9, <1>14, <1>15
  <2> QED
    BY <1>9, <1>16, <2>1, <2>2 DEF DispatchIsKnown
<1>18. /\ dec \in Optional(ModelTurnDecision) /\ (dec = None) = (reply = None)
       /\ step.record \in Record
       /\ step.record.goal = step.goal
       /\ step.memory = MemoryAfter(variant, trial.memory, trial.rec, step.goal, reply,
                                    step.kept)
  BY <1>2, <1>3, <1>4, ReplayedFacts DEF dec
<1>19. MemoryIsSound(next, variant)
  <2>1. next.position # 1
    BY <1>2, <1>9
  <2>2. /\ MemoryShape(trial.memory)
        /\ LegalProcedure(trial.memory.procedure) /\ LegalSuspended(trial.memory.suspended)
        /\ \/ variant # "no_recent_memory" /\ BelongsTo(trial.memory, trial.rec.goal)
           \/ trial.memory.procedure = None /\ trial.memory.suspended = None
    BY <1>1 DEF MemoryIsSound
  <2>3. CASE variant = "no_recent_memory"
    <3>1. step.memory = trial.memory
      BY <1>18, <2>3 DEF MemoryAfter
    <3>2. trial.memory.procedure = None /\ trial.memory.suspended = None
      BY <1>1, <2>3 DEF MemoryIsSound
    <3> QED
      BY <1>9, <2>2, <2>3, <3>1, <3>2 DEF MemoryIsSound
  <2>4. CASE variant # "no_recent_memory"
    <3>1. /\ trial.rec.goal \in Optional(ConversationGoal)
          /\ step.goal \in Optional(ConversationGoal)
      BY <1>2, <1>18 DEF Replayable, Record
    <3>2. /\ MemoryShape(step.memory)
          /\ LegalProcedure(step.memory.procedure) /\ LegalSuspended(step.memory.suspended)
          /\ BelongsTo(step.memory, step.goal)
      BY <1>3, <1>18, <2>2, <2>4, <3>1, MemoryMoves
    <3> QED
      BY <1>9, <1>18, <2>1, <2>4, <3>2 DEF MemoryIsSound
  <2> QED
    BY <2>3, <2>4
<1>20. seen.criticals \subseteq Harmless
  <2>1. dispatched => dec # None /\ DispatchEligible(ProjectRecord(trial.rec, trial.memory))
    BY <1>15, <1>18
  <2> QED
    BY <1>5, <1>13, <1>16, <1>18, <2>1, EligibleIsHarmless
<1>21. IsTrueTo(seen, MessageOf(step.outcome), step.record)
  <2>1. /\ Replayable(trial.rec) /\ trial.fresh \in Nat /\ NextTurn.event \in CorpusEvent
        /\ dec = DecisionOf(reply)
    BY <1>2 DEF dec
  <2> QED
    BY <1>3, <1>4, <1>5, <2>1, SeenIsHonest
<1>22. LastIsHonest(next)
  BY <1>1, <1>9, <1>20, <1>21 DEF LastIsHonest
<1> QED
  BY <1>11, <1>17, <1>19, <1>22 DEF TrialIsSound, next, variant

--------------------------------------------------------------------------------
(* The window of a trial. *)

\* The window of a trial is the longest end of what was said in it.
WindowIsSound(t) ==
    /\ Numbered(t.said)
    /\ IsRecent(t.memory.window, t.said)

WindowInv == trial # None => WindowIsSound(trial)

LEMMA NewTrialRemembersNothing ==
    ASSUME NEW case \in Cases PROVE WindowIsSound(NewTrial(case))
<1>1. NewTrial(case).said = <<>> /\ NewTrial(case).memory.window = <<>>
  BY DEF NewTrial, NoMemory
<1>2. Numbered(<<>>)
  BY DEF Numbered
<1> QED
  BY <1>1, <1>2, NothingIsRecent DEF WindowIsSound

LEMMA TurnKeepsWindow ==
    ASSUME lane \in Lane, trial # None, IsRunning,
           TrialIsSound(trial, Variant[lane]), WindowIsSound(trial),
           NEW reply \in Replies
    PROVE  WindowIsSound(Replayed(trial, NextTurn, reply))
<1> DEFINE variant == Variant[lane]
           step == ReplayTurn(variant, trial.rec, trial.memory, NextTurn.event, reply, trial.fresh)
           next == Replayed(trial, NextTurn, reply)
           said == trial.said
           pair == MakePair(reply.size, Len(said) + 1, step.goal)
           grows == step.kept /\ variant = "recent_conversation_memory"
<1>1. /\ IsPlaced(trial) /\ MemoryIsSound(trial, variant)
      /\ Numbered(said) /\ IsRecent(trial.memory.window, said)
  BY DEF TrialIsSound, WindowIsSound
<1>2. /\ Replayable(trial.rec) /\ trial.fresh \in Nat /\ trial.case \in Cases
      /\ trial.position \in 1..Len(Corpus[trial.case].turns)
      /\ NextTurn.event \in CorpusEvent
      /\ DOMAIN trial = TrialFields
      /\ MemoryShape(trial.memory)
  BY <1>1, CorpusAssumption DEF IsPlaced, IsRunning, NextTurn, MemoryIsSound
<1>3. variant \in MemoryVariant /\ reply \in Optional(ModelReply)
  BY <1>2, RunAssumption DEF Replies, Optional
<1>4. step = ReplayTurn(variant, trial.rec, trial.memory, NextTurn.event, reply, trial.fresh)
  OBVIOUS
<1>5. /\ next.memory = step.memory
      /\ next.said = IF grows THEN Append(said, pair) ELSE said
  BY <1>2 DEF Replayed, Judged, Counted, Followed, TrialFields
<1> HIDE DEF variant, step, next
<1>6. step.kept \in BOOLEAN /\ (step.kept => reply # None)
  BY <1>4, KeptWasSpoken
<1>7. /\ step.memory = MemoryAfter(variant, trial.memory, trial.rec, step.goal, reply, step.kept)
      /\ step.goal \in Optional(ConversationGoal)
  <2>1. /\ step.memory = MemoryAfter(variant, trial.memory, trial.rec, step.goal, reply,
                                     step.kept)
        /\ step.record \in Record /\ step.record.goal = step.goal
    BY <1>2, <1>3, <1>4, ReplayedFacts
  <2> QED
    BY <2>1 DEF Record
<1>8. NextSequence(trial.memory.window) = Len(said) + 1
  BY <1>1, NextSequenceCounts
<1>9. step.memory.window = IF grows THEN AppendPair(trial.memory.window, pair)
                            ELSE trial.memory.window
  BY <1>2, <1>3, <1>6, <1>7, <1>8, WindowMoves
<1>10. CASE ~grows
  BY <1>1, <1>5, <1>9, <1>10 DEF WindowIsSound, next
<1>11. CASE grows
  <2>1. reply.size \in Nat \ {0}
    BY <1>3, <1>6, <1>11 DEF Optional, ModelReply
  <2>2. said \in Seq(TurnPair) /\ Len(said) \in Nat
    BY <1>1 DEF Numbered
  <2>3. pair \in TurnPair /\ pair.sequence = Len(said) + 1
    BY <1>7, <2>1, <2>2, MadePairs
  <2> HIDE DEF pair, said
  <2>4. IsRecent(AppendPair(trial.memory.window, pair), Append(said, pair))
    BY <1>1, <2>2, <2>3, AppendPairKeepsRecent
  <2>5. Numbered(Append(said, pair))
    <3>1. /\ Append(said, pair) \in Seq(TurnPair)
          /\ Len(Append(said, pair)) = Len(said) + 1
          /\ \A i \in 1..Len(said) : Append(said, pair)[i] = said[i]
          /\ Append(said, pair)[Len(said) + 1] = pair
      BY <2>2, <2>3
    <3>2. \A i \in 1..Len(said) : said[i].sequence = i
      BY <1>1 DEF Numbered
    <3> QED
      BY <2>2, <2>3, <3>1, <3>2 DEF Numbered
  <2>6. next.memory.window = AppendPair(trial.memory.window, pair)
        /\ next.said = Append(said, pair)
    BY <1>5, <1>9, <1>11
  <2> QED
    BY <2>4, <2>5, <2>6 DEF WindowIsSound, next
<1> QED
  BY <1>10, <1>11

--------------------------------------------------------------------------------
(* The runs and their comparison. *)

\* What a valid repetition of a case says of it: a trial without a turn has no verdict, and is
\* one of a case without turns or of a model that failed; any other has a verdict for every
\* property the case expects, and is classified by them unless the model failed.
RepetitionFits(case, repetition) ==
    /\ repetition.criticals \subseteq Harmless
    /\ repetition.status = "valid" =>
        \/ /\ DOMAIN repetition.verdicts = {}
           /\ \/ repetition.classification = "MODEL_FAILURE"
              \/ repetition.classification = "FAIL" /\ Len(Corpus[case].turns) = 0
        \/ /\ Len(Corpus[case].turns) # 0
           /\ DOMAIN repetition.verdicts = DOMAIN Corpus[case].expected
           /\ \A name \in DOMAIN repetition.verdicts :
                (repetition.verdicts[name] = "NOT_REPRESENTABLE") = (name = "unsupported")
           /\ repetition.classification \in
                {"MODEL_FAILURE", ClassifyVerdicts(repetition.verdicts, FALSE)}

ArtifactFits ==
    /\ DOMAIN artifact = Lane
    /\ \A l \in Lane : \A case \in DOMAIN artifact[l] :
         case \in Cases /\ RepetitionFits(case, artifact[l][case])

LabInv ==
    /\ lane \in Lane \cup {"compared"}
    /\ trial # None => lane \in Lane /\ TrialIsSound(trial, Variant[lane])
    /\ ArtifactFits
    /\ report # None =>
         /\ lane = "compared"
         /\ report.verdict = CompareRuns(artifact["baseline"], artifact["candidate"],
                                         report.setting)

\* What finalize_repetition records of a sound trial fits its case, however the trial ended.
LEMMA RecordedFits ==
    ASSUME NEW t, NEW variant, TrialIsSound(t, variant),
           NEW status \in {"valid", "infra"}, NEW modelFailure \in BOOLEAN,
           status = "valid" /\ ~modelFailure => t.position = Len(Corpus[t.case].turns) + 1
    PROVE  RepetitionFits(t.case, Recorded(t, status, modelFailure))
<1> DEFINE repetition == Recorded(t, status, modelFailure)
           verdicts == CasePropertyVerdicts(Corpus[t.case], t.last)
<1>1. /\ t.case \in Cases /\ t.position \in 1..(Len(Corpus[t.case].turns) + 1)
      /\ t.criticals \subseteq Harmless
      /\ Len(Corpus[t.case].turns) \in Nat
  BY CorpusAssumption DEF TrialIsSound, IsPlaced, LastIsHonest
<1>2. CASE status = "infra"
  BY <1>2 DEF Recorded, RepetitionFits
<1>3. CASE status = "valid" /\ t.position = 1
  <2>1. /\ repetition.criticals = {} /\ repetition.verdicts = <<>>
        /\ repetition.classification = (IF modelFailure THEN "MODEL_FAILURE" ELSE "FAIL")
    BY <1>3 DEF Recorded
  <2>2. ~modelFailure => Len(Corpus[t.case].turns) = 0
    BY <1>1, <1>3
  <2>3. DOMAIN repetition.verdicts = {}
    BY <2>1
  <2> HIDE DEF repetition
  <2>4. RepetitionFits(t.case, repetition)
    BY <2>1, <2>2, <2>3 DEF RepetitionFits
  <2> QED
    BY <2>4 DEF repetition
<1>4. CASE status = "valid" /\ t.position # 1
  <2>1. /\ repetition.criticals = t.criticals /\ repetition.verdicts = verdicts
        /\ repetition.classification = ClassifyVerdicts(verdicts, modelFailure)
    BY <1>4 DEF Recorded
  <2>2. /\ DOMAIN verdicts = DOMAIN Corpus[t.case].expected
        /\ \A name \in DOMAIN verdicts :
             (verdicts[name] = "NOT_REPRESENTABLE") = (name = "unsupported")
    BY DEF CasePropertyVerdicts
  <2>3. ClassifyVerdicts(verdicts, modelFailure) \in
          {"MODEL_FAILURE", ClassifyVerdicts(verdicts, FALSE)}
    BY DEF ClassifyVerdicts
  <2>4. Len(Corpus[t.case].turns) # 0
    BY <1>1, <1>4
  <2> HIDE DEF repetition, verdicts
  <2>5. RepetitionFits(t.case, repetition)
    BY <1>1, <2>1, <2>2, <2>3, <2>4 DEF RepetitionFits
  <2> QED
    BY <2>5 DEF repetition
<1> QED
  BY <1>2, <1>3, <1>4

\* A trial that ends leaves its record in its run's artifact, and nothing else there.
LEMMA FinishKeepsLabInv ==
    ASSUME LabInv, trial # None, NEW status \in {"valid", "infra"},
           NEW modelFailure \in BOOLEAN,
           status = "valid" /\ ~modelFailure =>
              trial.position = Len(Corpus[trial.case].turns) + 1,
           FinishTrial(status, modelFailure)
    PROVE  LabInv'
<1> DEFINE repetition == Recorded(trial, status, modelFailure)
<1>1. /\ lane \in Lane /\ TrialIsSound(trial, Variant[lane])
      /\ ArtifactFits /\ report = None
  BY DEF LabInv, Lane
<1>2. RepetitionFits(trial.case, repetition) /\ trial.case \in Cases
  BY <1>1, RecordedFits DEF TrialIsSound, IsPlaced
<1>3. /\ artifact' = [artifact EXCEPT ![lane] = Merged(artifact[lane], trial.case, repetition)]
      /\ trial' = None /\ lane' = lane /\ report' = report
  BY DEF FinishTrial
<1> HIDE DEF repetition
<1>4. ArtifactFits'
  <2>1. DOMAIN artifact' = Lane
    BY <1>1, <1>3 DEF ArtifactFits
  <2>2. ASSUME NEW l \in Lane, NEW case \in DOMAIN artifact'[l]
        PROVE  case \in Cases /\ RepetitionFits(case, artifact'[l][case])
    <3>1. CASE l # lane
      BY <1>1, <1>3, <2>2, <3>1 DEF ArtifactFits
    <3>2. CASE l = lane
      <4>1. artifact'[l] = Merged(artifact[l], trial.case, repetition)
        BY <1>1, <1>3, <3>2 DEF ArtifactFits
      <4>2. /\ case \in DOMAIN artifact[l] \cup {trial.case}
            /\ artifact'[l][case] = IF case = trial.case THEN repetition
                                    ELSE artifact[l][case]
        BY <2>2, <4>1 DEF Merged
      <4> QED
        BY <1>1, <1>2, <4>2 DEF ArtifactFits
    <3> QED
      BY <3>1, <3>2
  <2> QED
    BY <2>1, <2>2 DEF ArtifactFits
<1> QED
  BY <1>1, <1>3, <1>4 DEF LabInv

LEMMA InitLabInv == Init => LabInv
  BY DEF Init, LabInv, ArtifactFits, Lane, NoArtifact

\* Every step of an evaluation keeps its trial sound and its artifacts fitting.
LEMMA NextLabInv == LabInv /\ [Next]_vars => LabInv'
<1> SUFFICES ASSUME LabInv, [Next]_vars PROVE LabInv'
  OBVIOUS
<1>1. ASSUME NEW case \in Cases, StartTrial(case) PROVE LabInv'
  <2>1. TrialIsSound(NewTrial(case), Variant[lane])
    BY NewTrialIsSound
  <2>2. /\ lane \in Lane /\ lane' = lane /\ artifact' = artifact /\ report' = report
        /\ trial' = NewTrial(case)
    BY <1>1 DEF StartTrial
  <2>3. TrialIsSound(trial', Variant[lane'])
    BY <2>1, <2>2
  <2>4. ArtifactFits'
    BY <2>2 DEF LabInv, ArtifactFits
  <2> QED
    BY <2>2, <2>3, <2>4 DEF LabInv, Lane
<1>2. CASE ReplayNextTurn
  <2>1. /\ IsRunning /\ trial # None
        /\ lane' = lane /\ artifact' = artifact /\ report' = report
    BY <1>2 DEF ReplayNextTurn, IsRunning
  <2>2. PICK reply \in Replies : trial' = Replayed(trial, NextTurn, reply)
    BY <1>2 DEF ReplayNextTurn
  <2>3. lane \in Lane /\ TrialIsSound(trial, Variant[lane])
    BY <2>1 DEF LabInv
  <2>4. TrialIsSound(trial', Variant[lane])
    BY <2>1, <2>2, <2>3, TurnKeepsTrialSound
  <2>5. TrialIsSound(trial', Variant[lane'])
    BY <2>1, <2>4
  <2>6. ArtifactFits'
    BY <2>1 DEF LabInv, ArtifactFits
  <2> QED
    BY <2>1, <2>3, <2>5, <2>6 DEF LabInv, Lane
<1>3. CASE FinalizeRepetition
  <2>1. trial # None /\ ~IsRunning /\ FinishTrial("valid", FALSE)
    BY <1>3 DEF FinalizeRepetition
  <2>2. trial.position = Len(Corpus[trial.case].turns) + 1
    BY <2>1, CorpusAssumption DEF LabInv, TrialIsSound, IsPlaced, IsRunning
  <2> QED
    BY <2>1, <2>2, FinishKeepsLabInv
<1>4. CASE InfraInterrupts
  BY <1>4, FinishKeepsLabInv DEF InfraInterrupts, IsRunning
<1>5. CASE ModelFails
  BY <1>5, FinishKeepsLabInv DEF ModelFails, IsRunning
<1>6. CASE CloseRun
  <2>1. /\ trial' = None /\ lane \in Lane
        /\ lane' = (IF lane = "baseline" THEN "candidate" ELSE "compared")
        /\ artifact' = artifact /\ report' = report
    BY <1>6 DEF CloseRun
  <2>2. report = None
    BY <2>1 DEF LabInv, Lane
  <2>3. ArtifactFits'
    BY <2>1 DEF LabInv, ArtifactFits
  <2> QED
    BY <2>1, <2>2, <2>3 DEF LabInv, Lane
<1>7. ASSUME NEW setting \in Settings, Compare(setting) PROVE LabInv'
  <2>1. /\ lane = "compared" /\ lane' = lane /\ trial' = trial /\ artifact' = artifact
        /\ report' = [setting |-> setting,
                      verdict |-> CompareRuns(artifact["baseline"], artifact["candidate"],
                                              setting)]
    BY <1>7 DEF Compare
  <2>2. trial = None
    BY <2>1 DEF LabInv, Lane
  <2>3. ArtifactFits'
    BY <2>1 DEF LabInv, ArtifactFits
  <2> QED
    BY <2>1, <2>2, <2>3 DEF LabInv
<1>8. CASE UNCHANGED vars
  <2>1. /\ lane' = lane /\ trial' = trial /\ artifact' = artifact /\ report' = report
    BY <1>8 DEF vars
  <2>2. trial # None => TrialIsSound(trial', Variant[lane'])
    BY <2>1 DEF LabInv
  <2>3. ArtifactFits'
    BY <2>1 DEF LabInv, ArtifactFits
  <2> QED
    BY <2>1, <2>2, <2>3 DEF LabInv
<1> QED
  BY <1>1, <1>2, <1>3, <1>4, <1>5, <1>6, <1>7, <1>8 DEF Next

\* The strengthening the results below share: in every state of every evaluation the trial in
\* progress is sound and both artifacts fit the corpus.
THEOREM LabInvariance == Spec => []LabInv
  BY InitLabInv, NextLabInv, PTL DEF Spec

\* No replay executes a critical violation, whatever the corpus and the model's answers.
THEOREM NoCriticalIsExecuted == Spec => []NothingCriticalIsExecuted
<1>1. LabInv => NothingCriticalIsExecuted
  <2> SUFFICES ASSUME LabInv, NEW class \in Criticals PROVE class \in Harmless
    BY DEF NothingCriticalIsExecuted, Harmless
  <2>1. CASE trial # None /\ class \in trial.criticals
    BY <2>1 DEF LabInv, TrialIsSound, LastIsHonest
  <2>2. CASE \E l \in Lane : \E case \in DOMAIN artifact[l] :
               class \in artifact[l][case].criticals
    BY <2>2 DEF LabInv, ArtifactFits, RepetitionFits
  <2> QED
    BY <2>1, <2>2 DEF Criticals
<1> QED
  BY <1>1, LabInvariance, PTL

\* The lab names the source of the caller-facing words and the coherence of a new challenge
\* from projections alone, and is right.
THEOREM SourcesAreHonest == Spec => []ProvenanceIsHonest
<1>1. LabInv => ProvenanceIsHonest
  BY DEF LabInv, TrialIsSound, LastIsHonest, IsTrueTo, ProvenanceIsHonest
<1> QED
  BY <1>1, LabInvariance, PTL

\* The answer the lab expects after a turn is the one the next turn is read for.
THEOREM ExpectationsAreRead == Spec => []ObligationFollowsExpectation
<1>1. LabInv => ObligationFollowsExpectation
  <2> SUFFICES ASSUME LabInv, trial # None, trial.last # None
               PROVE  /\ trial.last.expects = "ACTION_CONFIRMATION" =>
                           DeriveSemanticObligation(trial.rec, Now) = "ACTION_CONFIRMATION"
                      /\ trial.last.expects = "ASSISTANCE_MODE_CHOICE" =>
                           DeriveSemanticObligation(trial.rec, Now) =
                              (IF IsActive(trial.rec.operation) THEN "NONE"
                               ELSE "ASSISTANCE_MODE_CHOICE")
    BY DEF ObligationFollowsExpectation
  <2>1. Replayable(trial.rec) /\ IsTrueTo(trial.last, trial.message, trial.rec)
    BY DEF LabInv, TrialIsSound, IsPlaced, LastIsHonest
  <2>2. ChallengeIsConsumable(trial.rec, Now) => ~ModeIsChosen(trial.rec, Now)
    BY DEF ModeIsChosen
  <2> QED
    BY <2>1, <2>2 DEF IsTrueTo, DeriveSemanticObligation, ModeIsChosen, Replayable
<1> QED
  BY <1>1, LabInvariance, PTL

\* The guided procedure belongs to the reset the record wants, at its revision, and only an
\* unlock leaves one waiting: no turn, event or change of goal strands it.
THEOREM ProceduresFollowTheGoal == Spec => []ProcedureFollowsGoal
<1>1. LabInv => ProcedureFollowsGoal
  BY DEF LabInv, TrialIsSound, IsPlaced, MemoryIsSound, BelongsTo, ProcedureFollowsGoal
<1> QED
  BY <1>1, LabInvariance, PTL

\* Every document of a trial can be read again: what runs and what waits pass the validator.
THEOREM ProceduresStayLegal == Spec => []ProcedureIsLegal
<1>1. LabInv => ProcedureIsLegal
  BY DEF LabInv, TrialIsSound, MemoryIsSound, LegalProcedure, LegalSuspended, ProcedureIsLegal
<1> QED
  BY <1>1, LabInvariance, PTL

\* Whatever is said and however large, the window of a replay is the longest end of the pairs
\* of its turns that fits both limits: no pair is cut, skipped or dropped before its time.
THEOREM WindowsKeepRecentPairs == Spec => []WindowKeepsRecentPairs
<1>1. Init => WindowInv
  BY DEF Init, WindowInv
<1>2. LabInv /\ WindowInv /\ [Next]_vars => WindowInv'
  <2> SUFFICES ASSUME LabInv, WindowInv, [Next]_vars PROVE WindowInv'
    OBVIOUS
  <2>1. ASSUME NEW case \in Cases, StartTrial(case) PROVE WindowInv'
    <3>1. trial' = NewTrial(case)
      BY <2>1 DEF StartTrial
    <3> QED
      BY <3>1, NewTrialRemembersNothing DEF WindowInv
  <2>2. CASE ReplayNextTurn
    <3>1. PICK reply \in Replies : trial' = Replayed(trial, NextTurn, reply)
      BY <2>2 DEF ReplayNextTurn
    <3>2. /\ IsRunning /\ trial # None /\ lane \in Lane
          /\ TrialIsSound(trial, Variant[lane]) /\ WindowIsSound(trial)
      BY <2>2 DEF ReplayNextTurn, IsRunning, LabInv, WindowInv
    <3>3. WindowIsSound(trial')
      BY <3>1, <3>2, TurnKeepsWindow
    <3> QED
      BY <3>3 DEF WindowInv
  <2>3. CASE FinalizeRepetition \/ InfraInterrupts \/ ModelFails \/ CloseRun
    <3>1. trial' = None
      BY <2>3 DEF FinalizeRepetition, InfraInterrupts, ModelFails, FinishTrial, CloseRun
    <3> QED
      BY <3>1 DEF WindowInv
  <2>4. CASE UNCHANGED vars \/ \E setting \in Settings : Compare(setting)
    <3>1. trial' = trial
      BY <2>4 DEF vars, Compare
    <3> QED
      BY <3>1 DEF WindowInv
  <2> QED
    BY <2>1, <2>2, <2>3, <2>4 DEF Next
<1>3. WindowInv => WindowKeepsRecentPairs
  BY DEF WindowInv, WindowIsSound, IsRecent, WindowKeepsRecentPairs
<1> QED
  BY <1>1, <1>2, <1>3, LabInvariance, PTL DEF Spec

\* A repetition that fails its case where nothing newly fails was compared with one that
\* already failed, or whose model did.
LEMMA FailuresAreOld ==
    ASSUME NEW case, NEW before, NEW after,
           RepetitionFits(case, before), RepetitionFits(case, after),
           before.status = "valid", after.status = "valid",
           Failed(after.verdicts) \subseteq Failed(before.verdicts),
           after.classification = "FAIL"
    PROVE  before.classification \in {"FAIL", "MODEL_FAILURE"}
<1>1. CASE DOMAIN after.verdicts = {} /\ Len(Corpus[case].turns) = 0
  BY <1>1 DEF RepetitionFits
<1>2. CASE after.classification = ClassifyVerdicts(after.verdicts, FALSE)
  <2>1. PICK name \in DOMAIN after.verdicts : after.verdicts[name] = "FAIL"
    BY <1>2 DEF ClassifyVerdicts
  <2>2. \A other \in DOMAIN after.verdicts : after.verdicts[other] # "NOT_REPRESENTABLE"
    BY <1>2 DEF ClassifyVerdicts
  <2>3. name \in DOMAIN before.verdicts /\ before.verdicts[name] = "FAIL"
    BY <2>1 DEF Failed
  <2>4. /\ Len(Corpus[case].turns) # 0
        /\ DOMAIN after.verdicts = DOMAIN Corpus[case].expected
        /\ \A other \in DOMAIN after.verdicts :
             (after.verdicts[other] = "NOT_REPRESENTABLE") = (other = "unsupported")
    BY <2>1 DEF RepetitionFits
  <2>5. /\ DOMAIN before.verdicts = DOMAIN Corpus[case].expected
        /\ \A other \in DOMAIN before.verdicts :
             (before.verdicts[other] = "NOT_REPRESENTABLE") = (other = "unsupported")
        /\ before.classification \in
             {"MODEL_FAILURE", ClassifyVerdicts(before.verdicts, FALSE)}
    BY <2>3 DEF RepetitionFits
  <2>6. \A other \in DOMAIN before.verdicts : before.verdicts[other] # "NOT_REPRESENTABLE"
    BY <2>2, <2>4, <2>5
  <2>7. ClassifyVerdicts(before.verdicts, FALSE) = "FAIL"
    BY <2>3, <2>6 DEF ClassifyVerdicts
  <2> QED
    BY <2>5, <2>7
<1> QED
  BY <1>1, <1>2 DEF RepetitionFits

\* An accepted candidate was measured on everything the baseline was, fails no oracle that the
\* baseline did not fail and executes no new critical, whatever was declared of the two runs.
THEOREM AcceptanceIsSafe == Spec => []AcceptedIsNoWorse
<1> DEFINE baseline == artifact["baseline"]
           candidate == artifact["candidate"]
<1>1. LabInv => AcceptedIsNoWorse
  <2> SUFFICES ASSUME LabInv, Accepted
               PROVE  /\ DOMAIN candidate = DOMAIN baseline
                      /\ \A case \in Chosen :
                           LET before == baseline[case]
                               after == candidate[case]
                           IN  /\ before.status = "valid" /\ after.status = "valid"
                               /\ after.classification = "FAIL" =>
                                    before.classification \in {"FAIL", "MODEL_FAILURE"}
                               /\ \A i \in DOMAIN after.turns :
                                    Failed(after.turns[i]) \subseteq
                                      Failed(TurnVerdicts(before, i))
                               /\ after.criticals \subseteq before.criticals
    BY DEF AcceptedIsNoWorse
  <2>1. CompareRuns(baseline, candidate, report.setting) = "ACCEPT"
    BY DEF LabInv, Accepted
  <2>2. /\ NewCriticals(baseline, candidate) = {}
        /\ Incomplete(baseline, candidate) = {}
        /\ InfraPairs(baseline, candidate) = {}
        /\ CompareSemantics(baseline, candidate).regressed = {}
    BY <2>1 DEF CompareRuns
  <2>3. \A case \in Chosen : /\ case \in DOMAIN baseline /\ case \in DOMAIN candidate
                             /\ RepetitionFits(case, baseline[case])
                             /\ RepetitionFits(case, candidate[case])
    BY <2>2 DEF Incomplete, Chosen, LabInv, ArtifactFits, Lane
  <2> HIDE DEF baseline, candidate
  <2>4. DOMAIN candidate = DOMAIN baseline
    BY <2>2 DEF Incomplete
  <2>5. ASSUME NEW case \in Chosen
        PROVE  /\ baseline[case].status = "valid" /\ candidate[case].status = "valid"
               /\ NewPropertyFailures(baseline[case], candidate[case]) = {}
    <3>1. baseline[case].status = "valid" /\ candidate[case].status = "valid"
      BY <2>2, <2>3 DEF InfraPairs
    <3>2. case \in Pairs(baseline, candidate)
      BY <2>2, <2>3 DEF Pairs
    <3> QED
      BY <2>2, <3>1, <3>2 DEF CompareSemantics
  <2>6. ASSUME NEW case \in Chosen
        PROVE  candidate[case].criticals \subseteq baseline[case].criticals
    <3> SUFFICES ASSUME NEW class \in candidate[case].criticals
                 PROVE  class \in baseline[case].criticals
      OBVIOUS
    <3>1. [key |-> case, class |-> class] \in CriticalFindings(candidate)
      BY <2>3 DEF CriticalFindings
    <3>2. [key |-> case, class |-> class] \in CriticalFindings(baseline)
      BY <2>2, <3>1 DEF NewCriticals
    <3>3. PICK key \in DOMAIN baseline :
            \E c \in baseline[key].criticals :
              [key |-> case, class |-> class] = [key |-> key, class |-> c]
      BY <3>2 DEF CriticalFindings
    <3> QED
      BY <3>3
  <2>7. ASSUME NEW case \in Chosen
        PROVE  /\ Failed(candidate[case].verdicts) \subseteq Failed(baseline[case].verdicts)
               /\ \A i \in DOMAIN candidate[case].turns :
                    Failed(candidate[case].turns[i]) \subseteq
                      Failed(TurnVerdicts(baseline[case], i))
    <3> DEFINE before == baseline[case]
               after == candidate[case]
    <3>1. NewPropertyFailures(before, after) = {}
      BY <2>5
    <3> HIDE DEF before, after
    <3>2. \A name \in Failed(after.verdicts) \ Failed(before.verdicts) :
            <<0, name>> \in NewPropertyFailures(before, after)
      BY DEF NewPropertyFailures
    <3>3. \A i \in DOMAIN after.turns :
            \A name \in Failed(after.turns[i]) \ Failed(TurnVerdicts(before, i)) :
              <<i, name>> \in NewPropertyFailures(before, after)
      BY DEF NewPropertyFailures
    <3>4. /\ Failed(after.verdicts) \subseteq Failed(before.verdicts)
          /\ \A i \in DOMAIN after.turns :
               Failed(after.turns[i]) \subseteq Failed(TurnVerdicts(before, i))
      BY <3>1, <3>2, <3>3
    <3> QED
      BY <3>4 DEF before, after
  <2>8. ASSUME NEW case \in Chosen, candidate[case].classification = "FAIL"
        PROVE  baseline[case].classification \in {"FAIL", "MODEL_FAILURE"}
    <3>1. /\ RepetitionFits(case, baseline[case]) /\ RepetitionFits(case, candidate[case])
          /\ baseline[case].status = "valid" /\ candidate[case].status = "valid"
          /\ Failed(candidate[case].verdicts) \subseteq Failed(baseline[case].verdicts)
      BY <2>3, <2>5, <2>7
    <3> QED
      BY <2>8, <3>1, FailuresAreOld
  <2> QED
    BY <2>4, <2>5, <2>6, <2>7, <2>8
<1> QED
  BY <1>1, LabInvariance, PTL
================================================================================
