---------------------------- MODULE Sequential_proofs ----------------------------
(***************************************************************************)
(* What holds of a conversation whose requests come one at a time, the     *)
(* deployment the repository documents: at most one order, no order        *)
(* without its durable operation, no settled operation reopened, and the   *)
(* whole conversation implements the contract of one operation.            *)
(***************************************************************************)
EXTENDS Conversation_proofs

CommandOf(rec) ==
    [operation |-> rec.dispatch.operation, action |-> rec.dispatch.action,
     revision |-> rec.dispatch.revision]

\* With no other request in flight, a handler works on the record that is stored.
CopiesAreCurrent ==
    \A h \in Handlers : request[h].phase = "loaded" =>
        request[h].rec = doc \/ (doc = None /\ request[h].rec = NewRecord)

\* What was ordered is exactly what the stored dispatch says.
OrdersAreStored ==
    orders = IF doc = None THEN {} ELSE IF doc.dispatch = None THEN {} ELSE {CommandOf(doc)}

\* RD only reports what was ordered.
ReportsAreOrdered == succeeded \cup failed \subseteq {command.operation : command \in orders}

SequentialInv == Inv /\ CopiesAreCurrent /\ OrdersAreStored /\ ReportsAreOrdered

\* What one step may do to the operation of the call.
KeepsOperation ==
    OperationOf(doc') = OperationOf(doc) /\ orders' = orders /\ UNCHANGED rd
LearnsOfOperation ==
    /\ OperationOf(doc') = OperationOf(doc) /\ orders' = orders /\ orders # {}
    /\ succeeded \subseteq succeeded' /\ failed \subseteq failed'
StartsOperation ==
    /\ OperationOf(doc) = None /\ OperationOf(doc') # None
    /\ OperationOf(doc').status = "pending"
    /\ orders = {} /\ orders' = {CommandOf(doc')} /\ UNCHANGED rd
DoubtsOperation ==
    /\ OperationOf(doc) # None /\ OperationOf(doc).status = "pending"
    /\ OperationOf(doc') = [OperationOf(doc) EXCEPT !.status = "unknown"]
    /\ orders' = orders /\ UNCHANGED rd
SettlesOperation ==
    /\ IsActive(OperationOf(doc))
    /\ \E seen \in TerminalObservation :
         /\ IsReported([operation |-> OperationOf(doc).id], seen)
         /\ OperationOf(doc') = [OperationOf(doc) EXCEPT !.status = StatusOf(seen)]
    /\ orders' = orders /\ UNCHANGED rd

OperationStep ==
    \/ KeepsOperation
    \/ LearnsOfOperation
    \/ StartsOperation
    \/ DoubtsOperation
    \/ SettlesOperation

\* Nothing is ordered, reported or loaded at the start.
LEMMA InitSequential == Init => SequentialInv
<1>1. Init => Inv
  BY InitInv
<1>2. Init => CopiesAreCurrent /\ OrdersAreStored /\ ReportsAreOrdered
  BY DEF Init, Idle, CopiesAreCurrent, OrdersAreStored, ReportsAreOrdered
<1> QED
  BY <1>1, <1>2 DEF SequentialInv

\* A turn that finishes starts the only operation of the call, or leaves it alone.
LEMMA FinishTurnStep ==
    ASSUME SequentialInv, OneAtATime, NEW h \in Handlers, NEW dec \in Decisions,
           FinishTurn(h, dec)
    PROVE  /\ OperationStep
           /\ CopiesAreCurrent' /\ OrdersAreStored' /\ ReportsAreOrdered'
<1> DEFINE asked == IF ModelIsAsked(request[h].rec, request[h].input) THEN dec ELSE None
           result == AdvanceTurn(request[h].rec, request[h].input, asked,
                                 request[h].now, nextId)
<1>1. /\ request[h].phase = "loaded" /\ request[h].input.kind = "turn"
      /\ Save(result.record)
      /\ orders' = orders \cup Ordered(result.outcome)
      /\ Finish(h) /\ UNCHANGED rd
  BY DEF FinishTurn
<1>2. asked \in Optional(ModelTurnDecision)
  BY ModelAssumption DEF Optional
<1> HIDE DEF asked
<1>3. /\ result.record \in Record
      /\ KeepsOrStarts(request[h].rec, result, nextId)
  BY <1>1, <1>2, TurnIsSound DEF SequentialInv
<1> HIDE DEF result
<1>4. doc' = result.record /\ doc' # None
  BY <1>1, <1>3, NoneAssumption DEF Save
<1>5. request[h].rec # None /\ (request[h].rec = doc \/ (doc = None /\ request[h].rec = NewRecord))
  BY <1>1 DEF SequentialInv, CopiesAreCurrent, Inv, TurnsHaveRecords
<1>6. /\ request[h].rec.operation = OperationOf(doc)
      /\ request[h].rec.dispatch = None => orders = {}
      /\ request[h].rec.dispatch # None => doc # None /\ orders = {CommandOf(request[h].rec)}
  BY <1>5 DEF SequentialInv, OrdersAreStored, OperationOf, NewRecord
<1>7. CopiesAreCurrent'
  BY <1>1 DEF CopiesAreCurrent, OneAtATime, Finish, Idle, SequentialInv, Inv, TypeOK
<1>8. CASE /\ result.record.operation = request[h].rec.operation
           /\ result.record.dispatch = request[h].rec.dispatch
           /\ result.outcome # None => result.outcome.command = None
  <2>1. Ordered(result.outcome) = {}
    BY <1>8 DEF Ordered
  <2>2. KeepsOperation
    BY <1>1, <1>4, <1>6, <1>8, <2>1 DEF KeepsOperation, OperationOf
  <2>3. OrdersAreStored'
    BY <1>1, <1>4, <1>6, <1>8, <2>1 DEF OrdersAreStored, CommandOf
  <2>4. ReportsAreOrdered'
    BY <2>2 DEF KeepsOperation, rd, SequentialInv, ReportsAreOrdered
  <2> QED
    BY <1>7, <2>2, <2>3, <2>4 DEF OperationStep
<1>9. CASE /\ request[h].rec.operation = None /\ request[h].rec.dispatch = None
           /\ result.record.operation # None /\ result.record.dispatch # None
           /\ result.record.operation.status = "pending"
           /\ result.record.dispatch.operation = nextId
           /\ result.outcome # None
           /\ result.outcome.command = [operation |-> nextId,
                                        action |-> result.record.dispatch.action,
                                        revision |-> result.record.dispatch.revision]
  <2>1. result.outcome.command # None
    <3>1. Ordered(result.outcome) \subseteq ExternalActionCommand
      BY <1>1, <1>2, TurnIsSound DEF SequentialInv, result
    <3>2. result.record.dispatch \in AuthorizedDispatch
      BY <1>3, <1>9 DEF Record, Optional
    <3>3. result.outcome.command \in ExternalActionCommand
      BY <1>9, <3>2 DEF ExternalActionCommand, AuthorizedDispatch, SequentialInv, Inv, TypeOK
    <3> QED
      BY <3>3, NoOutcomeAssumption
  <2>2. Ordered(result.outcome) = {CommandOf(doc')}
    BY <1>4, <1>9, <2>1 DEF Ordered, CommandOf
  <2>3. StartsOperation
    BY <1>1, <1>4, <1>6, <1>9, <2>2 DEF StartsOperation, OperationOf
  <2>4. OrdersAreStored'
    BY <1>4, <1>9, <2>3 DEF OrdersAreStored, StartsOperation
  <2>5. ReportsAreOrdered'
    BY <2>3 DEF StartsOperation, rd, SequentialInv, ReportsAreOrdered
  <2> QED
    BY <1>7, <2>3, <2>4, <2>5 DEF OperationStep
<1> QED
  BY <1>3, <1>8, <1>9 DEF KeepsOrStarts

\* An event that finishes moves the operation forward on evidence, or leaves it alone.
LEMMA FinishEventStep ==
    ASSUME SequentialInv, OneAtATime, NEW h \in Handlers, NEW pace \in Pace,
           FinishEvent(h, pace)
    PROVE  /\ OperationStep
           /\ CopiesAreCurrent' /\ OrdersAreStored' /\ ReportsAreOrdered'
<1> DEFINE rec == request[h].rec
           event == request[h].input
           result == HandleEvent(rec, event, request[h].now, nextId, pace)
<1>1. /\ request[h].phase = "loaded" /\ event.kind # "turn" /\ rec # None
      /\ IF result.saved THEN Save(result.record) ELSE UNCHANGED <<doc, nextId>>
      /\ orders' = orders /\ Finish(h) /\ UNCHANGED rd
  BY DEF FinishEvent
<1>2. result.record \in Record /\ OperationMoves(rec, event, result.record)
  BY <1>1, EventIsSound DEF SequentialInv
<1>3. event.kind \in {"status", "status_v1"} => IsReported(event.command, event.seen)
  BY <1>1 DEF SequentialInv, Inv, InputsAreServed
<1> HIDE DEF result
<1>4. doc' = doc \/ doc' = result.record
  BY <1>1 DEF Save
<1>5. rec = doc \/ (doc = None /\ rec = NewRecord)
  BY <1>1 DEF SequentialInv, CopiesAreCurrent
<1>6. /\ rec.operation = OperationOf(doc)
      /\ rec.dispatch = None => orders = {}
      /\ rec.dispatch # None => doc # None /\ orders = {CommandOf(rec)}
  BY <1>1, <1>5 DEF SequentialInv, OrdersAreStored, OperationOf, NewRecord
<1>7. CopiesAreCurrent'
  BY <1>1 DEF CopiesAreCurrent, OneAtATime, Finish, Idle, SequentialInv, Inv, TypeOK
<1>8. ReportsAreOrdered'
  BY <1>1 DEF rd, SequentialInv, ReportsAreOrdered
<1>9. CASE doc' = doc
  BY <1>1, <1>7, <1>8, <1>9 DEF OperationStep, KeepsOperation, SequentialInv, OrdersAreStored
<1>10. CASE doc' = result.record
  <2>1. doc' # None /\ OperationOf(doc') = result.record.operation
    BY <1>2, <1>10, NoneAssumption DEF OperationOf
  <2>2. OrdersAreStored'
    BY <1>1, <1>2, <1>6, <1>10, <2>1 DEF OrdersAreStored, OperationMoves, CommandOf
  <2>3. ASSUME IsActive(rec.operation), event.kind \in {"status", "status_v1"},
               event.seen \in TerminalObservation, event.command.operation = rec.operation.id,
               result.record.operation = [rec.operation EXCEPT !.status = StatusOf(event.seen)]
        PROVE  SettlesOperation
    <3>1. IsReported([operation |-> OperationOf(doc).id], event.seen)
      BY <1>3, <1>6, <2>3 DEF IsReported
    <3> QED
      BY <1>1, <1>6, <2>1, <2>3, <3>1 DEF SettlesOperation
  <2>4. OperationStep
    BY <1>1, <1>2, <1>6, <2>1, <2>3 DEF OperationStep, OperationMoves, KeepsOperation, DoubtsOperation
  <2> QED
    BY <1>7, <1>8, <2>2, <2>4
<1> QED
  BY <1>4, <1>9, <1>10

\* Every step keeps the invariant, and is one of the moves of the operation.
LEMMA NextSequential ==
    ASSUME OneAtATime
    PROVE  SequentialInv /\ [Next]_vars => SequentialInv' /\ OperationStep
<1> SUFFICES ASSUME SequentialInv, [Next]_vars
             PROVE  SequentialInv' /\ OperationStep
  OBVIOUS
<1>1. Inv'
  BY NextInv DEF SequentialInv
<1> SUFFICES OperationStep /\ CopiesAreCurrent' /\ OrdersAreStored' /\ ReportsAreOrdered'
  BY <1>1 DEF SequentialInv
<1>2. request \in [Handlers -> Request]
  BY DEF SequentialInv, Inv, TypeOK
<1>3. ASSUME doc' = doc, orders' = orders, UNCHANGED rd, CopiesAreCurrent'
      PROVE  OperationStep /\ OrdersAreStored' /\ ReportsAreOrdered'
  BY <1>3 DEF OperationStep, KeepsOperation, SequentialInv, OrdersAreStored, ReportsAreOrdered, rd
<1>4. ASSUME NEW h \in Handlers, NEW input \in Inputs, Receive(h, input)
      PROVE  OperationStep /\ CopiesAreCurrent' /\ OrdersAreStored' /\ ReportsAreOrdered'
  <2>1. CopiesAreCurrent'
    BY <1>2, <1>4 DEF Receive, CopiesAreCurrent, OneAtATime
  <2> QED
    BY <1>3, <1>4, <2>1 DEF Receive
<1>5. ASSUME NEW h \in Handlers, Load(h)
      PROVE  OperationStep /\ CopiesAreCurrent' /\ OrdersAreStored' /\ ReportsAreOrdered'
  <2>1. request'[h].rec = IF doc = None /\ request[h].input.kind = "turn" THEN NewRecord
                          ELSE doc
    BY <1>2, <1>5 DEF Load, Request
  <2>2. CopiesAreCurrent'
    BY <1>5, <2>1 DEF Load, CopiesAreCurrent, OneAtATime
  <2> QED
    BY <1>3, <1>5, <2>2 DEF Load
<1>6. ASSUME NEW h \in Handlers, RejectUnknownSession(h) \/ Lose(h)
      PROVE  OperationStep /\ CopiesAreCurrent' /\ OrdersAreStored' /\ ReportsAreOrdered'
  <2>1. doc' = doc /\ orders' = orders /\ UNCHANGED rd /\ Finish(h)
    BY <1>6 DEF RejectUnknownSession, Lose
  <2>2. CopiesAreCurrent'
    BY <1>2, <2>1 DEF CopiesAreCurrent, OneAtATime, Finish, Idle
  <2> QED
    BY <1>3, <2>1, <2>2
<1>7. ASSUME NEW h \in Handlers, Bootstrap(h)
      PROVE  OperationStep /\ CopiesAreCurrent' /\ OrdersAreStored' /\ ReportsAreOrdered'
  <2> DEFINE result == ApplyPreTurnVoiceFailure(NewRecord)
  <2>1. CASE doc = None
    <3>1. GoodResult(NewRecord, None, result)
      BY NewRecordIsGood, VoiceIsGood
    <3>2. /\ result.record \in Record
          /\ result.record.operation = None /\ result.record.dispatch = None
      BY <3>1 DEF GoodResult, GoodRecord, OperationMoves, NewRecord, IsActive
    <3>3. doc' = result.record /\ Finish(h) /\ orders' = orders /\ UNCHANGED rd
      BY <1>7, <2>1 DEF Bootstrap
    <3>4. CopiesAreCurrent'
      BY <1>2, <3>3 DEF CopiesAreCurrent, OneAtATime, Finish, Idle
    <3> HIDE DEF result
    <3>5. orders = {} /\ OrdersAreStored'
      BY <2>1, <3>2, <3>3 DEF SequentialInv, OrdersAreStored
    <3>6. KeepsOperation
      BY <2>1, <3>2, <3>3 DEF KeepsOperation, OperationOf
    <3> QED
      BY <3>3, <3>4, <3>5, <3>6 DEF OperationStep, SequentialInv, ReportsAreOrdered, rd
  <2>2. CASE doc # None
    <3>1. /\ doc' = doc /\ orders' = orders /\ UNCHANGED rd
          /\ request' = [request EXCEPT ![h].phase = "received"]
      BY <1>7, <2>2 DEF Bootstrap
    <3>2. request'[h].phase = "received"
      BY <1>2, <3>1 DEF Request
    <3>3. CopiesAreCurrent'
      BY <3>2 DEF CopiesAreCurrent, OneAtATime
    <3> QED
      BY <1>3, <3>1, <3>3
  <2> QED
    BY <2>1, <2>2
<1>8. ASSUME NEW command \in orders, NEW seen \in Reports, Report(command, seen)
      PROVE  OperationStep /\ CopiesAreCurrent' /\ OrdersAreStored' /\ ReportsAreOrdered'
  <2>1. LearnsOfOperation
    BY <1>8 DEF Report, LearnsOfOperation
  <2> QED
    BY <1>8, <2>1 DEF Report, OperationStep, SequentialInv, CopiesAreCurrent,
                      OrdersAreStored, ReportsAreOrdered
<1>9. ASSUME Tick \/ UNCHANGED vars
      PROVE  OperationStep /\ CopiesAreCurrent' /\ OrdersAreStored' /\ ReportsAreOrdered'
  <2>1. doc' = doc /\ request' = request /\ orders' = orders /\ UNCHANGED rd
    BY <1>9 DEF Tick, vars, rd
  <2>2. CopiesAreCurrent'
    BY <2>1 DEF SequentialInv, CopiesAreCurrent
  <2> QED
    BY <1>3, <2>1, <2>2
<1> QED
  BY <1>4, <1>5, <1>6, <1>7, <1>8, <1>9, FinishTurnStep, FinishEventStep DEF Next

\* The sequential invariant holds in every reachable state.
THEOREM SequentialInvariance ==
    ASSUME OneAtATime
    PROVE  Spec => [](SequentialInv)
<1>1. Init => SequentialInv
  BY InitSequential
<1>2. SequentialInv /\ [Next]_vars => SequentialInv'
  BY NextSequential
<1> QED
  BY <1>1, <1>2, PTL DEF Spec

\* What was ordered is durable: no answer ever names an operation its record does not.
THEOREM OrdersAreDurable ==
    ASSUME OneAtATime
    PROVE  Spec => []OrderIsDurable
<1>1. SequentialInv => OrderIsDurable
  BY DEF SequentialInv, OrdersAreStored, Inv, Sound, Coherent, DispatchNames, CommandOf,
         OrderIsDurable
<1> QED
  BY <1>1, SequentialInvariance, PTL

\* A crash, a lost answer, a stale model decision or a second confirmation never makes the
\* call order a second mutation: the guard of the first one is durable and final.
THEOREM OrdersOnce ==
    ASSUME OneAtATime
    PROVE  Spec => []OneMutationPerCall
<1>1. SequentialInv => OneMutationPerCall
  BY DEF SequentialInv, OrdersAreStored, OneMutationPerCall
<1> QED
  BY <1>1, SequentialInvariance, PTL

\* A settled operation survives late errors, contradictory reports, replays and new turns.
THEOREM SettlementIsFinal ==
    ASSUME OneAtATime
    PROVE  Spec => SettledStaysSettled
<1>1. SequentialInv /\ [Next]_vars => [Settled(doc) => doc'.operation = doc.operation]_vars
  <2> SUFFICES ASSUME SequentialInv, [Next]_vars, Settled(doc)
               PROVE  doc'.operation = doc.operation \/ UNCHANGED vars
    OBVIOUS
  <2>1. OperationStep
    BY NextSequential
  <2>2. OperationOf(doc) = doc.operation /\ doc.operation # None
        /\ ~IsActive(doc.operation)
    BY DEF Settled, OperationOf
  <2>3. OperationOf(doc') = doc.operation
    BY <2>1, <2>2 DEF OperationStep, KeepsOperation, LearnsOfOperation, StartsOperation,
                      DoubtsOperation, SettlesOperation, IsActive
  <2> QED
    BY <2>2, <2>3 DEF OperationOf
<1> QED
  BY <1>1, SequentialInvariance, PTL DEF Spec, SettledStaysSettled

\* Turns, events, lost requests and reports together implement the contract of one
\* operation: it is ordered once, doubted without being repeated, and settled on evidence.
THEOREM ConversationImplementsAccountOperation ==
    ASSUME OneAtATime
    PROVE  Spec => ImplementsAccountOperation
<1>1. Init => Contract!Init
  BY DEF Init, Contract!Init, StatusNow, EvidenceNow, OperationOf
<1>2. SequentialInv /\ SequentialInv' /\ [Next]_vars =>
        [Contract!Next]_<<StatusNow, EvidenceNow, orders>>
  <2> SUFFICES ASSUME SequentialInv, SequentialInv', [Next]_vars
               PROVE  [Contract!Next]_<<StatusNow, EvidenceNow, orders>>
    OBVIOUS
  <2>1. OperationStep
    BY NextSequential
  <2>2. OperationOf(doc) # None => OperationOf(doc) \in ExternalOperation
    BY DEF SequentialInv, Inv, TypeOK, OperationOf, Record, Optional
  <2>3. OperationOf(doc') = OperationOf(doc) => StatusNow' = StatusNow
    BY DEF StatusNow
  <2>4. ASSUME UNCHANGED rd, OperationOf(doc) # None, OperationOf(doc') # None,
               OperationOf(doc').id = OperationOf(doc).id
        PROVE  EvidenceNow' = EvidenceNow
    BY <2>4 DEF EvidenceNow, IsReported, rd
  <2>5. CASE KeepsOperation
    <3>1. EvidenceNow' = EvidenceNow
      BY <2>5 DEF KeepsOperation, EvidenceNow, IsReported, rd
    <3> QED
      BY <2>3, <2>5, <3>1 DEF KeepsOperation
  <2>6. CASE LearnsOfOperation
    <3>1. doc # None /\ doc.operation # None
      BY <2>6 DEF LearnsOfOperation, SequentialInv, OrdersAreStored, Inv, Sound, Coherent,
                  DispatchNames
    <3>2. StatusNow' = StatusNow /\ StatusNow # "none" /\ orders' = orders
      BY <2>2, <2>3, <2>6, <3>1
      DEF LearnsOfOperation, StatusNow, OperationOf, ExternalOperation, OperationStatus
    <3>3. EvidenceNow \subseteq EvidenceNow' /\ EvidenceNow' \subseteq {"SUCCEEDED", "FAILED"}
      BY <2>6 DEF LearnsOfOperation, EvidenceNow, IsReported, TerminalObservation
    <3> QED
      BY <3>2, <3>3 DEF Contract!Next, Contract!Report, Contract!Terminal
  <2>7. CASE StartsOperation
    <3>1. StatusNow = "none" /\ StatusNow' = "pending"
      BY <2>7 DEF StartsOperation, StatusNow
    <3>2. succeeded' = {} /\ failed' = {}
      BY <2>7 DEF StartsOperation, rd, SequentialInv, ReportsAreOrdered
    <3>3. EvidenceNow = {} /\ EvidenceNow' = {}
      BY <2>7, <3>2 DEF StartsOperation, EvidenceNow, IsReported, TerminalObservation
    <3> QED
      BY <2>7, <3>1, <3>3 DEF StartsOperation, Contract!Next, Contract!Order
  <2>8. CASE DoubtsOperation
    <3>1. /\ OperationOf(doc') = [OperationOf(doc) EXCEPT !.status = "unknown"]
          /\ OperationOf(doc).status = "pending" /\ OperationOf(doc) # None
          /\ orders' = orders /\ UNCHANGED rd
      BY <2>8 DEF DoubtsOperation
    <3>2. OperationOf(doc') \in ExternalOperation /\ OperationOf(doc').status = "unknown"
          /\ OperationOf(doc').id = OperationOf(doc).id
      BY <2>2, <3>1 DEF ExternalOperation, OperationStatus
    <3>3. OperationOf(doc') # None
      BY <3>2, NoneAssumption
    <3>4. StatusNow = "pending" /\ StatusNow' = "unknown" /\ EvidenceNow' = EvidenceNow
      BY <2>4, <3>1, <3>2, <3>3 DEF StatusNow
    <3> QED
      BY <3>1, <3>4 DEF Contract!Next, Contract!Doubt
  <2>9. CASE SettlesOperation
    <3>1. PICK seen \in TerminalObservation :
            /\ IsReported([operation |-> OperationOf(doc).id], seen)
            /\ OperationOf(doc') = [OperationOf(doc) EXCEPT !.status = StatusOf(seen)]
      BY <2>9 DEF SettlesOperation
    <3>2. /\ OperationOf(doc) # None /\ OperationOf(doc).status \in {"pending", "unknown"}
          /\ orders' = orders /\ UNCHANGED rd
      BY <2>9 DEF SettlesOperation, IsActive
    <3>3. OperationOf(doc') \in ExternalOperation
          /\ OperationOf(doc').status = StatusOf(seen)
          /\ OperationOf(doc').id = OperationOf(doc).id
      BY <2>2, <3>1, <3>2 DEF ExternalOperation, OperationStatus, StatusOf
    <3>4. OperationOf(doc') # None
      BY <3>3, NoneAssumption
    <3>5. /\ StatusNow \in {"pending", "unknown"} /\ StatusNow' = StatusOf(seen)
          /\ EvidenceNow' = EvidenceNow
      BY <2>4, <3>2, <3>3, <3>4 DEF StatusNow
    <3>6. seen \in EvidenceNow
      BY <3>1, <3>2 DEF EvidenceNow
    <3> QED
      BY <3>2, <3>5, <3>6
      DEF Contract!Next, Contract!Settle, Contract!Active, StatusOf, TerminalObservation
  <2> QED
    BY <2>1, <2>5, <2>6, <2>7, <2>8, <2>9 DEF OperationStep
<1> QED
  BY <1>1, <1>2, SequentialInvariance, PTL DEF Spec, ImplementsAccountOperation, Contract!Spec

--------------------------------------------------------------------------------
(* What is answered and what is never taken back. *)

\* The answer XCALLY holds is backed by the stored record, and no goal waits beside a
\* password that is owed.
BackedInv ==
    /\ SequentialInv
    /\ doc # None => OwedClearsGoal(doc)
    /\ answer # None => doc # None /\ AnswerFits(answer, doc)

\* What one step may do to the record.
TakesNothingBack ==
    doc # None =>
        /\ PlaybackGrows(doc.presentation, doc'.presentation)
        /\ ReceiptsExtend(doc.polling, doc'.polling)

\* A step that dispatches found the consent for it in the record, at the instant now.
ConsentIsStored(now) ==
    (doc # None => doc.dispatch = None) /\ doc' # None /\ doc'.dispatch # None =>
        /\ doc # None /\ Consented(doc, now)
        /\ doc'.dispatch.challenge = doc.confirmation.id

\* The three ways a request writes the record; everything else leaves it alone, and at most
\* withdraws the answer.
LEMMA StepWrites ==
    ASSUME [Next]_vars
    PROVE  \/ \E h \in Handlers, dec \in Decisions : FinishTurn(h, dec)
           \/ \E h \in Handlers, pace \in Pace : FinishEvent(h, pace)
           \/ \E h \in Handlers : Bootstrap(h) /\ doc = None
           \/ doc' = doc /\ answer' \in {answer, None}
<1>1. ASSUME NEW h \in Handlers,
             \/ \E input \in Inputs : Receive(h, input)
             \/ Load(h) \/ RejectUnknownSession(h) \/ Lose(h)
      PROVE  doc' = doc /\ answer' \in {answer, None}
  BY <1>1 DEF Receive, Load, RejectUnknownSession, Lose
<1>2. ASSUME NEW h \in Handlers, Bootstrap(h)
      PROVE  doc = None \/ (doc' = doc /\ answer' \in {answer, None})
  BY <1>2 DEF Bootstrap
<1>3. ASSUME \/ \E command \in orders, seen \in Reports : Report(command, seen)
             \/ Tick \/ UNCHANGED vars
      PROVE  doc' = doc /\ answer' \in {answer, None}
  BY <1>3 DEF Report, Tick, vars
<1> QED
  BY <1>1, <1>2, <1>3 DEF Next

\* The record a request works on is the stored one, or a new one when there is none; either
\* way it is well formed, coherent and clears the goal of an owed password.
LEMMA ServedRecord ==
    ASSUME BackedInv, NEW h \in Handlers, request[h].phase = "loaded", request[h].rec # None
    PROVE  /\ request[h].rec = doc \/ (doc = None /\ request[h].rec = NewRecord)
           /\ request[h].rec \in Record /\ Coherent(request[h].rec)
           /\ OwedClearsGoal(request[h].rec)
           /\ request[h].now \in Nat /\ nextId \in Nat
<1>1. request[h].rec = doc \/ (doc = None /\ request[h].rec = NewRecord)
  BY DEF BackedInv, SequentialInv, CopiesAreCurrent
<1>2. /\ request[h].rec \in Record /\ request[h].now \in Nat /\ nextId \in Nat
      /\ Coherent(request[h].rec)
  BY DEF BackedInv, SequentialInv, Inv, TypeOK, Request, Optional, Sound
<1>3. OwedClearsGoal(NewRecord)
  BY DEF OwedClearsGoal, NewRecord
<1> QED
  BY <1>1, <1>2, <1>3 DEF BackedInv

\* A turn answers what the record it saved backs, takes nothing back, and dispatches only
\* on a stored consent.
LEMMA FinishTurnBacked ==
    ASSUME BackedInv, NEW h \in Handlers, NEW dec \in Decisions, FinishTurn(h, dec)
    PROVE  /\ doc' # None /\ OwedClearsGoal(doc')
           /\ AnswerFits(answer', doc')
           /\ TakesNothingBack
           /\ ConsentIsStored(request[h].now)
<1> DEFINE rec == request[h].rec
           turn == request[h].input
           asked == IF ModelIsAsked(rec, turn) THEN dec ELSE None
           result == AdvanceTurn(rec, turn, asked, request[h].now, nextId)
<1>1. /\ request[h].phase = "loaded" /\ turn.kind = "turn"
      /\ doc' = result.record /\ answer' = result.outcome
  BY DEF FinishTurn, Save
<1>2. asked \in Optional(ModelTurnDecision)
  BY ModelAssumption DEF Optional
<1>3. rec # None /\ turn \in TurnInput
  BY <1>1, ServedKind
  DEF BackedInv, SequentialInv, Inv, TurnsHaveRecords, InputsAreServed
<1>4. /\ rec = doc \/ (doc = None /\ rec = NewRecord)
      /\ rec \in Record /\ Coherent(rec) /\ OwedClearsGoal(rec)
      /\ request[h].now \in Nat /\ nextId \in Nat
  BY <1>1, <1>3, ServedRecord
<1> DEFINE now == request[h].now
<1> HIDE DEF asked, rec, turn, now
<1>5. result.record \in Record /\ OwedClearsGoal(result.record)
      /\ AnswerFits(result.outcome, result.record)
  BY <1>2, <1>3, <1>4, TurnKeepsRecord, TurnKeepsOwed, TurnAnswerFits DEF now
<1>6. /\ PlaybackGrows(rec.presentation, result.record.presentation)
      /\ result.record.polling = rec.polling
  <2>1. /\ result.record.presentation = PresentationAfter(rec, turn, asked)
        /\ result.record.polling = rec.polling
    BY <1>4, TurnLeaves DEF now
  <2> QED
    BY <1>4, <2>1, TurnKeepsPlayback DEF PlaybackGrows
<1>7. rec.dispatch = None /\ result.record.dispatch # None =>
        /\ Consented(rec, now) /\ result.record.dispatch.challenge = rec.confirmation.id
  BY <1>2, <1>4, DispatchIsConsented DEF now
<1> HIDE DEF result
<1>8. doc' # None /\ OwedClearsGoal(doc') /\ AnswerFits(answer', doc')
  BY <1>1, <1>5, NoneAssumption
<1>9. TakesNothingBack
  BY <1>1, <1>4, <1>6, ReceiptsStay DEF TakesNothingBack
<1>10. ConsentIsStored(now)
  <2>1. ASSUME doc # None => doc.dispatch = None, doc'.dispatch # None
        PROVE  /\ doc # None /\ Consented(doc, now)
               /\ doc'.dispatch.challenge = doc.confirmation.id
    <3>1. rec.dispatch = None
      BY <1>3, <1>4, <2>1 DEF NewRecord
    <3>2. Consented(rec, now) /\ doc'.dispatch.challenge = rec.confirmation.id
      BY <1>1, <1>7, <2>1, <3>1
    <3>3. rec # NewRecord
      BY <3>2 DEF Consented, NewRecord
    <3> QED
      BY <1>3, <1>4, <3>2, <3>3
  <2> QED
    BY <2>1 DEF ConsentIsStored
<1> QED
  BY <1>8, <1>9, <1>10 DEF now

\* An event answers what the record it left backs, takes nothing back, and dispatches
\* nothing; delivered again, a sequenced observation writes nothing.
LEMMA FinishEventBacked ==
    ASSUME BackedInv, NEW h \in Handlers, NEW pace \in Pace, FinishEvent(h, pace)
    PROVE  /\ doc' # None => OwedClearsGoal(doc')
           /\ answer' # None => doc' # None /\ AnswerFits(answer', doc')
           /\ TakesNothingBack
           /\ ConsentIsStored(request[h].now)
           /\ /\ request[h].input.kind \in {"status_v1", "poll_error_v1"}
              /\ doc # None /\ doc.polling # None
              /\ \E i \in 1..Len(doc.polling.receipts) :
                   doc.polling.receipts[i] = ReceiptOf(request[h].input)
              => doc' = doc
<1> DEFINE rec == request[h].rec
           event == request[h].input
           now == request[h].now
           result == HandleEvent(rec, event, now, nextId, pace)
<1>1. /\ request[h].phase = "loaded" /\ event.kind # "turn" /\ rec # None
      /\ IF result.saved THEN doc' = result.record ELSE doc' = doc
      /\ answer' = result.outcome
  BY DEF FinishEvent, Save
<1>2. event \in Event
  BY <1>1, ServedKind DEF BackedInv, SequentialInv, Inv, InputsAreServed
<1>3. /\ rec = doc \/ (doc = None /\ rec = NewRecord)
      /\ rec \in Record /\ Coherent(rec) /\ OwedClearsGoal(rec)
      /\ now \in Nat /\ nextId \in Nat
  BY <1>1, ServedRecord
<1>4. result.record \in Record /\ OperationMoves(rec, event, result.record)
  BY <1>1, EventIsSound DEF BackedInv, SequentialInv
<1> HIDE DEF rec, event, now
<1>5. AdvancingResult(rec, result)
  BY <1>2, <1>3, EventAdvances
<1>6. rec.turned \/ result.saved \/ result.outcome = None
  BY DEF HandleEvent, ApplyPreTurnVoiceFailure, Saved, Rejected
<1>7. ASSUME event.kind \in {"status_v1", "poll_error_v1"},
             rec.polling # None, NEW i \in 1..Len(rec.polling.receipts),
             rec.polling.receipts[i] = ReceiptOf(event)
      PROVE  ~result.saved
  BY <1>3, <1>7, DuplicateIsReplayed DEF ReceiptOf
<1> HIDE DEF result
<1>8. NewRecord.turned = FALSE /\ NewRecord.dispatch = None
  BY DEF NewRecord
<1>9. CASE result.saved
  <2>1. doc' = result.record /\ doc' # None
    BY <1>1, <1>4, <1>9, NoneAssumption
  <2>2. OwedClearsGoal(doc') /\ AnswerFits(answer', doc')
    BY <1>1, <1>5, <2>1 DEF AdvancingResult, Advances
  <2>3. TakesNothingBack
    BY <1>3, <1>5, <2>1 DEF AdvancingResult, Advances, TakesNothingBack
  <2>4. ConsentIsStored(now)
    <3>1. doc'.dispatch = rec.dispatch
      BY <1>4, <2>1 DEF OperationMoves
    <3>2. (doc # None => doc.dispatch = None) => doc'.dispatch = None
      BY <1>1, <1>3, <1>8, <3>1
    <3> QED
      BY <3>2 DEF ConsentIsStored
  <2> QED
    BY <1>3, <1>7, <1>9, <2>1, <2>2, <2>3, <2>4 DEF rec, event, now
<1>10. CASE ~result.saved
  <2>1. doc' = doc /\ result.record = rec
    BY <1>1, <1>5, <1>10 DEF AdvancingResult
  <2>2. answer' # None => doc # None /\ AnswerFits(answer', doc)
    BY <1>1, <1>3, <1>5, <1>6, <1>8, <1>10, <2>1 DEF AdvancingResult
  <2>3. doc # None => OwedClearsGoal(doc) /\ rec = doc
    BY <1>3 DEF BackedInv
  <2>4. TakesNothingBack
    BY <1>5, <2>1, <2>3 DEF AdvancingResult, Advances, TakesNothingBack
  <2> QED
    BY <2>1, <2>2, <2>3, <2>4 DEF ConsentIsStored
<1> QED
  BY <1>9, <1>10

\* A voice failure that creates the record answers plainly.
LEMMA BootstrapBacked ==
    ASSUME NEW h \in Handlers, Bootstrap(h), doc = None
    PROVE  /\ doc' # None /\ OwedClearsGoal(doc')
           /\ AnswerFits(answer', doc')
           /\ doc'.dispatch = None
<1> DEFINE result == ApplyPreTurnVoiceFailure(NewRecord)
<1>1. doc' = result.record /\ answer' = result.outcome
  BY DEF Bootstrap
<1>2. GoodResult(NewRecord, None, result)
  BY NewRecordIsGood, VoiceIsGood
<1>3. OwedClearsGoal(NewRecord) /\ NewRecord.dispatch = None
  BY DEF OwedClearsGoal, NewRecord
<1>4. AdvancingResult(NewRecord, result)
  BY <1>3, NewRecordIsGood, VoiceAdvances
<1> HIDE DEF result
<1> QED
  BY <1>1, <1>2, <1>3, <1>4, NoneAssumption
  DEF GoodResult, GoodRecord, OperationMoves, AdvancingResult, Advances

\* Every step keeps the answer backed, and takes nothing back from the record.
LEMMA NextBacked ==
    ASSUME OneAtATime, BackedInv, [Next]_vars
    PROVE  BackedInv' /\ TakesNothingBack
<1>1. SequentialInv'
  BY NextSequential DEF BackedInv
<1> SUFFICES /\ doc' # None => OwedClearsGoal(doc')
             /\ answer' # None => doc' # None /\ AnswerFits(answer', doc')
             /\ TakesNothingBack
  <2>1. (doc # None => OwedClearsGoal(doc))' = (doc' # None => OwedClearsGoal(doc'))
    BY DEF OwedClearsGoal, PresentationIsActive
  <2>2. (answer # None => doc # None /\ AnswerFits(answer, doc))'
          = (answer' # None => doc' # None /\ AnswerFits(answer', doc'))
    BY DEF AnswerFits, ClosingFits, QuestionFits, DictationFits, CommandFits
  <2> QED
    BY <1>1, <2>1, <2>2 DEF BackedInv
<1>2. CASE doc' = doc /\ answer' \in {answer, None}
  <2>1. doc # None =>
          /\ PlaybackGrows(doc.presentation, doc.presentation)
          /\ ReceiptsExtend(doc.polling, doc.polling)
    BY ReceiptsStay
    DEF PlaybackGrows, BackedInv, SequentialInv, Inv, TypeOK, Optional
  <2> QED
    BY <1>2, <2>1 DEF BackedInv, TakesNothingBack
<1>3. CASE \E h \in Handlers : Bootstrap(h) /\ doc = None
  BY <1>3, BootstrapBacked DEF TakesNothingBack
<1> QED
  BY <1>2, <1>3, StepWrites, FinishTurnBacked, FinishEventBacked

\* The backed invariant holds in every reachable state.
THEOREM BackedInvariance ==
    ASSUME OneAtATime
    PROVE  Spec => []BackedInv
<1>1. Init => BackedInv
  BY InitSequential DEF Init, BackedInv
<1>2. BackedInv /\ [Next]_vars => BackedInv'
  BY NextBacked
<1> QED
  BY <1>1, <1>2, PTL DEF Spec

\* EXECUTE_ACTION is only ever held by XCALLY while the pending operation, action and
\* revision it names are the stored ones.
THEOREM CommandsAreDurable ==
    ASSUME OneAtATime
    PROVE  Spec => []CommandIsDurable
<1>1. BackedInv => CommandIsDurable
  BY DEF BackedInv, AnswerFits, CommandFits, CommandIsDurable
<1> QED
  BY <1>1, BackedInvariance, PTL

\* A turn answers the canonical question only with its challenge stored, and leaves a
\* challenge only behind an unviolated question it listens for: a transfer, an identity
\* capture, a fallback or a closing leaves none an inattentive "yes" could consume.
THEOREM QuestionsAreStored ==
    ASSUME OneAtATime
    PROVE  Spec => ChallengeIsAsked
<1> DEFINE asked(h) ==
        LET r == request[h]
        IN  /\ r.phase = "loaded" /\ request'[h].phase = "idle"
            /\ answer = None /\ answer' # None
            => /\ answer'.message = "confirmation" => doc'.confirmation # None
               /\ /\ r.input.kind = "turn" /\ r.input.transcript
                  /\ ~PresentationIsActive(r.rec)
                  /\ doc'.confirmation # None
                  => /\ answer'.step = "LISTEN" /\ ~answer'.violated
                     /\ answer'.message \in {"confirmation", "candidate"}
<1>1. BackedInv /\ [Next]_vars => [\A h \in Handlers : asked(h)]_vars
  <2> SUFFICES ASSUME BackedInv, [Next]_vars, NEW h \in Handlers
               PROVE  asked(h)
    OBVIOUS
  <2>1. ASSUME NEW dec \in Decisions, FinishTurn(h, dec)
        PROVE  asked(h)
    <3> DEFINE rec == request[h].rec
               turn == request[h].input
               result == AdvanceTurn(rec, turn, dec, request[h].now, nextId)
    <3>1. answer' # None /\ answer'.message = "confirmation" => doc'.confirmation # None
      BY <2>1, FinishTurnBacked DEF AnswerFits, QuestionFits
    <3>2. ASSUME turn.transcript, ~PresentationIsActive(rec), doc'.confirmation # None
          PROVE  /\ answer'.step = "LISTEN" /\ ~answer'.violated
                 /\ answer'.message \in {"confirmation", "candidate"}
      <4>1. /\ request[h].phase = "loaded" /\ turn.kind = "turn"
            /\ doc' = result.record /\ answer' = result.outcome
        BY <2>1, <3>2 DEF FinishTurn, Save, ModelIsAsked
      <4>2. rec # None /\ turn \in TurnInput
        BY <4>1, ServedKind
        DEF BackedInv, SequentialInv, Inv, TurnsHaveRecords, InputsAreServed
      <4>3. rec \in Record /\ request[h].now \in Nat /\ nextId \in Nat
        BY <4>1, <4>2, ServedRecord
      <4>4. dec \in ModelTurnDecision
        BY ModelAssumption
      <4> HIDE DEF rec, turn
      <4> QED
        BY <3>2, <4>1, <4>2, <4>3, <4>4, UnaskedIsDropped
    <3> QED
      BY <3>1, <3>2
  <2>2. ASSUME NEW pace \in Pace, FinishEvent(h, pace)
        PROVE  asked(h)
    <3>1. request[h].input.kind # "turn"
      BY <2>2 DEF FinishEvent
    <3>2. answer' # None /\ answer'.message = "confirmation" => doc'.confirmation # None
      BY <2>2, FinishEventBacked DEF AnswerFits, QuestionFits
    <3> QED
      BY <3>1, <3>2
  <2>3. ASSUME Bootstrap(h), doc = None
        PROVE  asked(h)
    <3>1. request[h].rec = None /\ request[h].input.kind # "turn"
      BY <2>3 DEF Bootstrap
    <3>2. answer' # None /\ answer'.message = "confirmation" => doc'.confirmation # None
      BY <2>3, BootstrapBacked DEF AnswerFits, QuestionFits
    <3> QED
      BY <3>1, <3>2
  <2>4. answer' \in {answer, None} => asked(h)
    OBVIOUS
  <2> QED
    BY <2>1, <2>2, <2>3, <2>4, StepWrites DEF OneAtATime
<1> QED
  BY <1>1, BackedInvariance, PTL DEF Spec, ChallengeIsAsked

\* The password is only ever asked for a confirmed reset whose presentation the caller has
\* not closed, whichever of turns, late reports and replays answers.
THEOREM PasswordIsOwed ==
    ASSUME OneAtATime
    PROVE  Spec => []PasswordOnlyWhenOwed
<1>1. BackedInv => PasswordOnlyWhenOwed
  BY DEF BackedInv, AnswerFits, DictationFits, PasswordOnlyWhenOwed
<1> QED
  BY <1>1, BackedInvariance, PTL

\* No call is closed over a running operation or an unpresented password.
THEOREM ClosingIsSettled ==
    ASSUME OneAtATime
    PROVE  Spec => []ClosedOnlyWhenSettled
<1>1. BackedInv => ClosedOnlyWhenSettled
  BY DEF BackedInv, AnswerFits, ClosingFits, ClosedOnlyWhenSettled
<1> QED
  BY <1>1, BackedInvariance, PTL

\* A dispatch consumes a stored challenge, for the stored goal, under an identity that was
\* still valid when the request came in: no event and no proposal dispatches by itself.
THEOREM ConsentPrecedesDispatch ==
    ASSUME OneAtATime
    PROVE  Spec => ConsentBeforeDispatch
<1> DEFINE consented(h) ==
        /\ request[h].phase = "loaded"
        /\ doc # None => doc.dispatch = None
        /\ doc' # None /\ doc'.dispatch # None
        => /\ doc # None /\ doc.confirmation # None
           /\ doc'.dispatch.challenge = doc.confirmation.id
           /\ Matches(doc.confirmation, doc.goal)
           /\ doc.goal.action = Reset => doc.goal.mode = "AUTONOMOUS"
           /\ doc.identity.validatedAt # None
           /\ request[h].now < doc.identity.validatedAt + IdentityTTL
           /\ doc.identity.failures < MaxCallerFailures
<1>1. BackedInv /\ [Next]_vars => [\A h \in Handlers : consented(h)]_vars
  <2> SUFFICES ASSUME BackedInv, [Next]_vars, NEW h \in Handlers
               PROVE  consented(h)
    OBVIOUS
  <2>1. ConsentIsStored(request[h].now) => consented(h)
    <3>1. doc # None => doc.identity.failures \in Nat /\ MaxCallerFailures \in Nat
      BY LimitsAssumption
      DEF BackedInv, SequentialInv, Inv, TypeOK, Optional, Record, IdentityState
    <3> QED
      BY <3>1 DEF ConsentIsStored, Consented, IsValidAt, RequiresHandoff
  <2>2. CASE \E g \in Handlers, dec \in Decisions : FinishTurn(g, dec)
    BY <2>1, <2>2, FinishTurnBacked DEF OneAtATime
  <2>3. CASE \E g \in Handlers, pace \in Pace : FinishEvent(g, pace)
    BY <2>1, <2>3, FinishEventBacked DEF OneAtATime
  <2>4. CASE \E g \in Handlers : Bootstrap(g) /\ doc = None
    BY <2>4, BootstrapBacked
  <2> QED
    BY <2>2, <2>3, <2>4, StepWrites
<1> QED
  BY <1>1, BackedInvariance, PTL DEF Spec, ConsentBeforeDispatch

\* A playback the runtime knows returned, or the caller finished, stays so: failures reported
\* late and new turns never reopen it.
THEOREM PlaybackOnlyGrows ==
    ASSUME OneAtATime
    PROVE  Spec => PlaybackIsMonotone
<1>1. BackedInv /\ [Next]_vars =>
        [doc # None /\ doc.presentation # None =>
            /\ doc'.presentation # None
            /\ doc.presentation.voice = "PLAYBACK_RETURNED"
                 => doc'.presentation.voice = "PLAYBACK_RETURNED"
            /\ doc.presentation.finished => doc'.presentation.finished]_vars
  BY NextBacked DEF TakesNothingBack, PlaybackGrows
<1> QED
  BY <1>1, BackedInvariance, PTL DEF Spec, PlaybackIsMonotone

\* No turn, replay, legacy event or terminal result loses a receipt: what was consumed of the
\* observation budget stays consumed.
THEOREM ReceiptsOnlyGrow ==
    ASSUME OneAtATime
    PROVE  Spec => ReceiptsAreKept
<1>1. BackedInv /\ [Next]_vars =>
        [doc # None /\ doc.polling # None =>
            /\ doc'.polling # None
            /\ Len(doc.polling.receipts) <= Len(doc'.polling.receipts)
            /\ \A i \in 1..Len(doc.polling.receipts) :
                 doc'.polling.receipts[i] = doc.polling.receipts[i]]_vars
  BY NextBacked DEF TakesNothingBack, ReceiptsExtend
<1> QED
  BY <1>1, BackedInvariance, PTL DEF Spec, ReceiptsAreKept

\* Delivered twice, in whatever order and however late, an observation is applied once.
THEOREM DuplicatesAreReplayed ==
    ASSUME OneAtATime
    PROVE  Spec => DuplicateChangesNothing
<1> DEFINE repeated(h) ==
        /\ request[h].phase = "loaded"
        /\ request'[h].phase = "idle"
        /\ request[h].input.kind \in {"status_v1", "poll_error_v1"}
        /\ doc # None /\ doc.polling # None
        /\ \E i \in 1..Len(doc.polling.receipts) :
             doc.polling.receipts[i] = ReceiptOf(request[h].input)
<1>1. BackedInv /\ [Next]_vars => [\A h \in Handlers : repeated(h) => doc' = doc]_vars
  <2> SUFFICES ASSUME BackedInv, [Next]_vars, NEW h \in Handlers, repeated(h)
               PROVE  doc' = doc
    OBVIOUS
  <2>1. CASE \E g \in Handlers, dec \in Decisions : FinishTurn(g, dec)
    <3>1. PICK g \in Handlers, dec \in Decisions : FinishTurn(g, dec)
      BY <2>1
    <3>2. request[h].input.kind = "turn"
      BY <3>1 DEF FinishTurn, OneAtATime
    <3> QED
      BY <3>2
  <2>2. CASE \E g \in Handlers, pace \in Pace : FinishEvent(g, pace)
    BY <2>2, FinishEventBacked DEF OneAtATime
  <2> QED
    BY <2>1, <2>2, StepWrites
<1> QED
  BY <1>1, BackedInvariance, PTL DEF Spec, DuplicateChangesNothing
================================================================================
