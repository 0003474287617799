--------------------------- MODULE Conversation_proofs ---------------------------
(***************************************************************************)
(* Safety of one conversation, for any handlers in flight together, any    *)
(* proposals of the model, any limits and any bounds.                      *)
(***************************************************************************)
EXTENDS ConversationProperties, EventRules_proofs

\* A request in flight serves an input XCALLY could post, and a report it carries was made.
InputsAreServed ==
    \A h \in Handlers : request[h].phase # "idle" =>
        /\ request[h].input \in TurnInput \cup Event
        /\ request[h].input.kind \in {"status", "status_v1"} =>
             IsReported(request[h].input.command, request[h].input.seen)

\* A turn has a record to work on as soon as it loaded.
TurnsHaveRecords ==
    \A h \in Handlers : request[h].phase = "loaded" /\ request[h].input.kind = "turn" =>
        request[h].rec # None

\* A record some handler read or wrote: coherent, and true to what RD reported.
Sound(rec) == rec # None => Coherent(rec) /\ EvidenceFits(rec)

\* The inductive invariant: a stale copy in a handler's hands is as sound as the document,
\* which is why a save of any of them is.
Inv ==
    /\ TypeOK
    /\ InputsAreServed
    /\ TurnsHaveRecords
    /\ Sound(doc)
    /\ \A h \in Handlers : Sound(request[h].rec)

--------------------------------------------------------------------------------
(* Facts about single values. *)

\* The record of a conversation without durable state is well formed and coherent.
LEMMA NewRecordIsGood == NewRecord \in Record /\ Coherent(NewRecord) /\ NewRecord # None
<1>1. /\ 0 \in 0..MaxVoiceFailures
      /\ [validatedAt |-> None, failures |-> 0] \in IdentityState
  BY LimitsAssumption DEF IdentityState, Optional
<1>2. NewRecord \in Record
  BY <1>1 DEF NewRecord, Record, Optional
<1>3. Coherent(NewRecord)
  BY DEF NewRecord, Coherent, DispatchNames, ChallengeFits, ReceiptsFit, ReceiptsAgreeIn,
         PresentationFits
<1> QED
  BY <1>2, <1>3, NoneAssumption

\* Everything XCALLY may post is a turn or an event.
LEMMA InputsType ==
    ASSUME TypeOK, NEW input \in Inputs
    PROVE  /\ input \in TurnInput \cup Event
           /\ input.kind \in {"status", "status_v1"} =>
                IsReported(input.command, input.seen)
<1>1. CASE input \in TurnInputs
  BY <1>1 DEF TurnInputs, TurnInput
<1>2. CASE input \in CallerEvents
  BY <1>2 DEF CallerEvents, IdentityEvent, IdentityInputFailureEvent, VoiceFailureEvent,
              Event
<1>3. ASSUME NEW c \in orders, input \in OperationEvents(c)
      PROVE  /\ input \in Event
             /\ input.kind \in {"status", "status_v1"} =>
                  IsReported(input.command, input.seen)
  <2>1. c \in ExternalActionCommand
    BY DEF TypeOK
  <2>2. 1..MaxSequence \subseteq Nat \ {0}
    BY ModelAssumption
  <2>3. CASE input \in [kind : {"dispatch_error"}, command : {c}]
    BY <2>1, <2>3 DEF Event, DispatchErrorEvent
  <2>4. CASE input \in [kind : {"status"}, command : {c},
                        seen : {s \in StatusSeen : IsReported(c, s)}]
    <3>1. input \in StatusEvent /\ input.command = c /\ IsReported(c, input.seen)
      BY <2>1, <2>4 DEF StatusEvent
    <3> QED
      BY <3>1 DEF Event
  <2>5. CASE input \in [kind : {"poll_error"}, command : {c}]
    BY <2>1, <2>5 DEF Event, PollErrorEvent
  <2>6. CASE input \in [kind : {"status_v1"}, command : {c},
                        seen : {s \in StatusSeen : IsReported(c, s)},
                        sequence : 1..MaxSequence]
    <3>1. input \in StatusEventV1 /\ input.command = c /\ IsReported(c, input.seen)
      BY <2>1, <2>2, <2>6 DEF StatusEventV1
    <3> QED
      BY <3>1 DEF Event
  <2>7. CASE input \in [kind : {"poll_error_v1"}, command : {c}, seen : PollError,
                        sequence : 1..MaxSequence]
    BY <2>1, <2>2, <2>7 DEF Event, PollErrorEventV1
  <2>8. CASE input \in [kind : {"presentation"}, command : {c}, voice : PlaybackVoice]
    BY <2>1, <2>8 DEF Event, PresentationEvent
  <2> QED
    BY <1>3, <2>3, <2>4, <2>5, <2>6, <2>7, <2>8 DEF OperationEvents
<1> QED
  BY <1>1, <1>2, <1>3 DEF Inputs

\* A request of a turn holds a turn, and any other one an event.
LEMMA ServedKind ==
    ASSUME NEW input \in TurnInput \cup Event
    PROVE  IF input.kind = "turn" THEN input \in TurnInput ELSE input \in Event
  BY DEF TurnInput, Event, IdentityEvent, IdentityInputFailureEvent, VoiceFailureEvent,
         StatusEvent, StatusEventV1, DispatchErrorEvent, PollErrorEvent, PollErrorEventV1,
         PresentationEvent

--------------------------------------------------------------------------------
(* What a finishing request writes. *)

\* The record a turn saves is sound, and its answer and orders are well formed.
LEMMA TurnIsSound ==
    ASSUME Inv, NEW h \in Handlers, request[h].phase = "loaded",
           request[h].input.kind = "turn", NEW dec \in Optional(ModelTurnDecision),
           NEW result,
           result = AdvanceTurn(request[h].rec, request[h].input, dec, request[h].now, nextId)
    PROVE  /\ result.record \in Record /\ Sound(result.record)
           /\ result.outcome \in Optional(Outcome)
           /\ Ordered(result.outcome) \subseteq ExternalActionCommand
           /\ KeepsOrStarts(request[h].rec, result, nextId)
<1>1. /\ request[h].rec \in Record /\ request[h].rec # None
      /\ request[h].now \in Nat /\ nextId \in Nat
  BY DEF Inv, TypeOK, Request, TurnsHaveRecords, Optional
<1>2. request[h].input \in TurnInput
  BY ServedKind DEF Inv, InputsAreServed
<1>3. Coherent(request[h].rec) /\ EvidenceFits(request[h].rec)
  BY <1>1 DEF Inv, Sound
<1>4. result.record \in Record /\ result.outcome \in Optional(Outcome)
  BY <1>1, <1>2, TurnKeepsRecord
<1>5. Coherent(result.record)
  BY <1>1, <1>2, <1>3, TurnKeepsCoherence
<1>6. KeepsOrStarts(request[h].rec, result, nextId)
  BY <1>1, <1>2, TurnOperation
<1>7. EvidenceFits(result.record)
  BY <1>3, <1>6 DEF KeepsOrStarts, EvidenceFits
<1>8. Ordered(result.outcome) \subseteq ExternalActionCommand
  BY <1>4, NoOutcomeAssumption DEF Ordered, Optional, Outcome
<1> QED
  BY <1>4, <1>5, <1>6, <1>7, <1>8 DEF Sound

\* The record an event leaves is sound: it settles an operation only on a report.
LEMMA EventIsSound ==
    ASSUME Inv, NEW h \in Handlers, request[h].phase = "loaded",
           request[h].input.kind # "turn", request[h].rec # None, NEW pace \in Pace,
           NEW result,
           result = HandleEvent(request[h].rec, request[h].input, request[h].now, nextId, pace)
    PROVE  /\ result.record \in Record /\ Sound(result.record)
           /\ OrdersNothing(result.outcome)
           /\ OperationMoves(request[h].rec, request[h].input, result.record)
<1>1. /\ request[h].rec \in Record /\ request[h].now \in Nat /\ nextId \in Nat
  BY DEF Inv, TypeOK, Request, Optional
<1>2. request[h].input \in Event
  BY ServedKind DEF Inv, InputsAreServed
<1>3. Coherent(request[h].rec) /\ EvidenceFits(request[h].rec)
  BY DEF Inv, Sound
<1>4. GoodResult(request[h].rec, request[h].input, result)
  BY <1>1, <1>2, <1>3, EventIsGood
<1>5. EvidenceFits(result.record)
  <2>1. request[h].input.kind \in {"status", "status_v1"} =>
          IsReported(request[h].input.command, request[h].input.seen)
    BY DEF Inv, InputsAreServed
  <2>2. request[h].rec.operation # None =>
          request[h].rec.operation \in ExternalOperation
    BY <1>1 DEF Record, Optional
  <2> QED
    BY <1>3, <1>4, <2>1, <2>2
    DEF GoodResult, GoodRecord, OperationMoves, EvidenceFits, IsActive, IsReported,
        StatusOf, TerminalObservation, ExternalOperation
<1> QED
  BY <1>4, <1>5 DEF GoodResult, GoodRecord, Sound

--------------------------------------------------------------------------------
(* The invariant. *)

\* A conversation starts with no document and no request.
LEMMA InitInv == Init => Inv
<1> SUFFICES ASSUME Init PROVE Inv
  OBVIOUS
<1>1. Idle \in Request /\ Idle.phase = "idle" /\ Idle.rec = None
  BY DEF Idle, Request, Optional
<1>2. TypeOK
  BY <1>1 DEF Init, TypeOK, Optional
<1> QED
  BY <1>1, <1>2 DEF Init, Inv, InputsAreServed, TurnsHaveRecords, Sound

\* A request that ends leaves the other requests as they were: what it wrote decides.
LEMMA FinishKeepsInv ==
    ASSUME Inv, NEW h \in Handlers, Finish(h), UNCHANGED <<rd, clock>>,
           NEW record \in Optional(Record), Sound(record), doc' = record,
           answer' \in Optional(Outcome), orders' \subseteq ExternalActionCommand,
           nextId' \in Nat \ {0}
    PROVE  Inv'
<1>1. succeeded' = succeeded /\ failed' = failed
  BY DEF rd
<1>2. Idle \in Request /\ Idle.phase = "idle" /\ Idle.rec = None
  BY DEF Idle, Request, Optional
<1>3. request \in [Handlers -> Request] /\ request' = [request EXCEPT ![h] = Idle]
  BY DEF Inv, TypeOK, Finish
<1>4. \A g \in Handlers : request'[g] = IF g = h THEN Idle ELSE request[g]
  BY <1>3
<1>5. TypeOK'
  BY <1>1, <1>2, <1>3 DEF Inv, TypeOK
<1>6. InputsAreServed' /\ TurnsHaveRecords'
  BY <1>1, <1>2, <1>4 DEF Inv, InputsAreServed, TurnsHaveRecords, IsReported
<1>7. Sound(doc)'
  BY <1>1 DEF Sound, EvidenceFits
<1>8. \A g \in Handlers : Sound(request[g].rec)'
  BY <1>1, <1>2, <1>4 DEF Inv, Sound, EvidenceFits
<1> QED
  BY <1>5, <1>6, <1>7, <1>8 DEF Inv

\* Every step keeps the invariant.
LEMMA NextInv == Inv /\ [Next]_vars => Inv'
<1> SUFFICES ASSUME Inv, [Next]_vars PROVE Inv'
  OBVIOUS
<1>1. ASSUME NEW h \in Handlers, NEW input \in Inputs, Receive(h, input)
      PROVE  Inv'
  <2> DEFINE new == [phase |-> "received", input |-> input, now |-> clock, rec |-> None]
  <2>1. /\ input \in TurnInput \cup Event
        /\ input.kind \in {"status", "status_v1"} => IsReported(input.command, input.seen)
    BY InputsType DEF Inv
  <2>2. new \in Request /\ new.phase = "received" /\ new.input = input /\ new.rec = None
    BY <2>1 DEF Inv, TypeOK, Request, Optional
  <2>3. /\ request \in [Handlers -> Request] /\ request' = [request EXCEPT ![h] = new]
        /\ answer' = None /\ doc' = doc /\ orders' = orders /\ succeeded' = succeeded
        /\ failed' = failed /\ clock' = clock /\ nextId' = nextId
    BY <1>1 DEF Receive, Inv, TypeOK, rd
  <2> HIDE DEF new
  <2>4. \A g \in Handlers : request'[g] = IF g = h THEN new ELSE request[g]
    BY <2>3
  <2>5. TypeOK'
    BY <2>2, <2>3 DEF Inv, TypeOK, Optional
  <2>6. InputsAreServed' /\ TurnsHaveRecords'
    BY <2>1, <2>2, <2>3, <2>4 DEF Inv, InputsAreServed, TurnsHaveRecords, IsReported
  <2>7. Sound(doc)' /\ \A g \in Handlers : Sound(request[g].rec)'
    BY <2>2, <2>3, <2>4 DEF Inv, Sound, EvidenceFits
  <2> QED
    BY <2>5, <2>6, <2>7 DEF Inv
<1>2. ASSUME NEW h \in Handlers, Load(h)
      PROVE  Inv'
  <2> DEFINE record == IF doc = None /\ request[h].input.kind = "turn" THEN NewRecord ELSE doc
             new == [request[h] EXCEPT !.phase = "loaded", !.rec = record]
  <2>1. record \in Optional(Record) /\ Sound(record)
    BY NewRecordIsGood DEF Inv, TypeOK, Optional, Sound, EvidenceFits, NewRecord
  <2>2. request[h].input.kind = "turn" => record # None
    BY NewRecordIsGood
  <2>3. request \in [Handlers -> Request] /\ request[h].phase = "received"
    BY <1>2 DEF Load, Inv, TypeOK
  <2>4. /\ new \in Request /\ new.phase = "loaded" /\ new.input = request[h].input
        /\ new.rec = record
    <3> HIDE DEF record
    <3> QED
      BY <2>1, <2>3 DEF Request
  <2>5. /\ request' = [request EXCEPT ![h] = new]
        /\ answer' = answer /\ doc' = doc /\ orders' = orders /\ succeeded' = succeeded
        /\ failed' = failed /\ clock' = clock /\ nextId' = nextId
    BY <1>2 DEF Load, rd
  <2> HIDE DEF new, record
  <2>6. \A g \in Handlers : request'[g] = IF g = h THEN new ELSE request[g]
    BY <2>3, <2>5
  <2>7. TypeOK'
    BY <2>3, <2>4, <2>5 DEF Inv, TypeOK
  <2>8. InputsAreServed' /\ TurnsHaveRecords'
    BY <2>2, <2>3, <2>4, <2>5, <2>6
    DEF Inv, InputsAreServed, TurnsHaveRecords, IsReported
  <2>9. Sound(doc)' /\ \A g \in Handlers : Sound(request[g].rec)'
    BY <2>1, <2>4, <2>5, <2>6 DEF Inv, Sound, EvidenceFits
  <2> QED
    BY <2>7, <2>8, <2>9 DEF Inv
<1>3. ASSUME NEW h \in Handlers, NEW dec \in Decisions, FinishTurn(h, dec)
      PROVE  Inv'
  <2> DEFINE asked == IF ModelIsAsked(request[h].rec, request[h].input) THEN dec ELSE None
             result == AdvanceTurn(request[h].rec, request[h].input, asked,
                                   request[h].now, nextId)
  <2>1. /\ request[h].phase = "loaded" /\ request[h].input.kind = "turn"
        /\ Save(result.record) /\ answer' = result.outcome
        /\ orders' = orders \cup Ordered(result.outcome)
        /\ Finish(h) /\ UNCHANGED <<rd, clock>>
    BY <1>3 DEF FinishTurn
  <2>2. asked \in Optional(ModelTurnDecision)
    BY ModelAssumption DEF Optional
  <2> HIDE DEF asked
  <2>3. /\ result.record \in Record /\ Sound(result.record)
        /\ result.outcome \in Optional(Outcome)
        /\ Ordered(result.outcome) \subseteq ExternalActionCommand
    BY <2>1, <2>2, TurnIsSound
  <2> HIDE DEF result
  <2>4. doc' = result.record /\ nextId' \in Nat \ {0}
    BY <2>1 DEF Save, Inv, TypeOK
  <2>5. orders' \subseteq ExternalActionCommand
    BY <2>1, <2>3 DEF Inv, TypeOK
  <2> QED
    BY <2>1, <2>3, <2>4, <2>5, FinishKeepsInv DEF Optional
<1>4. ASSUME NEW h \in Handlers, NEW pace \in Pace, FinishEvent(h, pace)
      PROVE  Inv'
  <2> DEFINE result == HandleEvent(request[h].rec, request[h].input, request[h].now, nextId,
                                   pace)
  <2>1. /\ request[h].phase = "loaded" /\ request[h].input.kind # "turn"
        /\ request[h].rec # None
        /\ IF result.saved THEN Save(result.record) ELSE UNCHANGED <<doc, nextId>>
        /\ answer' = result.outcome /\ orders' = orders
        /\ Finish(h) /\ UNCHANGED <<rd, clock>>
    BY <1>4 DEF FinishEvent
  <2>2. /\ result.record \in Record /\ Sound(result.record)
        /\ OrdersNothing(result.outcome)
    BY <2>1, EventIsSound
  <2> HIDE DEF result
  <2>3. /\ doc' \in {doc, result.record} /\ nextId' \in Nat \ {0}
        /\ answer' \in Optional(Outcome) /\ orders' \subseteq ExternalActionCommand
    BY <2>1, <2>2 DEF Save, Inv, TypeOK, OrdersNothing
  <2>4. \A record \in {doc, result.record} : record \in Optional(Record) /\ Sound(record)
    BY <2>2 DEF Inv, TypeOK, Optional
  <2> QED
    BY <2>1, <2>3, <2>4, FinishKeepsInv
<1>5. ASSUME NEW h \in Handlers, RejectUnknownSession(h) \/ Lose(h)
      PROVE  Inv'
  <2>1. /\ Finish(h) /\ UNCHANGED <<rd, clock>> /\ doc' = doc
        /\ answer' \in Optional(Outcome) /\ orders' \subseteq ExternalActionCommand
        /\ nextId' \in Nat \ {0} /\ doc \in Optional(Record) /\ Sound(doc)
    BY <1>5 DEF RejectUnknownSession, Lose, Inv, TypeOK, Optional
  <2> QED
    BY <2>1, FinishKeepsInv
<1>6. ASSUME NEW h \in Handlers, Bootstrap(h)
      PROVE  Inv'
  <2> DEFINE result == ApplyPreTurnVoiceFailure(NewRecord)
  <2>1. CASE doc = None
    <3>1. GoodResult(NewRecord, None, result)
      BY NewRecordIsGood, VoiceIsGood
    <3>2. /\ result.record \in Record /\ result.outcome \in Optional(Outcome)
          /\ Coherent(result.record) /\ result.record.operation = None
      BY <3>1, NoneAssumption
      DEF GoodResult, GoodRecord, OrdersNothing, OperationMoves, NewRecord, IsActive
    <3>3. Sound(result.record)
      BY <3>2 DEF Sound, EvidenceFits
    <3>4. /\ doc' = result.record /\ answer' = result.outcome /\ Finish(h)
          /\ UNCHANGED <<rd, clock>> /\ orders' = orders /\ nextId' = nextId
      BY <1>6, <2>1 DEF Bootstrap
    <3> HIDE DEF result
    <3>5. nextId' \in Nat \ {0} /\ orders' \subseteq ExternalActionCommand
      BY <3>4 DEF Inv, TypeOK
    <3> QED
      BY <3>2, <3>3, <3>4, <3>5, FinishKeepsInv DEF Optional
  <2>2. CASE doc # None
    <3> DEFINE new == [request[h] EXCEPT !.phase = "received"]
    <3>1. /\ request \in [Handlers -> Request] /\ request[h].rec = None
          /\ request[h].phase = "loaded"
      BY <1>6 DEF Bootstrap, Inv, TypeOK
    <3>2. /\ new \in Request /\ new.phase = "received" /\ new.input = request[h].input
          /\ new.rec = None
      BY <3>1 DEF Request
    <3>3. /\ request' = [request EXCEPT ![h] = new]
          /\ answer' = answer /\ doc' = doc /\ orders' = orders /\ succeeded' = succeeded
          /\ failed' = failed /\ clock' = clock /\ nextId' = nextId
      BY <1>6, <2>2 DEF Bootstrap, rd
    <3> HIDE DEF new
    <3>4. \A g \in Handlers : request'[g] = IF g = h THEN new ELSE request[g]
      BY <3>1, <3>3
    <3>5. TypeOK'
      BY <3>1, <3>2, <3>3 DEF Inv, TypeOK
    <3>6. InputsAreServed' /\ TurnsHaveRecords'
      BY <3>1, <3>2, <3>3, <3>4 DEF Inv, InputsAreServed, TurnsHaveRecords, IsReported
    <3>7. Sound(doc)' /\ \A g \in Handlers : Sound(request[g].rec)'
      BY <3>2, <3>3, <3>4 DEF Inv, Sound, EvidenceFits
    <3> QED
      BY <3>5, <3>6, <3>7 DEF Inv
  <2> QED
    BY <2>1, <2>2
<1>7. ASSUME NEW command \in orders, NEW seen \in Reports, Report(command, seen)
      PROVE  Inv'
  <2>1. command.operation \in Nat
    BY DEF Inv, TypeOK, ExternalActionCommand
  <2>2. /\ succeeded \subseteq succeeded' /\ failed \subseteq failed'
        /\ succeeded' \subseteq Nat /\ failed' \subseteq Nat
        /\ doc' = doc /\ request' = request /\ answer' = answer /\ orders' = orders
        /\ clock' = clock /\ nextId' = nextId
    BY <1>7, <2>1 DEF Report, Inv, TypeOK
  <2>3. TypeOK'
    BY <2>2 DEF Inv, TypeOK
  <2>4. InputsAreServed' /\ TurnsHaveRecords'
    BY <2>2 DEF Inv, InputsAreServed, TurnsHaveRecords, IsReported
  <2>5. Sound(doc)' /\ \A g \in Handlers : Sound(request[g].rec)'
    BY <2>2 DEF Inv, Sound, EvidenceFits
  <2> QED
    BY <2>3, <2>4, <2>5 DEF Inv
<1>8. ASSUME Tick \/ UNCHANGED vars
      PROVE  Inv'
  <2>1. /\ doc' = doc /\ request' = request /\ answer' = answer /\ orders' = orders
        /\ succeeded' = succeeded /\ failed' = failed /\ clock' \in Nat /\ nextId' = nextId
    BY <1>8 DEF Tick, vars, rd, Inv, TypeOK
  <2> QED
    BY <2>1 DEF Inv, TypeOK, InputsAreServed, TurnsHaveRecords, IsReported, Sound,
                EvidenceFits
<1> QED
  BY <1>1, <1>2, <1>3, <1>4, <1>5, <1>6, <1>7, <1>8 DEF Next

\* The invariant holds in every reachable state.
THEOREM Invariance == Spec => []Inv
  BY InitInv, NextInv, PTL DEF Spec

--------------------------------------------------------------------------------
(* What it establishes. *)

\* Every record, request, answer and counter keeps its type: in particular the voice retry
\* never passes its limit and no more than MaxFeedback messages are kept.
THEOREM TypeCorrect == Spec => []TypeOK
<1>1. Inv => TypeOK
  BY DEF Inv
<1> QED
  BY <1>1, Invariance, PTL

\* However the handlers of a conversation interleave, the stored operation is the one that
\* was dispatched: no lost update separates the two planes.
THEOREM OperationIsDispatched == Spec => []DispatchAndOperationTogether
<1>1. Inv => DispatchAndOperationTogether
  BY DEF Inv, Sound, Coherent, DispatchAndOperationTogether
<1> QED
  BY <1>1, Invariance, PTL

\* A stored challenge is for the goal and the validation in force and never waits beside a
\* running operation, although turns and identity events write it.
THEOREM ChallengeStaysCurrent == Spec => []ChallengeIsCurrent
<1>1. Inv => ChallengeIsCurrent
  BY DEF Inv, Sound, Coherent, ChallengeIsCurrent
<1> QED
  BY <1>1, Invariance, PTL

\* Receipts stay gapless and within the observation budget, whatever is delivered twice, late
\* or to two handlers at once.
THEOREM PollingStaysBounded == Spec => []PollingIsBounded
<1>1. Inv => PollingIsBounded
  BY DEF Inv, Sound, Coherent, PollingIsBounded
<1> QED
  BY <1>1, Invariance, PTL

\* An accepted terminal observation and the status of its operation never part.
THEOREM ReceiptsStayTrue == Spec => []ReceiptsAgree
<1>1. Inv => ReceiptsAgree
  BY DEF Inv, Sound, Coherent, ReceiptsAgree
<1> QED
  BY <1>1, Invariance, PTL

\* A playback is only ever recorded for the confirmed reset it belongs to.
THEOREM PresentationStaysOwed == Spec => []PresentationIsOwed
<1>1. Inv => PresentationIsOwed
  BY DEF Inv, Sound, Coherent, PresentationIsOwed
<1> QED
  BY <1>1, Invariance, PTL

\* The truth of an operation only ever comes from RD: no error, timeout, unknown literal,
\* late or replayed event, exhausted budget or lost update makes a success or a failure.
THEOREM TruthComesFromEvidence == Spec => []EvidenceBacked
<1>1. Inv => EvidenceBacked
  BY DEF Inv, Sound, EvidenceBacked
<1> QED
  BY <1>1, Invariance, PTL

\* A conversation is created once: of the requests that found no document, an event that
\* comes after the creation changes nothing of it, whoever created it.
THEOREM CreationIsConditional == Spec => CreationNeverOverwrites
<1> DEFINE found(h) == /\ request[h].phase = "loaded" /\ request[h].rec = None
                       /\ request'[h] # request[h]
                       /\ doc # None
<1>1. Inv /\ [Next]_vars => [\A h \in Handlers : found(h) => doc' = doc]_vars
  <2> SUFFICES ASSUME Inv, [Next]_vars, NEW h \in Handlers, found(h)
               PROVE  doc' = doc
    OBVIOUS
  <2>1. request \in [Handlers -> Request]
    BY DEF Inv, TypeOK
  <2>2. ASSUME NEW g \in Handlers, Finish(g)
        PROVE  g = h
    BY <2>1, <2>2 DEF Finish
  <2>3. CASE \E g \in Handlers, dec \in Decisions : FinishTurn(g, dec)
    <3>1. PICK g \in Handlers, dec \in Decisions : FinishTurn(g, dec)
      BY <2>3
    <3>2. request[h].input.kind = "turn"
      BY <2>2, <3>1 DEF FinishTurn
    <3> QED
      BY <3>2 DEF Inv, TurnsHaveRecords
  <2>4. CASE \E g \in Handlers, pace \in Pace : FinishEvent(g, pace)
    BY <2>2, <2>4 DEF FinishEvent
  <2>5. CASE \E g \in Handlers : Bootstrap(g)
    BY <2>5 DEF Bootstrap
  <2>6. CASE \/ \E g \in Handlers : \/ \E input \in Inputs : Receive(g, input)
                                  \/ Load(g) \/ RejectUnknownSession(g) \/ Lose(g)
             \/ \E command \in orders, seen \in Reports : Report(command, seen)
             \/ Tick \/ UNCHANGED vars
    BY <2>6 DEF Receive, Load, RejectUnknownSession, Lose, Report, Tick, vars
  <2> QED
    BY <2>3, <2>4, <2>5, <2>6 DEF Next
<1> QED
  BY <1>1, Invariance, PTL DEF Spec, CreationNeverOverwrites

--------------------------------------------------------------------------------
(* What the model is told and what the turn enforces. *)

\* A turn opens a challenge for the goal the model saw only where both projections allowed
\* it: eligibility implies permission, although the two are written apart.
LEMMA OpenedChallengeIsPermitted ==
    ASSUME NEW rec \in Record, NEW turn, NEW dec \in Optional(ModelTurnDecision),
           NEW now \in Nat, NEW fresh \in Nat, NEW after,
           after = AdvanceTurn(rec, turn, dec, now, fresh).record,
           rec.confirmation = None, after.confirmation # None, after.goal = rec.goal
    PROVE  /\ ProjectModelState(rec, now).confirmationAllowed
           /\ ProjectionFromTurnInputs(rec, now).confirmationAllowed
<1> DEFINE plan == TurnPlan(rec, dec, now, fresh)
           outcome == TurnOutcome(rec, turn, dec, now, plan, fresh)
<1>1. /\ after.goal = plan.goal
      /\ after.confirmation = ConfirmationAfter(dec, plan, outcome)
  BY TurnLeaves
<1>2. RepairedChallenge(rec) = None
  BY DEF RepairedChallenge
<1>3. plan.staged # None
  BY <1>1, <1>2, ConfirmationAfterFacts
<1>4. rec.goal # None /\ EligibleForChallenge(rec, rec.goal, now)
  BY <1>1, <1>3, TurnPlanFacts
<1>5. ConfirmationIsAllowed(rec, now)
  BY <1>4 DEF ConfirmationIsAllowed, EligibleForChallenge, BudgetConsumed, DispatchIsLive
<1> QED
  BY <1>4, <1>5 DEF ProjectModelState, ProjectionFromTurnInputs, EligibleForChallenge

\* The affirmation the model was told the turn waits for dispatches the waiting action.
LEMMA AffirmationDispatches ==
    ASSUME NEW rec \in Record, NEW turn \in TurnInput, NEW dec \in ModelTurnDecision,
           NEW now \in Nat, NEW fresh \in Nat,
           RenderedObligation(rec, now) = "ACTION_CONFIRMATION",
           dec.observation = "AFFIRMATIVE", dec.intent = "NONE", dec.mode = None,
           GoalIsDispatchable(rec.goal), ~RequiresHandoff(rec.identity),
           ~BudgetConsumed(rec)
    PROVE  AdvanceTurn(rec, turn, dec, now, fresh).outcome.step = "EXECUTE_ACTION"
<1>1. ChallengeIsConsumable(rec, now)
  BY DEF RenderedObligation, DeriveSemanticObligation
<1>2. Consented(rec, now)
  BY <1>1 DEF Consented, ChallengeIsConsumable, GoalIsDispatchable
<1> QED
  BY <1>1, <1>2, ConsentDispatches DEF ChallengeIsConsumable

\* A turn the model is asked about works on a well-formed record, a turn input and an instant.
LEMMA AskedTurnIsServed ==
    ASSUME Inv, NEW h \in AskedTurns
    PROVE  /\ request[h].rec \in Record /\ request[h].input \in TurnInput
           /\ request[h].now \in Nat /\ nextId \in Nat
  BY ServedKind
  DEF AskedTurns, Inv, TypeOK, TurnsHaveRecords, InputsAreServed, Request, Optional

\* However handlers interleave, the permission the model was shown covers every challenge
\* the turn opens for the goal it was shown.
THEOREM ChallengesArePermitted == Spec => []ChallengeIsPermitted
<1>1. ASSUME Inv PROVE ChallengeIsPermitted
  <2> SUFFICES ASSUME NEW h \in AskedTurns, NEW dec \in Decisions,
                      request[h].rec.confirmation = None,
                      Answered(h, dec).record.confirmation # None,
                      Answered(h, dec).record.goal = request[h].rec.goal
               PROVE  /\ ProjectModelState(request[h].rec, request[h].now).confirmationAllowed
                      /\ ProjectionFromTurnInputs(request[h].rec,
                                                  request[h].now).confirmationAllowed
    BY DEF ChallengeIsPermitted
  <2>1. dec \in Optional(ModelTurnDecision)
    BY ModelAssumption DEF Optional
  <2> QED
    BY <1>1, <2>1, AskedTurnIsServed, OpenedChallengeIsPermitted DEF Answered
<1> QED
  BY <1>1, Invariance, PTL

\* However handlers interleave, a plain affirmation to the confirmation the model was told of
\* executes the action, unless the budget, the identity or the goal itself forbids it.
THEOREM ObligationsAreHonoured == Spec => []ObligationIsHonoured
<1>1. ASSUME Inv PROVE ObligationIsHonoured
  <2> SUFFICES ASSUME NEW h \in AskedTurns, NEW dec \in Decisions,
                      RenderedObligation(request[h].rec, request[h].now)
                        = "ACTION_CONFIRMATION",
                      dec.observation = "AFFIRMATIVE", dec.intent = "NONE", dec.mode = None,
                      GoalIsDispatchable(request[h].rec.goal),
                      ~RequiresHandoff(request[h].rec.identity),
                      ~BudgetConsumed(request[h].rec)
               PROVE  Answered(h, dec).outcome.step = "EXECUTE_ACTION"
    BY DEF ObligationIsHonoured
  <2>1. dec \in ModelTurnDecision
    BY ModelAssumption
  <2> QED
    BY <1>1, <2>1, AskedTurnIsServed, AffirmationDispatches DEF Answered
<1> QED
  BY <1>1, Invariance, PTL
================================================================================
