------------------------------ MODULE Boundary_proofs ------------------------------
(***************************************************************************)
(* Safety of one request at a time, for any stored document, any requests  *)
(* and any failures of the store, the model or the process.                *)
(***************************************************************************)
EXTENDS BoundaryProperties, Migration_proofs, EventRules_proofs, FiniteSetTheorems

\* A request always has its five parts.
HasItsParts ==
    request = [stage |-> request.stage, post |-> request.post, now |-> request.now,
               rec |-> request.rec, outcome |-> request.outcome]

\* Nothing is written before the save.
NotYetWritten ==
    request.stage \in {"received", "admitted", "loaded", "decided"} => stored = before

\* Nothing is decided on a document that could not be read.
ReadBeforeDecided ==
    /\ request.stage \in {"loaded", "decided"}
    /\ stored # None
    => Readable(stored)

\* An answer belongs to the request that ended, and is withdrawn when the next one comes.
AnswerIsLast == reply # None => request.stage = "idle"

BoundaryInv ==
    /\ HasItsParts
    /\ NotYetWritten
    /\ ReadBeforeDecided
    /\ AnswerIsLast
    /\ RefusalLeavesNoTrace

LEMMA InitBoundary == Init => BoundaryInv
  BY DEF Init, Idle, BoundaryInv, HasItsParts, NotYetWritten, ReadBeforeDecided, AnswerIsLast,
         RefusalLeavesNoTrace

\* An answer given before anything was written, or one that promises nothing.
LEMMA AnswerKeepsInv ==
    ASSUME BoundaryInv, NEW status, NEW told, Answer(status, told), before' = before,
           \/ stored' = stored /\ stored = before
           \/ status \in {200, 500}
           \/ status = 503 /\ request.post.lane # "turns"
    PROVE  BoundaryInv'
<1>1. /\ request' = Idle
      /\ reply' = [status |-> status, lane |-> request.post.lane, told |-> told]
  BY DEF Answer
<1>2. HasItsParts' /\ NotYetWritten' /\ ReadBeforeDecided' /\ AnswerIsLast'
  BY <1>1 DEF Idle, HasItsParts, NotYetWritten, ReadBeforeDecided, AnswerIsLast
<1>3. RefusalLeavesNoTrace'
  BY <1>1 DEF RefusalLeavesNoTrace
<1> QED
  BY <1>2, <1>3 DEF BoundaryInv

LEMMA NextBoundary ==
    BoundaryInv /\ [Next]_vars => /\ BoundaryInv'
                                  /\ stored # None /\ ~Readable(stored) => stored' = stored
<1> SUFFICES ASSUME BoundaryInv, [Next]_vars
             PROVE  /\ BoundaryInv'
                    /\ stored # None /\ ~Readable(stored) => stored' = stored
  OBVIOUS
<1> USE DEF At, still
<1> DEFINE unchanged == UNCHANGED <<stored, before, reply>>
\* A step of a request that is not answered by it.
<1>1. ASSUME unchanged, request.stage # "idle", NEW stage, HasItsParts',
             request'.stage = stage,
             \/ request.stage = "received" /\ stage = "admitted"
             \/ /\ request.stage = "admitted" /\ stage = "loaded"
                /\ stored # None => Readable(stored)
             \/ request.stage = "loaded" /\ stage \in {"decided", "stored"}
      PROVE  BoundaryInv'
  BY <1>1 DEF BoundaryInv, NotYetWritten, ReadBeforeDecided, AnswerIsLast,
              RefusalLeavesNoTrace
<1>2. ASSUME NEW post \in Posts, Receive(post)
      PROVE  BoundaryInv' /\ stored' = stored
  BY <1>2 DEF Receive, Idle, BoundaryInv, HasItsParts, NotYetWritten, ReadBeforeDecided,
              AnswerIsLast, RefusalLeavesNoTrace
<1>3. CASE Refuse
  <2>1. stored' = stored /\ stored = before /\ before' = before
    BY <1>3 DEF Refuse, BoundaryInv, NotYetWritten
  <2> QED
    BY <1>3, <2>1, AnswerKeepsInv DEF Refuse
<1>4. CASE Admit
  <2>1. request.stage = "received" /\ unchanged
    BY <1>4 DEF Admit
  <2>2. request'.stage = "admitted" /\ HasItsParts'
    BY <1>4 DEF Admit, BoundaryInv, HasItsParts
  <2> QED
    BY <1>1, <2>1, <2>2
<1>5. CASE Load
  <2>1. request.stage = "admitted" /\ unchanged /\ (stored # None => Readable(stored))
    BY <1>5 DEF Load
  <2>2. request'.stage = "loaded" /\ HasItsParts'
    BY <1>5 DEF Load, BoundaryInv, HasItsParts
  <2> QED
    BY <1>1, <2>1, <2>2
<1>6. CASE FailLoad
  <2>1. stored' = stored /\ stored = before /\ before' = before
    BY <1>6 DEF FailLoad, BoundaryInv, NotYetWritten
  <2> QED
    BY <1>6, <2>1, AnswerKeepsInv DEF FailLoad
<1>7. ASSUME NEW rec, NEW saved, NEW outcome, Decided(rec, saved, outcome)
      PROVE  request'.stage \in {"decided", "stored"} /\ HasItsParts'
  BY <1>7 DEF Decided, BoundaryInv, HasItsParts
<1>8. ASSUME NEW dec \in Decisions, DecideTurn(dec)
      PROVE  BoundaryInv' /\ stored' = stored
  <2>1. request.stage = "loaded" /\ unchanged
    BY <1>8 DEF DecideTurn
  <2>2. request'.stage \in {"decided", "stored"} /\ HasItsParts'
    BY <1>7, <1>8 DEF DecideTurn
  <2> QED
    BY <1>1, <2>1, <2>2
<1>9. ASSUME NEW status \in {500, 503, 504}, FailModel(status)
      PROVE  BoundaryInv' /\ stored' = stored
  <2>1. stored' = stored /\ stored = before /\ before' = before
    BY <1>9 DEF FailModel, BoundaryInv, NotYetWritten
  <2> QED
    BY <1>9, <2>1, AnswerKeepsInv DEF FailModel
<1>10. ASSUME NEW pace \in Pace, DecideEvent(pace)
       PROVE  BoundaryInv' /\ stored' = stored
  <2>1. request.stage = "loaded" /\ unchanged
    BY <1>10 DEF DecideEvent
  <2>2. request'.stage \in {"decided", "stored"} /\ HasItsParts'
    BY <1>7, <1>10 DEF DecideEvent
  <2> QED
    BY <1>1, <2>1, <2>2
<1>11. ASSUME NEW pace \in Pace, RejectEvent(pace)
       PROVE  BoundaryInv' /\ stored' = stored
  <2>1. stored' = stored /\ stored = before /\ before' = before
    BY <1>11 DEF RejectEvent, BoundaryInv, NotYetWritten
  <2> QED
    BY <1>11, <2>1, AnswerKeepsInv DEF RejectEvent
<1>12. ASSUME request.stage = "decided"
       PROVE  stored # None => Readable(stored)
  BY <1>12 DEF BoundaryInv, ReadBeforeDecided
<1>13. CASE Save
  <2>1. request'.stage = "stored" /\ HasItsParts'
    BY <1>13 DEF Save, BoundaryInv, HasItsParts
  <2>2. request.stage = "decided" /\ reply' = reply /\ before' = before
    BY <1>13 DEF Save
  <2>3. BoundaryInv'
    BY <2>1, <2>2 DEF BoundaryInv, NotYetWritten, ReadBeforeDecided, AnswerIsLast,
                      RefusalLeavesNoTrace
  <2> QED
    BY <1>12, <2>2, <2>3
<1>14. CASE FailSave
  <2>1. request.stage = "decided" /\ Answer(PersistenceStatus, None) /\ before' = before
    BY <1>14 DEF FailSave
  <2>2. \/ PersistenceStatus \in {200, 500}
        \/ PersistenceStatus = 503 /\ request.post.lane # "turns"
    BY DEF PersistenceStatus
  <2> QED
    BY <1>12, <2>1, <2>2, AnswerKeepsInv
<1>15. CASE Respond
  <2>1. PICK status, told : status \in {200, 500} /\ Answer(status, told)
    BY <1>15 DEF Respond
  <2>2. before' = before /\ stored' = stored
    BY <1>15 DEF Respond
  <2> QED
    BY <2>1, <2>2, AnswerKeepsInv
<1>16. CASE Break
  BY <1>16 DEF Break, Idle, BoundaryInv, HasItsParts, NotYetWritten, ReadBeforeDecided,
               AnswerIsLast, RefusalLeavesNoTrace
<1>17. CASE Tick \/ UNCHANGED vars
  BY <1>17 DEF Tick, vars, BoundaryInv, HasItsParts, NotYetWritten, ReadBeforeDecided,
               AnswerIsLast, RefusalLeavesNoTrace
<1> QED
  BY <1>2, <1>3, <1>4, <1>5, <1>6, <1>8, <1>9, <1>10, <1>11, <1>13, <1>14, <1>15, <1>16,
     <1>17 DEF Next

THEOREM BoundaryInvariance == Spec => []BoundaryInv
<1>1. BoundaryInv /\ [Next]_vars => BoundaryInv'
  BY NextBoundary
<1> QED
  BY <1>1, InitBoundary, PTL DEF Spec

--------------------------------------------------------------------------------
(* A turn that is decided can be told. *)

\* A turn is what its schema makes of a body.
TurnIsPosted ==
    ~At("idle") /\ request.post.lane = "turns" =>
        request.post.body \in TurnInput \cup {NotJson, OffSchema}

\* Past the checks, none of them refuses it.
TurnPasses ==
    ~At("idle") /\ ~At("received") /\ request.post.lane = "turns" => Passes(request.post)

\* A step decided for a turn is a word of its contract.
StepHasItsWord ==
    /\ request.stage \in {"decided", "stored"}
    /\ request.post.lane = "turns"
    /\ request.outcome # None
    => IsSerialisable(request.post, request.outcome)

TurnInv == HasItsParts /\ TurnIsPosted /\ TurnPasses /\ StepHasItsWord

\* A legacy turn that passed its checks carries no password.
LEMMA LegacyTurnHasNoSecret ==
    ASSUME NEW post, post.lane = "turns", Passes(post), Contract(post) = "legacy",
           post.body \in TurnInput \cup {NotJson, OffSchema}
    PROVE  post.body \in TurnInput /\ post.body.secret = FALSE
<1>1. Checks(post) = TurnChecks(post)
  BY DEF Checks
<1>2. /\ Checks(post)[1][1] = (post.body = NotJson)
      /\ Checks(post)[5][1] = (post.body = OffSchema)
      /\ Checks(post)[6][1] = SecretIsMisplaced(post)
      /\ {1, 5, 6} \subseteq DOMAIN Checks(post)
  BY <1>1 DEF TurnChecks
<1>3. post.body # NotJson /\ post.body # OffSchema /\ ~SecretIsMisplaced(post)
  BY <1>2 DEF Passes
<1> QED
  BY <1>3 DEF SecretIsMisplaced, TurnInput

\* Without a password a turn takes a conversational step, whatever the record and the model.
LEMMA TurnWithoutSecretIsConversational ==
    ASSUME NEW rec, NEW turn, turn.secret = FALSE, NEW dec \in Optional(ModelTurnDecision),
           NEW now, NEW fresh, NEW outcome, outcome # None,
           outcome = AdvanceTurn(rec, turn, dec, now, fresh).outcome
    PROVE  outcome.step \in DOMAIN LegacyRoute
<1> DEFINE plan == TurnPlan(rec, dec, now, fresh)
           steps == {"LISTEN", "COLLECT_IDENTITY", "EXECUTE_ACTION", "COMPLETE", "TRANSFER"}
           error == plan.proposal \/ plan.binding
           guarded == GuardOutcome(rec, plan.goal, dec, error, now)
<1>1. DOMAIN LegacyRoute = steps
  BY DEF LegacyRoute
<1>2. outcome = TurnOutcome(rec, turn, dec, now, plan, fresh)
  BY DEF AdvanceTurn
<1> HIDE DEF plan
<1>3. ASSUME NEW step, NEW message, NEW violated
      PROVE  /\ Say(step, message).step = step
             /\ [Say(step, message) EXCEPT !.violated = violated].step = step
  BY DEF Say
<1>4. dec # None => NextStepForState(rec, plan.goal, dec, now) \in steps
  BY DEF NextStepForState, NextStepByRoute, Optional, ModelTurnDecision, Route
<1>5. guarded # None => guarded.step \in steps
  BY <1>3, <1>4 DEF GuardOutcome
<1> HIDE DEF guarded, error
<1>6. outcome = SpokenOutcome(rec, dec, now, plan, fresh) => outcome.step \in steps
  BY <1>3, <1>5 DEF SpokenOutcome, guarded, error
<1>7. outcome = PresentationOutcome(rec, turn, dec) => outcome.step \in steps
  BY <1>3 DEF PresentationOutcome
<1>8. outcome = [Say("TRANSFER", "limit") EXCEPT !.violated = plan.proposal]
        => outcome.step \in steps
  BY <1>3
<1> QED
  BY <1>1, <1>2, <1>6, <1>7, <1>8 DEF TurnOutcome

\* The request keeps what was posted while the checks keep what they read.
LEMMA NextTurn == TurnInv /\ [Next]_vars => TurnInv'
<1> SUFFICES ASSUME TurnInv, [Next]_vars PROVE TurnInv'
  OBVIOUS
<1> USE DEF At, still
\* The end of a request.
<1>1. ASSUME request' = Idle PROVE TurnInv'
  BY <1>1 DEF Idle, TurnInv, HasItsParts, TurnIsPosted, TurnPasses, StepHasItsWord
<1>2. ASSUME NEW status, NEW told, Answer(status, told) PROVE TurnInv'
  BY <1>1, <1>2 DEF Answer
\* A stage of the same request.
<1>3. ASSUME server' = server, request.stage # "idle", HasItsParts',
             request'.post = request.post, request'.stage # "received",
             request.stage = "received" => Passes(request.post),
             StepHasItsWord'
      PROVE  TurnInv'
  <2>1. TurnIsPosted'
    BY <1>3 DEF TurnInv, TurnIsPosted
  <2>2. Passes(request.post)' = Passes(request.post)
    BY <1>3 DEF Passes, Checks, TurnChecks, EventChecks, SecretIsMisplaced, Contract,
                NumbersAreRead, Vocabulary
  <2>3. TurnPasses'
    BY <1>3, <2>2 DEF TurnInv, TurnPasses
  <2> QED
    BY <1>3, <2>1, <2>3 DEF TurnInv
<1>4. ASSUME NEW post \in Posts, Receive(post) PROVE TurnInv'
  <2>1. request' = [stage |-> "received", post |-> post, now |-> 0, rec |-> None,
                    outcome |-> None]
    BY <1>4 DEF Receive, Idle
  <2>2. post.lane = "turns" => post.body \in TurnInput \cup {NotJson, OffSchema}
    BY DEF Posts, Post
  <2> QED
    BY <2>1, <2>2 DEF TurnInv, HasItsParts, TurnIsPosted, TurnPasses, StepHasItsWord
<1>5. CASE Refuse
  BY <1>2, <1>5 DEF Refuse
<1>6. CASE Admit
  <2>1. /\ request' = [request EXCEPT !.stage = "admitted", !.now = clock]
        /\ request.stage = "received" /\ Passes(request.post) /\ server' = server
    BY <1>6 DEF Admit
  <2>2. HasItsParts' /\ StepHasItsWord' /\ request'.post = request.post
        /\ request'.stage = "admitted"
    BY <2>1 DEF TurnInv, HasItsParts, StepHasItsWord
  <2> QED
    BY <1>3, <2>1, <2>2
<1>7. CASE Load
  <2>1. /\ request' = [request EXCEPT !.stage = "loaded", !.rec = request'.rec]
        /\ request.stage = "admitted" /\ server' = server
    BY <1>7 DEF Load, TurnInv, HasItsParts
  <2>2. HasItsParts' /\ StepHasItsWord' /\ request'.post = request.post
        /\ request'.stage = "loaded"
    BY <2>1 DEF TurnInv, HasItsParts, StepHasItsWord
  <2> QED
    BY <1>3, <2>1, <2>2
<1>8. CASE FailLoad
  BY <1>2, <1>8 DEF FailLoad
<1>9. ASSUME request.stage = "loaded", server' = server,
             NEW rec, NEW saved, NEW outcome, Decided(rec, saved, outcome),
             request.post.lane = "turns" /\ outcome # None =>
                 IsSerialisable(request.post, outcome)
      PROVE  TurnInv'
  <2>1. /\ request' = [request EXCEPT !.stage = request'.stage, !.rec = rec,
                                      !.outcome = outcome]
        /\ request'.stage \in {"decided", "stored"}
    BY <1>9 DEF Decided, TurnInv, HasItsParts
  <2>2. HasItsParts' /\ request'.post = request.post /\ request'.outcome = outcome
    BY <2>1 DEF TurnInv, HasItsParts
  <2>3. StepHasItsWord'
    BY <1>9, <2>2 DEF StepHasItsWord, IsSerialisable, Contract
  <2> QED
    BY <1>3, <1>9, <2>1, <2>2, <2>3
<1>10. ASSUME NEW dec \in Decisions, DecideTurn(dec) PROVE TurnInv'
  <2> DEFINE post == request.post
             asked == IF ModelIsAsked(request.rec, post.body) THEN dec ELSE None
             result == AdvanceTurn(request.rec, post.body, asked, request.now, Fresh)
  <2>1. /\ request.stage = "loaded" /\ post.lane = "turns" /\ server' = server
        /\ Decided(result.record, TRUE, result.outcome)
    BY <1>10 DEF DecideTurn
  <2>2. Passes(post) /\ post.body \in TurnInput \cup {NotJson, OffSchema}
    BY <2>1 DEF TurnInv, TurnPasses, TurnIsPosted
  <2>3. asked \in Optional(ModelTurnDecision)
    BY BoundaryAssumption DEF BoundaryAssumption, Optional
  <2>4. ASSUME result.outcome # None PROVE IsSerialisable(post, result.outcome)
    <3>1. CASE Contract(post) = "legacy"
      <4>1. post.body.secret = FALSE
        BY <2>1, <2>2, <3>1, LegacyTurnHasNoSecret
      <4> HIDE DEF post, asked
      <4> QED
        BY <2>3, <2>4, <4>1, TurnWithoutSecretIsConversational DEF IsSerialisable
    <3>2. CASE Contract(post) # "legacy"
      BY <2>4, <3>2 DEF IsSerialisable
    <3> QED
      BY <3>1, <3>2
  <2> HIDE DEF result
  <2> QED
    BY <1>9, <2>1, <2>4
<1>11. ASSUME NEW status \in {500, 503, 504}, FailModel(status) PROVE TurnInv'
  BY <1>2, <1>11 DEF FailModel
<1>12. ASSUME NEW pace \in Pace, DecideEvent(pace) PROVE TurnInv'
  <2> DEFINE result == EventResult(pace)
  <2>1. /\ request.stage = "loaded" /\ request.post.lane = "events" /\ server' = server
        /\ Decided(result.record, result.saved, result.outcome)
    BY <1>12 DEF DecideEvent
  <2> HIDE DEF result
  <2> QED
    BY <1>9, <2>1
<1>13. ASSUME NEW pace \in Pace, RejectEvent(pace) PROVE TurnInv'
  BY <1>2, <1>13 DEF RejectEvent
<1>14. CASE Save
  <2>1. /\ request' = [request EXCEPT !.stage = "stored"]
        /\ request.stage = "decided" /\ server' = server
    BY <1>14 DEF Save
  <2>2. HasItsParts' /\ request'.post = request.post /\ request'.outcome = request.outcome
        /\ request'.stage = "stored"
    BY <2>1 DEF TurnInv, HasItsParts
  <2>3. StepHasItsWord'
    BY <2>1, <2>2 DEF TurnInv, StepHasItsWord, IsSerialisable, Contract
  <2> QED
    BY <1>3, <2>1, <2>2, <2>3
<1>15. CASE FailSave
  BY <1>2, <1>15 DEF FailSave
<1>16. CASE Respond
  BY <1>2, <1>16 DEF Respond
<1>17. CASE Break
  BY <1>1, <1>17 DEF Break
<1>18. CASE Tick \/ UNCHANGED vars
  <2>1. request' = request /\ server' = server
    BY <1>18 DEF Tick, vars
  <2>2. HasItsParts' /\ TurnIsPosted'
    BY <2>1 DEF TurnInv, HasItsParts, TurnIsPosted
  <2>3. StepHasItsWord'
    BY <2>1 DEF TurnInv, StepHasItsWord, IsSerialisable, Contract
  <2>4. Passes(request.post)' = Passes(request.post)
    BY <2>1 DEF Passes, Checks, TurnChecks, EventChecks, SecretIsMisplaced, Contract,
                NumbersAreRead, Vocabulary
  <2>5. TurnPasses'
    BY <2>1, <2>4 DEF TurnInv, TurnPasses
  <2> QED
    BY <2>2, <2>3, <2>5 DEF TurnInv
<1> QED
  BY <1>4, <1>5, <1>6, <1>7, <1>8, <1>10, <1>11, <1>12, <1>13, <1>14, <1>15, <1>16, <1>17,
     <1>18 DEF Next

THEOREM TurnInvariance == Spec => []TurnInv
<1>1. Init => TurnInv
  BY DEF Init, Idle, TurnInv, HasItsParts, TurnIsPosted, TurnPasses, StepHasItsWord, At
<1>2. TurnInv /\ [Next]_vars => TurnInv'
  BY NextTurn
<1> QED
  BY <1>1, <1>2, PTL DEF Spec

--------------------------------------------------------------------------------
(* What it establishes. *)

\* Whatever a request lacks, whatever the model does and whichever event does not correlate,
\* a request that is refused wrote nothing.
THEOREM RefusalsLeaveNoTrace == Spec => []RefusalLeavesNoTrace
<1>1. BoundaryInv => RefusalLeavesNoTrace
  BY DEF BoundaryInv
<1> QED
  BY <1>1, BoundaryInvariance, PTL

\* A document this version cannot read is never replaced, by any request on either lane.
THEOREM UnreadableStaysKept == Spec => UnreadableIsKept
<1>1. BoundaryInv /\ [Next]_vars =>
        [stored # None /\ ~Readable(stored) => stored' = stored]_vars
  BY NextBoundary
<1> QED
  BY <1>1, BoundaryInvariance, PTL DEF Spec, UnreadableIsKept

\* No turn is consolidated with a step that its route cannot say: the legacy route never has to
\* tell the delivery of a password, whatever is stored and whatever the model proposes.
THEOREM DecidedTurnsAreSerialisable == Spec => []DecidedTurnIsSerialisable
<1>1. TurnInv => DecidedTurnIsSerialisable
  BY DEF TurnInv, StepHasItsWord, DecidedTurnIsSerialisable, IsSerialisable, At
<1> QED
  BY <1>1, TurnInvariance, PTL

--------------------------------------------------------------------------------
(* What a conversation has ever ordered, across versions of the service.   *)

\* The operations a record names.
Names(rec) ==
    (IF rec.operation = None THEN {} ELSE {rec.operation.id})
    \cup (IF rec.dispatch = None THEN {} ELSE {rec.dispatch.operation})

\* No document of any version loses or gains an operation when it is loaded.
LEMMA LoadKeepsNames ==
    ASSUME NEW document, document # None, Readable(document)
    PROVE  /\ FromDocument(document) \in Record
           /\ OrderedBefore(document) = Names(FromDocument(document))
<1>1. CASE document.version = 1
  <2>1. /\ FromDocument(document) \in Record
        /\ FromDocument(document).dispatch = None
        /\ FromDocument(document).operation = document.planes.pending
    BY <1>1, FirstVersionAuthorizesNothing
  <2>2. OrderedBefore(document) = IF document.planes.pending = None THEN {}
                                  ELSE {document.planes.pending.id}
    BY <1>1 DEF OrderedBefore
  <2> QED
    BY <2>1, <2>2 DEF Names
<1>2. CASE document.version \in 2..SchemaVersion
  <2>1. /\ FromDocument(document) \in Record
        /\ SameEvidence(Planes(document), FromDocument(document))
    BY <1>2, MigrationKeepsEvidence
  <2>2. /\ Planes(document).operation = document.planes.operation
        /\ Planes(document).dispatch = document.planes.dispatch
    BY DEF Planes
  <2>3. document.version # 1
    BY <1>2 DEF SchemaVersion
  <2>4. OrderedBefore(document) =
          (IF document.planes.operation = None THEN {} ELSE {document.planes.operation.id})
          \cup (IF document.planes.dispatch = None THEN {}
                ELSE {document.planes.dispatch.operation})
    BY <2>3 DEF OrderedBefore
  <2> QED
    BY <2>1, <2>2, <2>4 DEF Names, SameEvidence
<1> QED
  BY <1>1, <1>2 DEF Readable, SchemaVersion

\* What is saved names what the record does.
LEMMA SaveKeepsNames ==
    ASSUME NEW rec \in Record
    PROVE  OrderedBefore(ToDocument(rec)) = Names(rec)
<1>1. /\ Readable(ToDocument(rec)) /\ ToDocument(rec) # None
      /\ FromDocument(ToDocument(rec)) = rec
  BY SavedIsLoaded
<1> QED
  BY <1>1, LoadKeepsNames

\* rec names the operations of was, or has just dispatched the first one.
Follows(was, rec) ==
    /\ rec \in Record
    /\ \/ Names(rec) = was
       \/ /\ was = {} /\ rec.dispatch # None
          /\ rec.dispatch.operation \in Nat /\ Names(rec) = {rec.dispatch.operation}

\* A turn adds at most the first operation, on any record.
LEMMA TurnFollows ==
    ASSUME NEW rec \in Record, NEW turn \in TurnInput, NEW dec \in Optional(ModelTurnDecision),
           NEW now \in Nat, NEW fresh \in Nat
    PROVE  Follows(Names(rec), AdvanceTurn(rec, turn, dec, now, fresh).record)
<1> DEFINE result == AdvanceTurn(rec, turn, dec, now, fresh)
           new == result.record
<1>1. new \in Record /\ KeepsOrStarts(rec, result, fresh)
  BY TurnKeepsRecord, TurnOperation
<1> SUFFICES Follows(Names(rec), new)
  OBVIOUS
<1> HIDE DEF result
<1>2. \/ new.operation = rec.operation /\ new.dispatch = rec.dispatch
      \/ /\ rec.operation = None /\ rec.dispatch = None
         /\ new.operation # None /\ new.operation.id = fresh
         /\ new.dispatch # None /\ new.dispatch.operation = fresh
  BY <1>1 DEF KeepsOrStarts
<1> HIDE DEF new
<1>3. \/ Names(new) = Names(rec)
      \/ /\ Names(rec) = {} /\ new.dispatch # None
         /\ new.dispatch.operation \in Nat /\ Names(new) = {new.dispatch.operation}
  BY <1>2 DEF Names
<1> QED
  BY <1>1, <1>3 DEF Follows

\* An event adds none.
LEMMA EventFollows ==
    ASSUME NEW rec \in Record, NEW event \in Event, NEW now \in Nat, NEW fresh \in Nat,
           NEW pace \in Pace
    PROVE  Follows(Names(rec), HandleEvent(rec, event, now, fresh, pace).record)
<1> DEFINE new == HandleEvent(rec, event, now, fresh, pace).record
<1>1. NamesTheSame(rec, new)
  BY EventNamesTheSame
<1> SUFFICES Follows(Names(rec), new)
  OBVIOUS
<1> HIDE DEF new
<1> QED
  BY <1>1 DEF NamesTheSame, Follows, Names

\* A conversation without a document has ordered nothing.
LEMMA NewRecordNamesNothing == NewRecord \in Record /\ Names(NewRecord) = {}
  BY LimitsAssumption DEF NewRecord, Record, IdentityState, Optional, Names

--------------------------------------------------------------------------------
(* The record a request works on stands for the stored document.           *)

\* The stored document is the one the conversation began with, or was written for a record.
StoredIsWritten == stored = origin \/ \E rec \in Record : stored = ToDocument(rec)

CountersAreNumbers == {clock, posted, request.now} \subseteq Nat

\* An event is what its schema makes of a body; past the checks it is an event.
EventIsPosted ==
    ~At("idle") /\ request.post.lane = "events" =>
        request.post.body \in Event \cup {NotJson, OffSchema}
EventIsRead ==
    ~At("idle") /\ ~At("received") /\ request.post.lane = "events" =>
        request.post.body \in Event

LaneIsKnown == ~At("idle") => request.post.lane \in {"turns", "events"}

LoadedIsStored ==
    At("loaded") =>
        request.rec = IF stored # None THEN FromDocument(stored)
                      ELSE IF request.post.lane = "turns" THEN NewRecord
                      ELSE None

DecidedFollowsStored == At("decided") => Follows(OrderedBefore(stored), request.rec)

\* The stored document names everything the conversation ever ordered.
StoredNamesAll == ordered \cup OrderedBefore(origin) = OrderedBefore(stored)

HistoryInv ==
    /\ HasItsParts
    /\ StoredIsWritten /\ CountersAreNumbers /\ LaneIsKnown
    /\ EventIsPosted /\ EventIsRead
    /\ LoadedIsStored /\ DecidedFollowsStored
    /\ StoredNamesAll

LEMMA InitHistory == Init => HistoryInv
<1> SUFFICES ASSUME Init PROVE HistoryInv
  OBVIOUS
<1>1. origin = stored /\ ordered = {}
  BY DEF Init
<1>2. request = Idle /\ clock = 0 /\ posted = 0
  BY DEF Init
<1> QED
  BY <1>1, <1>2
  DEF Idle, At, HistoryInv, HasItsParts, StoredIsWritten, CountersAreNumbers, LaneIsKnown,
      EventIsPosted, EventIsRead, LoadedIsStored, DecidedFollowsStored, StoredNamesAll

\* A turn that passed its checks is a turn, and an event an event.
LEMMA PassedIsRead ==
    ASSUME NEW post, Passes(post)
    PROVE  /\ post.lane = "turns" /\ post.body \in TurnInput \cup {NotJson, OffSchema} =>
                post.body \in TurnInput
           /\ post.lane = "events" /\ post.body \in Event \cup {NotJson, OffSchema} =>
                post.body \in Event
<1>1. ASSUME post.lane = "turns", post.body \in TurnInput \cup {NotJson, OffSchema}
      PROVE  post.body \in TurnInput
  <2>1. /\ Checks(post)[1][1] = (post.body = NotJson)
        /\ Checks(post)[5][1] = (post.body = OffSchema)
        /\ {1, 5} \subseteq DOMAIN Checks(post)
    BY <1>1 DEF Checks, TurnChecks
  <2> QED
    BY <1>1, <2>1 DEF Passes
<1>2. ASSUME post.lane = "events", post.body \in Event \cup {NotJson, OffSchema}
      PROVE  post.body \in Event
  <2> DEFINE misread == \/ post.body.kind \notin Vocabulary(Contract(post))
                        \/ ~NumbersAreRead(post)
  <2>1. Checks(post) = <<<<~server.key, 500>>, <<~post.keyed, 401>>,
                         <<Contract(post) = None, 400>>, <<~server.events, 503>>,
                         <<misread, 422>>>>
    BY <1>2 DEF Checks, EventChecks
  <2> HIDE DEF misread
  <2>2. Checks(post)[5] = <<misread, 422>> /\ 5 \in DOMAIN Checks(post)
    BY <2>1
  <2>3. Checks(post)[5][1] = misread
    BY <2>2
  <2>4. ~misread
    BY <2>2, <2>3 DEF Passes
  <2>5. post.body.kind \in Vocabulary(Contract(post))
    BY <2>4 DEF misread
  <2>6. NotJson.kind = "not_json" /\ OffSchema.kind = "off_schema"
    BY DEF NotJson, OffSchema
  <2>7. \A contract : {"not_json", "off_schema"} \cap Vocabulary(contract) = {}
    BY DEF Vocabulary
  <2> QED
    BY <1>2, <2>5, <2>6, <2>7
<1> QED
  BY <1>1, <1>2

\* What a turn or an event may work on: the record the document stands for, or a new one.
LEMMA LoadedRecord ==
    ASSUME BoundaryInv, HistoryInv, At("loaded")
    PROVE  /\ stored # None => /\ Readable(stored)
                               /\ request.rec = FromDocument(stored) /\ request.rec \in Record
           /\ stored = None => request.rec = IF request.post.lane = "turns"
                                             THEN NewRecord ELSE None
<1>1. ASSUME stored # None
      PROVE  Readable(stored) /\ request.rec = FromDocument(stored)
  BY <1>1 DEF At, HistoryInv, LoadedIsStored, BoundaryInv, ReadBeforeDecided
<1>2. stored = None => request.rec = IF request.post.lane = "turns" THEN NewRecord ELSE None
  BY DEF HistoryInv, LoadedIsStored
<1> QED
  BY <1>1, <1>2, LoadKeepsNames

\* The event a request reconciles is one of its vocabulary.
LEMMA LoadedEvent ==
    ASSUME HistoryInv, At("loaded"), request.post.lane = "events"
    PROVE  IntegrationEvent \in Event
<1>1. request.post.body \in Event
  BY DEF HistoryInv, EventIsRead, At
<1>2. ASSUME NEW e \in Event, e.kind = "voice", NEW v \in BOOLEAN
      PROVE  [e EXCEPT !.v1 = v] \in Event
  <2>1. e \in VoiceFailureEvent
    BY <1>2 DEF Event, IdentityEvent, IdentityInputFailureEvent, StatusEvent, StatusEventV1,
                DispatchErrorEvent, PollErrorEvent, PollErrorEventV1, PresentationEvent
  <2>2. [e EXCEPT !.v1 = v] \in VoiceFailureEvent
    BY <2>1 DEF VoiceFailureEvent
  <2> QED
    BY <2>2 DEF Event
<1> QED
  BY <1>1, <1>2 DEF IntegrationEvent

\* Every step keeps the record the stored document's, and writes one that names everything.
LEMMA NextHistory ==
    ASSUME BoundaryInv, TurnInv, HistoryInv, [Next]_vars
    PROVE  /\ HistoryInv'
           /\ \/ OrderedBefore(stored)' = OrderedBefore(stored)
              \/ \E id \in Nat : OrderedBefore(stored)' = {id}
<1> USE DEF At, still
<1> DEFINE goal == /\ HistoryInv'
                   /\ \/ OrderedBefore(stored)' = OrderedBefore(stored)
                      \/ \E id \in Nat : OrderedBefore(stored)' = {id}
           named == UNCHANGED <<stored, origin, ordered>>
\* A step that writes nothing.
<1>1. ASSUME named PROVE /\ OrderedBefore(stored)' = OrderedBefore(stored)
                         /\ StoredIsWritten' /\ StoredNamesAll'
  <2>1. OrderedBefore(stored)' = OrderedBefore(stored) /\ OrderedBefore(origin)' = OrderedBefore(origin)
    BY <1>1 DEF OrderedBefore
  <2> QED
    BY <1>1, <2>1 DEF HistoryInv, StoredIsWritten, StoredNamesAll
\* The end of a request.
<1>2. ASSUME request' = Idle, clock' = clock, posted' = posted,
             StoredIsWritten', StoredNamesAll'
      PROVE  HistoryInv'
  BY <1>2 DEF Idle, HistoryInv, HasItsParts, CountersAreNumbers, LaneIsKnown, EventIsPosted,
              EventIsRead, LoadedIsStored, DecidedFollowsStored
<1>3. ASSUME NEW status, NEW told, Answer(status, told), clock' = clock, posted' = posted, named
      PROVE  goal
  BY <1>1, <1>2, <1>3 DEF Answer
\* A stage of the same request.
<1>4. ASSUME request' = [request EXCEPT !.stage = request'.stage, !.now = request'.now,
                                        !.rec = request'.rec, !.outcome = request'.outcome],
             request.stage # "idle", request'.stage # "received", request'.now \in Nat,
             request.stage = "received" => Passes(request.post),
             clock' = clock, posted' = posted
      PROVE  /\ HasItsParts' /\ CountersAreNumbers' /\ LaneIsKnown'
             /\ EventIsPosted' /\ EventIsRead'
  <2>1. HasItsParts' /\ request'.post = request.post
    BY <1>4 DEF HistoryInv, HasItsParts
  <2>2. CountersAreNumbers' /\ LaneIsKnown' /\ EventIsPosted'
    BY <1>4, <2>1 DEF HistoryInv, CountersAreNumbers, LaneIsKnown, EventIsPosted
  <2>3. EventIsRead'
    <3>1. ASSUME request.post.lane = "events" PROVE request.post.body \in Event
      <4>1. CASE request.stage = "received"
        BY <1>4, <3>1, <4>1, PassedIsRead DEF HistoryInv, EventIsPosted
      <4>2. CASE request.stage # "received"
        BY <1>4, <3>1, <4>2 DEF HistoryInv, EventIsRead
      <4> QED
        BY <4>1, <4>2
    <3> QED
      BY <2>1, <3>1 DEF EventIsRead
  <2> QED
    BY <2>1, <2>2, <2>3
\* What a request may work on.
<1>5. ASSUME request.stage = "loaded"
      PROVE  /\ stored # None => /\ request.rec \in Record
                                 /\ OrderedBefore(stored) = Names(request.rec)
             /\ stored = None => /\ OrderedBefore(stored) = {}
                                 /\ request.rec = IF request.post.lane = "turns"
                                                  THEN NewRecord ELSE None
  <2>1. stored # None => /\ Readable(stored) /\ request.rec = FromDocument(stored)
                         /\ request.rec \in Record
    BY <1>5, LoadedRecord
  <2>2. stored = None => /\ OrderedBefore(stored) = {}
                         /\ request.rec = IF request.post.lane = "turns"
                                          THEN NewRecord ELSE None
    BY <1>5, LoadedRecord DEF OrderedBefore
  <2> QED
    BY <2>1, <2>2, LoadKeepsNames
<1>6. Fresh \in Nat /\ request.now \in Nat /\ clock \in Nat
  BY BoundaryAssumption DEF BoundaryAssumption, HistoryInv, CountersAreNumbers, Fresh
\* A decision.
<1>7. ASSUME request.stage = "loaded", UNCHANGED <<clock, posted>>, named,
             NEW rec, NEW saved, NEW outcome, Decided(rec, saved, outcome),
             Follows(OrderedBefore(stored), rec)
      PROVE  goal
  <2>1. /\ request' = [request EXCEPT !.stage = request'.stage, !.now = request'.now,
                                      !.rec = request'.rec, !.outcome = request'.outcome]
        /\ request'.stage \in {"decided", "stored"} /\ request'.now = request.now
        /\ request'.rec = rec
    BY <1>7 DEF Decided, HistoryInv, HasItsParts
  <2>2. /\ HasItsParts' /\ CountersAreNumbers' /\ LaneIsKnown'
        /\ EventIsPosted' /\ EventIsRead'
    BY <1>4, <1>6, <1>7, <2>1
  <2>3. OrderedBefore(stored)' = OrderedBefore(stored) /\ StoredIsWritten' /\ StoredNamesAll'
    BY <1>1, <1>7
  <2>4. LoadedIsStored' /\ DecidedFollowsStored'
    BY <1>7, <2>1, <2>3 DEF LoadedIsStored, DecidedFollowsStored
  <2> QED
    BY <2>2, <2>3, <2>4 DEF HistoryInv
\* A write.
<1>8. ASSUME request.stage = "decided", Write(request.rec), origin' = origin
      PROVE  /\ StoredIsWritten' /\ StoredNamesAll'
             /\ \/ OrderedBefore(stored)' = OrderedBefore(stored)
                \/ \E id \in Nat : OrderedBefore(stored)' = {id}
  <2> DEFINE rec == request.rec
             was == OrderedBefore(stored)
  <2>1. /\ rec \in Record
        /\ \/ Names(rec) = was
           \/ /\ was = {} /\ rec.dispatch # None
              /\ rec.dispatch.operation \in Nat /\ Names(rec) = {rec.dispatch.operation}
    BY <1>8 DEF HistoryInv, DecidedFollowsStored, Follows
  <2>2. /\ stored' = ToDocument(rec)
        /\ ordered' = ordered \cup (IF rec.dispatch = None THEN {}
                                    ELSE {rec.dispatch.operation})
    BY <1>8 DEF Write
  <2>3. OrderedBefore(stored)' = Names(rec) /\ StoredIsWritten'
    <3>1. OrderedBefore(stored)' = OrderedBefore(stored')
      BY DEF OrderedBefore
    <3> QED
      BY <2>1, <2>2, <3>1, SaveKeepsNames DEF StoredIsWritten
  <2>4. ordered \cup OrderedBefore(origin) = was
    BY DEF HistoryInv, StoredNamesAll
  <2>5. OrderedBefore(origin)' = OrderedBefore(origin)
    BY <1>8 DEF OrderedBefore
  <2> HIDE DEF was
  <2>6. ordered' \cup OrderedBefore(origin) = Names(rec)
    <3>1. ordered' \cup OrderedBefore(origin) =
            was \cup (IF rec.dispatch = None THEN {} ELSE {rec.dispatch.operation})
      BY <2>2, <2>4
    <3>2. (IF rec.dispatch = None THEN {} ELSE {rec.dispatch.operation}) \subseteq Names(rec)
      BY DEF Names
    <3> HIDE DEF rec
    <3> QED
      BY <2>1, <3>1, <3>2
  <2> QED
    BY <2>1, <2>3, <2>5, <2>6 DEF StoredNamesAll, was
<1>9. ASSUME NEW post \in Posts, Receive(post) PROVE goal
  <2>1. /\ request' = [stage |-> "received", post |-> post, now |-> 0, rec |-> None,
                       outcome |-> None]
        /\ clock' = clock /\ posted' = posted + 1 /\ named
    BY <1>9 DEF Receive, Idle
  <2>2. post.lane \in {"turns", "events"}
        /\ (post.lane = "events" =>
              post.body \in CallerEvents \cup OperationEvents \cup {NotJson, OffSchema})
    BY DEF Posts, Post
  <2>3. CallerEvents \subseteq Event
    BY DEF CallerEvents, Event, VoiceFailureEvent
  <2>4. Named \subseteq ExternalActionCommand
    <3>1. ASSUME stored # None, Readable(stored) PROVE FromDocument(stored) \in Record
      BY <3>1, LoadKeepsNames
    <3>2. ASSUME NEW rec \in Record, rec.operation # None
          PROVE  [operation |-> rec.operation.id, action |-> rec.operation.action,
                  revision |-> 1] \in ExternalActionCommand
      BY <3>2 DEF Record, Optional, ExternalOperation, ExternalActionCommand
    <3> QED
      BY <3>1, <3>2 DEF Named
  <2>5. 1..MaxSequence \subseteq Nat \ {0}
    BY BoundaryAssumption DEF BoundaryAssumption
  <2>6. OperationEvents \subseteq Event
    <3>1. ASSUME NEW e \in OperationEvents PROVE e \in Event
      <4> HIDE DEF Named
      <4>1. CASE e \in [kind : {"status"}, command : Named, seen : StatusSeen]
        BY <2>4, <4>1 DEF Event, StatusEvent
      <4>2. CASE e \in [kind : {"poll_error", "dispatch_error"}, command : Named]
        BY <2>4, <4>2 DEF Event, PollErrorEvent, DispatchErrorEvent
      <4>3. CASE e \in [kind : {"status_v1"}, command : Named, seen : StatusSeen,
                        sequence : 1..MaxSequence]
        BY <2>4, <2>5, <4>3 DEF Event, StatusEventV1
      <4>4. CASE e \in [kind : {"poll_error_v1"}, command : Named, seen : PollError,
                        sequence : 1..MaxSequence]
        BY <2>4, <2>5, <4>4 DEF Event, PollErrorEventV1
      <4>5. CASE e \in [kind : {"presentation"}, command : Named, voice : PlaybackVoice]
        BY <2>4, <4>5 DEF Event, PresentationEvent
      <4> QED
        BY <3>1, <4>1, <4>2, <4>3, <4>4, <4>5 DEF OperationEvents
    <3> QED
      BY <3>1
  <2>7. OrderedBefore(stored)' = OrderedBefore(stored) /\ StoredIsWritten' /\ StoredNamesAll'
    BY <1>1, <2>1
  <2>8. EventIsPosted' /\ LaneIsKnown'
    BY <2>1, <2>2, <2>3, <2>6 DEF EventIsPosted, LaneIsKnown
  <2>9. /\ HasItsParts' /\ CountersAreNumbers' /\ EventIsRead' /\ LoadedIsStored'
        /\ DecidedFollowsStored'
    BY <2>1 DEF HistoryInv, HasItsParts, CountersAreNumbers, EventIsRead, LoadedIsStored,
                DecidedFollowsStored
  <2> QED
    BY <2>7, <2>8, <2>9 DEF HistoryInv
<1>10. CASE Refuse
  BY <1>3, <1>10 DEF Refuse
<1>11. CASE Admit \/ Load
  <2>1. /\ request' = [request EXCEPT !.stage = request'.stage, !.now = request'.now,
                                      !.rec = request'.rec, !.outcome = request'.outcome]
        /\ request'.now \in Nat /\ request'.stage \in {"admitted", "loaded"}
        /\ request.stage \in {"received", "admitted"}
        /\ (request.stage = "received" => Passes(request.post))
    BY <1>6, <1>11 DEF Admit, Load, HistoryInv, HasItsParts
  <2>2. named /\ clock' = clock /\ posted' = posted
    BY <1>11 DEF Admit, Load
  <2>3. /\ HasItsParts' /\ CountersAreNumbers' /\ LaneIsKnown'
        /\ EventIsPosted' /\ EventIsRead'
    BY <1>4, <2>1, <2>2
  <2>4. OrderedBefore(stored)' = OrderedBefore(stored) /\ StoredIsWritten' /\ StoredNamesAll'
    BY <1>1, <2>2
  <2>5. DecidedFollowsStored'
    BY <2>1 DEF DecidedFollowsStored
  <2>6. LoadedIsStored'
    BY <1>11, <2>1, <2>2 DEF Admit, Load, LoadedIsStored, HistoryInv, HasItsParts
  <2> QED
    BY <2>3, <2>4, <2>5, <2>6 DEF HistoryInv
<1>12. CASE FailLoad
  BY <1>3, <1>12 DEF FailLoad
<1>13. ASSUME NEW dec \in Decisions, DecideTurn(dec) PROVE goal
  <2> DEFINE post == request.post
             rec == request.rec
             asked == IF ModelIsAsked(rec, post.body) THEN dec ELSE None
             result == AdvanceTurn(rec, post.body, asked, request.now, Fresh)
  <2>1. /\ request.stage = "loaded" /\ post.lane = "turns"
        /\ Decided(result.record, TRUE, result.outcome)
        /\ UNCHANGED <<clock, posted>> /\ named
    BY <1>13 DEF DecideTurn
  <2>2. post.body \in TurnInput
    BY <2>1, PassedIsRead DEF TurnInv, TurnPasses, TurnIsPosted
  <2>3. asked \in Optional(ModelTurnDecision)
    BY BoundaryAssumption DEF BoundaryAssumption, Optional
  <2>4. rec \in Record /\ OrderedBefore(stored) = Names(rec)
    BY <1>5, <2>1, NewRecordNamesNothing
  <2> HIDE DEF post, rec, asked, Fresh
  <2>5. Follows(OrderedBefore(stored), result.record)
    BY <1>6, <2>2, <2>3, <2>4, TurnFollows
  <2> HIDE DEF result
  <2> QED
    BY <1>7, <2>1, <2>5
<1>14. ASSUME NEW status \in {500, 503, 504}, FailModel(status) PROVE goal
  BY <1>3, <1>14 DEF FailModel
<1>15. ASSUME NEW pace \in Pace, DecideEvent(pace) PROVE goal
  <2> DEFINE rec == request.rec
             result == EventResult(pace)
  <2>1. /\ request.stage = "loaded" /\ request.post.lane = "events" /\ result.accepted
        /\ Decided(result.record, result.saved, result.outcome)
        /\ UNCHANGED <<clock, posted>> /\ named
    BY <1>15 DEF DecideEvent
  <2>2. Follows(OrderedBefore(stored), result.record)
    <3>1. IntegrationEvent \in Event
      BY <2>1, LoadedEvent
    <3>2. CASE stored # None
      <4>1. rec \in Record /\ OrderedBefore(stored) = Names(rec)
        BY <1>5, <2>1, <3>2
      <4>2. rec # None
        BY <4>1, NoneAssumption
      <4>3. result = HandleEvent(rec, IntegrationEvent, request.now, Fresh, pace)
        BY <4>2 DEF EventResult
      <4> HIDE DEF rec, result, Fresh
      <4> QED
        BY <1>6, <3>1, <4>1, <4>3, EventFollows
    <3>3. CASE stored = None
      <4>1. rec = None /\ OrderedBefore(stored) = {}
        BY <1>5, <2>1, <3>3
      <4>2. result \in {ApplyPreTurnVoiceFailure(NewRecord), Rejected(None)}
        BY <4>1 DEF EventResult
      <4>3. ~Rejected(None).accepted
        BY DEF Rejected
      <4>4. result = ApplyPreTurnVoiceFailure(NewRecord)
        BY <2>1, <4>2, <4>3
      <4>5. NamesTheSame(NewRecord, result.record)
        BY <4>4, NewRecordNamesNothing, VoiceNamesTheSame
      <4> HIDE DEF result
      <4> QED
        BY <4>1, <4>5, NewRecordNamesNothing DEF NamesTheSame, Follows, Names
    <3> QED
      BY <3>2, <3>3
  <2> HIDE DEF result
  <2> QED
    BY <1>7, <2>1, <2>2
<1>16. ASSUME NEW pace \in Pace, RejectEvent(pace) PROVE goal
  BY <1>3, <1>16 DEF RejectEvent
<1>17. CASE Save
  <2>1. /\ request.stage = "decided" /\ Write(request.rec)
        /\ request' = [request EXCEPT !.stage = "stored"]
        /\ origin' = origin /\ clock' = clock /\ posted' = posted
    BY <1>17 DEF Save
  <2>2. /\ request' = [request EXCEPT !.stage = request'.stage, !.now = request'.now,
                                      !.rec = request'.rec, !.outcome = request'.outcome]
        /\ request'.stage = "stored" /\ request'.now \in Nat
    BY <1>6, <2>1 DEF HistoryInv, HasItsParts
  <2>3. /\ HasItsParts' /\ CountersAreNumbers' /\ LaneIsKnown'
        /\ EventIsPosted' /\ EventIsRead'
    BY <1>4, <2>1, <2>2
  <2>4. LoadedIsStored' /\ DecidedFollowsStored'
    BY <2>2 DEF LoadedIsStored, DecidedFollowsStored
  <2> QED
    BY <1>8, <2>1, <2>3, <2>4 DEF HistoryInv
<1>18. CASE FailSave
  <2>1. /\ request.stage = "decided" /\ request' = Idle
        /\ origin' = origin /\ clock' = clock /\ posted' = posted
        /\ Write(request.rec) \/ named
    BY <1>18 DEF FailSave, Answer
  <2> QED
    BY <1>1, <1>2, <1>8, <2>1
<1>19. CASE Respond
  BY <1>3, <1>19 DEF Respond
<1>20. CASE Break
  BY <1>1, <1>2, <1>20 DEF Break
<1>21. CASE Tick \/ UNCHANGED vars
  <2>1. named /\ request' = request /\ posted' = posted /\ clock' \in Nat
    BY <1>6, <1>21 DEF Tick, vars
  <2>2. OrderedBefore(stored)' = OrderedBefore(stored) /\ StoredIsWritten' /\ StoredNamesAll'
    BY <1>1, <2>1
  <2>3. /\ HasItsParts' /\ CountersAreNumbers' /\ LaneIsKnown'
        /\ EventIsPosted' /\ EventIsRead' /\ LoadedIsStored' /\ DecidedFollowsStored'
    BY <2>1, <2>2 DEF HistoryInv, HasItsParts, CountersAreNumbers, LaneIsKnown, EventIsPosted,
                EventIsRead, LoadedIsStored, DecidedFollowsStored
  <2> QED
    BY <2>2, <2>3 DEF HistoryInv
<1> QED
  BY <1>9, <1>10, <1>11, <1>12, <1>13, <1>14, <1>15, <1>16, <1>17, <1>18, <1>19, <1>20, <1>21
  DEF Next

\* The stored document names everything ever ordered, and what a request works on follows it.
THEOREM HistoryInvariance == Spec => []HistoryInv
<1>1. BoundaryInv /\ TurnInv /\ HistoryInv /\ [Next]_vars => HistoryInv'
  BY NextHistory
<1> QED
  BY <1>1, InitHistory, BoundaryInvariance, TurnInvariance, PTL DEF Spec

\* Every document a request of this version writes is one the next request loads: the rules
\* copy planes without validating them and the save validates nothing, yet no sequence of
\* turns and events, over a document of any version, writes planes the closed models refuse.
THEOREM WritesAreReadable == Spec => []WrittenIsReadable
<1>1. HistoryInv => WrittenIsReadable
  BY SavedIsLoaded DEF HistoryInv, StoredIsWritten, WrittenIsReadable
<1> QED
  BY <1>1, HistoryInvariance, PTL

\* The stored document is the whole memory of what was ordered: whatever version wrote the
\* document the conversation began with, the operations ever written as dispatched are those
\* it named and at most one more, ordered only when it named none.
THEOREM OrderedAtMostOnce ==
    ASSUME \A document \in Stored : Cardinality(OrderedBefore(document)) <= 1
    PROVE  Spec => []OneMutationPerConversation
<1> DEFINE one == Cardinality(OrderedBefore(stored)) <= 1
<1>1. Init => one
  BY DEF Init
<1>2. BoundaryInv /\ TurnInv /\ HistoryInv /\ one /\ [Next]_vars => one'
  <2> SUFFICES ASSUME BoundaryInv, TurnInv, HistoryInv, one, [Next]_vars PROVE one'
    OBVIOUS
  <2>1. CASE OrderedBefore(stored)' = OrderedBefore(stored)
    BY <2>1
  <2>2. ASSUME NEW id \in Nat, OrderedBefore(stored)' = {id}
        PROVE  one'
    <3>1. Cardinality({id}) = 1
      BY FS_Singleton
    <3> QED
      BY <2>2, <3>1
  <2> QED
    BY <2>1, <2>2, NextHistory
<1>3. HistoryInv /\ one => OneMutationPerConversation
  BY DEF HistoryInv, StoredNamesAll, OneMutationPerConversation
<1> HIDE DEF one
<1> QED
  BY <1>1, <1>2, <1>3, BoundaryInvariance, TurnInvariance, HistoryInvariance, PTL DEF Spec

\* Loading the document an older version left while its caller was being asked keeps consent:
\* the challenge, its validation and its goal, with the mode version 6 requires of a reset.
LEMMA UpgradeKeepsConsent ==
    ASSUME NEW document, Readable(document), document.version \in 2..5, NEW now \in Nat,
           AwaitsConfirmation(document.planes, now)
    PROVE  LET rec == FromDocument(document)
           IN  /\ rec \in Record /\ Consented(rec, now) /\ ~BudgetConsumed(rec)
               /\ rec.confirmation.validatedAt = rec.identity.validatedAt
<1> DEFINE old == Planes(document)
           rec == FromDocument(document)
<1>1. /\ old \in Record /\ rec = WithInferredAssistanceMode(old)
      /\ rec \in Record /\ SameGoal(old, rec) /\ SameEvidence(old, rec)
  BY PlanesType, InferenceIsNarrow DEF SchemaVersion
<1>2. /\ old.goal = document.planes.goal /\ old.identity = document.planes.identity
      /\ old.confirmation = document.planes.confirmation
      /\ old.dispatch = document.planes.dispatch
      /\ old.operation = document.planes.operation
  BY DEF Planes
<1>3. AwaitsConfirmation(old, now)
  BY <1>2 DEF AwaitsConfirmation
<1> HIDE DEF old, rec
<1>4. /\ old.goal # None /\ old.confirmation # None /\ Matches(old.confirmation, old.goal)
      /\ old.goal.mode = None
  BY <1>3 DEF AwaitsConfirmation, Matches
<1>5. old.goal.action = Reset => rec.goal.mode = "AUTONOMOUS"
  <2>1. ASSUME old.goal.action = Reset
        PROVE  /\ InferAssistanceMode(old) = "AUTONOMOUS"
               /\ rec = [old EXCEPT !.goal.mode = InferAssistanceMode(old)]
    BY <1>1, <1>4, <2>1 DEF InferAssistanceMode, WithInferredAssistanceMode, Matches
  <2>2. old.goal \in ConversationGoal
    BY <1>1, <1>4 DEF Record, Optional
  <2> QED
    BY <1>1, <2>1, <2>2 DEF Record, ConversationGoal
<1>6. Consented(rec, now) /\ ~BudgetConsumed(rec)
      /\ rec.confirmation.validatedAt = rec.identity.validatedAt
  BY <1>1, <1>3, <1>4, <1>5
  DEF SameGoal, SameEvidence, Consented, AwaitsConfirmation, BudgetConsumed, Matches
<1> QED
  BY <1>1, <1>6 DEF rec

\* A caller asked to confirm before an upgrade from any version that had challenges, who says
\* yes after it, is served: the stored challenge still binds, for every document and decision.
THEOREM UpgradesServeLiveChallenges == Spec => []LiveChallengeSurvivesUpgrade
<1>1. ASSUME BoundaryInv, HistoryInv
      PROVE  LiveChallengeSurvivesUpgrade
  <2> SUFFICES ASSUME At("loaded"), stored # None, stored.version \in 2..5,
                      AwaitsConfirmation(stored.planes, request.now),
                      NEW dec \in Decisions, dec.observation = "AFFIRMATIVE",
                      dec.intent = "NONE", dec.mode = None
               PROVE  AdvanceTurn(request.rec, request.post.body, dec, request.now,
                                  Fresh).outcome.step = "EXECUTE_ACTION"
    BY DEF LiveChallengeSurvivesUpgrade
  <2>1. Readable(stored) /\ request.rec = FromDocument(stored) /\ request.now \in Nat
    BY <1>1, LoadedRecord DEF HistoryInv, CountersAreNumbers
  <2>2. dec \in ModelTurnDecision /\ Fresh \in Nat
    BY <1>1, BoundaryAssumption DEF BoundaryAssumption, HistoryInv, CountersAreNumbers, Fresh
  <2>3. /\ request.rec \in Record /\ Consented(request.rec, request.now)
        /\ ~BudgetConsumed(request.rec)
        /\ request.rec.confirmation.validatedAt = request.rec.identity.validatedAt
    BY <2>1, UpgradeKeepsConsent
  <2> QED
    BY <2>1, <2>2, <2>3, ConsentDispatches
<1> QED
  BY <1>1, BoundaryInvariance, HistoryInvariance, PTL

--------------------------------------------------------------------------------
(* What a conversation has settled, and what it is fit to be served from.  *)

\* The operation a stored document stands for.
OperationIn(document) ==
    IF document = None \/ ~Readable(document) THEN None ELSE FromDocument(document).operation

IsSettled(operation) == operation # None /\ ~IsActive(operation)

\* A document that is absent, refused, or stands for a record whose planes agree.
CoherentIn(document) ==
    document # None /\ Readable(document) => Coherent(FromDocument(document))

\* rec keeps what the document has settled, and agrees with itself if the document does.
CarriesOn(document, rec) ==
    /\ IsSettled(OperationIn(document)) => rec.operation = OperationIn(document)
    /\ CoherentIn(document) => Coherent(rec)

DecidedCarriesOn == At("decided") => CarriesOn(stored, request.rec)

\* A conversation without a document starts coherent, and so does its first voice failure.
LEMMA NewConversationIsCoherent ==
    /\ Coherent(NewRecord)
    /\ Coherent(ApplyPreTurnVoiceFailure(NewRecord).record)
<1>1. Coherent(NewRecord)
  BY DEF NewRecord, Coherent, DispatchNames, ChallengeFits, ReceiptsFit, ReceiptsAgreeIn,
         PresentationFits
<1> QED
  BY <1>1, NewRecordNamesNothing, VoiceIsGood DEF GoodResult, GoodRecord

\* A decision that carries the document on does so until it is written.
LEMMA WorkCarriesOn ==
    ASSUME NEW rec, CarriesOn(stored, rec), stored' = stored, request'.rec = rec
    PROVE  DecidedCarriesOn'
  BY DEF DecidedCarriesOn, CarriesOn, OperationIn, CoherentIn, IsSettled

\* What a turn decides carries the document on.
LEMMA TurnCarriesOn ==
    ASSUME BoundaryInv, TurnInv, HistoryInv, NEW dec \in Decisions, DecideTurn(dec)
    PROVE  DecidedCarriesOn'
<1> DEFINE post == request.post
           rec == request.rec
           asked == IF ModelIsAsked(rec, post.body) THEN dec ELSE None
           result == AdvanceTurn(rec, post.body, asked, request.now, Fresh)
<1>1. /\ At("loaded") /\ post.lane = "turns"
      /\ Decided(result.record, TRUE, result.outcome) /\ stored' = stored
  BY DEF DecideTurn
<1>2. post.body \in TurnInput
  BY <1>1, PassedIsRead DEF TurnInv, TurnPasses, TurnIsPosted, At
<1>3. asked \in Optional(ModelTurnDecision) /\ Fresh \in Nat /\ request.now \in Nat
  BY BoundaryAssumption
  DEF BoundaryAssumption, Optional, HistoryInv, CountersAreNumbers, Fresh
<1>4. /\ rec \in Record
      /\ stored # None => Readable(stored) /\ rec = FromDocument(stored)
      /\ stored = None => rec = NewRecord
  BY <1>1, LoadedRecord, NewRecordNamesNothing
<1>5. request'.rec = result.record
  BY <1>1 DEF Decided, HistoryInv, HasItsParts
<1> HIDE DEF post, rec, asked, Fresh
<1>6. rec.operation # None => result.record.operation = rec.operation
  <2>1. KeepsOrStarts(rec, result, Fresh)
    BY <1>2, <1>3, <1>4, TurnOperation
  <2> HIDE DEF result
  <2> QED
    BY <2>1 DEF KeepsOrStarts
<1>7. Coherent(rec) => Coherent(result.record)
  BY <1>2, <1>3, <1>4, TurnKeepsCoherence
<1> HIDE DEF result
<1>8. CarriesOn(stored, result.record)
  <2>1. IsSettled(OperationIn(stored)) => rec.operation = OperationIn(stored)
    BY <1>4 DEF OperationIn, IsSettled
  <2>2. CoherentIn(stored) => Coherent(rec)
    BY <1>4, NewConversationIsCoherent DEF CoherentIn
  <2>3. IsSettled(OperationIn(stored)) => result.record.operation = OperationIn(stored)
    BY <1>6, <2>1 DEF IsSettled
  <2> QED
    BY <1>7, <2>2, <2>3 DEF CarriesOn
<1> QED
  BY <1>1, <1>5, <1>8, WorkCarriesOn

\* What an event decides carries the document on.
LEMMA EventCarriesOn ==
    ASSUME BoundaryInv, HistoryInv, NEW pace \in Pace, DecideEvent(pace)
    PROVE  DecidedCarriesOn'
<1> DEFINE rec == request.rec
           result == EventResult(pace)
<1>1. /\ At("loaded") /\ request.post.lane = "events" /\ result.accepted
      /\ Decided(result.record, result.saved, result.outcome) /\ stored' = stored
  BY DEF DecideEvent
<1>2. request'.rec = result.record
  BY <1>1 DEF Decided, HistoryInv, HasItsParts
<1>3. CASE stored # None
  <2>1. /\ rec \in Record /\ rec # None
        /\ OperationIn(stored) = rec.operation
        /\ CoherentIn(stored) => Coherent(rec)
    BY <1>1, <1>3, LoadedRecord, NoneAssumption DEF OperationIn, CoherentIn
  <2>2. result = HandleEvent(rec, IntegrationEvent, request.now, Fresh, pace)
    BY <2>1 DEF EventResult
  <2>3. IntegrationEvent \in Event /\ Fresh \in Nat /\ request.now \in Nat
    BY <1>1, LoadedEvent, BoundaryAssumption
    DEF BoundaryAssumption, HistoryInv, CountersAreNumbers, Fresh
  <2> HIDE DEF rec, result, Fresh
  <2>4. Coherent(rec) => Coherent(result.record)
    <3>1. Coherent(rec) => GoodResult(rec, IntegrationEvent, result)
      BY <2>1, <2>2, <2>3, EventIsGood
    <3> QED
      BY <3>1 DEF GoodResult, GoodRecord
  <2>5. IsSettled(rec.operation) => result.record.operation = rec.operation
    BY <2>1, <2>2, EventKeepsSettled DEF IsSettled
  <2>6. CarriesOn(stored, result.record)
    BY <2>1, <2>4, <2>5 DEF CarriesOn
  <2> QED
    BY <1>1, <1>2, <2>6, WorkCarriesOn
<1>4. CASE stored = None
  <2>1. rec = None
    BY <1>1, <1>4, LoadedRecord
  <2>2. result \in {ApplyPreTurnVoiceFailure(NewRecord), Rejected(None)}
    BY <2>1 DEF EventResult
  <2>3. ~Rejected(None).accepted
    BY DEF Rejected
  <2>4. Coherent(result.record)
    BY <1>1, <2>2, <2>3, NewConversationIsCoherent
  <2>5. ~IsSettled(OperationIn(stored))
    BY <1>4 DEF OperationIn, IsSettled
  <2> HIDE DEF result
  <2>6. CarriesOn(stored, result.record)
    BY <2>4, <2>5 DEF CarriesOn
  <2> QED
    BY <1>1, <1>2, <2>6, WorkCarriesOn
<1> QED
  BY <1>3, <1>4

\* What is written stands for what was decided.
LEMMA WriteCarriesOn ==
    ASSUME HistoryInv, DecidedCarriesOn, At("decided"), Write(request.rec)
    PROVE  /\ IsSettled(OperationIn(stored)) => OperationIn(stored') = OperationIn(stored)
           /\ CoherentIn(stored) => CoherentIn(stored')
<1> DEFINE rec == request.rec
<1>1. rec \in Record /\ CarriesOn(stored, rec) /\ stored' = ToDocument(rec)
  BY DEF HistoryInv, DecidedFollowsStored, Follows, DecidedCarriesOn, Write
<1>2. /\ Readable(ToDocument(rec)) /\ ToDocument(rec) # None
      /\ FromDocument(ToDocument(rec)) = rec
  BY <1>1, SavedIsLoaded
<1> HIDE DEF rec
<1>3. OperationIn(stored') = rec.operation
  BY <1>1, <1>2 DEF OperationIn
<1>4. Coherent(rec) => CoherentIn(stored')
  BY <1>1, <1>2 DEF CoherentIn
<1> QED
  BY <1>1, <1>3, <1>4 DEF CarriesOn

LEMMA NextCarriesOn ==
    ASSUME BoundaryInv, TurnInv, HistoryInv, DecidedCarriesOn, [Next]_vars
    PROVE  /\ DecidedCarriesOn' /\ origin' = origin
           /\ IsSettled(OperationIn(stored)) => OperationIn(stored') = OperationIn(stored)
           /\ CoherentIn(stored) => CoherentIn(stored')
<1> USE DEF At, still
<1> DEFINE goal == /\ DecidedCarriesOn' /\ origin' = origin
                   /\ IsSettled(OperationIn(stored)) => OperationIn(stored') = OperationIn(stored)
                   /\ CoherentIn(stored) => CoherentIn(stored')
\* Another stage than the one that has decided has nothing to carry on.
<1>1. ASSUME request'.stage # "decided" PROVE DecidedCarriesOn'
  BY <1>1 DEF DecidedCarriesOn
<1>2. ASSUME request'.stage # "decided", stored' = stored, origin' = origin PROVE goal
  BY <1>1, <1>2
<1>3. ASSUME NEW status, NEW told, Answer(status, told) PROVE request'.stage # "decided"
  BY <1>3 DEF Answer, Idle
<1>4. ASSUME NEW post \in Posts, Receive(post) PROVE goal
  <2>1. request'.stage # "decided" /\ stored' = stored /\ origin' = origin
    BY <1>4 DEF Receive, Idle
  <2> QED
    BY <1>2, <2>1
<1>5. CASE Refuse \/ FailLoad
  <2>1. stored' = stored /\ origin' = origin
    BY <1>5 DEF Refuse, FailLoad
  <2>2. request'.stage # "decided"
    BY <1>3, <1>5 DEF Refuse, FailLoad
  <2> QED
    BY <1>2, <2>1, <2>2
<1>6. CASE Admit \/ Load
  <2>1. request'.stage # "decided" /\ stored' = stored /\ origin' = origin
    BY <1>6 DEF Admit, Load, HistoryInv, HasItsParts
  <2> QED
    BY <1>2, <2>1
<1>7. ASSUME NEW dec \in Decisions, DecideTurn(dec) PROVE goal
  <2>1. stored' = stored /\ origin' = origin
    BY <1>7 DEF DecideTurn
  <2> QED
    BY <1>7, <2>1, TurnCarriesOn
<1>8. ASSUME NEW status \in {500, 503, 504}, FailModel(status) PROVE goal
  <2>1. stored' = stored /\ origin' = origin /\ Answer(status, None)
    BY <1>8 DEF FailModel
  <2> QED
    BY <1>2, <1>3, <2>1
<1>9. ASSUME NEW pace \in Pace, DecideEvent(pace) PROVE goal
  <2>1. stored' = stored /\ origin' = origin
    BY <1>9 DEF DecideEvent
  <2> QED
    BY <1>9, <2>1, EventCarriesOn
<1>10. ASSUME NEW pace \in Pace, RejectEvent(pace) PROVE goal
  <2>1. stored' = stored /\ origin' = origin /\ Answer(409, None)
    BY <1>10 DEF RejectEvent
  <2> QED
    BY <1>2, <1>3, <2>1
<1>11. CASE Save \/ FailSave
  <2>1. /\ At("decided") /\ origin' = origin
        /\ Write(request.rec) \/ stored' = stored
    BY <1>11 DEF Save, FailSave
  <2>2. request'.stage # "decided"
    BY <1>3, <1>11 DEF Save, FailSave, HistoryInv, HasItsParts
  <2>3. CASE stored' = stored
    BY <1>2, <2>1, <2>2, <2>3
  <2>4. CASE Write(request.rec)
    BY <1>1, <2>1, <2>2, <2>4, WriteCarriesOn
  <2> QED
    BY <2>1, <2>3, <2>4
<1>12. CASE Respond \/ Break
  <2>1. stored' = stored /\ origin' = origin
    BY <1>12 DEF Respond, Break
  <2>2. request'.stage # "decided"
    BY <1>3, <1>12 DEF Respond, Break, Idle
  <2> QED
    BY <1>2, <2>1, <2>2
<1>13. CASE Tick \/ UNCHANGED vars
  <2>1. stored' = stored /\ origin' = origin /\ request' = request
    BY <1>13 DEF Tick, vars
  <2>2. DecidedCarriesOn'
    BY <2>1 DEF DecidedCarriesOn, CarriesOn, OperationIn, CoherentIn, IsSettled
  <2> QED
    BY <2>1, <2>2
<1> QED
  BY <1>4, <1>5, <1>6, <1>7, <1>8, <1>9, <1>10, <1>11, <1>12, <1>13 DEF Next

\* What a request has decided keeps what the stored document has settled.
THEOREM CarryOnInvariance == Spec => []DecidedCarriesOn
<1>1. Init => DecidedCarriesOn
  BY DEF Init, Idle, At, DecidedCarriesOn
<1>2. BoundaryInv /\ TurnInv /\ HistoryInv /\ DecidedCarriesOn /\ [Next]_vars
        => DecidedCarriesOn'
  BY NextCarriesOn
<1> QED
  BY <1>1, <1>2, BoundaryInvariance, TurnInvariance, HistoryInvariance, PTL DEF Spec

\* An operation that RD settled stays as it was settled, with its identifier and its action,
\* whatever version of the service wrote the document it is in, whatever is posted after, and
\* whether or not the saves fail.
SettlementOutlivesVersions ==
    [][IsSettled(OperationIn(stored)) => OperationIn(stored') = OperationIn(stored)]_vars

THEOREM SettlementsOutliveVersions == Spec => SettlementOutlivesVersions
<1>1. /\ BoundaryInv /\ TurnInv /\ HistoryInv /\ DecidedCarriesOn /\ [Next]_vars
      => [IsSettled(OperationIn(stored)) => OperationIn(stored') = OperationIn(stored)]_vars
  BY NextCarriesOn
<1> QED
  BY <1>1, BoundaryInvariance, TurnInvariance, HistoryInvariance, CarryOnInvariance, PTL
  DEF Spec, SettlementOutlivesVersions

\* A conversation that began with planes in agreement keeps them so: no sequence of requests,
\* model answers and failures makes a document from which the next request reads a challenge
\* for another goal, a receipt of another operation or a playback of a reset not confirmed.
CoherenceOutlivesVersions == CoherentIn(origin) => CoherentIn(stored)

THEOREM CoherenceIsKept == Spec => []CoherenceOutlivesVersions
<1>1. Init => CoherenceOutlivesVersions
  BY DEF Init, CoherenceOutlivesVersions
<1>2. /\ BoundaryInv /\ TurnInv /\ HistoryInv /\ DecidedCarriesOn /\ [Next]_vars
      /\ CoherenceOutlivesVersions
      => CoherenceOutlivesVersions'
  <2> SUFFICES ASSUME BoundaryInv, TurnInv, HistoryInv, DecidedCarriesOn, [Next]_vars,
                      CoherenceOutlivesVersions
               PROVE  CoherenceOutlivesVersions'
    OBVIOUS
  <2>1. origin' = origin /\ (CoherentIn(stored) => CoherentIn(stored'))
    BY NextCarriesOn
  <2>2. CoherenceOutlivesVersions' = (CoherentIn(origin') => CoherentIn(stored'))
    BY DEF CoherenceOutlivesVersions
  <2> QED
    BY <2>1, <2>2 DEF CoherenceOutlivesVersions
<1> QED
  BY <1>1, <1>2, BoundaryInvariance, TurnInvariance, HistoryInvariance, CarryOnInvariance, PTL
  DEF Spec
================================================================================
