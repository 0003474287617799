---------------------------- MODULE EventRules_proofs ----------------------------
(***************************************************************************)
(* Every event handler leaves a well-formed, coherent record, moves the    *)
(* operation only forward and only on what it was told, and orders         *)
(* nothing.                                                                *)
(***************************************************************************)
EXTENDS TurnRules_proofs, SequenceTheorems

\* The operation of new is the one of rec, put in doubt from pending, or settled from
\* active by the terminal status the event reports of it.
OperationMoves(rec, event, new) ==
    /\ new.dispatch = rec.dispatch
    /\ \/ new.operation = rec.operation
       \/ /\ rec.operation # None /\ rec.operation.status = "pending"
          /\ new.operation = [rec.operation EXCEPT !.status = "unknown"]
       \/ /\ IsActive(rec.operation)
          /\ event.kind \in {"status", "status_v1"}
          /\ event.seen \in TerminalObservation
          /\ event.command.operation = rec.operation.id
          /\ new.operation = [rec.operation EXCEPT !.status = StatusOf(event.seen)]

\* A record an event handler may leave.
GoodRecord(rec, event, new) ==
    new \in Record /\ Coherent(new) /\ OperationMoves(rec, event, new)

\* An outcome that orders nothing.
OrdersNothing(outcome) ==
    /\ outcome \in Optional(Outcome)
    /\ outcome # None => outcome.command = None

GoodResult(rec, event, result) ==
    /\ GoodRecord(rec, event, result.record)
    /\ OrdersNothing(result.outcome)

\* What the runtime says never carries a command.
LEMMA SayOrdersNothing ==
    ASSUME NEW step \in NextStep, NEW message \in Message
    PROVE  OrdersNothing(Say(step, message))
  BY DEF OrdersNothing, Say, Outcome, Optional

\* The projection of a terminal operation is one of the answers that order nothing.
LEMMA TerminalOutcomeOrdersNothing ==
    ASSUME NEW rec, NEW speak \in BOOLEAN
    PROVE  OrdersNothing(TerminalOutcome(rec, speak))
<1>1. TerminalStep(rec) \in NextStep /\ {"terminal", "none"} \subseteq Message
  BY DEF TerminalStep, NextStep, Message
<1> QED
  BY <1>1, SayOrdersNothing DEF TerminalOutcome

\* Refusing or acknowledging an event leaves the record as it was.
LEMMA UnchangedIsGood ==
    ASSUME NEW rec \in Record, Coherent(rec), NEW event, NEW outcome, OrdersNothing(outcome)
    PROVE  /\ GoodResult(rec, event, Rejected(rec))
           /\ GoodResult(rec, event, Acknowledged(rec, outcome))
           /\ GoodResult(rec, event, Saved(rec, outcome))
  BY DEF GoodResult, GoodRecord, OperationMoves, OrdersNothing, Optional, Rejected,
         Acknowledged, Saved

--------------------------------------------------------------------------------
(* Identity and voice. *)

\* A validation replaces the challenge by one bound to it, and never beside an operation.
LEMMA IdentityIsGood ==
    ASSUME NEW rec \in Record, Coherent(rec), NEW event \in IdentityEvent, NEW now \in Nat,
           NEW fresh \in Nat
    PROVE  GoodResult(rec, event, ApplyIdentity(rec, event, now, fresh))
<1>1. /\ {"LISTEN", "TRANSFER", "COLLECT_IDENTITY"} \subseteq NextStep
      /\ {"identity_valid", "confirmation", "escalation", "identity_invalid",
          "identity_technical"} \subseteq Message
  BY DEF NextStep, Message
<1>2. GoodResult(rec, event, ApplyValidIdentity(rec, now, fresh))
  <2> DEFINE challenge == ChallengeOnValidIdentity(rec, now, fresh)
             identity == [validatedAt |-> now, failures |-> 0]
             new == [rec EXCEPT !.identity = identity, !.confirmation = challenge]
             outcome == Say("LISTEN", IF challenge = None THEN "identity_valid"
                                      ELSE "confirmation")
  <2>1. challenge # None =>
          /\ rec.goal # None /\ ~IsActive(rec.operation)
          /\ challenge = NewChallenge(rec.goal, [rec.identity EXCEPT !.validatedAt = now],
                                      fresh)
    BY DEF ChallengeOnValidIdentity
  <2>2. challenge # None =>
          /\ challenge \in ConfirmationChallenge
          /\ Matches(challenge, rec.goal)
          /\ challenge.validatedAt = now
    <3> DEFINE dated == [rec.identity EXCEPT !.validatedAt = now]
    <3>1. dated \in IdentityState /\ dated.validatedAt = now
      BY DEF Record, IdentityState, Optional
    <3>2. rec.goal # None => rec.goal \in ConversationGoal
      BY DEF Record, Optional
    <3>3. now # None
      BY NoneAssumption
    <3>4. challenge # None => challenge = NewChallenge(rec.goal, dated, fresh)
      BY <2>1
    <3> HIDE DEF dated, challenge
    <3>5. challenge # None => challenge \in ConfirmationChallenge
      BY <2>1, <3>1, <3>2, <3>3, <3>4, NewChallengeType
    <3> QED
      BY <2>1, <3>1, <3>4, <3>5 DEF NewChallenge, Matches
  <2>3. identity \in IdentityState
    BY DEF IdentityState, Optional
  <2> HIDE DEF challenge
  <2>4. challenge \in Optional(ConfirmationChallenge)
    BY <2>2 DEF Optional
  <2>5. ASSUME NEW i \in IdentityState, NEW c \in Optional(ConfirmationChallenge)
        PROVE  [rec EXCEPT !.identity = i, !.confirmation = c] \in Record
    BY DEF Record
  <2>6. /\ new.goal = rec.goal /\ new.operation = rec.operation
        /\ new.dispatch = rec.dispatch /\ new.polling = rec.polling
        /\ new.presentation = rec.presentation
        /\ new.identity.validatedAt = now /\ new.confirmation = challenge
    BY DEF Record
  <2>7. Coherent(new)
    BY <2>1, <2>2, <2>6 DEF Coherent, DispatchNames, ChallengeFits, ReceiptsFit,
                            ReceiptsAgreeIn, PresentationFits
  <2>8. OrdersNothing(outcome)
    BY <1>1, SayOrdersNothing
  <2>9. GoodRecord(rec, event, new)
    BY <2>3, <2>4, <2>5, <2>6, <2>7 DEF GoodRecord, OperationMoves
  <2>10. ApplyValidIdentity(rec, now, fresh) =
           IF new = rec THEN Acknowledged(rec, outcome) ELSE Saved(new, outcome)
    BY DEF ApplyValidIdentity, challenge
  <2> HIDE DEF new, outcome
  <2> QED
    BY <2>8, <2>9, <2>10 DEF GoodResult, Acknowledged, Saved
<1>3. GoodResult(rec, event, ApplyInvalidIdentity(rec))
  <2> DEFINE new == [rec EXCEPT !.identity.failures = @ + 1]
             outcome == IF RequiresHandoff(new.identity) THEN Say("TRANSFER", "escalation")
                        ELSE Say("COLLECT_IDENTITY", "identity_invalid")
  <2>1. [rec.identity EXCEPT !.failures = @ + 1] \in IdentityState
    BY DEF Record, IdentityState
  <2>2. new \in Record
    BY <2>1 DEF Record
  <2>3. /\ new.goal = rec.goal /\ new.operation = rec.operation
        /\ new.dispatch = rec.dispatch /\ new.polling = rec.polling
        /\ new.presentation = rec.presentation
        /\ new.identity.validatedAt = rec.identity.validatedAt
        /\ new.confirmation = rec.confirmation
    BY DEF Record, IdentityState
  <2>4. Coherent(new)
    BY <2>3 DEF Coherent, DispatchNames, ChallengeFits, ReceiptsFit, ReceiptsAgreeIn,
                PresentationFits
  <2>5. OrdersNothing(outcome)
    BY <1>1, SayOrdersNothing
  <2>6. ApplyInvalidIdentity(rec) = Saved(new, outcome)
    BY DEF ApplyInvalidIdentity
  <2> HIDE DEF new, outcome
  <2>7. GoodRecord(rec, event, new)
    BY <2>2, <2>3, <2>4 DEF GoodRecord, OperationMoves
  <2> QED
    BY <2>5, <2>6, <2>7 DEF GoodResult, Saved
<1>4. OrdersNothing(Say("COLLECT_IDENTITY", "identity_technical"))
  BY <1>1, SayOrdersNothing
<1> QED
  BY <1>2, <1>3, <1>4, UnchangedIsGood DEF ApplyIdentity

\* A failed capture drops the challenge and counts no further than its limit.
LEMMA VoiceIsGood ==
    ASSUME NEW rec \in Record, Coherent(rec), NEW event
    PROVE  /\ GoodResult(rec, event, ApplyVoiceFailure(rec))
           /\ GoodResult(rec, event, ApplyPreTurnVoiceFailure(rec))
<1> DEFINE count == AdvanceVoiceRetry(rec.voiceRetry)
           new == [rec EXCEPT !.confirmation = None, !.voiceRetry = count]
           early == [rec EXCEPT !.voiceRetry = count]
<1>1. count \in 0..MaxVoiceFailures
  BY LimitsAssumption DEF AdvanceVoiceRetry, Record
<1>2. /\ ApplyVoiceFailure(rec) = Saved(new, VoiceOutcome(new))
      /\ ApplyPreTurnVoiceFailure(rec) = Saved(early, VoiceOutcome(early))
  BY DEF ApplyVoiceFailure, ApplyPreTurnVoiceFailure
<1> HIDE DEF count
<1>3. new \in Record /\ early \in Record
  BY <1>1 DEF Record, Optional
<1>4. Coherent(new) /\ Coherent(early)
  BY DEF Record, Coherent, DispatchNames, ChallengeFits, ReceiptsFit, ReceiptsAgreeIn,
         PresentationFits
<1>5. OperationMoves(rec, event, new) /\ OperationMoves(rec, event, early)
  BY DEF OperationMoves, Record
<1>6. \A r : OrdersNothing(VoiceOutcome(r))
  BY SayOrdersNothing DEF VoiceOutcome, NextStep, Message
<1> QED
  BY <1>2, <1>3, <1>4, <1>5, <1>6 DEF GoodResult, GoodRecord, Saved

--------------------------------------------------------------------------------
(* The operation. *)

\* Settling touches the status of the operation and, on success, the goal; nothing else.
LEMMA TerminatedFacts ==
    ASSUME NEW k \in Record, k.operation # None, NEW seen \in TerminalObservation
    PROVE  /\ Terminated(k, seen) \in Record
           /\ Terminated(k, seen).operation = [k.operation EXCEPT !.status = StatusOf(seen)]
           /\ Terminated(k, seen).dispatch = k.dispatch
           /\ Terminated(k, seen).confirmation = k.confirmation
           /\ Terminated(k, seen).polling = k.polling
           /\ Terminated(k, seen).presentation = k.presentation
<1> DEFINE operation == [k.operation EXCEPT !.status = StatusOf(seen)]
<1>1. k.operation \in ExternalOperation
  BY DEF Record, Optional
<1>2. operation \in ExternalOperation
  BY <1>1 DEF ExternalOperation, OperationStatus, StatusOf
<1>3. Terminated(k, seen) = IF seen = "SUCCEEDED"
                            THEN [k EXCEPT !.operation = operation, !.goal = None]
                            ELSE [k EXCEPT !.operation = operation]
  BY <1>1 DEF Terminated, StatusOf, Record
<1> HIDE DEF operation
<1>4. /\ [k EXCEPT !.operation = operation, !.goal = None] \in Record
      /\ [k EXCEPT !.operation = operation] \in Record
  BY <1>2 DEF Record, Optional
<1>5. Terminated(k, seen).operation = operation
  BY <1>3 DEF Record
<1> QED
  BY <1>3, <1>4, <1>5 DEF Record, operation

\* k is rec with another polling plane.
SamePlanes(rec, k) ==
    /\ k.goal = rec.goal /\ k.identity = rec.identity /\ k.confirmation = rec.confirmation
    /\ k.dispatch = rec.dispatch /\ k.operation = rec.operation
    /\ k.presentation = rec.presentation

\* Settling an active operation is coherent: no challenge and no playback stand beside it,
\* and the receipts of k are those of an active operation and of seen itself.
LEMMA TerminatedIsGood ==
    ASSUME NEW rec \in Record, Coherent(rec), IsActive(rec.operation), NEW event \in Event,
           event.kind \in {"status", "status_v1"}, event.seen \in TerminalObservation,
           Correlates(rec, event.command), NEW k \in Record, SamePlanes(rec, k),
           ReceiptsFit(k),
           k.polling # None =>
               \A i \in 1..Len(k.polling.receipts) :
                   k.polling.receipts[i].fingerprint \in TerminalObservation =>
                       k.polling.receipts[i].fingerprint = event.seen
    PROVE  GoodRecord(rec, event, Terminated(k, event.seen))
<1> DEFINE new == Terminated(k, event.seen)
<1>1. k.operation # None /\ k.operation = rec.operation
  BY DEF SamePlanes, IsActive
<1>2. rec.operation \in ExternalOperation
  BY <1>1 DEF Record, Optional
<1>3. /\ new \in Record
      /\ new.operation = [rec.operation EXCEPT !.status = StatusOf(event.seen)]
      /\ new.dispatch = rec.dispatch /\ new.confirmation = rec.confirmation
      /\ new.polling = k.polling /\ new.presentation = rec.presentation
  BY <1>1, TerminatedFacts DEF SamePlanes
<1>4. /\ new.operation \in ExternalOperation
      /\ new.operation.status = StatusOf(event.seen)
      /\ new.operation.id = rec.operation.id /\ new.operation.action = rec.operation.action
      /\ new.operation # None
  BY <1>2, <1>3, NoneAssumption DEF ExternalOperation, StatusOf, OperationStatus
<1> HIDE DEF new
<1>5. DispatchNames(new) /\ ChallengeFits(new) /\ PresentationFits(new)
  BY <1>1, <1>3, <1>4 DEF Coherent, DispatchNames, ChallengeFits, PresentationFits, IsActive
<1>6. ReceiptsFit(new)
  BY <1>1, <1>3, <1>4 DEF ReceiptsFit
<1>7. ReceiptsAgreeIn(new)
  BY <1>3, <1>4 DEF ReceiptsAgreeIn
<1>8. OperationMoves(rec, event, new)
  BY <1>3 DEF OperationMoves, Correlates
<1> QED
  BY <1>3, <1>5, <1>6, <1>7, <1>8 DEF GoodRecord, Coherent, new

\* A coherent record whose operation is active holds no terminal receipt.
LEMMA ActiveHasNoTerminalReceipt ==
    ASSUME NEW rec, Coherent(rec), IsActive(rec.operation), rec.polling # None,
           NEW i \in 1..Len(rec.polling.receipts)
    PROVE  rec.polling.receipts[i].fingerprint \notin TerminalObservation
  BY DEF Coherent, ReceiptsAgreeIn, IsActive, TerminalObservation, StatusOf

\* Legacy observations settle an active operation, and otherwise change nothing.
LEMMA StatusIsGood ==
    ASSUME NEW rec \in Record, Coherent(rec), NEW event \in StatusEvent,
           Correlates(rec, event.command), NEW pace \in Pace
    PROVE  GoodResult(rec, event, ApplyStatus(rec, event, pace))
<1>1. event \in Event /\ event.kind = "status" /\ event.seen \in StatusSeen
  BY DEF Event, StatusEvent
<1>2. {"POLL_RD"} \subseteq NextStep /\ {"feedback", "none"} \subseteq Message
  BY DEF NextStep, Message
<1>3. /\ OrdersNothing(Say("POLL_RD", "none")) /\ OrdersNothing(Say("POLL_RD", "feedback"))
      /\ \A r : /\ OrdersNothing(TerminalOutcome(r, TRUE))
                /\ OrdersNothing(TerminalOutcome(r, FALSE))
  BY <1>2, SayOrdersNothing, TerminalOutcomeOrdersNothing
<1>4. GoodResult(rec, event, ApplyProgress(rec, pace))
  BY <1>3, UnchangedIsGood DEF ApplyProgress
<1>5. ASSUME event.seen \in TerminalObservation
      PROVE  GoodResult(rec, event, ApplyTerminal(rec, rec, event.seen,
                              Acknowledged(rec, TerminalOutcome(rec, TRUE))))
  <2>1. CASE IsActive(rec.operation)
    <3>1. SamePlanes(rec, rec) /\ ReceiptsFit(rec)
      BY DEF SamePlanes, Coherent
    <3>2. GoodRecord(rec, event, Terminated(rec, event.seen))
      BY <1>1, <1>5, <2>1, <3>1, ActiveHasNoTerminalReceipt, TerminatedIsGood
    <3> QED
      BY <1>3, <2>1, <3>2 DEF ApplyTerminal, GoodResult, Saved
  <2>2. CASE ~IsActive(rec.operation)
    BY <1>3, <2>2, UnchangedIsGood DEF ApplyTerminal
  <2> QED
    BY <2>1, <2>2
<1> QED
  BY <1>1, <1>3, <1>4, <1>5, UnchangedIsGood DEF ApplyStatus, StatusSeen

\* A dispatch error only ever puts a pending operation in doubt.
LEMMA DispatchErrorIsGood ==
    ASSUME NEW rec \in Record, Coherent(rec), NEW event, rec.operation # None
    PROVE  GoodResult(rec, event, ApplyDispatchError(rec))
<1> DEFINE new == [rec EXCEPT !.operation.status = "unknown"]
<1>1. OrdersNothing(Say("POLL_RD", "none"))
  BY SayOrdersNothing DEF NextStep, Message
<1>2. rec.operation \in ExternalOperation
  BY DEF Record, Optional
<1>3. ASSUME rec.operation.status = "pending"
      PROVE  GoodRecord(rec, event, new)
  <2> DEFINE operation == [rec.operation EXCEPT !.status = "unknown"]
  <2>1. /\ operation \in ExternalOperation
        /\ operation.status = "unknown" /\ operation.id = rec.operation.id
        /\ operation.action = rec.operation.action
    BY <1>2 DEF ExternalOperation, OperationStatus
  <2>2. operation # None
    BY <2>1, NoneAssumption
  <2>3. new = [rec EXCEPT !.operation = operation]
    BY DEF Record
  <2>4. OperationMoves(rec, event, new)
    BY <1>3, <2>3 DEF OperationMoves, Record
  <2> HIDE DEF operation, new
  <2>5. new \in Record
    BY <2>1, <2>3 DEF Record, Optional
  <2>6. /\ new.operation = operation /\ new.goal = rec.goal
        /\ new.identity = rec.identity /\ new.confirmation = rec.confirmation
        /\ new.dispatch = rec.dispatch /\ new.polling = rec.polling
        /\ new.presentation = rec.presentation
    BY <2>3 DEF Record
  <2>7. DispatchNames(new) /\ ChallengeFits(new) /\ PresentationFits(new)
    BY <1>3, <2>1, <2>2, <2>6 DEF Coherent, DispatchNames, ChallengeFits,
                                  PresentationFits, IsActive
  <2>8. ReceiptsFit(new)
    BY <2>1, <2>2, <2>6 DEF Coherent, ReceiptsFit
  <2>9. ReceiptsAgreeIn(new)
    BY <1>2, <1>3, <2>6, ActiveHasNoTerminalReceipt DEF ReceiptsAgreeIn, IsActive
  <2> QED
    BY <2>4, <2>5, <2>7, <2>8, <2>9 DEF GoodRecord, Coherent
<1> QED
  BY <1>1, <1>3, UnchangedIsGood DEF ApplyDispatchError, GoodResult, Saved

\* A legacy poll error changes nothing.
LEMMA PollErrorIsGood ==
    ASSUME NEW rec \in Record, Coherent(rec), NEW event
    PROVE  GoodResult(rec, event, ApplyPollError(rec))
<1>1. OrdersNothing(Say("POLL_RD", "none")) /\ OrdersNothing(TerminalOutcome(rec, FALSE))
  BY SayOrdersNothing, TerminalOutcomeOrdersNothing DEF NextStep, Message
<1> QED
  BY <1>1, UnchangedIsGood DEF ApplyPollError

--------------------------------------------------------------------------------
(* The presentation of the temporary password. *)

\* A playback is recorded for the confirmed reset it names, and only improves.
LEMMA PresentationIsGood ==
    ASSUME NEW rec \in Record, Coherent(rec), NEW event \in PresentationEvent
    PROVE  GoodResult(rec, event, ApplyPresentation(rec, event))
<1> DEFINE first == [operation |-> event.command.operation,
                     revision |-> event.command.revision,
                     voice |-> event.voice, finished |-> FALSE]
           better == [rec.presentation EXCEPT !.voice = event.voice]
<1>1. OrdersNothing(Say("LISTEN", "none"))
  BY SayOrdersNothing DEF NextStep, Message
<1>2. /\ event.command \in ExternalActionCommand /\ event.voice \in PlaybackVoice
      /\ first \in PasswordPresentation
  BY DEF PresentationEvent, ExternalActionCommand, PasswordPresentation
<1>3. rec.presentation # None =>
        /\ rec.presentation \in PasswordPresentation
        /\ better \in PasswordPresentation
        /\ better.operation = rec.presentation.operation
        /\ better.revision = rec.presentation.revision
  BY <1>2 DEF Record, Optional, PasswordPresentation
<1>4. ASSUME NEW p \in PasswordPresentation, PresentationCorrelates(rec, event.command),
             p.operation = rec.operation.id, p.revision = rec.dispatch.revision
      PROVE  GoodRecord(rec, event, [rec EXCEPT !.presentation = p])
  <2> DEFINE new == [rec EXCEPT !.presentation = p]
  <2>1. new \in Record
    BY DEF Record, Optional
  <2>2. /\ new.operation = rec.operation /\ new.goal = rec.goal
        /\ new.identity = rec.identity /\ new.confirmation = rec.confirmation
        /\ new.dispatch = rec.dispatch /\ new.polling = rec.polling
        /\ new.presentation = p
    BY DEF Record
  <2> HIDE DEF new
  <2>3. Coherent(new)
    BY <1>4, <2>2 DEF Coherent, DispatchNames, ChallengeFits, ReceiptsFit, ReceiptsAgreeIn,
                      PresentationFits, PresentationCorrelates
  <2> QED
    BY <2>1, <2>2, <2>3 DEF GoodRecord, OperationMoves, new
<1>5. ASSUME PresentationCorrelates(rec, event.command)
      PROVE  first.operation = rec.operation.id /\ first.revision = rec.dispatch.revision
  BY <1>5 DEF PresentationCorrelates
<1>6. rec.presentation # None =>
        /\ rec.presentation.operation = rec.operation.id
        /\ rec.presentation.revision = rec.dispatch.revision
  BY DEF Coherent, PresentationFits
<1>7. [rec EXCEPT !.presentation.voice = event.voice] = [rec EXCEPT !.presentation = better]
  BY DEF Record
<1>8. ApplyPresentation(rec, event) =
        IF ~PresentationCorrelates(rec, event.command) THEN Rejected(rec)
        ELSE IF rec.presentation = None
        THEN Saved([rec EXCEPT !.presentation = first], Say("LISTEN", "none"))
        ELSE IF PlaybackReplaces(rec.presentation, event.voice)
        THEN Saved([rec EXCEPT !.presentation = better], Say("LISTEN", "none"))
        ELSE Acknowledged(rec, Say("LISTEN", "none"))
  BY <1>7 DEF ApplyPresentation
<1> HIDE DEF first, better
<1>9. PresentationCorrelates(rec, event.command) =>
        /\ GoodRecord(rec, event, [rec EXCEPT !.presentation = first])
        /\ rec.presentation # None =>
             GoodRecord(rec, event, [rec EXCEPT !.presentation = better])
  BY <1>2, <1>3, <1>4, <1>5, <1>6
<1>10. ASSUME NEW new, GoodRecord(rec, event, new)
       PROVE  GoodResult(rec, event, Saved(new, Say("LISTEN", "none")))
  BY <1>1, <1>10 DEF GoodResult, Saved
<1> QED
  BY <1>1, <1>8, <1>9, <1>10, UnchangedIsGood

--------------------------------------------------------------------------------
(* next-step-v1 polling. *)

\* The plane an observation is read against is well formed, gapless and of this operation.
LEMMA PollingForFacts ==
    ASSUME NEW rec \in Record, Coherent(rec), rec.operation # None
    PROVE  /\ PollingFor(rec) \in PollingState
           /\ PollingFor(rec).operation = rec.operation.id
           /\ LastSequence(PollingFor(rec)) = Len(PollingFor(rec).receipts)
           /\ \A i \in 1..Len(PollingFor(rec).receipts) :
                /\ PollingFor(rec).receipts[i].sequence = i
                /\ PollingFor(rec).receipts[i].fingerprint \notin TerminalObservation
                     => i <= ObservationLimit
                /\ PollingFor(rec).receipts[i].fingerprint \in TerminalObservation =>
                     rec.operation.status =
                       StatusOf(PollingFor(rec).receipts[i].fingerprint)
<1>1. rec.operation \in ExternalOperation
  BY DEF Record, Optional
<1>2. CASE rec.polling # None
  <2>1. PollingFor(rec) = rec.polling /\ rec.polling \in PollingState
    BY <1>2 DEF PollingFor, Coherent, ReceiptsFit, Record, Optional
  <2>2. rec.polling.receipts \in Seq(PollReceipt)
    BY <2>1 DEF PollingState
  <2>3. Len(rec.polling.receipts) \in Nat
        /\ (rec.polling.receipts = <<>>) = (Len(rec.polling.receipts) = 0)
    BY <2>2, EmptySeq, LenProperties
  <2> QED
    BY <1>2, <2>1, <2>3 DEF LastSequence, Coherent, ReceiptsFit, ReceiptsAgreeIn
<1>3. CASE rec.polling = None
  <2>1. PollingFor(rec) = NewPollingState(rec.operation.id)
    BY <1>3 DEF PollingFor
  <2>2. <<>> \in Seq(PollReceipt) /\ Len(<<>>) = 0
    OBVIOUS
  <2>3. 0 \in 0..MaxFeedback
    BY LimitsAssumption
  <2>4. NewPollingState(rec.operation.id) \in PollingState
    BY <1>1, <2>2, <2>3 DEF NewPollingState, PollingState, ExternalOperation, Optional
  <2> QED
    BY <2>1, <2>2, <2>4 DEF NewPollingState, LastSequence
<1> QED
  BY <1>2, <1>3

\* A receipt is appended behind the others, which it leaves alone.
LEMMA AppendReceiptFacts ==
    ASSUME NEW polling \in PollingState, NEW sequence \in Nat \ {0}, NEW seen \in Observation
    PROVE  /\ AppendReceipt(polling, sequence, seen) \in PollingState
           /\ AppendReceipt(polling, sequence, seen).operation = polling.operation
           /\ Len(AppendReceipt(polling, sequence, seen).receipts)
                = Len(polling.receipts) + 1
           /\ AppendReceipt(polling, sequence, seen).receipts[Len(polling.receipts) + 1]
                = [sequence |-> sequence, fingerprint |-> seen]
           /\ \A i \in 1..Len(polling.receipts) :
                AppendReceipt(polling, sequence, seen).receipts[i] = polling.receipts[i]
<1> DEFINE receipt == [sequence |-> sequence, fingerprint |-> seen]
           receipts == Append(polling.receipts, receipt)
<1>1. polling.receipts \in Seq(PollReceipt) /\ receipt \in PollReceipt
  BY DEF PollingState, PollReceipt
<1> HIDE DEF receipt
<1>2. /\ receipts \in Seq(PollReceipt)
      /\ Len(receipts) = Len(polling.receipts) + 1
      /\ receipts[Len(polling.receipts) + 1] = receipt
      /\ \A i \in 1..Len(polling.receipts) : receipts[i] = polling.receipts[i]
  BY <1>1, AppendProperties
<1>3. AppendReceipt(polling, sequence, seen) = [polling EXCEPT !.receipts = receipts]
  BY DEF AppendReceipt, receipt, PollingState
<1> HIDE DEF receipts
<1>4. [polling EXCEPT !.receipts = receipts] \in PollingState
  BY <1>2 DEF PollingState
<1> QED
  BY <1>2, <1>3, <1>4 DEF PollingState, receipt

\* Feedback moves only its own clock and count, and never past its limit.
LEMMA MaybeFeedbackFacts ==
    ASSUME NEW polling \in PollingState, NEW operation, NEW now \in Nat, NEW composed
    PROVE  /\ MaybeFeedback(polling, operation, now, composed) \in PollingState
           /\ MaybeFeedback(polling, operation, now, composed).operation = polling.operation
           /\ MaybeFeedback(polling, operation, now, composed).receipts = polling.receipts
<1> DEFINE count == IF composed THEN polling.messages + 1 ELSE polling.messages
<1>1. ~(polling.messages >= MaxFeedback) => count \in 0..MaxFeedback
  BY LimitsAssumption DEF PollingState
<1>2. now \in Optional(Nat)
  BY DEF Optional
<1>3. MaybeFeedback(polling, operation, now, composed) =
        IF ~IsActive(operation) \/ polling.messages >= MaxFeedback THEN polling
        ELSE IF polling.attempted = None THEN [polling EXCEPT !.attempted = now]
        ELSE IF now < polling.attempted + FeedbackInterval THEN polling
        ELSE [polling EXCEPT !.attempted = now, !.messages = count]
  BY DEF MaybeFeedback, PollingState
<1> HIDE DEF count
<1>4. [polling EXCEPT !.attempted = now] \in PollingState
  BY <1>2 DEF PollingState
<1>5. ~(polling.messages >= MaxFeedback) =>
        [polling EXCEPT !.attempted = now, !.messages = count] \in PollingState
  BY <1>1, <1>2 DEF PollingState
<1> QED
  BY <1>3, <1>4, <1>5 DEF PollingState

\* Another polling plane with the same receipts leaves the record coherent.
LEMMA PollingPlaneIsGood ==
    ASSUME NEW rec \in Record, Coherent(rec), rec.operation # None, NEW event,
           NEW polling \in PollingState, polling.operation = rec.operation.id,
           \A i \in 1..Len(polling.receipts) :
               /\ polling.receipts[i].sequence = i
               /\ polling.receipts[i].fingerprint \notin TerminalObservation
                    => i <= ObservationLimit
               /\ polling.receipts[i].fingerprint \in TerminalObservation =>
                    rec.operation.status = StatusOf(polling.receipts[i].fingerprint)
    PROVE  GoodRecord(rec, event, [rec EXCEPT !.polling = polling])
<1> DEFINE new == [rec EXCEPT !.polling = polling]
<1>1. new \in Record
  BY DEF Record, Optional
<1>2. SamePlanes(rec, new) /\ new.polling = polling
  BY DEF SamePlanes, Record
<1> HIDE DEF new
<1>3. DispatchNames(new) /\ ChallengeFits(new) /\ PresentationFits(new)
  BY <1>2 DEF SamePlanes, Coherent, DispatchNames, ChallengeFits, PresentationFits
<1>4. ReceiptsFit(new) /\ ReceiptsAgreeIn(new)
  BY <1>2 DEF SamePlanes, ReceiptsFit, ReceiptsAgreeIn
<1>5. OperationMoves(rec, event, new)
  BY <1>2 DEF SamePlanes, OperationMoves
<1> QED
  BY <1>1, <1>3, <1>4, <1>5 DEF GoodRecord, Coherent, new

\* A sequenced observation is consumed once, in order, and settles only an active operation.
LEMMA ObservationIsGood ==
    ASSUME NEW rec \in Record, Coherent(rec), NEW event \in Event,
           event.kind \in {"status_v1", "poll_error_v1"}, event.seen \in Observation,
           event.seen \in TerminalObservation => event.kind = "status_v1",
           event.sequence \in Nat \ {0}, Correlates(rec, event.command), NEW now \in Nat,
           NEW pace \in Pace
    PROVE  GoodResult(rec, event, ApplyObservation(rec, event, now, pace))
<1> DEFINE polling == PollingFor(rec)
           decision == ClassifySequence(polling, event.sequence, event.seen)
           appended == AppendReceipt(polling, event.sequence, event.seen)
           consumed == [rec EXCEPT !.polling = appended]
           n == Len(polling.receipts)
<1>1. rec.operation # None
  BY DEF Correlates
<1>2. /\ polling \in PollingState /\ polling.operation = rec.operation.id
      /\ LastSequence(polling) = n
      /\ \A i \in 1..n :
           /\ polling.receipts[i].sequence = i
           /\ polling.receipts[i].fingerprint \notin TerminalObservation
                => i <= ObservationLimit
           /\ polling.receipts[i].fingerprint \in TerminalObservation =>
                rec.operation.status = StatusOf(polling.receipts[i].fingerprint)
  BY <1>1, PollingForFacts
<1> HIDE DEF polling
<1>3. n \in Nat
  BY <1>2, LenProperties DEF PollingState
<1>4. /\ OrdersNothing(Say("POLL_RD", "none")) /\ OrdersNothing(Say("POLL_RD", "feedback"))
      /\ OrdersNothing(Say("TRANSFER", "none")) /\ OrdersNothing(Say("TRANSFER", "exhausted"))
      /\ \A r : /\ OrdersNothing(TerminalOutcome(r, TRUE))
                /\ OrdersNothing(TerminalOutcome(r, FALSE))
  BY SayOrdersNothing, TerminalOutcomeOrdersNothing DEF NextStep, Message
<1>5. OrdersNothing(ReplayOutcome(rec))
  BY <1>4 DEF ReplayOutcome
<1>6. ASSUME decision = "NEW", ~ObservationIsRefused(polling, event.seen)
      PROVE  GoodResult(rec, event, Observe(rec, consumed, event.seen, now, pace))
  <2>1. event.sequence = n + 1
    BY <1>2, <1>6 DEF ClassifySequence
  <2>2. /\ appended \in PollingState /\ appended.operation = rec.operation.id
        /\ Len(appended.receipts) = n + 1
        /\ appended.receipts[n + 1] = [sequence |-> n + 1, fingerprint |-> event.seen]
        /\ \A i \in 1..n : appended.receipts[i] = polling.receipts[i]
    BY <1>2, <2>1, AppendReceiptFacts
  <2>3. event.seen \notin TerminalObservation => n + 1 <= ObservationLimit
    BY <1>3, <1>6, LimitsAssumption DEF ObservationIsRefused, BudgetExhausted
  <2> HIDE DEF appended, n
  <2>4. \A i \in 1..Len(appended.receipts) :
          /\ appended.receipts[i].sequence = i
          /\ appended.receipts[i].fingerprint \notin TerminalObservation
               => i <= ObservationLimit
    <3> SUFFICES ASSUME NEW i \in 1..n + 1
                 PROVE  /\ appended.receipts[i].sequence = i
                        /\ appended.receipts[i].fingerprint \notin TerminalObservation
                             => i <= ObservationLimit
      BY <2>2
    <3>1. i = n + 1 \/ i \in 1..n
      BY <1>3
    <3> QED
      BY <1>2, <2>2, <2>3, <3>1 DEF n
  <2>5. consumed \in Record /\ SamePlanes(rec, consumed) /\ consumed.polling = appended
    BY <2>2 DEF Record, Optional, SamePlanes
  <2>6. CASE event.seen \in TerminalObservation /\ IsActive(rec.operation)
    <3>1. \A i \in 1..Len(appended.receipts) :
            appended.receipts[i].fingerprint \in TerminalObservation =>
                appended.receipts[i].fingerprint = event.seen
      <4> SUFFICES ASSUME NEW i \in 1..n + 1,
                          appended.receipts[i].fingerprint \in TerminalObservation
                   PROVE  appended.receipts[i].fingerprint = event.seen
        BY <2>2
      <4>1. i = n + 1 \/ i \in 1..n
        BY <1>3
      <4>2. i \notin 1..n
        BY <1>2, <2>2, <2>6 DEF IsActive, StatusOf, TerminalObservation, n
      <4> QED
        BY <2>2, <4>1, <4>2
    <3>2. ReceiptsFit(consumed)
      BY <1>1, <2>2, <2>4, <2>5 DEF ReceiptsFit, SamePlanes
    <3>3. GoodRecord(rec, event, Terminated(consumed, event.seen))
      BY <2>5, <2>6, <3>1, <3>2, TerminatedIsGood
    <3>4. IsActive(consumed.operation)
      BY <2>5, <2>6 DEF SamePlanes
    <3> HIDE DEF consumed
    <3> QED
      BY <1>4, <2>6, <3>3, <3>4 DEF Observe, ApplyTerminal, GoodResult, Saved
  <2>7. ASSUME event.seen \in TerminalObservation =>
                 rec.operation.status = StatusOf(event.seen),
               NEW p \in PollingState, p.operation = appended.operation,
               p.receipts = appended.receipts
        PROVE  GoodRecord(rec, event, [rec EXCEPT !.polling = p])
    <3>1. \A i \in 1..Len(appended.receipts) :
            appended.receipts[i].fingerprint \in TerminalObservation =>
                rec.operation.status = StatusOf(appended.receipts[i].fingerprint)
      <4> SUFFICES ASSUME NEW i \in 1..n + 1,
                          appended.receipts[i].fingerprint \in TerminalObservation
                   PROVE  rec.operation.status = StatusOf(appended.receipts[i].fingerprint)
        BY <2>2
      <4>1. i = n + 1 \/ i \in 1..n
        BY <1>3
      <4> QED
        BY <1>2, <2>2, <2>7, <4>1 DEF n
    <3> QED
      BY <1>1, <2>2, <2>4, <2>7, <3>1, PollingPlaneIsGood
  <2>8. CASE event.seen \in TerminalObservation /\ ~IsActive(rec.operation)
    <3>1. consumed.operation = rec.operation
      BY <2>5 DEF SamePlanes
    <3>2. rec.operation.status = StatusOf(event.seen) => GoodRecord(rec, event, consumed)
      BY <2>2, <2>7
    <3> HIDE DEF consumed
    <3>3. rec.operation.status = StatusOf(event.seen) =>
            GoodResult(rec, event, Saved(consumed, TerminalOutcome(rec, FALSE)))
      BY <1>4, <3>2 DEF GoodResult, Saved
    <3>4. GoodResult(rec, event, Rejected(rec))
      BY <1>4, UnchangedIsGood
    <3> QED
      BY <2>8, <3>1, <3>3, <3>4 DEF Observe, ApplyTerminal
  <2>9. CASE event.seen \notin TerminalObservation
    <3> DEFINE fed == MaybeFeedback(appended, rec.operation, now, pace = "speaks")
               speech == Say("POLL_RD", IF fed.messages > appended.messages
                                        THEN "feedback" ELSE "none")
    <3>1. GoodRecord(rec, event, consumed)
      BY <2>2, <2>7, <2>9
    <3>2. GoodRecord(rec, event, [rec EXCEPT !.polling = fed])
      BY <2>2, <2>7, <2>9, MaybeFeedbackFacts
    <3>3. /\ consumed.polling = appended /\ consumed.operation = rec.operation
          /\ [consumed EXCEPT !.polling = fed] = [rec EXCEPT !.polling = fed]
      BY <2>5 DEF Record, SamePlanes
    <3>4. OrdersNothing(speech)
      BY <1>4
    <3>5. NonTerminalObservation(consumed, now, pace) =
            IF BudgetExhausted(appended) THEN Saved(consumed, Say("TRANSFER", "exhausted"))
            ELSE Saved([rec EXCEPT !.polling = fed], speech)
      BY <3>3 DEF NonTerminalObservation
    <3> HIDE DEF consumed, fed, speech
    <3>6. GoodResult(rec, event, NonTerminalObservation(consumed, now, pace))
      BY <1>4, <3>1, <3>2, <3>4, <3>5 DEF GoodResult, Saved
    <3>7. GoodResult(rec, event, Saved(consumed, TerminalOutcome(rec, FALSE)))
      BY <1>4, <3>1 DEF GoodResult, Saved
    <3> QED
      BY <2>9, <3>6, <3>7 DEF Observe
  <2> QED
    BY <2>6, <2>8, <2>9
<1>7. ApplyObservation(rec, event, now, pace) =
        IF decision = "CONFLICT" THEN Rejected(rec)
        ELSE IF decision = "REPLAY" THEN Acknowledged(rec, ReplayOutcome(rec))
        ELSE IF ObservationIsRefused(polling, event.seen) THEN Rejected(rec)
        ELSE Observe(rec, consumed, event.seen, now, pace)
  BY DEF ApplyObservation, polling
<1>8. decision \in {"NEW", "REPLAY", "CONFLICT"}
  BY DEF ClassifySequence
<1> HIDE DEF decision, consumed
<1>9. /\ GoodResult(rec, event, Rejected(rec))
      /\ GoodResult(rec, event, Acknowledged(rec, ReplayOutcome(rec)))
  BY <1>4, <1>5, UnchangedIsGood
<1> QED
  BY <1>6, <1>7, <1>8, <1>9

--------------------------------------------------------------------------------
\* Every event, on every coherent record, at every instant.
LEMMA EventIsGood ==
    ASSUME NEW rec \in Record, Coherent(rec), NEW event \in Event, NEW now \in Nat,
           NEW fresh \in Nat, NEW pace \in Pace
    PROVE  GoodResult(rec, event, HandleEvent(rec, event, now, fresh, pace))
<1>1. GoodResult(rec, event, Rejected(rec))
  <2>1. OrdersNothing(Say("LISTEN", "none"))
    BY SayOrdersNothing DEF NextStep, Message
  <2> QED
    BY <2>1, UnchangedIsGood
<1>2. OrdersNothing(Say("TRANSFER", "escalation"))
  BY SayOrdersNothing DEF NextStep, Message
<1>3. GoodResult(rec, event, ApplyEvent(rec, event, now, fresh, pace))
  <2>1. CASE event \in IdentityEvent
    <3>1. event.kind = "identity"
      BY <2>1 DEF IdentityEvent
    <3> QED
      BY <2>1, <3>1, IdentityIsGood DEF ApplyEvent
  <2>2. CASE event \in IdentityInputFailureEvent
    <3>1. event.kind = "identity_input"
      BY <2>2 DEF IdentityInputFailureEvent
    <3> QED
      BY <1>2, <3>1, UnchangedIsGood DEF ApplyEvent
  <2>3. CASE event \in VoiceFailureEvent
    <3>1. event.kind = "voice"
      BY <2>3 DEF VoiceFailureEvent
    <3> QED
      BY <3>1, VoiceIsGood DEF ApplyEvent
  <2>4. CASE event \in PresentationEvent
    <3>1. event.kind = "presentation"
      BY <2>4 DEF PresentationEvent
    <3> QED
      BY <2>4, <3>1, PresentationIsGood DEF ApplyEvent
  <2>5. CASE event \in StatusEvent
    <3>1. event.kind = "status"
      BY <2>5 DEF StatusEvent
    <3> QED
      BY <1>1, <2>5, <3>1, StatusIsGood DEF ApplyEvent
  <2>6. CASE event \in PollErrorEvent
    <3>1. event.kind = "poll_error"
      BY <2>6 DEF PollErrorEvent
    <3> QED
      BY <1>1, <3>1, PollErrorIsGood DEF ApplyEvent
  <2>7. CASE event \in DispatchErrorEvent
    <3>1. event.kind = "dispatch_error"
      BY <2>7 DEF DispatchErrorEvent
    <3>2. Correlates(rec, event.command) => rec.operation # None
      BY DEF Correlates
    <3> QED
      BY <1>1, <3>1, <3>2, DispatchErrorIsGood DEF ApplyEvent
  <2>8. CASE event \in StatusEventV1 \cup PollErrorEventV1
    <3>1. /\ event.kind \in {"status_v1", "poll_error_v1"}
          /\ event.seen \in Observation
          /\ event.seen \in TerminalObservation => event.kind = "status_v1"
          /\ event.sequence \in Nat \ {0}
      BY <2>8 DEF StatusEventV1, PollErrorEventV1, Observation, StatusSeen,
                  TerminalObservation, PollError
    <3> QED
      BY <1>1, <3>1, ObservationIsGood DEF ApplyEvent
  <2> QED
    BY <2>1, <2>2, <2>3, <2>4, <2>5, <2>6, <2>7, <2>8 DEF Event
<1>4. GoodResult(rec, event, ApplyPreTurnVoiceFailure(rec))
  BY VoiceIsGood
<1> QED
  BY <1>1, <1>3, <1>4 DEF HandleEvent

--------------------------------------------------------------------------------
(* What an event answers and what it may never take back. *)

\* Receipts are only ever appended.
ReceiptsExtend(old, new) ==
    old # None =>
        /\ new # None
        /\ Len(old.receipts) <= Len(new.receipts)
        /\ \A i \in 1..Len(old.receipts) : new.receipts[i] = old.receipts[i]

\* A returned playback stays returned, and a finished presentation finished.
PlaybackGrows(old, new) ==
    old # None =>
        /\ new # None
        /\ old.voice = "PLAYBACK_RETURNED" => new.voice = "PLAYBACK_RETURNED"
        /\ old.finished => new.finished

\* new takes nothing back from rec.
Advances(rec, new) ==
    /\ OwedClearsGoal(new)
    /\ PlaybackGrows(rec.presentation, new.presentation)
    /\ ReceiptsExtend(rec.polling, new.polling)

AdvancingResult(rec, result) ==
    /\ result.saved \/ result.record = rec
    /\ Advances(rec, result.record)
    /\ AnswerFits(result.outcome, result.record)

\* An answer that asks, closes, dictates and orders nothing.
IsPlain(outcome) ==
    /\ outcome.step \notin {"COMPLETE", "DELIVER_PASSWORD", "EXECUTE_ACTION"}
    /\ outcome.message \notin {"confirmation", "fallback", "processing", "farewell", "limit"}

\* A plain answer fits any record, and a rejection answers nothing.
LEMMA PlainAnswerFits ==
    /\ \A outcome, rec : IsPlain(outcome) => AnswerFits(outcome, rec)
    /\ \A rec : AnswerFits(None, rec)
  BY DEF IsPlain, AnswerFits, ClosingFits, QuestionFits, DictationFits, CommandFits

\* What is said in these words is plain.
LEMMA SayIsPlain ==
    ASSUME NEW step \in {"LISTEN", "COLLECT_IDENTITY", "TRANSFER", "POLL_RD"},
           NEW message \in {"none", "feedback", "identity_valid", "identity_invalid",
                            "identity_technical", "escalation", "retry", "voice_transfer",
                            "exhausted", "terminal"}
    PROVE  IsPlain(Say(step, message))
  BY DEF Say, IsPlain

\* The projection of an operation asks for the password only where it is owed.
LEMMA TerminalOutcomeFits ==
    ASSUME NEW rec, rec.operation # None, NEW new, new.operation = rec.operation,
           new.presentation = rec.presentation, NEW speak
    PROVE  AnswerFits(TerminalOutcome(rec, speak), new)
<1> DEFINE outcome == TerminalOutcome(rec, speak)
<1>1. outcome.step = TerminalStep(rec) /\ outcome.message \in {"terminal", "none"}
  BY DEF TerminalOutcome, Say
<1>2. /\ TerminalStep(rec) \in {"LISTEN", "DELIVER_PASSWORD"}
      /\ TerminalStep(rec) = "DELIVER_PASSWORD" =>
           /\ rec.operation.status = "confirmed" /\ rec.operation.action = Reset
           /\ rec.presentation = None
  BY DEF TerminalStep
<1> HIDE DEF outcome
<1>3. ClosingFits(outcome, new) /\ CommandFits(outcome, new) /\ QuestionFits(outcome, new)
  BY <1>1, <1>2 DEF ClosingFits, CommandFits, QuestionFits
<1>4. DictationFits(outcome, new)
  BY <1>1, <1>2 DEF DictationFits
<1> QED
  BY <1>3, <1>4 DEF AnswerFits, outcome

\* Receipts that are kept are extended.
LEMMA ReceiptsStay ==
    ASSUME NEW rec \in Record
    PROVE  ReceiptsExtend(rec.polling, rec.polling)
<1>1. rec.polling # None => Len(rec.polling.receipts) \in Nat
  BY LenProperties DEF Record, Optional, PollingState
<1> QED
  BY <1>1 DEF ReceiptsExtend

\* A record whose goal, operation, playback and polling are kept takes nothing back.
LEMMA KeptPlanesAdvance ==
    ASSUME NEW rec \in Record, OwedClearsGoal(rec), NEW new, new.goal = rec.goal,
           new.operation = rec.operation, new.presentation = rec.presentation,
           ReceiptsExtend(rec.polling, new.polling)
    PROVE  Advances(rec, new)
  BY DEF Advances, OwedClearsGoal, PresentationIsActive, PlaybackGrows

\* Refusing, acknowledging or just saving an event takes nothing back.
LEMMA UnchangedAdvances ==
    ASSUME NEW rec \in Record, OwedClearsGoal(rec), NEW outcome, AnswerFits(outcome, rec)
    PROVE  /\ AdvancingResult(rec, Rejected(rec))
           /\ AdvancingResult(rec, Acknowledged(rec, outcome))
           /\ AdvancingResult(rec, Saved(rec, outcome))
<1>1. Advances(rec, rec)
  BY ReceiptsStay, KeptPlanesAdvance
<1> QED
  BY <1>1, PlainAnswerFits DEF AdvancingResult, Rejected, Acknowledged, Saved

\* The confirmation question a validation asks has its challenge, also when asked again.
LEMMA IdentityAdvances ==
    ASSUME NEW rec \in Record, OwedClearsGoal(rec), NEW event, NEW now \in Nat,
           NEW fresh \in Nat
    PROVE  AdvancingResult(rec, ApplyIdentity(rec, event, now, fresh))
<1>1. AdvancingResult(rec, ApplyValidIdentity(rec, now, fresh))
  <2> DEFINE challenge == ChallengeOnValidIdentity(rec, now, fresh)
             new == [rec EXCEPT !.identity = [validatedAt |-> now, failures |-> 0],
                                !.confirmation = challenge]
             outcome == Say("LISTEN", IF challenge = None THEN "identity_valid"
                                      ELSE "confirmation")
  <2>1. /\ new.goal = rec.goal /\ new.operation = rec.operation
        /\ new.presentation = rec.presentation /\ new.polling = rec.polling
        /\ new.confirmation = challenge
    BY DEF Record
  <2>2. ApplyValidIdentity(rec, now, fresh) =
          IF new = rec THEN Acknowledged(rec, outcome) ELSE Saved(new, outcome)
    BY DEF ApplyValidIdentity
  <2>3. /\ outcome.step = "LISTEN"
        /\ outcome.message = IF challenge = None THEN "identity_valid" ELSE "confirmation"
    BY DEF Say
  <2> HIDE DEF challenge, new, outcome
  <2>4. Advances(rec, new)
    BY <2>1, ReceiptsStay, KeptPlanesAdvance
  <2>5. AnswerFits(outcome, new)
    BY <2>1, <2>3 DEF AnswerFits, ClosingFits, QuestionFits, DictationFits, CommandFits
  <2> QED
    BY <2>2, <2>4, <2>5 DEF AdvancingResult, Acknowledged, Saved
<1>2. AdvancingResult(rec, ApplyInvalidIdentity(rec))
  <2> DEFINE new == [rec EXCEPT !.identity.failures = @ + 1]
             outcome == IF RequiresHandoff(new.identity) THEN Say("TRANSFER", "escalation")
                        ELSE Say("COLLECT_IDENTITY", "identity_invalid")
  <2>1. /\ new.goal = rec.goal /\ new.operation = rec.operation
        /\ new.presentation = rec.presentation /\ new.polling = rec.polling
    BY DEF Record
  <2>2. IsPlain(outcome)
    BY SayIsPlain
  <2>3. ApplyInvalidIdentity(rec) = Saved(new, outcome)
    BY DEF ApplyInvalidIdentity
  <2> HIDE DEF new, outcome
  <2>4. Advances(rec, new)
    BY <2>1, ReceiptsStay, KeptPlanesAdvance
  <2> QED
    BY <2>2, <2>3, <2>4, PlainAnswerFits DEF AdvancingResult, Saved
<1>3. AdvancingResult(rec, Acknowledged(rec, Say("COLLECT_IDENTITY", "identity_technical")))
  BY SayIsPlain, PlainAnswerFits, UnchangedAdvances
<1> QED
  BY <1>1, <1>2, <1>3 DEF ApplyIdentity

\* A failed capture touches the challenge and a counter.
LEMMA VoiceAdvances ==
    ASSUME NEW rec \in Record, OwedClearsGoal(rec)
    PROVE  /\ AdvancingResult(rec, ApplyVoiceFailure(rec))
           /\ AdvancingResult(rec, ApplyPreTurnVoiceFailure(rec))
<1> DEFINE count == AdvanceVoiceRetry(rec.voiceRetry)
           new == [rec EXCEPT !.confirmation = None, !.voiceRetry = count]
           early == [rec EXCEPT !.voiceRetry = count]
<1>1. /\ ApplyVoiceFailure(rec) = Saved(new, VoiceOutcome(new))
      /\ ApplyPreTurnVoiceFailure(rec) = Saved(early, VoiceOutcome(early))
  BY DEF ApplyVoiceFailure, ApplyPreTurnVoiceFailure
<1>2. /\ new.goal = rec.goal /\ new.operation = rec.operation
      /\ new.presentation = rec.presentation /\ new.polling = rec.polling
      /\ early.goal = rec.goal /\ early.operation = rec.operation
      /\ early.presentation = rec.presentation /\ early.polling = rec.polling
  BY DEF Record
<1> HIDE DEF new, early
<1>3. Advances(rec, new) /\ Advances(rec, early)
  BY <1>2, ReceiptsStay, KeptPlanesAdvance
<1>4. \A r : IsPlain(VoiceOutcome(r))
  BY SayIsPlain DEF VoiceOutcome
<1> QED
  BY <1>1, <1>3, <1>4, PlainAnswerFits DEF AdvancingResult, Saved

\* Settling takes nothing back: a success owes the password of a goal it clears, and says so.
LEMMA TerminatedAdvances ==
    ASSUME NEW rec \in Record, IsActive(rec.operation), NEW k \in Record,
           SamePlanes(rec, k), ReceiptsExtend(rec.polling, k.polling),
           NEW seen \in TerminalObservation, NEW speak
    PROVE  AdvancingResult(rec, Saved(Terminated(k, seen),
                                      TerminalOutcome(Terminated(k, seen), speak)))
<1> DEFINE new == Terminated(k, seen)
<1>1. k.operation # None /\ k.operation = rec.operation
  BY DEF SamePlanes, IsActive
<1>2. /\ new \in Record
      /\ new.operation = [k.operation EXCEPT !.status = StatusOf(seen)]
      /\ new.polling = k.polling /\ new.presentation = rec.presentation
  BY <1>1, TerminatedFacts DEF SamePlanes
<1>3. k.operation \in ExternalOperation
  BY <1>1 DEF Record, Optional
<1>4. /\ new.operation \in ExternalOperation /\ new.operation # None
      /\ new.operation.status = StatusOf(seen)
  BY <1>2, <1>3, NoneAssumption DEF ExternalOperation, StatusOf, OperationStatus
<1>5. seen = "SUCCEEDED" => new.goal = None
  BY DEF Terminated, Record
<1>6. AnswerFits(TerminalOutcome(new, speak), new)
  BY <1>4, TerminalOutcomeFits
<1> HIDE DEF new
<1>7. OwedClearsGoal(new)
  BY <1>4, <1>5 DEF OwedClearsGoal, PresentationIsActive, StatusOf, TerminalObservation
<1>8. Advances(rec, new)
  BY <1>2, <1>7 DEF Advances, PlaybackGrows
<1> QED
  BY <1>6, <1>8 DEF AdvancingResult, Saved, new

\* Legacy observations.
LEMMA StatusAdvances ==
    ASSUME NEW rec \in Record, OwedClearsGoal(rec), rec.operation # None,
           NEW event \in StatusEvent, NEW pace \in Pace
    PROVE  AdvancingResult(rec, ApplyStatus(rec, event, pace))
<1>1. /\ AnswerFits(Say("POLL_RD", "none"), rec) /\ AnswerFits(Say("POLL_RD", "feedback"), rec)
      /\ AnswerFits(TerminalOutcome(rec, TRUE), rec)
      /\ AnswerFits(TerminalOutcome(rec, FALSE), rec)
  BY SayIsPlain, PlainAnswerFits, TerminalOutcomeFits
<1>2. event.seen \in StatusSeen
  BY DEF StatusEvent
<1>3. AdvancingResult(rec, ApplyProgress(rec, pace))
  BY <1>1, UnchangedAdvances DEF ApplyProgress
<1>4. ASSUME event.seen \in TerminalObservation
      PROVE  AdvancingResult(rec, ApplyTerminal(rec, rec, event.seen,
                              Acknowledged(rec, TerminalOutcome(rec, TRUE))))
  <2>1. SamePlanes(rec, rec) /\ ReceiptsExtend(rec.polling, rec.polling)
    BY ReceiptsStay DEF SamePlanes
  <2>2. IsActive(rec.operation) =>
          AdvancingResult(rec, Saved(Terminated(rec, event.seen),
                                     TerminalOutcome(Terminated(rec, event.seen), TRUE)))
    BY <1>4, <2>1, TerminatedAdvances
  <2> QED
    BY <1>1, <2>2, UnchangedAdvances DEF ApplyTerminal
<1> QED
  BY <1>1, <1>2, <1>3, <1>4, UnchangedAdvances DEF ApplyStatus, StatusSeen

\* An operation in doubt owes no password.
LEMMA DispatchErrorAdvances ==
    ASSUME NEW rec \in Record, OwedClearsGoal(rec), rec.operation # None
    PROVE  AdvancingResult(rec, ApplyDispatchError(rec))
<1> DEFINE operation == [rec.operation EXCEPT !.status = "unknown"]
           new == [rec EXCEPT !.operation.status = "unknown"]
<1>1. IsPlain(Say("POLL_RD", "none"))
  BY SayIsPlain
<1>2. rec.operation \in ExternalOperation
  BY DEF Record, Optional
<1>3. operation.status = "unknown"
  BY <1>2 DEF ExternalOperation
<1>4. /\ new.operation = operation /\ new.presentation = rec.presentation
      /\ new.polling = rec.polling
  BY DEF Record
<1> HIDE DEF operation, new
<1>5. Advances(rec, new)
  BY <1>3, <1>4, ReceiptsStay
  DEF Advances, OwedClearsGoal, PresentationIsActive, PlaybackGrows
<1>6. AdvancingResult(rec, Saved(new, Say("POLL_RD", "none")))
  BY <1>1, <1>5, PlainAnswerFits DEF AdvancingResult, Saved
<1> QED
  BY <1>1, <1>6, PlainAnswerFits, UnchangedAdvances DEF ApplyDispatchError, new

\* A legacy poll error.
LEMMA PollErrorAdvances ==
    ASSUME NEW rec \in Record, OwedClearsGoal(rec), rec.operation # None
    PROVE  AdvancingResult(rec, ApplyPollError(rec))
<1>1. AnswerFits(Say("POLL_RD", "none"), rec) /\ AnswerFits(TerminalOutcome(rec, FALSE), rec)
  BY SayIsPlain, PlainAnswerFits, TerminalOutcomeFits
<1> QED
  BY <1>1, UnchangedAdvances DEF ApplyPollError

\* A first playback is of an owed password, and a later one only improves it.
LEMMA PresentationAdvances ==
    ASSUME NEW rec \in Record, OwedClearsGoal(rec), NEW event \in PresentationEvent
    PROVE  AdvancingResult(rec, ApplyPresentation(rec, event))
<1> DEFINE first == [operation |-> event.command.operation,
                     revision |-> event.command.revision,
                     voice |-> event.voice, finished |-> FALSE]
           better == [rec.presentation EXCEPT !.voice = event.voice]
           outcome == Say("LISTEN", "none")
<1>1. AnswerFits(None, rec) /\ AnswerFits(outcome, rec) /\ IsPlain(outcome)
  BY SayIsPlain, PlainAnswerFits
<1>2. rec.presentation # None =>
        /\ better \in PasswordPresentation
        /\ better.voice = event.voice
        /\ better.finished = rec.presentation.finished
  BY DEF Record, Optional, PasswordPresentation, PresentationEvent
<1>3. ASSUME NEW p
      PROVE  /\ [rec EXCEPT !.presentation = p].goal = rec.goal
             /\ [rec EXCEPT !.presentation = p].operation = rec.operation
             /\ [rec EXCEPT !.presentation = p].polling = rec.polling
             /\ [rec EXCEPT !.presentation = p].presentation = p
  BY DEF Record
<1>4. ApplyPresentation(rec, event) =
        IF ~PresentationCorrelates(rec, event.command) THEN Rejected(rec)
        ELSE IF rec.presentation = None
        THEN Saved([rec EXCEPT !.presentation = first], outcome)
        ELSE IF PlaybackReplaces(rec.presentation, event.voice)
        THEN Saved([rec EXCEPT !.presentation = better], outcome)
        ELSE Acknowledged(rec, outcome)
  BY DEF ApplyPresentation, Record
<1> HIDE DEF first, better, outcome
<1>5. ASSUME PresentationCorrelates(rec, event.command), rec.presentation = None
      PROVE  Advances(rec, [rec EXCEPT !.presentation = first])
  <2>1. PresentationIsActive(rec)
    BY <1>5 DEF PresentationCorrelates, PresentationIsActive
  <2> QED
    BY <1>3, <1>5, <2>1, ReceiptsStay DEF Advances, OwedClearsGoal, PlaybackGrows
<1>6. ASSUME PlaybackReplaces(rec.presentation, event.voice), rec.presentation # None
      PROVE  Advances(rec, [rec EXCEPT !.presentation = better])
  <2> DEFINE new == [rec EXCEPT !.presentation = better]
  <2>1. /\ new.goal = rec.goal /\ new.operation = rec.operation
        /\ new.polling = rec.polling /\ new.presentation = better
    BY <1>3
  <2>2. better # None
    BY <1>2, <1>6, NoneAssumption
  <2> HIDE DEF new
  <2>3. OwedClearsGoal(new)
    BY <1>2, <1>6, <2>1, <2>2 DEF OwedClearsGoal, PresentationIsActive
  <2>4. PlaybackGrows(rec.presentation, new.presentation)
    BY <1>2, <1>6, <2>1, <2>2 DEF PlaybackGrows, PlaybackReplaces
  <2> QED
    BY <2>1, <2>3, <2>4, ReceiptsStay DEF Advances, new
<1>7. ASSUME NEW new, Advances(rec, new)
      PROVE  AdvancingResult(rec, Saved(new, outcome))
  BY <1>1, <1>7, PlainAnswerFits DEF AdvancingResult, Saved
<1> QED
  BY <1>1, <1>4, <1>5, <1>6, <1>7, UnchangedAdvances

\* The plane an observation is read against holds the receipts of the record.
LEMMA PollingForKeepsReceipts ==
    ASSUME NEW rec \in Record, Coherent(rec), rec.polling # None
    PROVE  PollingFor(rec) = rec.polling
  BY DEF PollingFor, Coherent, ReceiptsFit

\* A sequenced observation adds its receipt and answers what is owed.
LEMMA ObservationAdvances ==
    ASSUME NEW rec \in Record, Coherent(rec), OwedClearsGoal(rec), rec.operation # None,
           NEW event, event.seen \in Observation, event.sequence \in Nat \ {0}, NEW now \in Nat,
           NEW pace \in Pace
    PROVE  AdvancingResult(rec, ApplyObservation(rec, event, now, pace))
<1> DEFINE polling == PollingFor(rec)
           seen == event.seen
           sequence == event.sequence
           decision == ClassifySequence(polling, sequence, seen)
           appended == AppendReceipt(polling, sequence, seen)
           consumed == [rec EXCEPT !.polling = appended]
<1>1. polling \in PollingState /\ (rec.polling # None => polling = rec.polling)
  BY PollingForFacts, PollingForKeepsReceipts
<1>2. /\ ApplyObservation(rec, event, now, pace) =
           IF decision = "CONFLICT" THEN Rejected(rec)
           ELSE IF decision = "REPLAY" THEN Acknowledged(rec, ReplayOutcome(rec))
           ELSE IF ObservationIsRefused(polling, seen) THEN Rejected(rec)
           ELSE Observe(rec, consumed, seen, now, pace)
      /\ seen \in Observation /\ sequence \in Nat \ {0}
  BY DEF ApplyObservation
<1> HIDE DEF polling, decision, seen, sequence
<1>3. Len(polling.receipts) \in Nat
  BY <1>1, LenProperties DEF PollingState
<1>4. /\ appended \in PollingState
      /\ Len(appended.receipts) = Len(polling.receipts) + 1
      /\ \A i \in 1..Len(polling.receipts) : appended.receipts[i] = polling.receipts[i]
  <2>1. polling \in PollingState /\ seen \in Observation /\ sequence \in Nat \ {0}
    BY <1>1, <1>2
  <2> QED
    BY <2>1, AppendReceiptFacts
<1> HIDE DEF appended
<1>5. \A p \in PollingState :
        p.receipts = appended.receipts => ReceiptsExtend(rec.polling, p)
  BY <1>1, <1>3, <1>4, NoneAssumption DEF ReceiptsExtend
<1>6. consumed \in Record /\ SamePlanes(rec, consumed) /\ consumed.polling = appended
  BY <1>4 DEF Record, Optional, SamePlanes
<1>7. ReceiptsExtend(rec.polling, consumed.polling) /\ Advances(rec, consumed)
  BY <1>4, <1>5, <1>6, KeptPlanesAdvance DEF SamePlanes
<1>8. /\ AnswerFits(TerminalOutcome(rec, FALSE), rec)
      /\ AnswerFits(TerminalOutcome(rec, FALSE), consumed)
  BY <1>6, TerminalOutcomeFits DEF SamePlanes
<1>9. /\ AnswerFits(None, rec) /\ AnswerFits(ReplayOutcome(rec), rec)
  BY <1>8, SayIsPlain, PlainAnswerFits DEF ReplayOutcome
<1>10. ASSUME NEW new, Advances(rec, new), NEW outcome, AnswerFits(outcome, new)
       PROVE  AdvancingResult(rec, Saved(new, outcome))
  BY <1>10 DEF AdvancingResult, Saved
<1>11. AdvancingResult(rec, NonTerminalObservation(consumed, now, pace))
  <2> DEFINE fed == MaybeFeedback(appended, rec.operation, now, pace = "speaks")
             new == [rec EXCEPT !.polling = fed]
             speech == Say("POLL_RD", IF fed.messages > appended.messages
                                      THEN "feedback" ELSE "none")
  <2>1. fed \in PollingState /\ fed.receipts = appended.receipts
    BY <1>4, MaybeFeedbackFacts
  <2>2. [consumed EXCEPT !.polling = fed] = new
    BY DEF Record
  <2>3. /\ new.goal = rec.goal /\ new.operation = rec.operation
        /\ new.presentation = rec.presentation /\ new.polling = fed
    BY DEF Record
  <2>4. IsPlain(speech) /\ IsPlain(Say("TRANSFER", "exhausted"))
    BY SayIsPlain
  <2>5. NonTerminalObservation(consumed, now, pace) =
          IF BudgetExhausted(appended) THEN Saved(consumed, Say("TRANSFER", "exhausted"))
          ELSE Saved(new, speech)
    BY <1>6, <2>2 DEF NonTerminalObservation, SamePlanes
  <2> HIDE DEF fed, new, speech, consumed
  <2>6. Advances(rec, new)
    BY <1>5, <2>1, <2>3, KeptPlanesAdvance
  <2> QED
    BY <1>7, <1>10, <2>4, <2>5, <2>6, PlainAnswerFits
<1>12. seen \in TerminalObservation =>
         AdvancingResult(rec, ApplyTerminal(consumed, rec, seen,
                                            Saved(consumed, TerminalOutcome(rec, FALSE))))
  <2>1. consumed.operation = rec.operation
    BY <1>6 DEF SamePlanes
  <2> HIDE DEF consumed
  <2>2. ASSUME IsActive(rec.operation), seen \in TerminalObservation
        PROVE  AdvancingResult(rec,
                   Saved(Terminated(consumed, seen),
                         TerminalOutcome(Terminated(consumed, seen), TRUE)))
    BY <1>6, <1>7, <2>2, TerminatedAdvances
  <2>3. /\ AdvancingResult(rec, Saved(consumed, TerminalOutcome(rec, FALSE)))
        /\ AdvancingResult(rec, Rejected(rec))
    BY <1>7, <1>8, <1>9, <1>10, UnchangedAdvances
  <2> QED
    BY <2>1, <2>2, <2>3 DEF ApplyTerminal
<1> HIDE DEF consumed
<1>13. AdvancingResult(rec, Observe(rec, consumed, seen, now, pace))
  BY <1>7, <1>8, <1>10, <1>11, <1>12 DEF Observe
<1> QED
  BY <1>2, <1>9, <1>13, UnchangedAdvances

\* No event takes back a receipt or a playback, gives a goal beside an owed password, or
\* answers what the record it leaves does not back.
LEMMA EventAdvances ==
    ASSUME NEW rec \in Record, Coherent(rec), OwedClearsGoal(rec), NEW event \in Event,
           NEW now \in Nat, NEW fresh \in Nat, NEW pace \in Pace
    PROVE  AdvancingResult(rec, HandleEvent(rec, event, now, fresh, pace))
<1>1. /\ AdvancingResult(rec, Rejected(rec))
      /\ AdvancingResult(rec, Acknowledged(rec, Say("TRANSFER", "escalation")))
  BY SayIsPlain, PlainAnswerFits, UnchangedAdvances
<1>2. AdvancingResult(rec, ApplyEvent(rec, event, now, fresh, pace))
  <2>1. CASE event.kind \in {"identity", "identity_input", "voice"}
    BY <1>1, <2>1, IdentityAdvances, VoiceAdvances DEF ApplyEvent
  <2>2. CASE event \in PresentationEvent
    <3>1. event.kind = "presentation"
      BY <2>2 DEF PresentationEvent
    <3> QED
      BY <2>2, <3>1, PresentationAdvances DEF ApplyEvent
  <2>3. Correlates(rec, event.command) => rec.operation # None
    BY DEF Correlates
  <2>4. CASE event \in StatusEvent
    <3>1. event.kind = "status"
      BY <2>4 DEF StatusEvent
    <3> QED
      BY <1>1, <2>3, <2>4, <3>1, StatusAdvances DEF ApplyEvent
  <2>5. CASE event \in PollErrorEvent
    <3>1. event.kind = "poll_error"
      BY <2>5 DEF PollErrorEvent
    <3> QED
      BY <1>1, <2>3, <3>1, PollErrorAdvances DEF ApplyEvent
  <2>6. CASE event \in DispatchErrorEvent
    <3>1. event.kind = "dispatch_error"
      BY <2>6 DEF DispatchErrorEvent
    <3> QED
      BY <1>1, <2>3, <3>1, DispatchErrorAdvances DEF ApplyEvent
  <2>7. CASE event \in StatusEventV1 \cup PollErrorEventV1
    <3>1. /\ event.kind \in {"status_v1", "poll_error_v1"}
          /\ event.seen \in Observation /\ event.sequence \in Nat \ {0}
      BY <2>7 DEF StatusEventV1, PollErrorEventV1, Observation, StatusSeen
    <3> QED
      BY <1>1, <2>3, <3>1, ObservationAdvances DEF ApplyEvent
  <2> QED
    BY <2>1, <2>2, <2>4, <2>5, <2>6, <2>7
    DEF Event, IdentityEvent, IdentityInputFailureEvent, VoiceFailureEvent
<1> QED
  BY <1>1, <1>2, VoiceAdvances DEF HandleEvent

\* An observation whose receipt is stored is answered from the record and never applied.
LEMMA DuplicateIsReplayed ==
    ASSUME NEW rec \in Record, Coherent(rec), rec.polling # None, NEW event,
           event.kind \in {"status_v1", "poll_error_v1"}, NEW now, NEW fresh, NEW pace,
           NEW i \in 1..Len(rec.polling.receipts),
           rec.polling.receipts[i] = [sequence |-> event.sequence, fingerprint |-> event.seen]
    PROVE  ~HandleEvent(rec, event, now, fresh, pace).saved
<1> DEFINE polling == PollingFor(rec)
           decision == ClassifySequence(polling, event.sequence, event.seen)
<1>1. rec.operation # None
  BY DEF Coherent, ReceiptsFit
<1>2. polling = rec.polling /\ LastSequence(polling) = Len(rec.polling.receipts)
  BY <1>1, PollingForFacts, PollingForKeepsReceipts
<1>3. event.sequence = i
  BY DEF Coherent, ReceiptsFit
<1>4. Len(rec.polling.receipts) \in Nat
  BY LenProperties DEF Record, Optional, PollingState
<1>5. decision = "REPLAY"
  BY <1>2, <1>3, <1>4 DEF ClassifySequence
<1> HIDE DEF decision
<1>6. ~ApplyObservation(rec, event, now, pace).saved
  BY <1>5 DEF ApplyObservation, Acknowledged, decision
<1>7. ~Rejected(rec).saved
  BY DEF Rejected
<1> QED
  BY <1>6, <1>7 DEF HandleEvent, ApplyEvent

--------------------------------------------------------------------------------
(* What holds of any well-formed record, coherent or not: a document of an  *)
(* earlier version may hold an operation that no dispatch names.            *)

\* new names the operation that rec names, in its operation and in its dispatch.
NamesTheSame(rec, new) ==
    /\ new \in Record
    /\ new.dispatch = rec.dispatch
    /\ (new.operation = None) = (rec.operation = None)
    /\ rec.operation # None => new.operation.id = rec.operation.id

\* Settling an operation or putting it in doubt does not rename it.
LEMMA SettledNamesTheSame ==
    ASSUME NEW rec \in Record, rec.operation # None
    PROVE  /\ \A seen \in TerminalObservation : NamesTheSame(rec, Terminated(rec, seen))
           /\ NamesTheSame(rec, [rec EXCEPT !.operation.status = "unknown"])
<1>1. rec.operation \in ExternalOperation
  BY DEF Record, Optional
<1>2. ASSUME NEW status \in OperationStatus
      PROVE  /\ [rec.operation EXCEPT !.status = status] \in ExternalOperation
             /\ [rec.operation EXCEPT !.status = status].id = rec.operation.id
             /\ [rec.operation EXCEPT !.status = status] # None
  <2>1. [rec.operation EXCEPT !.status = status] \in ExternalOperation
    BY <1>1, <1>2 DEF ExternalOperation
  <2> QED
    BY <1>1, <2>1, NoneAssumption DEF ExternalOperation
<1>3. ASSUME NEW seen \in TerminalObservation
      PROVE  NamesTheSame(rec, Terminated(rec, seen))
  <2>1. StatusOf(seen) \in OperationStatus
    BY DEF StatusOf, OperationStatus
  <2>2. /\ Terminated(rec, seen) \in Record
        /\ Terminated(rec, seen).operation = [rec.operation EXCEPT !.status = StatusOf(seen)]
        /\ Terminated(rec, seen).dispatch = rec.dispatch
    BY TerminatedFacts
  <2> QED
    BY <1>2, <2>1, <2>2 DEF NamesTheSame
<1>4. NamesTheSame(rec, [rec EXCEPT !.operation.status = "unknown"])
  <2> DEFINE operation == [rec.operation EXCEPT !.status = "unknown"]
             new == [rec EXCEPT !.operation = operation]
  <2>1. operation \in ExternalOperation /\ operation.id = rec.operation.id /\ operation # None
    BY <1>2 DEF OperationStatus
  <2>2. [rec EXCEPT !.operation.status = "unknown"] = new
    OBVIOUS
  <2> HIDE DEF operation
  <2>3. new \in Record /\ new.operation = operation /\ new.dispatch = rec.dispatch
    BY <2>1 DEF Record, Optional
  <2> QED
    BY <2>1, <2>2, <2>3 DEF NamesTheSame
<1> QED
  BY <1>3, <1>4

\* Replacing planes other than the operation and its dispatch does not rename it.
LEMMA OtherPlanesNameTheSame ==
    ASSUME NEW rec \in Record
    PROVE  /\ NamesTheSame(rec, rec)
           /\ \A identity \in IdentityState, challenge \in Optional(ConfirmationChallenge) :
                NamesTheSame(rec, [rec EXCEPT !.identity = identity,
                                              !.confirmation = challenge])
           /\ \A identity \in IdentityState :
                NamesTheSame(rec, [rec EXCEPT !.identity = identity])
           /\ \A count \in 0..MaxVoiceFailures :
                /\ NamesTheSame(rec, [rec EXCEPT !.confirmation = None, !.voiceRetry = count])
                /\ NamesTheSame(rec, [rec EXCEPT !.voiceRetry = count])
           /\ \A polling \in PollingState : NamesTheSame(rec, [rec EXCEPT !.polling = polling])
           /\ \A presentation \in PasswordPresentation :
                NamesTheSame(rec, [rec EXCEPT !.presentation = presentation])
<1>1. NamesTheSame(rec, rec)
  BY DEF NamesTheSame
<1>2. ASSUME NEW identity \in IdentityState, NEW challenge \in Optional(ConfirmationChallenge)
      PROVE  NamesTheSame(rec, [rec EXCEPT !.identity = identity, !.confirmation = challenge])
  BY DEF NamesTheSame, Record
<1>3. ASSUME NEW identity \in IdentityState
      PROVE  NamesTheSame(rec, [rec EXCEPT !.identity = identity])
  BY DEF NamesTheSame, Record
<1>4. ASSUME NEW count \in 0..MaxVoiceFailures
      PROVE  /\ NamesTheSame(rec, [rec EXCEPT !.confirmation = None, !.voiceRetry = count])
             /\ NamesTheSame(rec, [rec EXCEPT !.voiceRetry = count])
  BY DEF NamesTheSame, Record, Optional
<1>5. ASSUME NEW polling \in PollingState
      PROVE  NamesTheSame(rec, [rec EXCEPT !.polling = polling])
  BY DEF NamesTheSame, Record, Optional
<1>6. ASSUME NEW presentation \in PasswordPresentation
      PROVE  NamesTheSame(rec, [rec EXCEPT !.presentation = presentation])
  BY DEF NamesTheSame, Record, Optional
<1> QED
  BY <1>1, <1>2, <1>3, <1>4, <1>5, <1>6

\* A validation or a failed one, on any record.
LEMMA IdentityNamesTheSame ==
    ASSUME NEW rec \in Record, NEW event, NEW now \in Nat, NEW fresh \in Nat
    PROVE  NamesTheSame(rec, ApplyIdentity(rec, event, now, fresh).record)
<1> DEFINE challenge == ChallengeOnValidIdentity(rec, now, fresh)
           identity == [validatedAt |-> now, failures |-> 0]
           updated == [rec EXCEPT !.identity = identity, !.confirmation = challenge]
           dated == [rec.identity EXCEPT !.validatedAt = now]
           failed == [rec.identity EXCEPT !.failures = @ + 1]
<1>1. identity \in IdentityState /\ failed \in IdentityState /\ dated \in IdentityState
      /\ dated.validatedAt = now
  BY DEF IdentityState, Optional, Record
<1>2. now # None
  BY NoneAssumption
<1>3. challenge \in Optional(ConfirmationChallenge)
  <2>1. CASE rec.goal = None
    BY <2>1 DEF ChallengeOnValidIdentity, Optional
  <2>2. CASE rec.goal # None
    <3>1. rec.goal \in ConversationGoal
      BY <2>2 DEF Record, Optional
    <3> HIDE DEF dated
    <3>2. NewChallenge(rec.goal, dated, fresh) \in ConfirmationChallenge
      BY <1>1, <1>2, <3>1, NewChallengeType
    <3> QED
      BY <3>2 DEF ChallengeOnValidIdentity, Optional, dated
  <2> QED
    BY <2>1, <2>2
<1>4. ApplyValidIdentity(rec, now, fresh).record \in {rec, updated}
  BY DEF ApplyValidIdentity, Acknowledged, Saved
<1>5. ApplyInvalidIdentity(rec).record = [rec EXCEPT !.identity = failed]
  BY DEF ApplyInvalidIdentity, Saved
<1>6. ApplyIdentity(rec, event, now, fresh).record
        \in {rec, updated, [rec EXCEPT !.identity = failed]}
  <2> HIDE DEF updated, failed
  <2> QED
    BY <1>4, <1>5 DEF ApplyIdentity, Acknowledged
<1>7. NamesTheSame(rec, updated)
  <2> HIDE DEF identity, challenge
  <2> QED
    BY <1>1, <1>3, OtherPlanesNameTheSame
<1>8. NamesTheSame(rec, [rec EXCEPT !.identity = failed])
  <2> HIDE DEF failed
  <2> QED
    BY <1>1, OtherPlanesNameTheSame
<1> HIDE DEF updated, failed
<1> QED
  BY <1>6, <1>7, <1>8, OtherPlanesNameTheSame

\* A failed capture, before or after the first turn.
LEMMA VoiceNamesTheSame ==
    ASSUME NEW rec \in Record
    PROVE  /\ NamesTheSame(rec, ApplyVoiceFailure(rec).record)
           /\ NamesTheSame(rec, ApplyPreTurnVoiceFailure(rec).record)
<1> DEFINE count == AdvanceVoiceRetry(rec.voiceRetry)
<1>1. count \in 0..MaxVoiceFailures
  BY LimitsAssumption DEF AdvanceVoiceRetry, Record
<1>2. /\ ApplyVoiceFailure(rec).record =
           [rec EXCEPT !.confirmation = None, !.voiceRetry = count]
      /\ ApplyPreTurnVoiceFailure(rec).record = [rec EXCEPT !.voiceRetry = count]
  BY DEF ApplyVoiceFailure, ApplyPreTurnVoiceFailure, Saved, Record
<1>3. ASSUME NEW c \in 0..MaxVoiceFailures
      PROVE  /\ NamesTheSame(rec, [rec EXCEPT !.confirmation = None, !.voiceRetry = c])
             /\ NamesTheSame(rec, [rec EXCEPT !.voiceRetry = c])
  BY OtherPlanesNameTheSame
<1>4. /\ NamesTheSame(rec, [rec EXCEPT !.confirmation = None, !.voiceRetry = count])
      /\ NamesTheSame(rec, [rec EXCEPT !.voiceRetry = count])
  BY <1>1, <1>3
<1> QED
  BY <1>2, <1>4

\* A legacy observation.
LEMMA LegacyNamesTheSame ==
    ASSUME NEW rec \in Record, rec.operation # None, NEW event, NEW pace
    PROVE  /\ event.seen \in StatusSeen => NamesTheSame(rec, ApplyStatus(rec, event, pace).record)
           /\ NamesTheSame(rec, ApplyPollError(rec).record)
           /\ NamesTheSame(rec, ApplyDispatchError(rec).record)
<1>1. /\ \A outcome : Acknowledged(rec, outcome).record = rec
      /\ Rejected(rec).record = rec
      /\ \A new, outcome : Saved(new, outcome).record = new
  BY DEF Acknowledged, Rejected, Saved
<1>2. /\ NamesTheSame(rec, rec)
      /\ \A seen \in TerminalObservation : NamesTheSame(rec, Terminated(rec, seen))
      /\ NamesTheSame(rec, [rec EXCEPT !.operation.status = "unknown"])
  BY OtherPlanesNameTheSame, SettledNamesTheSame
<1>3. ApplyProgress(rec, pace).record = rec
  BY <1>1 DEF ApplyProgress
<1>4. ASSUME NEW seen \in TerminalObservation, NEW repeat, repeat.record = rec
      PROVE  NamesTheSame(rec, ApplyTerminal(rec, rec, seen, repeat).record)
  <2> DEFINE settled == Saved(Terminated(rec, seen),
                              TerminalOutcome(Terminated(rec, seen), TRUE))
  <2>1. NamesTheSame(rec, settled.record)
    BY <1>2 DEF Saved
  <2>2. ApplyTerminal(rec, rec, seen, repeat) \in {settled, repeat, Rejected(rec)}
    BY DEF ApplyTerminal
  <2> HIDE DEF settled
  <2> QED
    BY <1>1, <1>2, <1>4, <2>1, <2>2
<1>5. ASSUME event.seen \in StatusSeen
      PROVE  NamesTheSame(rec, ApplyStatus(rec, event, pace).record)
  <2>1. CASE event.seen \in TerminalObservation
    <3>1. ApplyStatus(rec, event, pace) =
            ApplyTerminal(rec, rec, event.seen, Acknowledged(rec, TerminalOutcome(rec, TRUE)))
      BY <2>1 DEF ApplyStatus, TerminalObservation
    <3> QED
      BY <1>1, <1>4, <2>1, <3>1
  <2>2. CASE event.seen \in {"PENDING", "UNRECOGNIZED"}
    BY <1>1, <1>2, <1>3, <2>2 DEF ApplyStatus
  <2> QED
    BY <1>5, <2>1, <2>2 DEF StatusSeen
<1>6. ApplyPollError(rec).record = rec
  BY <1>1 DEF ApplyPollError
<1>7. ApplyDispatchError(rec).record
        \in {rec, [rec EXCEPT !.operation.status = "unknown"]}
  BY <1>1 DEF ApplyDispatchError
<1> QED
  BY <1>2, <1>5, <1>6, <1>7

\* Names survive one step after another.
LEMMA NamingIsTransitive ==
    ASSUME NEW a, NEW b, NEW c, NamesTheSame(a, b), NamesTheSame(b, c)
    PROVE  NamesTheSame(a, c)
  BY DEF NamesTheSame

\* A sequenced observation, whatever receipts the record has.
LEMMA ObservationNamesTheSame ==
    ASSUME NEW rec \in Record, rec.operation # None, NEW event,
           event.seen \in Observation, event.sequence \in Nat \ {0}, NEW now \in Nat, NEW pace
    PROVE  NamesTheSame(rec, ApplyObservation(rec, event, now, pace).record)
<1> DEFINE polling == PollingFor(rec)
           seen == event.seen
           decision == ClassifySequence(polling, event.sequence, seen)
           appended == AppendReceipt(polling, event.sequence, seen)
           consumed == [rec EXCEPT !.polling = appended]
           fed == MaybeFeedback(appended, rec.operation, now, pace = "speaks")
<1>1. polling \in PollingState
  <2>1. NewPollingState(rec.operation.id) \in PollingState
    <3>1. rec.operation.id \in Nat
      BY DEF Record, Optional, ExternalOperation
    <3>2. <<>> \in Seq(PollReceipt)
      BY EmptySeq
    <3>3. 0 \in 0..MaxFeedback
      BY LimitsAssumption
    <3> QED
      BY <3>1, <3>2, <3>3 DEF NewPollingState, PollingState, Optional
  <2> QED
    BY <2>1 DEF PollingFor, Record, Optional
<1> HIDE DEF polling
<1>2. appended \in PollingState
  BY <1>1, AppendReceiptFacts
<1> HIDE DEF appended
<1>3. fed \in PollingState
  BY <1>2, MaybeFeedbackFacts
<1>4. /\ NamesTheSame(rec, rec) /\ NamesTheSame(rec, consumed)
      /\ NamesTheSame(rec, [rec EXCEPT !.polling = fed])
  <2>1. ASSUME NEW p \in PollingState PROVE NamesTheSame(rec, [rec EXCEPT !.polling = p])
    BY OtherPlanesNameTheSame
  <2>2. NamesTheSame(rec, rec)
    BY OtherPlanesNameTheSame
  <2> HIDE DEF fed
  <2> QED
    BY <1>2, <1>3, <2>1, <2>2
<1>5. /\ consumed \in Record /\ consumed.operation = rec.operation
      /\ consumed.polling = appended
      /\ [consumed EXCEPT !.polling = fed] = [rec EXCEPT !.polling = fed]
  BY <1>2 DEF Record, Optional
<1> HIDE DEF consumed, fed
<1>6. /\ \A outcome : Acknowledged(rec, outcome).record = rec
      /\ Rejected(rec).record = rec
      /\ \A new, outcome : Saved(new, outcome).record = new
  BY DEF Acknowledged, Rejected, Saved
<1>7. ASSUME seen \in TerminalObservation
      PROVE  NamesTheSame(rec, Observe(rec, consumed, seen, now, pace).record)
  <2> DEFINE settled == Saved(Terminated(consumed, seen),
                              TerminalOutcome(Terminated(consumed, seen), TRUE))
             repeat == Saved(consumed, TerminalOutcome(rec, FALSE))
  <2>1. NamesTheSame(consumed, Terminated(consumed, seen))
    BY <1>5, <1>7, SettledNamesTheSame
  <2>2. NamesTheSame(rec, settled.record)
    BY <1>4, <1>6, <2>1, NamingIsTransitive
  <2>3. Observe(rec, consumed, seen, now, pace) \in {settled, repeat, Rejected(rec)}
    BY <1>7 DEF Observe, ApplyTerminal
  <2>4. NamesTheSame(rec, repeat.record) /\ NamesTheSame(rec, Rejected(rec).record)
    BY <1>4, <1>6
  <2> HIDE DEF settled, repeat, seen
  <2> QED
    BY <2>2, <2>3, <2>4
<1>8. ASSUME seen \notin TerminalObservation
      PROVE  NamesTheSame(rec, Observe(rec, consumed, seen, now, pace).record)
  <2> DEFINE spoken == NonTerminalObservation(consumed, now, pace)
  <2>1. spoken.record \in {consumed, [rec EXCEPT !.polling = fed]}
    BY <1>5, <1>6 DEF NonTerminalObservation, fed
  <2>2. Observe(rec, consumed, seen, now, pace)
          \in {spoken, Saved(consumed, TerminalOutcome(rec, FALSE))}
    BY <1>8 DEF Observe
  <2>3. NamesTheSame(rec, spoken.record)
    BY <1>4, <2>1
  <2>4. NamesTheSame(rec, Saved(consumed, TerminalOutcome(rec, FALSE)).record)
    BY <1>4, <1>6
  <2> HIDE DEF spoken, seen
  <2> QED
    BY <2>2, <2>3, <2>4
<1>9. NamesTheSame(rec, Observe(rec, consumed, seen, now, pace).record)
  BY <1>7, <1>8
<1>10. ApplyObservation(rec, event, now, pace)
         \in {Rejected(rec), Acknowledged(rec, ReplayOutcome(rec)),
              Observe(rec, consumed, seen, now, pace)}
  BY DEF ApplyObservation, polling, appended, consumed
<1> HIDE DEF seen
<1> QED
  BY <1>4, <1>6, <1>9, <1>10

\* A playback.
LEMMA PresentationNamesTheSame ==
    ASSUME NEW rec \in Record, NEW event \in PresentationEvent
    PROVE  NamesTheSame(rec, ApplyPresentation(rec, event).record)
<1> DEFINE first == [operation |-> event.command.operation,
                     revision |-> event.command.revision,
                     voice |-> event.voice, finished |-> FALSE]
           better == [rec.presentation EXCEPT !.voice = event.voice]
<1>1. first \in PasswordPresentation
  BY DEF PresentationEvent, ExternalActionCommand, PasswordPresentation
<1>2. rec.presentation # None => better \in PasswordPresentation
  BY DEF Record, Optional, PasswordPresentation, PresentationEvent
<1>3. ASSUME NEW p \in PasswordPresentation
      PROVE  NamesTheSame(rec, [rec EXCEPT !.presentation = p])
  BY OtherPlanesNameTheSame
<1>4. NamesTheSame(rec, rec)
  BY OtherPlanesNameTheSame
<1>5. \/ ApplyPresentation(rec, event).record \in {rec, [rec EXCEPT !.presentation = first]}
      \/ /\ rec.presentation # None
         /\ ApplyPresentation(rec, event).record = [rec EXCEPT !.presentation = better]
  BY DEF ApplyPresentation, Acknowledged, Rejected, Saved
<1> HIDE DEF first, better
<1> QED
  BY <1>1, <1>2, <1>3, <1>4, <1>5

\* No event renames an operation, starts one or forgets one, on any well-formed record.
LEMMA EventNamesTheSame ==
    ASSUME NEW rec \in Record, NEW event \in Event, NEW now \in Nat, NEW fresh \in Nat,
           NEW pace \in Pace
    PROVE  NamesTheSame(rec, HandleEvent(rec, event, now, fresh, pace).record)
<1>1. NamesTheSame(rec, rec) /\ Rejected(rec).record = rec
      /\ \A outcome : Acknowledged(rec, outcome).record = rec
  BY OtherPlanesNameTheSame DEF Rejected, Acknowledged
<1>2. Correlates(rec, event.command) => rec.operation # None
  BY DEF Correlates
<1>3. NamesTheSame(rec, ApplyEvent(rec, event, now, fresh, pace).record)
  <2>1. CASE event \in IdentityEvent
    <3>1. event.kind = "identity"
      BY <2>1 DEF IdentityEvent
    <3> QED
      BY <3>1, IdentityNamesTheSame DEF ApplyEvent
  <2>2. CASE event \in IdentityInputFailureEvent
    <3>1. event.kind = "identity_input"
      BY <2>2 DEF IdentityInputFailureEvent
    <3> QED
      BY <1>1, <3>1 DEF ApplyEvent
  <2>3. CASE event \in VoiceFailureEvent
    <3>1. event.kind = "voice"
      BY <2>3 DEF VoiceFailureEvent
    <3> QED
      BY <3>1, VoiceNamesTheSame DEF ApplyEvent
  <2>4. CASE event \in PresentationEvent
    <3>1. event.kind = "presentation"
      BY <2>4 DEF PresentationEvent
    <3> QED
      BY <2>4, <3>1, PresentationNamesTheSame DEF ApplyEvent
  <2>5. CASE event \in StatusEvent
    <3>1. event.kind = "status" /\ event.seen \in StatusSeen
      BY <2>5 DEF StatusEvent
    <3> QED
      BY <1>1, <1>2, <3>1, LegacyNamesTheSame DEF ApplyEvent
  <2>6. CASE event \in PollErrorEvent
    <3>1. event.kind = "poll_error"
      BY <2>6 DEF PollErrorEvent
    <3> QED
      BY <1>1, <1>2, <3>1, LegacyNamesTheSame DEF ApplyEvent
  <2>7. CASE event \in DispatchErrorEvent
    <3>1. event.kind = "dispatch_error"
      BY <2>7 DEF DispatchErrorEvent
    <3> QED
      BY <1>1, <1>2, <3>1, LegacyNamesTheSame DEF ApplyEvent
  <2>8. CASE event \in StatusEventV1 \cup PollErrorEventV1
    <3>1. /\ event.kind \in {"status_v1", "poll_error_v1"}
          /\ event.seen \in Observation /\ event.sequence \in Nat \ {0}
      BY <2>8 DEF StatusEventV1, PollErrorEventV1, Observation, StatusSeen, PollError
    <3> QED
      BY <1>1, <1>2, <3>1, ObservationNamesTheSame DEF ApplyEvent
  <2> QED
    BY <2>1, <2>2, <2>3, <2>4, <2>5, <2>6, <2>7, <2>8 DEF Event
<1> QED
  BY <1>1, <1>3, VoiceNamesTheSame DEF HandleEvent

\* No event touches an operation that is settled, on any well-formed record.
LEMMA EventKeepsSettled ==
    ASSUME NEW rec \in Record, rec.operation # None, ~IsActive(rec.operation),
           NEW event, NEW now, NEW fresh, NEW pace
    PROVE  HandleEvent(rec, event, now, fresh, pace).record.operation = rec.operation
<1>1. /\ Rejected(rec).record = rec
      /\ \A outcome : Acknowledged(rec, outcome).record = rec
      /\ \A new, outcome : Saved(new, outcome).record = new
  BY DEF Rejected, Acknowledged, Saved
<1>2. /\ \A identity : [rec EXCEPT !.identity = identity].operation = rec.operation
      /\ \A identity, challenge :
           [rec EXCEPT !.identity = identity, !.confirmation = challenge].operation = rec.operation
      /\ \A count : [rec EXCEPT !.voiceRetry = count].operation = rec.operation
      /\ \A count :
           [rec EXCEPT !.confirmation = None, !.voiceRetry = count].operation = rec.operation
      /\ \A polling : [rec EXCEPT !.polling = polling].operation = rec.operation
      /\ \A presentation : [rec EXCEPT !.presentation = presentation].operation = rec.operation
  BY DEF Record
<1>3. ApplyIdentity(rec, event, now, fresh).record.operation = rec.operation
  <2>1. ApplyValidIdentity(rec, now, fresh).record.operation = rec.operation
    <3> DEFINE challenge == ChallengeOnValidIdentity(rec, now, fresh)
               updated == [rec EXCEPT !.identity = [validatedAt |-> now, failures |-> 0],
                                      !.confirmation = challenge]
               outcome == Say("LISTEN",
                              IF challenge = None THEN "identity_valid" ELSE "confirmation")
    <3>1. ApplyValidIdentity(rec, now, fresh)
            = IF updated = rec THEN Acknowledged(rec, outcome) ELSE Saved(updated, outcome)
      BY DEF ApplyValidIdentity
    <3>2. updated.operation = rec.operation
      BY <1>2
    <3> HIDE DEF updated, outcome
    <3> QED
      BY <1>1, <3>1, <3>2
  <2>2. ApplyInvalidIdentity(rec).record.operation = rec.operation
    <3> DEFINE updated == [rec EXCEPT !.identity.failures = @ + 1]
               outcome == IF RequiresHandoff(updated.identity)
                          THEN Say("TRANSFER", "escalation")
                          ELSE Say("COLLECT_IDENTITY", "identity_invalid")
    <3>1. ApplyInvalidIdentity(rec) = Saved(updated, outcome)
      BY DEF ApplyInvalidIdentity
    <3>2. updated.operation = rec.operation
      BY DEF Record
    <3> HIDE DEF updated, outcome
    <3> QED
      BY <1>1, <3>1, <3>2
  <2> QED
    BY <1>1, <2>1, <2>2 DEF ApplyIdentity
<1>4. /\ ApplyVoiceFailure(rec).record.operation = rec.operation
      /\ ApplyPreTurnVoiceFailure(rec).record.operation = rec.operation
  <2> DEFINE failed == [rec EXCEPT !.confirmation = None, !.voiceRetry = AdvanceVoiceRetry(@)]
             early == [rec EXCEPT !.voiceRetry = AdvanceVoiceRetry(@)]
  <2>1. /\ ApplyVoiceFailure(rec) = Saved(failed, VoiceOutcome(failed))
        /\ ApplyPreTurnVoiceFailure(rec) = Saved(early, VoiceOutcome(early))
    BY DEF ApplyVoiceFailure, ApplyPreTurnVoiceFailure
  <2>2. failed.operation = rec.operation /\ early.operation = rec.operation
    BY DEF Record
  <2> HIDE DEF failed, early
  <2> QED
    BY <1>1, <2>1, <2>2
<1>5. ApplyPresentation(rec, event).record.operation = rec.operation
  <2> DEFINE told == [rec EXCEPT !.presentation =
                         [operation |-> event.command.operation,
                          revision |-> event.command.revision,
                          voice |-> event.voice, finished |-> FALSE]]
             replaced == [rec EXCEPT !.presentation.voice = event.voice]
  <2>1. \/ ApplyPresentation(rec, event) = Rejected(rec)
        \/ ApplyPresentation(rec, event) = Saved(told, Say("LISTEN", "none"))
        \/ ApplyPresentation(rec, event) = Saved(replaced, Say("LISTEN", "none"))
        \/ ApplyPresentation(rec, event) = Acknowledged(rec, Say("LISTEN", "none"))
    BY DEF ApplyPresentation
  <2>2. told.operation = rec.operation /\ replaced.operation = rec.operation
    BY DEF Record
  <2> HIDE DEF told, replaced
  <2> QED
    BY <1>1, <2>1, <2>2
<1>6. ApplyTerminal(rec, rec, event.seen, Acknowledged(rec, TerminalOutcome(rec, TRUE))).record
        = rec
  BY <1>1 DEF ApplyTerminal
<1>7. /\ ApplyStatus(rec, event, pace).record = rec
      /\ ApplyPollError(rec).record = rec
  BY <1>1, <1>6 DEF ApplyStatus, ApplyPollError
<1>8. ApplyDispatchError(rec).record = rec
  <2>1. rec.operation.status \notin {"pending", "unknown"}
    BY DEF IsActive
  <2> QED
    BY <1>1, <2>1 DEF ApplyDispatchError
<1>9. ApplyObservation(rec, event, now, pace).record.operation = rec.operation
  <2> DEFINE consumed == [rec EXCEPT !.polling = AppendReceipt(PollingFor(rec), event.sequence,
                                                               event.seen)]
  <2>1. consumed.operation = rec.operation
    BY <1>2
  <2>2. \A polling : [consumed EXCEPT !.polling = polling].operation = rec.operation
    BY DEF Record
  <2> HIDE DEF consumed
  <2>3. ApplyTerminal(consumed, rec, event.seen, Saved(consumed, TerminalOutcome(rec, FALSE)))
          .record.operation = rec.operation
    BY <1>1, <2>1 DEF ApplyTerminal
  <2>4. NonTerminalObservation(consumed, now, pace).record.operation = rec.operation
    <3> DEFINE told == MaybeFeedback(consumed.polling, consumed.operation, now, pace = "speaks")
               spoken == [consumed EXCEPT !.polling = told]
               outcome == Say("POLL_RD", IF told.messages > consumed.polling.messages
                                         THEN "feedback" ELSE "none")
    <3>1. NonTerminalObservation(consumed, now, pace)
            = IF BudgetExhausted(consumed.polling)
              THEN Saved(consumed, Say("TRANSFER", "exhausted"))
              ELSE Saved(spoken, outcome)
      BY DEF NonTerminalObservation
    <3>2. spoken.operation = consumed.operation
      BY <2>2
    <3> HIDE DEF told, spoken, outcome
    <3> QED
      BY <1>1, <2>1, <3>1, <3>2
  <2>5. Observe(rec, consumed, event.seen, now, pace).record.operation = rec.operation
    BY <1>1, <2>1, <2>3, <2>4 DEF Observe
  <2> QED
    BY <1>1, <2>5 DEF ApplyObservation, consumed
<1>10. ApplyEvent(rec, event, now, fresh, pace).record.operation = rec.operation
  BY <1>1, <1>3, <1>4, <1>5, <1>7, <1>8, <1>9 DEF ApplyEvent
<1> QED
  BY <1>1, <1>4, <1>10 DEF HandleEvent
================================================================================
