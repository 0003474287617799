--------------------------- MODULE PollingClient_proofs ---------------------------
(***************************************************************************)
(* A client that keeps the protocol is never refused, whatever is lost:    *)
(* the invariant that relates where the client is, what it is posting and  *)
(* what the stored record has already consumed of it.                      *)
(***************************************************************************)
EXTENDS PollingClientProperties, EventRules_proofs

Mode == {"talk", "dispatch", "poll", "present", "played", "transferred", "over"}

\* Observations the record has consumed.
Received(rec) == IF rec.polling = None THEN 0 ELSE Len(rec.polling.receipts)

IsConfirmedReset(rec) ==
    rec.operation # None /\ rec.operation.action = Reset /\ rec.operation.status = "confirmed"

\* A further observation finds an operation to observe and a budget to take it from.
CanPoll(rec) == IsActive(rec.operation) /\ Received(rec) < ObservationLimit

IsObservation(input) ==
    /\ input = [kind |-> input.kind, command |-> input.command, seen |-> input.seen,
                sequence |-> input.sequence]
    /\ \/ input.kind = "poll_error_v1" /\ input.seen \in PollError
       \/ input.kind = "status_v1" /\ input.seen \in StatusSeen

\* The client reports a terminal result only when RD gave it.
IsTold(input, known) ==
    input.seen \in TerminalObservation =>
        known \in DOMAIN Terminal /\ input.seen = Terminal[known]

IsPlayback(input, command) ==
    \E voice \in PlaybackVoice :
        input = [kind |-> "presentation", command |-> command, voice |-> voice]

\* What the client may be posting at each place of its flow.
OutboxFits(c, known) ==
    c.outbox # None =>
        \/ /\ c.mode = "talk"
           /\ c.outbox = [kind |-> "turn", transcript |-> TRUE, secret |-> c.secret]
        \/ /\ c.mode = "present"
           /\ c.outbox = [kind |-> "turn", transcript |-> FALSE, secret |-> TRUE]
        \/ /\ c.mode = "dispatch"
           /\ c.outbox = [kind |-> "dispatch_error", command |-> c.command]
        \/ /\ c.mode \in {"poll", "transferred"}
           /\ IsObservation(c.outbox) /\ IsTold(c.outbox, known)
           /\ c.outbox.command = c.command /\ c.outbox.sequence = c.sequence
           /\ c.mode = "transferred" => c.outbox.seen \in TerminalObservation
        \/ /\ c.mode = "played"
           /\ IsPlayback(c.outbox, c.command)

\* Away from the conversation the client has an order, and a password only after one.
ClientFits(c) ==
    /\ c = [mode |-> c.mode, outbox |-> c.outbox, command |-> c.command,
            sequence |-> c.sequence, secret |-> c.secret]
    /\ c.mode \in Mode
    /\ c.command \in Optional(ExternalActionCommand)
    /\ c.sequence \in Nat \ {0}
    /\ c.secret \in BOOLEAN
    /\ c.secret => c.command # None
    /\ c.mode \in {"dispatch", "poll", "present", "played"} => c.command # None
    /\ c.mode = "transferred" /\ c.outbox # None => c.command # None

\* The record waits for the observation the client numbers next, or has consumed the one the
\* client still holds: its answer is on the way, or lost.
Awaits(rec, c) == Received(rec) = c.sequence - 1

HasConsumed(rec, c) ==
    /\ c.outbox # None /\ c.mode \in {"poll", "transferred"}
    /\ Received(rec) = c.sequence
    /\ rec.polling.receipts[c.sequence]
         = [sequence |-> c.sequence, fingerprint |-> c.outbox.seen]

\* The operation is settled only as RD settled it.
IsKnown(rec, known) ==
    rec.operation # None =>
        /\ rec.operation.status = "confirmed" => known = "done"
        /\ rec.operation.status = "failed" => known = "failed"

RecordFits(rec, c, known) ==
    /\ rec \in Record /\ rec.turned /\ Coherent(rec)
    /\ IsKnown(rec, known)
    /\ c.command # None => Correlates(rec, c.command)
    /\ Awaits(rec, c) \/ HasConsumed(rec, c)
    /\ c.mode \in {"dispatch", "poll"} /\ Awaits(rec, c) => CanPoll(rec)
    /\ c.mode = "present" => IsConfirmedReset(rec) /\ rec.presentation = None
    /\ c.mode = "played" => IsConfirmedReset(rec)

\* An answer leads the client where the record can go on with it.
AnswerLeads(outcome, rec, c) ==
    /\ outcome # None
    /\ c.mode \in {"poll", "transferred"} => HasConsumed(rec, c)
    /\ c.mode = "dispatch" => outcome.step = "POLL_RD"
    /\ c.mode = "poll" /\ IsActive(rec.operation) => outcome.step \in {"POLL_RD", "TRANSFER"}
    /\ outcome.step = "EXECUTE_ACTION" =>
         /\ outcome.command \in ExternalActionCommand
         /\ Correlates(rec, outcome.command) /\ CanPoll(rec)
    /\ outcome.step = "POLL_RD" => c.command # None /\ CanPoll(rec)
    /\ outcome.step = "DELIVER_PASSWORD" =>
         /\ IsConfirmedReset(rec) /\ c.command # None
         /\ c.mode \notin {"talk", "present"} => rec.presentation = None

WireFits ==
    \/ wire = Silence
    \/ /\ client.outbox # None
       /\ wire = [leg |-> "request", input |-> client.outbox, outcome |-> None]
    \/ /\ client.outbox # None
       /\ wire = [leg |-> "answer", input |-> client.outbox, outcome |-> wire.outcome]
       /\ AnswerLeads(wire.outcome, doc, client)

RecoveryInv ==
    /\ rd \in {"unknown", "running", "done", "failed"}
    /\ ClientFits(client) /\ OutboxFits(client, rd)
    /\ RecordFits(doc, client, rd)
    /\ WireFits

--------------------------------------------------------------------------------
(* What the service answers to what such a client posts. *)

\* The projection of an operation dictates only where a password is owed.
LEMMA TerminalOutcomeLeads ==
    ASSUME NEW rec, rec.operation # None, NEW speak
    PROVE  /\ TerminalOutcome(rec, speak) # None
           /\ TerminalOutcome(rec, speak).step \in {"LISTEN", "DELIVER_PASSWORD"}
           /\ TerminalOutcome(rec, speak).step = "DELIVER_PASSWORD" =>
                IsConfirmedReset(rec) /\ rec.presentation = None
<1>1. /\ TerminalStep(rec) \in {"LISTEN", "DELIVER_PASSWORD"}
      /\ TerminalStep(rec) = "DELIVER_PASSWORD" =>
           IsConfirmedReset(rec) /\ rec.presentation = None
  BY DEF TerminalStep, IsConfirmedReset
<1>2. \A step \in {"LISTEN", "DELIVER_PASSWORD"}, message \in {"terminal", "none"} :
        Say(step, message) # None /\ Say(step, message).step = step
  <2> SUFFICES ASSUME NEW step \in {"LISTEN", "DELIVER_PASSWORD"},
                      NEW message \in {"terminal", "none"}
               PROVE  Say(step, message) # None /\ Say(step, message).step = step
    OBVIOUS
  <2>1. Say(step, message) \in Outcome
    BY DEF Say, Outcome, NextStep, Message, Optional
  <2> QED
    BY <2>1, NoOutcomeAssumption DEF Say
<1> QED
  BY <1>1, <1>2 DEF TerminalOutcome

\* What an observation that is not refused leaves: its receipt, the last; an operation still
\* to be observed when it says so, or the password it asks for.
IsAnswered(rec, event, result) ==
    /\ result.outcome # None
    /\ result.saved \/ result.record = rec
    /\ result.record.turned = rec.turned
    /\ result.record.presentation = rec.presentation
    /\ result.record.polling # None
    /\ Len(result.record.polling.receipts) = event.sequence
    /\ result.record.polling.receipts[event.sequence]
         = [sequence |-> event.sequence, fingerprint |-> event.seen]
    /\ result.outcome.step # "EXECUTE_ACTION"
    /\ IsActive(result.record.operation) => result.outcome.step \in {"POLL_RD", "TRANSFER"}
    /\ result.outcome.step = "POLL_RD" =>
         IsActive(result.record.operation) /\ event.sequence < ObservationLimit
    /\ result.outcome.step = "DELIVER_PASSWORD" =>
         IsConfirmedReset(result.record) /\ result.record.presentation = None

\* The words of the polling plane are outcomes, and say what they say.
LEMMA PollingWords ==
    ASSUME NEW step \in {"LISTEN", "POLL_RD", "TRANSFER"},
           NEW message \in {"none", "feedback", "exhausted"}
    PROVE  Say(step, message) # None /\ Say(step, message).step = step
<1>1. Say(step, message) \in Outcome
  BY DEF Say, Outcome, NextStep, Message, Optional
<1> QED
  BY <1>1, NoOutcomeAssumption DEF Say

\* The observation numbered next, of an operation that can take it, is never refused: neither
\* while the budget lasts, nor with the terminal result RD keeps to.
LEMMA NextObservationIsAnswered ==
    ASSUME NEW rec \in Record, Coherent(rec), rec.operation # None, NEW event,
           event.seen \in Observation, event.sequence \in Nat \ {0},
           Received(rec) = event.sequence - 1, NEW now \in Nat, NEW pace \in Pace,
           event.seen \in TerminalObservation =>
               IsActive(rec.operation) \/ rec.operation.status = StatusOf(event.seen),
           event.seen \notin TerminalObservation => CanPoll(rec)
    PROVE  IsAnswered(rec, event, ApplyObservation(rec, event, now, pace))
<1> DEFINE polling == PollingFor(rec)
           appended == AppendReceipt(polling, event.sequence, event.seen)
           consumed == [rec EXCEPT !.polling = appended]
<1>1. /\ polling \in PollingState /\ LastSequence(polling) = Len(polling.receipts)
  BY PollingForFacts
<1>2. Len(polling.receipts) = Received(rec)
  <2>1. CASE rec.polling = None
    BY <2>1 DEF PollingFor, NewPollingState, Received
  <2>2. CASE rec.polling # None
    BY <2>2, PollingForKeepsReceipts DEF Received
  <2> QED
    BY <2>1, <2>2
<1>3. ClassifySequence(polling, event.sequence, event.seen) = "NEW"
  BY <1>1, <1>2 DEF ClassifySequence
<1>4. ~ObservationIsRefused(polling, event.seen)
  <2>1. Len(polling.receipts) \in Nat
    BY <1>1, LenProperties DEF PollingState
  <2> QED
    BY <1>2, <2>1, LimitsAssumption DEF ObservationIsRefused, BudgetExhausted, CanPoll
<1>5. ApplyObservation(rec, event, now, pace)
        = Observe(rec, consumed, event.seen, now, pace)
  BY <1>3, <1>4 DEF ApplyObservation
<1>6. /\ appended \in PollingState /\ Len(appended.receipts) = event.sequence
      /\ appended.receipts[event.sequence]
           = [sequence |-> event.sequence, fingerprint |-> event.seen]
  BY <1>1, <1>2, AppendReceiptFacts
<1> HIDE DEF polling, appended
<1>7. /\ consumed \in Record /\ consumed.polling = appended
      /\ consumed.operation = rec.operation /\ consumed.turned = rec.turned
      /\ consumed.presentation = rec.presentation /\ SamePlanes(rec, consumed)
  BY <1>6 DEF Record, Optional, SamePlanes
<1>8. appended # None
  BY <1>6, NoneAssumption
<1> HIDE DEF consumed
<1>9. ASSUME NEW outcome, outcome # None,
             outcome.step \in {"LISTEN", "TRANSFER", "DELIVER_PASSWORD"},
             IsActive(rec.operation) => outcome.step = "TRANSFER",
             outcome.step = "DELIVER_PASSWORD" =>
                 IsConfirmedReset(rec) /\ rec.presentation = None
      PROVE  IsAnswered(rec, event, Saved(consumed, outcome))
  BY <1>6, <1>7, <1>8, <1>9 DEF IsAnswered, Saved, IsConfirmedReset
<1>10. ~IsActive(rec.operation) =>
         IsAnswered(rec, event, Saved(consumed, TerminalOutcome(rec, FALSE)))
  <2>1. /\ TerminalOutcome(rec, FALSE) # None
        /\ TerminalOutcome(rec, FALSE).step \in {"LISTEN", "DELIVER_PASSWORD"}
        /\ TerminalOutcome(rec, FALSE).step = "DELIVER_PASSWORD" =>
             IsConfirmedReset(rec) /\ rec.presentation = None
    BY TerminalOutcomeLeads
  <2> QED
    BY <1>9, <2>1
<1>11. CASE event.seen \in TerminalObservation /\ IsActive(rec.operation)
  <2> DEFINE new == Terminated(consumed, event.seen)
  <2>1. /\ new.operation = [rec.operation EXCEPT !.status = StatusOf(event.seen)]
        /\ new.polling = appended /\ new.presentation = rec.presentation
    BY <1>7, <1>11, TerminatedFacts
  <2>2. new.turned = rec.turned
    BY <1>7 DEF Terminated, Record
  <2>3. new \in Record
    BY <1>7, <1>11, TerminatedFacts
  <2>4. new.operation # None /\ ~IsActive(new.operation)
    <3>1. rec.operation \in ExternalOperation
      BY DEF Record, Optional
    <3>2. new.operation \in ExternalOperation /\ new.operation.status = StatusOf(event.seen)
      BY <2>1, <3>1 DEF ExternalOperation, StatusOf, OperationStatus
    <3> QED
      BY <3>2, NoneAssumption DEF IsActive, StatusOf
  <2>5. /\ TerminalOutcome(new, TRUE) # None
        /\ TerminalOutcome(new, TRUE).step \in {"LISTEN", "DELIVER_PASSWORD"}
        /\ TerminalOutcome(new, TRUE).step = "DELIVER_PASSWORD" =>
             IsConfirmedReset(new) /\ new.presentation = None
    BY <2>4, TerminalOutcomeLeads
  <2>6. Observe(rec, consumed, event.seen, now, pace) = Saved(new, TerminalOutcome(new, TRUE))
    BY <1>7, <1>11 DEF Observe, ApplyTerminal
  <2> HIDE DEF new
  <2>7. ASSUME NEW outcome, outcome # None, outcome.step \in {"LISTEN", "DELIVER_PASSWORD"},
               outcome.step = "DELIVER_PASSWORD" =>
                   IsConfirmedReset(new) /\ new.presentation = None
        PROVE  IsAnswered(rec, event, Saved(new, outcome))
    <3>1. /\ Saved(new, outcome).record = new /\ Saved(new, outcome).saved
          /\ Saved(new, outcome).outcome = outcome
      BY DEF Saved
    <3>2. /\ new.polling = appended /\ new.presentation = rec.presentation
      BY <2>1
    <3> QED
      BY <1>6, <1>8, <2>2, <2>4, <2>7, <3>1, <3>2 DEF IsAnswered
  <2>8. IsAnswered(rec, event, Saved(new, TerminalOutcome(new, TRUE)))
    BY <2>5, <2>7
  <2> QED
    BY <1>5, <2>6, <2>8
<1>12. CASE event.seen \in TerminalObservation /\ ~IsActive(rec.operation)
  <2>1. Observe(rec, consumed, event.seen, now, pace)
          = Saved(consumed, TerminalOutcome(rec, FALSE))
    BY <1>7, <1>12 DEF Observe, ApplyTerminal
  <2> QED
    BY <1>5, <1>10, <1>12, <2>1
<1>13. CASE event.seen \notin TerminalObservation
  <2> DEFINE fed == MaybeFeedback(appended, rec.operation, now, pace = "speaks")
             fedRecord == [consumed EXCEPT !.polling = fed]
             message == IF fed.messages > appended.messages THEN "feedback" ELSE "none"
  <2>1. IsActive(rec.operation)
    BY <1>13 DEF CanPoll
  <2>2. Observe(rec, consumed, event.seen, now, pace)
          = IF BudgetExhausted(appended) THEN Saved(consumed, Say("TRANSFER", "exhausted"))
            ELSE Saved(fedRecord, Say("POLL_RD", message))
    BY <1>7, <1>13, <2>1 DEF Observe, NonTerminalObservation
  <2>3. fed \in PollingState /\ fed.receipts = appended.receipts
    BY <1>6, MaybeFeedbackFacts
  <2> HIDE DEF fed
  <2>4. /\ fedRecord.polling = fed /\ fedRecord.operation = rec.operation
        /\ fedRecord.turned = rec.turned /\ fedRecord.presentation = rec.presentation
    BY <1>7 DEF Record
  <2>5. fed # None
    BY <2>3, NoneAssumption
  <2>6. ~BudgetExhausted(appended) => event.sequence < ObservationLimit
    BY <1>6, LimitsAssumption DEF BudgetExhausted
  <2>7. /\ Say("POLL_RD", message) # None /\ Say("POLL_RD", message).step = "POLL_RD"
    BY PollingWords
  <2>8. Say("TRANSFER", "exhausted") # None /\ Say("TRANSFER", "exhausted").step = "TRANSFER"
    BY PollingWords
  <2> HIDE DEF fedRecord, message
  <2>9. ~BudgetExhausted(appended) =>
          IsAnswered(rec, event, Saved(fedRecord, Say("POLL_RD", message)))
    BY <1>6, <2>1, <2>3, <2>4, <2>5, <2>6, <2>7 DEF IsAnswered, Saved
  <2> QED
    BY <1>5, <1>9, <2>2, <2>8, <2>9
<1> QED
  BY <1>11, <1>12, <1>13

\* The observation the record consumed last is acknowledged again, with its answer of now.
LEMMA RepeatedObservationIsAnswered ==
    ASSUME NEW rec \in Record, Coherent(rec), rec.operation # None, NEW event,
           event.sequence \in Nat \ {0}, Received(rec) = event.sequence,
           rec.polling.receipts[event.sequence]
             = [sequence |-> event.sequence, fingerprint |-> event.seen],
           NEW now, NEW pace
    PROVE  IsAnswered(rec, event, ApplyObservation(rec, event, now, pace))
<1>1. rec.polling # None /\ Len(rec.polling.receipts) = event.sequence
  BY DEF Received
<1>2. PollingFor(rec) = rec.polling /\ LastSequence(rec.polling) = event.sequence
  BY <1>1, PollingForKeepsReceipts, PollingForFacts
<1>3. ClassifySequence(PollingFor(rec), event.sequence, event.seen) = "REPLAY"
  BY <1>1, <1>2 DEF ClassifySequence
<1>4. ApplyObservation(rec, event, now, pace) = Acknowledged(rec, ReplayOutcome(rec))
  BY <1>3 DEF ApplyObservation
<1>5. ASSUME NEW outcome, outcome # None, outcome.step # "EXECUTE_ACTION",
             IsActive(rec.operation) => outcome.step \in {"POLL_RD", "TRANSFER"},
             outcome.step = "POLL_RD" =>
                 IsActive(rec.operation) /\ event.sequence < ObservationLimit,
             outcome.step = "DELIVER_PASSWORD" =>
                 IsConfirmedReset(rec) /\ rec.presentation = None
      PROVE  IsAnswered(rec, event, Acknowledged(rec, outcome))
  BY <1>1, <1>5 DEF IsAnswered, Acknowledged
<1>6. CASE IsActive(rec.operation)
  <2>1. ~BudgetExhausted(rec.polling) => event.sequence < ObservationLimit
    BY <1>1, LimitsAssumption DEF BudgetExhausted
  <2>2. /\ Say("POLL_RD", "none") # None /\ Say("POLL_RD", "none").step = "POLL_RD"
        /\ Say("TRANSFER", "none") # None /\ Say("TRANSFER", "none").step = "TRANSFER"
    BY PollingWords
  <2>3. ReplayOutcome(rec) = IF BudgetExhausted(rec.polling) THEN Say("TRANSFER", "none")
                             ELSE Say("POLL_RD", "none")
    BY <1>1, <1>6 DEF ReplayOutcome
  <2> QED
    BY <1>4, <1>5, <1>6, <2>1, <2>2, <2>3
<1>7. CASE ~IsActive(rec.operation)
  <2>1. ReplayOutcome(rec) = TerminalOutcome(rec, FALSE)
    BY <1>7 DEF ReplayOutcome
  <2>2. /\ TerminalOutcome(rec, FALSE) # None
        /\ TerminalOutcome(rec, FALSE).step \in {"LISTEN", "DELIVER_PASSWORD"}
        /\ TerminalOutcome(rec, FALSE).step = "DELIVER_PASSWORD" =>
             IsConfirmedReset(rec) /\ rec.presentation = None
    BY TerminalOutcomeLeads
  <2> QED
    BY <1>4, <1>5, <1>7, <2>1, <2>2
<1> QED
  BY <1>6, <1>7

\* An uncertain call to RD, reported once or again, is followed by observing it.
LEMMA DispatchErrorIsAnswered ==
    ASSUME NEW rec \in Record, IsActive(rec.operation)
    PROVE  LET result == ApplyDispatchError(rec)
           IN  /\ result.outcome # None /\ result.outcome.step = "POLL_RD"
               /\ result.saved \/ result.record = rec
               /\ result.record.turned = rec.turned
               /\ result.record.polling = rec.polling
               /\ IsActive(result.record.operation)
<1> DEFINE new == [rec EXCEPT !.operation.status = "unknown"]
<1>1. Say("POLL_RD", "none") # None /\ Say("POLL_RD", "none").step = "POLL_RD"
  BY PollingWords
<1>2. /\ new.turned = rec.turned /\ new.polling = rec.polling
      /\ new.operation = [rec.operation EXCEPT !.status = "unknown"]
  BY DEF Record
<1>3. rec.operation \in ExternalOperation
  BY DEF IsActive, Record, Optional
<1>4. IsActive(new.operation)
  <2>1. new.operation \in ExternalOperation /\ new.operation.status = "unknown"
    BY <1>2, <1>3 DEF ExternalOperation, OperationStatus
  <2> QED
    BY <2>1, NoneAssumption DEF IsActive
<1>5. \/ ApplyDispatchError(rec) = Saved(new, Say("POLL_RD", "none"))
      \/ ApplyDispatchError(rec) = Acknowledged(rec, Say("POLL_RD", "none"))
  BY DEF ApplyDispatchError, IsActive
<1> HIDE DEF new
<1> QED
  BY <1>1, <1>2, <1>4, <1>5 DEF Saved, Acknowledged

\* The playback of the password a confirmed reset owes is recorded once and acknowledged again.
LEMMA PlaybackIsAnswered ==
    ASSUME NEW rec \in Record, IsConfirmedReset(rec), NEW event, Correlates(rec, event.command)
    PROVE  LET result == ApplyPresentation(rec, event)
           IN  /\ result.outcome # None /\ result.outcome.step = "LISTEN"
               /\ result.saved \/ result.record = rec
               /\ result.record.turned = rec.turned
               /\ result.record.polling = rec.polling
               /\ result.record.operation = rec.operation
<1> DEFINE first == [rec EXCEPT !.presentation =
                        [operation |-> event.command.operation,
                         revision |-> event.command.revision,
                         voice |-> event.voice, finished |-> FALSE]]
           better == [rec EXCEPT !.presentation.voice = event.voice]
           heard == Say("LISTEN", "none")
<1>1. heard # None /\ heard.step = "LISTEN"
  BY PollingWords
<1>2. /\ first.turned = rec.turned /\ first.polling = rec.polling
      /\ first.operation = rec.operation
      /\ better.turned = rec.turned /\ better.polling = rec.polling
      /\ better.operation = rec.operation
  BY DEF Record
<1>3. PresentationCorrelates(rec, event.command)
  BY DEF PresentationCorrelates, Correlates, IsConfirmedReset
<1>4. \/ ApplyPresentation(rec, event) = Saved(first, heard)
      \/ ApplyPresentation(rec, event) = Saved(better, heard)
      \/ ApplyPresentation(rec, event) = Acknowledged(rec, heard)
  BY <1>3 DEF ApplyPresentation
<1> HIDE DEF first, better, heard
<1> QED
  BY <1>1, <1>2, <1>4 DEF Saved, Acknowledged

\* A turn the model proposed something for always answers, asks for the password only while
\* one is owed and at hand, never observes RD, and orders only where nothing was opened.
LEMMA TurnIsAnswered ==
    ASSUME NEW rec \in Record, Coherent(rec), NEW turn \in TurnInput,
           NEW dec \in ModelTurnDecision, NEW now \in Nat, NEW fresh \in Nat
    PROVE  LET result == AdvanceTurn(rec, turn, dec, now, fresh)
           IN  /\ result.outcome # None /\ result.outcome.step # "POLL_RD"
               /\ result.record.turned /\ result.record.polling = rec.polling
               /\ result.outcome.step = "DELIVER_PASSWORD" =>
                    turn.secret /\ PresentationIsActive(rec)
               /\ result.outcome.step = "EXECUTE_ACTION" =>
                    rec.operation = None /\ result.outcome.command \in ExternalActionCommand
               /\ ~dec.finished => result.record.presentation = rec.presentation
<1> DEFINE plan == TurnPlan(rec, dec, now, fresh)
           outcome == TurnOutcome(rec, turn, dec, now, plan, fresh)
           result == AdvanceTurn(rec, turn, dec, now, fresh)
<1>1. /\ result.outcome = outcome /\ result.record.polling = rec.polling
      /\ result.record.presentation = PresentationAfter(rec, turn, dec)
  BY TurnLeaves
<1>2. result.record.turned
  BY DEF AdvanceTurn, Consolidate, Record
<1>3. ~dec.finished => PresentationAfter(rec, turn, dec) = rec.presentation
  BY TurnKeepsPlayback
<1>4. dec # None /\ dec \in Optional(ModelTurnDecision)
  BY NoOutcomeAssumption DEF Optional
<1> HIDE DEF result, plan, outcome
<1> SUFFICES /\ outcome # None /\ outcome.step # "POLL_RD"
             /\ outcome.step = "DELIVER_PASSWORD" => turn.secret /\ PresentationIsActive(rec)
             /\ outcome.step = "EXECUTE_ACTION" =>
                  rec.operation = None /\ outcome.command \in ExternalActionCommand
  BY <1>1, <1>2, <1>3 DEF result
<1>5. outcome \in Outcome
  BY <1>4, TurnOutcomeType DEF Optional, outcome, plan
<1>6. outcome # None
  BY <1>5, NoOutcomeAssumption
<1>7. /\ {plan.proposal, plan.binding} \subseteq BOOLEAN
      /\ plan.dispatched => rec.operation = None /\ ~plan.limit /\ ~PresentationIsActive(rec)
                            /\ ~plan.reissued /\ ~plan.first
  BY TurnPlanFacts DEF Optional, plan
<1>8. CASE plan.dispatched
  <2>1. /\ outcome.step = "EXECUTE_ACTION"
        /\ outcome.command = [operation |-> fresh, action |-> plan.before.action,
                              revision |-> plan.before.revision]
    BY <1>7, <1>8 DEF outcome, TurnOutcome, SpokenOutcome
  <2>2. plan.before \in ConfirmationChallenge
    BY <1>4, <1>8, TurnPlanFacts DEF Optional, plan
  <2> QED
    BY <1>6, <1>7, <1>8, <2>1, <2>2 DEF ExternalActionCommand, ConfirmationChallenge
<1>9. CASE ~plan.dispatched /\ ~plan.limit /\ PresentationIsActive(rec)
  <2>1. outcome = PresentationOutcome(rec, turn, dec)
    BY <1>9 DEF outcome, TurnOutcome
  <2>2. /\ outcome.step \in {"LISTEN", "COMPLETE", "DELIVER_PASSWORD"}
        /\ outcome.step = "DELIVER_PASSWORD" => turn.secret
    BY <2>1 DEF PresentationOutcome, Say
  <2> QED
    BY <1>6, <1>9, <2>2
<1>10. CASE ~plan.dispatched /\ (plan.limit \/ ~PresentationIsActive(rec))
  <2>1. \/ outcome.step = "TRANSFER"
        \/ outcome = Say("LISTEN", "confirmation")
        \/ outcome = GuardOutcome(rec, plan.goal, dec, plan.proposal \/ plan.binding, now)
    BY <1>10 DEF outcome, TurnOutcome, SpokenOutcome, Say
  <2>2. outcome.step \in {"LISTEN", "COLLECT_IDENTITY", "TRANSFER", "COMPLETE"}
    <3>1. (plan.proposal \/ plan.binding) \in BOOLEAN
      BY <1>7
    <3>2. CASE outcome = GuardOutcome(rec, plan.goal, dec, plan.proposal \/ plan.binding, now)
      BY <1>6, <3>1, <3>2, GuardOutcomeFacts DEF Optional
    <3> QED
      BY <2>1, <3>2 DEF Say
  <2> QED
    BY <1>6, <2>2
<1> QED
  BY <1>8, <1>9, <1>10

--------------------------------------------------------------------------------
(* Serving what the client posts keeps the record where the client may go on. *)

\* An event renames nothing, and settles the operation only as RD did.
LEMMA EventKeepsKnown ==
    ASSUME NEW rec \in Record, NEW event, NEW new, GoodRecord(rec, event, new), NEW known,
           IsKnown(rec, known),
           event.kind \in {"status", "status_v1"} => IsTold(event, known)
    PROVE  /\ IsKnown(new, known)
           /\ \A command : Correlates(rec, command) => Correlates(new, command)
<1>1. rec.operation # None => rec.operation \in ExternalOperation
  BY DEF Record, Optional
<1>2. /\ new.dispatch = rec.dispatch
      /\ rec.operation # None => /\ new.operation # None
                                 /\ new.operation.id = rec.operation.id
                                 /\ new.operation.action = rec.operation.action
  <2>1. \A status : rec.operation # None =>
          /\ [rec.operation EXCEPT !.status = status].id = rec.operation.id
          /\ [rec.operation EXCEPT !.status = status].action = rec.operation.action
    BY <1>1 DEF ExternalOperation
  <2>2. \A status \in OperationStatus : rec.operation # None =>
          [rec.operation EXCEPT !.status = status] # None
    BY <1>1, NoneAssumption DEF ExternalOperation
  <2>3. "unknown" \in OperationStatus /\ StatusOf(event.seen) \in OperationStatus
    BY DEF OperationStatus, StatusOf
  <2> QED
    BY <2>1, <2>2, <2>3 DEF GoodRecord, OperationMoves, IsActive
<1>3. \A command : Correlates(rec, command) => Correlates(new, command)
  BY <1>2 DEF Correlates
<1>4. IsKnown(new, known)
  <2>1. CASE new.operation = rec.operation
    BY <2>1 DEF IsKnown
  <2>2. CASE rec.operation # None /\ new.operation = [rec.operation EXCEPT !.status = "unknown"]
    BY <1>1, <2>2 DEF IsKnown, ExternalOperation
  <2>3. CASE /\ IsActive(rec.operation) /\ event.kind \in {"status", "status_v1"}
             /\ event.seen \in TerminalObservation
             /\ new.operation = [rec.operation EXCEPT !.status = StatusOf(event.seen)]
    <3>1. new.operation.status = StatusOf(event.seen)
      BY <1>1, <2>3 DEF ExternalOperation, IsActive
    <3>2. known \in {"done", "failed"} /\ event.seen = Terminal[known]
      BY <2>3 DEF IsTold, Terminal
    <3> QED
      BY <3>1, <3>2 DEF IsKnown, StatusOf, Terminal
  <2> QED
    BY <2>1, <2>2, <2>3 DEF GoodRecord, OperationMoves
<1> QED
  BY <1>3, <1>4

\* A result the client is led on by.
LeadsOn(rec, c, known, result) ==
    /\ RecordFits(result.record, c, known)
    /\ AnswerLeads(result.outcome, result.record, c)
    /\ OperationMoves(rec, c.outbox, result.record)
    /\ result.outcome.step # "EXECUTE_ACTION"
    /\ result.saved \/ result.record = rec

\* A turn, spoken or dictating the password for the first time.
LEMMA ServedTurn ==
    ASSUME NEW rec, NEW c, NEW known, ClientFits(c), OutboxFits(c, known),
           RecordFits(rec, c, known), c.outbox # None, c.outbox.kind = "turn",
           NEW dec \in ModelTurnDecision, dec.finished => c.outbox.transcript,
           NEW fresh \in Nat
    PROVE  LET result == AdvanceTurn(rec, c.outbox, dec, 0, fresh)
           IN  /\ RecordFits(result.record, c, known)
               /\ AnswerLeads(result.outcome, result.record, c)
               /\ KeepsOrStarts(rec, result, fresh)
               /\ result.outcome.step = "EXECUTE_ACTION" => rec.operation = None
<1> DEFINE turn == c.outbox
           result == AdvanceTurn(rec, turn, dec, 0, fresh)
           new == result.record
<1>1. rec \in Record /\ Coherent(rec) /\ dec \in Optional(ModelTurnDecision)
  BY DEF RecordFits, Optional
<1>2. /\ turn \in TurnInput
      /\ \/ c.mode = "talk" /\ turn.secret = c.secret
         \/ c.mode = "present" /\ ~turn.transcript
  <2>1. \/ /\ c.mode = "talk"
           /\ turn = [kind |-> "turn", transcript |-> TRUE, secret |-> c.secret]
        \/ /\ c.mode = "present"
           /\ turn = [kind |-> "turn", transcript |-> FALSE, secret |-> TRUE]
    <3>1. ~IsObservation(c.outbox)
      BY DEF IsObservation
    <3>2. ~IsPlayback(c.outbox, c.command)
      <4>1. \A voice : [kind |-> "presentation", command |-> c.command,
                        voice |-> voice].kind = "presentation"
        OBVIOUS
      <4> QED
        BY <4>1 DEF IsPlayback
    <3> DEFINE error == [kind |-> "dispatch_error", command |-> c.command]
    <3>3. c.outbox # error
      <4>1. error.kind # "turn"
        OBVIOUS
      <4> HIDE DEF error
      <4> QED
        BY <4>1
    <3> QED
      BY <3>1, <3>2, <3>3 DEF OutboxFits
  <2>2. c.secret \in BOOLEAN
    BY DEF ClientFits
  <2> HIDE DEF turn
  <2>3. \A secret \in BOOLEAN :
          [kind |-> "turn", transcript |-> TRUE, secret |-> secret] \in TurnInput
    BY DEF TurnInput
  <2>4. [kind |-> "turn", transcript |-> FALSE, secret |-> TRUE] \in TurnInput
    BY DEF TurnInput
  <2>5. CASE /\ c.mode = "talk"
             /\ turn = [kind |-> "turn", transcript |-> TRUE, secret |-> c.secret]
    <3>1. turn \in TurnInput
      BY <2>2, <2>3, <2>5
    <3>2. turn.secret = c.secret
      BY <2>5
    <3> QED
      BY <2>5, <3>1, <3>2
  <2>6. CASE /\ c.mode = "present"
             /\ turn = [kind |-> "turn", transcript |-> FALSE, secret |-> TRUE]
    BY <2>4, <2>6
  <2> QED
    BY <2>1, <2>5, <2>6
<1>3. /\ result.outcome # None /\ result.outcome.step # "POLL_RD"
      /\ new.turned /\ new.polling = rec.polling
      /\ result.outcome.step = "DELIVER_PASSWORD" => turn.secret /\ PresentationIsActive(rec)
      /\ result.outcome.step = "EXECUTE_ACTION" =>
           rec.operation = None /\ result.outcome.command \in ExternalActionCommand
      /\ ~dec.finished => new.presentation = rec.presentation
  BY <1>1, <1>2, TurnIsAnswered
<1>4. new \in Record /\ Coherent(new) /\ result.outcome \in Optional(Outcome)
  BY <1>1, <1>2, TurnKeepsRecord, TurnKeepsCoherence
<1>5. KeepsOrStarts(rec, result, fresh)
  BY <1>1, <1>2, TurnOperation
<1> HIDE DEF result, turn
<1>6. /\ IsKnown(new, known)
      /\ \A command : Correlates(rec, command) => Correlates(new, command)
      /\ rec.operation # None => new.operation = rec.operation
  BY <1>5 DEF KeepsOrStarts, IsKnown, RecordFits, Correlates
<1>7. Received(new) = Received(rec)
  BY <1>3 DEF Received
<1>8. Awaits(new, c)
  BY <1>2, <1>7 DEF RecordFits, Awaits, HasConsumed
<1>9. RecordFits(new, c, known)
  <2>1. c.mode = "present" => IsConfirmedReset(new) /\ new.presentation = None
    BY <1>2, <1>3, <1>6 DEF RecordFits, IsConfirmedReset, turn
  <2> QED
    BY <1>2, <1>3, <1>4, <1>6, <1>8, <2>1 DEF RecordFits
<1>10. result.outcome.step = "EXECUTE_ACTION" =>
         /\ result.outcome.command \in ExternalActionCommand
         /\ Correlates(new, result.outcome.command) /\ CanPoll(new)
  <2> SUFFICES ASSUME result.outcome.step = "EXECUTE_ACTION"
               PROVE  /\ result.outcome.command \in ExternalActionCommand
                      /\ Correlates(new, result.outcome.command) /\ CanPoll(new)
    OBVIOUS
  <2>1. rec.operation = None /\ rec.polling = None
    BY <1>1, <1>3 DEF Coherent, ReceiptsFit
  <2>2. result.outcome.command # None
    BY <1>3, NoOutcomeAssumption
  <2>3. /\ new.operation # None /\ new.operation.id = fresh /\ new.operation.status = "pending"
        /\ new.dispatch # None /\ new.dispatch.operation = fresh
        /\ new.dispatch.action = new.operation.action
        /\ result.outcome.command = [operation |-> fresh, action |-> new.dispatch.action,
                                     revision |-> new.dispatch.revision]
    BY <1>3, <1>5, <2>2 DEF KeepsOrStarts
  <2>4. Received(new) = 0
    BY <1>7, <2>1 DEF Received
  <2> QED
    BY <1>3, <2>3, <2>4, LimitsAssumption DEF Correlates, CanPoll, IsActive
<1>11. result.outcome.step = "DELIVER_PASSWORD" => IsConfirmedReset(new) /\ c.command # None
  BY <1>2, <1>3, <1>6 DEF PresentationIsActive, IsConfirmedReset, ClientFits
<1>12. AnswerLeads(result.outcome, new, c)
  BY <1>2, <1>3, <1>10, <1>11 DEF AnswerLeads
<1> QED
  BY <1>3, <1>5, <1>9, <1>12 DEF result, turn

\* What a result of an event needs for the client to be led on by it: the correlation is kept
\* by every event, the rest is the place the client is at.
LEMMA EventLeadsOn ==
    ASSUME NEW rec, NEW c, NEW known, RecordFits(rec, c, known), c.command # None,
           NEW event \in Event, NEW result, GoodResult(rec, event, result),
           event.kind \in {"status", "status_v1"} => IsTold(event, known),
           result.record.turned, result.outcome # None,
           result.outcome.step # "EXECUTE_ACTION"
    PROVE  /\ result.record \in Record /\ result.record.turned /\ Coherent(result.record)
           /\ IsKnown(result.record, known)
           /\ Correlates(result.record, c.command)
  BY EventKeepsKnown DEF RecordFits, GoodResult, GoodRecord

\* An observation, new or posted again: while the client polls, and after the hand-over.
LEMMA ServedObservation ==
    ASSUME NEW rec, NEW c, NEW known, ClientFits(c), OutboxFits(c, known),
           RecordFits(rec, c, known), c.outbox # None, c.mode \in {"poll", "transferred"},
           NEW fresh \in Nat, NEW pace \in Pace
    PROVE  LeadsOn(rec, c, known, HandleEvent(rec, c.outbox, 0, fresh, pace))
<1> DEFINE event == c.outbox
           result == HandleEvent(rec, event, 0, fresh, pace)
<1>1. /\ rec \in Record /\ rec.turned /\ Coherent(rec) /\ IsKnown(rec, known)
      /\ Awaits(rec, c) \/ HasConsumed(rec, c)
  BY DEF RecordFits
<1>2. c.command \in ExternalActionCommand /\ c.command # None /\ Correlates(rec, c.command)
  BY DEF ClientFits, RecordFits, Optional
<1>3. /\ IsObservation(event) /\ IsTold(event, known)
      /\ event.command = c.command /\ event.sequence = c.sequence
      /\ c.mode = "transferred" => event.seen \in TerminalObservation
  BY DEF OutboxFits
<1>4. c.sequence \in Nat \ {0}
  BY DEF ClientFits
<1> HIDE DEF event
<1>5. /\ event \in Event
      /\ event.kind \in {"status_v1", "poll_error_v1"} /\ event.seen \in Observation
  <2> DEFINE command == event.command
             seen == event.seen
             sequence == event.sequence
  <2>1. command \in ExternalActionCommand /\ sequence \in Nat \ {0}
    BY <1>2, <1>3, <1>4
  <2>2. event = [kind |-> event.kind, command |-> command, seen |-> seen,
                 sequence |-> sequence]
    BY <1>3 DEF IsObservation
  <2>3. \/ event.kind = "poll_error_v1" /\ seen \in PollError
        \/ event.kind = "status_v1" /\ seen \in StatusSeen
    BY <1>3 DEF IsObservation
  <2> HIDE DEF command, seen, sequence
  <2>4. event.kind = "poll_error_v1" /\ seen \in PollError => event \in PollErrorEventV1
    BY <2>1, <2>2 DEF PollErrorEventV1
  <2>5. event.kind = "status_v1" /\ seen \in StatusSeen => event \in StatusEventV1
    BY <2>1, <2>2 DEF StatusEventV1
  <2> QED
    BY <2>3, <2>4, <2>5 DEF Event, Observation, StatusSeen, seen
<1>6. result = ApplyObservation(rec, event, 0, pace)
  BY <1>1, <1>2, <1>3, <1>5 DEF HandleEvent, ApplyEvent
<1>7. GoodResult(rec, event, result)
  BY <1>1, <1>5, EventIsGood
<1>8. rec.operation # None
  BY <1>2 DEF Correlates
<1>9. IsAnswered(rec, event, result)
  <2>1. CASE HasConsumed(rec, c)
    <3>1. /\ Received(rec) = event.sequence
          /\ rec.polling.receipts[event.sequence]
               = [sequence |-> event.sequence, fingerprint |-> event.seen]
      BY <1>3, <2>1 DEF HasConsumed, event
    <3>2. IsAnswered(rec, event, ApplyObservation(rec, event, 0, pace))
      BY <1>1, <1>3, <1>4, <1>8, <3>1, RepeatedObservationIsAnswered
    <3> QED
      BY <1>6, <3>2
  <2>2. CASE Awaits(rec, c)
    <3>1. Received(rec) = event.sequence - 1
      BY <1>3, <2>2 DEF Awaits
    <3>2. c.mode = "poll" => CanPoll(rec)
      BY <2>2 DEF RecordFits
    <3>3. event.seen \notin TerminalObservation => CanPoll(rec)
      BY <1>3, <3>2
    <3>4. event.seen \in TerminalObservation =>
            IsActive(rec.operation) \/ rec.operation.status = StatusOf(event.seen)
      <4> SUFFICES ASSUME event.seen \in TerminalObservation, ~IsActive(rec.operation)
                   PROVE  rec.operation.status = StatusOf(event.seen)
        OBVIOUS
      <4>1. rec.operation.status \in {"confirmed", "failed"}
        BY <1>1, <1>8 DEF IsActive, Record, Optional, ExternalOperation, OperationStatus
      <4>2. known \in {"done", "failed"} /\ event.seen = Terminal[known]
        BY <1>3 DEF IsTold, Terminal
      <4> QED
        BY <1>1, <1>8, <4>1, <4>2 DEF IsKnown, StatusOf, Terminal
    <3>5. IsAnswered(rec, event, ApplyObservation(rec, event, 0, pace))
      BY <1>1, <1>3, <1>4, <1>5, <1>8, <3>1, <3>3, <3>4, NextObservationIsAnswered
    <3> QED
      BY <1>6, <3>5
  <2> QED
    BY <1>1, <2>1, <2>2
<1> HIDE DEF result
<1>10. /\ result.outcome # None /\ result.outcome.step # "EXECUTE_ACTION"
       /\ result.saved \/ result.record = rec
       /\ result.record.turned
  BY <1>1, <1>9 DEF IsAnswered
<1>11. /\ result.record \in Record /\ result.record.turned /\ Coherent(result.record)
       /\ IsKnown(result.record, known)
       /\ Correlates(result.record, c.command)
  BY <1>2, <1>3, <1>5, <1>7, <1>10, EventLeadsOn
<1>12. HasConsumed(result.record, c) /\ ~Awaits(result.record, c)
  BY <1>3, <1>4, <1>9 DEF IsAnswered, HasConsumed, Awaits, Received, event
<1>13. RecordFits(result.record, c, known)
  BY <1>11, <1>12 DEF RecordFits
<1>14. AnswerLeads(result.outcome, result.record, c)
  <2>1. result.outcome.step = "POLL_RD" => CanPoll(result.record)
    BY <1>3, <1>9, <1>12 DEF IsAnswered, CanPoll, HasConsumed
  <2>2. result.outcome.step = "DELIVER_PASSWORD" =>
          IsConfirmedReset(result.record) /\ result.record.presentation = None
    BY <1>9 DEF IsAnswered
  <2>3. IsActive(result.record.operation) => result.outcome.step \in {"POLL_RD", "TRANSFER"}
    BY <1>9 DEF IsAnswered
  <2> QED
    BY <1>2, <1>10, <1>12, <2>1, <2>2, <2>3 DEF AnswerLeads
<1> QED
  BY <1>7, <1>10, <1>13, <1>14 DEF LeadsOn, GoodResult, GoodRecord, result, event

\* The report of an uncertain call, for the first time or again.
LEMMA ServedDispatchError ==
    ASSUME NEW rec, NEW c, NEW known, ClientFits(c), OutboxFits(c, known),
           RecordFits(rec, c, known), c.outbox # None, c.mode = "dispatch",
           NEW fresh \in Nat, NEW pace \in Pace
    PROVE  LeadsOn(rec, c, known, HandleEvent(rec, c.outbox, 0, fresh, pace))
<1> DEFINE event == c.outbox
           result == HandleEvent(rec, event, 0, fresh, pace)
<1>1. /\ rec \in Record /\ rec.turned /\ Coherent(rec) /\ IsKnown(rec, known)
      /\ Awaits(rec, c) /\ CanPoll(rec)
  BY DEF RecordFits, HasConsumed
<1>2. c.command \in ExternalActionCommand /\ c.command # None /\ Correlates(rec, c.command)
  BY DEF ClientFits, RecordFits, Optional
<1>3. event = [kind |-> "dispatch_error", command |-> c.command]
  BY DEF OutboxFits
<1> HIDE DEF event
<1>4. event.kind = "dispatch_error" /\ event.command = c.command
  BY <1>3
<1>5. event \in Event
  BY <1>2, <1>3 DEF Event, DispatchErrorEvent
<1>6. result = ApplyDispatchError(rec)
  BY <1>1, <1>2, <1>4 DEF HandleEvent, ApplyEvent
<1>7. GoodResult(rec, event, result)
  BY <1>1, <1>5, EventIsGood
<1>8. /\ result.outcome # None /\ result.outcome.step = "POLL_RD"
      /\ result.saved \/ result.record = rec
      /\ result.record.turned
      /\ result.record.polling = rec.polling
      /\ IsActive(result.record.operation)
  BY <1>1, <1>6, DispatchErrorIsAnswered DEF CanPoll
<1> HIDE DEF result
<1>9. /\ result.record \in Record /\ result.record.turned /\ Coherent(result.record)
      /\ IsKnown(result.record, known)
      /\ Correlates(result.record, c.command)
  BY <1>2, <1>4, <1>5, <1>7, <1>8, EventLeadsOn
<1>10. Awaits(result.record, c) /\ CanPoll(result.record)
  BY <1>1, <1>8 DEF Awaits, CanPoll, Received
<1>11. RecordFits(result.record, c, known)
  BY <1>9, <1>10 DEF RecordFits
<1>12. AnswerLeads(result.outcome, result.record, c)
  BY <1>2, <1>8, <1>10 DEF AnswerLeads
<1> QED
  BY <1>7, <1>8, <1>11, <1>12 DEF LeadsOn, GoodResult, GoodRecord, result, event

\* The report of a playback, for the first time or again.
LEMMA ServedPlayback ==
    ASSUME NEW rec, NEW c, NEW known, ClientFits(c), OutboxFits(c, known),
           RecordFits(rec, c, known), c.outbox # None, c.mode = "played",
           NEW fresh \in Nat, NEW pace \in Pace
    PROVE  LeadsOn(rec, c, known, HandleEvent(rec, c.outbox, 0, fresh, pace))
<1> DEFINE event == c.outbox
           result == HandleEvent(rec, event, 0, fresh, pace)
<1>1. /\ rec \in Record /\ rec.turned /\ Coherent(rec) /\ IsKnown(rec, known)
      /\ Awaits(rec, c) /\ IsConfirmedReset(rec)
  BY DEF RecordFits, HasConsumed
<1>2. c.command \in ExternalActionCommand /\ c.command # None /\ Correlates(rec, c.command)
  BY DEF ClientFits, RecordFits, Optional
<1>3. PICK voice \in PlaybackVoice :
        event = [kind |-> "presentation", command |-> c.command, voice |-> voice]
  BY DEF OutboxFits, IsPlayback
<1> HIDE DEF event
<1>4. event.kind = "presentation" /\ event.command = c.command
  BY <1>3
<1>5. event \in Event
  BY <1>2, <1>3 DEF Event, PresentationEvent
<1>6. result = ApplyPresentation(rec, event)
  BY <1>1, <1>4 DEF HandleEvent, ApplyEvent
<1>7. GoodResult(rec, event, result)
  BY <1>1, <1>5, EventIsGood
<1>8. /\ result.outcome # None /\ result.outcome.step = "LISTEN"
      /\ result.saved \/ result.record = rec
      /\ result.record.turned
      /\ result.record.polling = rec.polling
      /\ result.record.operation = rec.operation
  BY <1>1, <1>2, <1>4, <1>6, PlaybackIsAnswered
<1> HIDE DEF result
<1>9. /\ result.record \in Record /\ result.record.turned /\ Coherent(result.record)
      /\ IsKnown(result.record, known)
      /\ Correlates(result.record, c.command)
  BY <1>2, <1>4, <1>5, <1>7, <1>8, EventLeadsOn
<1>10. Awaits(result.record, c) /\ IsConfirmedReset(result.record)
  BY <1>1, <1>8 DEF Awaits, IsConfirmedReset, Received
<1>11. RecordFits(result.record, c, known)
  BY <1>9, <1>10 DEF RecordFits
<1>12. AnswerLeads(result.outcome, result.record, c)
  BY <1>8 DEF AnswerLeads
<1> QED
  BY <1>7, <1>8, <1>11, <1>12 DEF LeadsOn, GoodResult, GoodRecord, result, event

\* Whatever such a client posts that is not a turn leads it on.
LEMMA ServedEvent ==
    ASSUME NEW rec, NEW c, NEW known, ClientFits(c), OutboxFits(c, known),
           RecordFits(rec, c, known), c.outbox # None, c.outbox.kind # "turn",
           NEW fresh \in Nat, NEW pace \in Pace
    PROVE  LeadsOn(rec, c, known, HandleEvent(rec, c.outbox, 0, fresh, pace))
<1>1. c.mode \in {"dispatch", "poll", "transferred", "played"}
  <2>1. \A transcript, secret : [kind |-> "turn", transcript |-> transcript,
                                secret |-> secret].kind = "turn"
    OBVIOUS
  <2>2. \A transcript, secret : c.outbox # [kind |-> "turn", transcript |-> transcript,
                                            secret |-> secret]
    BY <2>1
  <2> QED
    BY <2>2 DEF OutboxFits
<1> QED
  BY <1>1, ServedDispatchError, ServedObservation, ServedPlayback

--------------------------------------------------------------------------------
(* The invariant. *)

\* The conversation begins with a coherent record that has consumed nothing.
LEMMA InitRecoveryInv == Init => RecoveryInv
<1> SUFFICES ASSUME Init PROVE RecoveryInv
  OBVIOUS
<1>1. doc \in Record /\ IsAsked(doc)
  BY ClientAssumption DEF Init
<1>2. Coherent(doc)
  BY <1>1 DEF IsAsked, Coherent, DispatchNames, ChallengeFits, ReceiptsFit, ReceiptsAgreeIn,
              PresentationFits, IsActive
<1>3. /\ client = [mode |-> "talk", outbox |-> None, command |-> None, sequence |-> 1,
                   secret |-> FALSE]
      /\ wire = Silence /\ rd = "unknown"
  BY DEF Init
<1>4. ClientFits(client) /\ OutboxFits(client, rd)
  BY <1>3 DEF ClientFits, OutboxFits, Mode, Optional
<1>5. Received(doc) = 0
  BY <1>1 DEF IsAsked, Received
<1>6. RecordFits(doc, client, rd)
  BY <1>1, <1>2, <1>3, <1>5 DEF RecordFits, IsAsked, IsKnown, Awaits
<1> QED
  BY <1>3, <1>4, <1>6 DEF RecoveryInv, WireFits

\* Nothing is on the way while the client holds nothing, and a record whose observation was
\* consumed is one the client still holds.
LEMMA RestingClient ==
    ASSUME RecoveryInv, client.outbox = None
    PROVE  wire = Silence /\ Awaits(doc, client)
  BY DEF RecoveryInv, WireFits, RecordFits, HasConsumed

\* What fits the place the client is at may be posted from it.
LEMMA HoldKeepsInv ==
    ASSUME RecoveryInv, client.outbox = None, NEW input, input # None, Hold(input),
           UNCHANGED <<doc, wire>>, rd' \in {"unknown", "running", "done", "failed"},
           IsKnown(doc, rd'), client.mode = "transferred" => client.command # None,
           OutboxFits([client EXCEPT !.outbox = input], rd')
    PROVE  RecoveryInv'
<1> DEFINE c == [client EXCEPT !.outbox = input]
<1>1. wire = Silence /\ Awaits(doc, client)
  BY RestingClient
<1>2. ClientFits(client) /\ RecordFits(doc, client, rd)
  BY DEF RecoveryInv
<1>3. /\ c.mode = client.mode /\ c.outbox = input /\ c.command = client.command
      /\ c.sequence = client.sequence /\ c.secret = client.secret
      /\ c = [mode |-> c.mode, outbox |-> c.outbox, command |-> c.command,
              sequence |-> c.sequence, secret |-> c.secret]
  BY <1>2 DEF ClientFits
<1>4. client' = c
  BY DEF Hold
<1> HIDE DEF c
<1>5. ClientFits(c)
  BY <1>2, <1>3 DEF ClientFits
<1>6. Awaits(doc, c)
  BY <1>1, <1>3 DEF Awaits
<1>7. RecordFits(doc, c, rd')
  BY <1>1, <1>2, <1>3, <1>6 DEF RecordFits
<1>8. OutboxFits(c, rd')
  BY DEF c
<1>9. doc' = doc /\ wire' = Silence
  BY <1>1
<1>10. ClientFits(client') /\ OutboxFits(client', rd') /\ RecordFits(doc', client', rd')
  BY <1>4, <1>5, <1>7, <1>8, <1>9
<1> QED
  BY <1>9, <1>10 DEF RecoveryInv, WireFits

\* The caller speaks.
LEMMA SpeakKeepsInv == RecoveryInv /\ Speak => RecoveryInv'
<1> SUFFICES ASSUME RecoveryInv, Speak PROVE RecoveryInv'
  OBVIOUS
<1> DEFINE input == [kind |-> "turn", transcript |-> TRUE, secret |-> client.secret]
<1>1. /\ client.mode = "talk" /\ client.outbox = None /\ Hold(input)
      /\ UNCHANGED <<doc, wire>> /\ rd' = rd
  BY DEF Speak, Rests
<1>2. input # None
  <2>1. client.secret \in BOOLEAN
    BY DEF RecoveryInv, ClientFits
  <2>2. \A secret \in BOOLEAN :
          [kind |-> "turn", transcript |-> TRUE, secret |-> secret] \in TurnInput
    BY DEF TurnInput
  <2> QED
    BY <2>1, <2>2, ClientAssumption
<1>3. OutboxFits([client EXCEPT !.outbox = input], rd')
  BY <1>1 DEF OutboxFits, RecoveryInv, ClientFits
<1> HIDE DEF input
<1>4. rd' \in {"unknown", "running", "done", "failed"} /\ IsKnown(doc, rd')
  BY <1>1 DEF RecoveryInv, RecordFits
<1> QED
  BY <1>1, <1>2, <1>3, <1>4, HoldKeepsInv

\* RD settles the operation: nothing terminal was told of it before.
LEMMA RDSettlesKeepsInv == RecoveryInv /\ RDSettles => RecoveryInv'
<1> SUFFICES ASSUME RecoveryInv, RDSettles PROVE RecoveryInv'
  OBVIOUS
<1>1. /\ rd = "running" /\ rd' \in {"done", "failed"}
      /\ doc' = doc /\ client' = client /\ wire' = wire
  BY DEF RDSettles
<1>2. IsKnown(doc, rd')
  BY <1>1 DEF RecoveryInv, RecordFits, IsKnown
<1>3. RecordFits(doc', client', rd')
  BY <1>1, <1>2 DEF RecoveryInv, RecordFits
<1>4. \A input : IsTold(input, rd) => IsTold(input, rd')
  BY <1>1 DEF IsTold, Terminal
<1>5. OutboxFits(client, rd')
  BY <1>4 DEF RecoveryInv, OutboxFits
<1> QED
  BY <1>1, <1>3, <1>5 DEF RecoveryInv, WireFits

\* The call to RD leaves an active operation, whatever reached it.
LEMMA CallRDKeepsInv == RecoveryInv /\ CallRD => RecoveryInv'
<1> SUFFICES ASSUME RecoveryInv, CallRD PROVE RecoveryInv'
  OBVIOUS
<1>1. /\ client.mode = "dispatch" /\ client.outbox = None
      /\ doc' = doc /\ wire' = wire
      /\ \/ rd' = "running" /\ client' = [client EXCEPT !.mode = "poll"]
         \/ /\ rd' \in {"unknown", "running"}
            /\ Hold([kind |-> "dispatch_error", command |-> client.command])
  BY DEF CallRD, Rests
<1>2. wire = Silence /\ Awaits(doc, client)
  BY <1>1, RestingClient
<1>3. ClientFits(client) /\ RecordFits(doc, client, rd)
  BY DEF RecoveryInv
<1>4. CanPoll(doc)
  BY <1>1, <1>2, <1>3 DEF RecordFits
<1>5. \A known : IsKnown(doc, known)
  BY <1>4 DEF CanPoll, IsActive, IsKnown
<1>6. CASE rd' = "running" /\ client' = [client EXCEPT !.mode = "poll"]
  <2> DEFINE c == [client EXCEPT !.mode = "poll"]
  <2>1. /\ c.mode = "poll" /\ c.outbox = None /\ c.command = client.command
        /\ c.sequence = client.sequence /\ c.secret = client.secret
        /\ c = [mode |-> c.mode, outbox |-> c.outbox, command |-> c.command,
                sequence |-> c.sequence, secret |-> c.secret]
    BY <1>1, <1>3 DEF ClientFits
  <2> HIDE DEF c
  <2>2. ClientFits(c)
    BY <1>1, <1>3, <2>1 DEF ClientFits, Mode
  <2>3. Awaits(doc, c)
    BY <1>2, <2>1 DEF Awaits
  <2>4. RecordFits(doc, c, rd')
    BY <1>3, <1>4, <1>5, <2>1, <2>3 DEF RecordFits
  <2>5. OutboxFits(c, rd')
    BY <2>1 DEF OutboxFits
  <2>6. /\ ClientFits(client') /\ OutboxFits(client', rd') /\ RecordFits(doc', client', rd')
        /\ wire' = Silence
    BY <1>1, <1>2, <1>6, <2>2, <2>4, <2>5 DEF c
  <2> QED
    BY <1>6, <2>6 DEF RecoveryInv, WireFits
<1>7. CASE /\ rd' \in {"unknown", "running"}
           /\ Hold([kind |-> "dispatch_error", command |-> client.command])
  <2> DEFINE input == [kind |-> "dispatch_error", command |-> client.command]
  <2>1. client.command \in ExternalActionCommand
    BY <1>1, <1>3 DEF ClientFits, Optional
  <2>2. input \in Event
    BY <2>1 DEF Event, DispatchErrorEvent
  <2>3. input # None
    BY <2>2, ClientAssumption
  <2>4. OutboxFits([client EXCEPT !.outbox = input], rd')
    BY <1>1, <1>3 DEF OutboxFits, ClientFits
  <2>5. Hold(input)
    BY <1>7
  <2> HIDE DEF input
  <2> QED
    BY <1>1, <1>5, <1>7, <2>3, <2>4, <2>5, HoldKeepsInv
<1> QED
  BY <1>1, <1>6, <1>7

\* What an observation looks like when the client numbers it.
LEMMA SequencedFits ==
    ASSUME RecoveryInv, client.mode \in {"poll", "transferred"}, client.command # None,
           NEW seen \in PollError \cup StatusSeen, IsTold([seen |-> seen], rd),
           client.mode = "transferred" => seen \in TerminalObservation
    PROVE  /\ Sequenced(seen) # None
           /\ OutboxFits([client EXCEPT !.outbox = Sequenced(seen)], rd)
<1> DEFINE input == Sequenced(seen)
           c == [client EXCEPT !.outbox = input]
<1>1. client.command \in ExternalActionCommand /\ client.sequence \in Nat \ {0}
  BY DEF RecoveryInv, ClientFits, Optional
<1>2. /\ input.seen = seen /\ input.command = client.command
      /\ input.sequence = client.sequence
      /\ input = [kind |-> input.kind, command |-> input.command, seen |-> input.seen,
                  sequence |-> input.sequence]
      /\ \/ input.kind = "poll_error_v1" /\ seen \in PollError
         \/ input.kind = "status_v1" /\ seen \in StatusSeen
  BY DEF Sequenced
<1>3. input \in Event
  BY <1>1, <1>2 DEF Event, PollErrorEventV1, StatusEventV1, Sequenced
<1>4. input # None
  BY <1>3, ClientAssumption
<1> HIDE DEF input
<1>5. /\ c.mode = client.mode /\ c.outbox = input /\ c.command = client.command
      /\ c.sequence = client.sequence
  BY DEF RecoveryInv, ClientFits
<1>6. IsObservation(input) /\ IsTold(input, rd)
  BY <1>2 DEF IsObservation, IsTold
<1> HIDE DEF c
<1>7. OutboxFits(c, rd)
  BY <1>2, <1>5, <1>6 DEF OutboxFits
<1> QED
  BY <1>4, <1>7 DEF c, input

\* An observation of RD, while the client polls.
LEMMA ObserveRDKeepsInv == RecoveryInv /\ ObserveRD => RecoveryInv'
<1> SUFFICES ASSUME RecoveryInv, ObserveRD PROVE RecoveryInv'
  OBVIOUS
<1>1. /\ client.mode = "poll" /\ client.outbox = None
      /\ UNCHANGED <<doc, wire>> /\ rd' = rd
  BY DEF ObserveRD, Rests
<1>2. PICK seen \in {"ERROR_TIMEOUT"} \cup
                    IF rd \in DOMAIN Terminal THEN {Terminal[rd]} ELSE {"PENDING", "UNRECOGNIZED"} :
        Hold(Sequenced(seen))
  BY DEF ObserveRD
<1>3. /\ seen \in PollError \cup StatusSeen /\ IsTold([seen |-> seen], rd)
  BY <1>2 DEF Terminal, PollError, StatusSeen, TerminalObservation, IsTold
<1>4. client.command # None
  BY <1>1 DEF RecoveryInv, ClientFits
<1>5. /\ Sequenced(seen) # None
      /\ OutboxFits([client EXCEPT !.outbox = Sequenced(seen)], rd)
  BY <1>1, <1>3, <1>4, SequencedFits
<1>6. rd' \in {"unknown", "running", "done", "failed"} /\ IsKnown(doc, rd')
  BY <1>1 DEF RecoveryInv, RecordFits
<1> QED
  BY <1>1, <1>2, <1>4, <1>5, <1>6, HoldKeepsInv

\* A result of RD, after the call was handed over.
LEMMA ObserveRDLateKeepsInv == RecoveryInv /\ ObserveRDLate => RecoveryInv'
<1> SUFFICES ASSUME RecoveryInv, ObserveRDLate PROVE RecoveryInv'
  OBVIOUS
<1> DEFINE seen == Terminal[rd]
<1>1. /\ client.mode = "transferred" /\ client.outbox = None /\ client.command # None
      /\ rd \in DOMAIN Terminal /\ Hold(Sequenced(seen))
      /\ UNCHANGED <<doc, wire>> /\ rd' = rd
  BY DEF ObserveRDLate, Rests
<1>2. seen \in TerminalObservation /\ IsTold([seen |-> seen], rd)
  BY <1>1 DEF Terminal, TerminalObservation, IsTold
<1>3. seen \in PollError \cup StatusSeen
  BY <1>2 DEF StatusSeen
<1> HIDE DEF seen
<1>4. /\ Sequenced(seen) # None
      /\ OutboxFits([client EXCEPT !.outbox = Sequenced(seen)], rd)
  BY <1>1, <1>2, <1>3, SequencedFits
<1>5. rd' \in {"unknown", "running", "done", "failed"} /\ IsKnown(doc, rd')
  BY <1>1 DEF RecoveryInv, RecordFits
<1> QED
  BY <1>1, <1>4, <1>5, HoldKeepsInv

\* The first dictation of the password.
LEMMA PresentKeepsInv == RecoveryInv /\ Present => RecoveryInv'
<1> SUFFICES ASSUME RecoveryInv, Present PROVE RecoveryInv'
  OBVIOUS
<1> DEFINE input == [kind |-> "turn", transcript |-> FALSE, secret |-> TRUE]
<1>1. /\ client.mode = "present" /\ client.outbox = None /\ Hold(input)
      /\ UNCHANGED <<doc, wire>> /\ rd' = rd
  BY DEF Present, Rests
<1>2. input # None
  <2>1. input \in TurnInput
    BY DEF TurnInput
  <2> QED
    BY <2>1, ClientAssumption
<1>3. OutboxFits([client EXCEPT !.outbox = input], rd')
  BY <1>1 DEF OutboxFits, RecoveryInv, ClientFits
<1> HIDE DEF input
<1>4. rd' \in {"unknown", "running", "done", "failed"} /\ IsKnown(doc, rd')
  BY <1>1 DEF RecoveryInv, RecordFits
<1> QED
  BY <1>1, <1>2, <1>3, <1>4, HoldKeepsInv

\* The report of what was dictated.
LEMMA ReportPlaybackKeepsInv == RecoveryInv /\ ReportPlayback => RecoveryInv'
<1> SUFFICES ASSUME RecoveryInv, ReportPlayback PROVE RecoveryInv'
  OBVIOUS
<1>1. /\ client.mode = "played" /\ client.outbox = None
      /\ UNCHANGED <<doc, wire>> /\ rd' = rd
  BY DEF ReportPlayback, Rests
<1>2. PICK voice \in PlaybackVoice :
        Hold([kind |-> "presentation", command |-> client.command, voice |-> voice])
  BY DEF ReportPlayback
<1> DEFINE input == [kind |-> "presentation", command |-> client.command, voice |-> voice]
<1>3. client.command \in ExternalActionCommand
  BY <1>1 DEF RecoveryInv, ClientFits, Optional
<1>4. input # None
  <2>1. input \in Event
    BY <1>2, <1>3 DEF Event, PresentationEvent
  <2> QED
    BY <2>1, ClientAssumption
<1>5. IsPlayback(input, client.command)
  BY DEF IsPlayback
<1>6. Hold(input)
  BY <1>2
<1> HIDE DEF input
<1>7. OutboxFits([client EXCEPT !.outbox = input], rd')
  BY <1>1, <1>5 DEF OutboxFits, RecoveryInv, ClientFits
<1>8. rd' \in {"unknown", "running", "done", "failed"} /\ IsKnown(doc, rd')
  BY <1>1 DEF RecoveryInv, RecordFits
<1> QED
  BY <1>1, <1>4, <1>6, <1>7, <1>8, HoldKeepsInv

\* What is sent is what the client holds.
LEMMA SendKeepsInv == RecoveryInv /\ Send => RecoveryInv'
<1> SUFFICES ASSUME RecoveryInv, Send PROVE RecoveryInv'
  OBVIOUS
<1>1. /\ client.outbox # None
      /\ wire' = [Silence EXCEPT !.leg = "request", !.input = client.outbox]
      /\ doc' = doc /\ client' = client /\ rd' = rd
  BY DEF Send
<1>2. wire' = [leg |-> "request", input |-> client.outbox, outcome |-> None]
  BY <1>1 DEF Silence
<1> QED
  BY <1>1, <1>2 DEF RecoveryInv, WireFits

\* What is served is what the client holds.
LEMMA ServedIsHeld ==
    ASSUME RecoveryInv, wire.leg = "request"
    PROVE  client.outbox # None /\ wire.input = client.outbox /\ Fresh \in Nat
<1>1. wire # Silence /\ wire.leg # "answer"
  BY DEF Silence
<1>2. /\ client.outbox # None
      /\ wire = [leg |-> "request", input |-> client.outbox, outcome |-> None]
  BY <1>1 DEF RecoveryInv, WireFits
<1>3. Fresh \in Nat
  BY ClientAssumption DEF RecoveryInv, RecordFits, Record, Optional, ConfirmationChallenge, Fresh
<1>4. wire.input = client.outbox
  BY <1>2
<1> QED
  BY <1>2, <1>3, <1>4

\* Serving changes the record and puts the answer on the way.
LEMMA ReplyKeepsInv ==
    ASSUME RecoveryInv, wire.leg = "request", NEW outcome, Reply(outcome),
           UNCHANGED <<client, rd>>, RecordFits(doc', client, rd),
           AnswerLeads(outcome, doc', client)
    PROVE  RecoveryInv'
<1>1. /\ client.outbox # None
      /\ wire' = [leg |-> "answer", input |-> client.outbox, outcome |-> outcome]
  BY ServedIsHeld DEF Reply
<1>2. wire' = [leg |-> "answer", input |-> client'.outbox, outcome |-> wire'.outcome]
      /\ wire'.outcome = outcome
  BY <1>1
<1> QED
  BY <1>1, <1>2 DEF RecoveryInv, WireFits

LEMMA ServeTurnKeepsInv ==
    ASSUME RecoveryInv, NEW dec \in Decisions, ServeTurn(dec)
    PROVE  RecoveryInv'
<1> DEFINE result == AdvanceTurn(doc, wire.input, dec, 0, Fresh)
<1>1. /\ wire.leg = "request" /\ wire.input.kind = "turn"
      /\ dec.finished => wire.input.transcript
      /\ doc' = result.record /\ Reply(result.outcome) /\ client' = client /\ rd' = rd
  BY DEF ServeTurn
<1>2. client.outbox # None /\ wire.input = client.outbox /\ Fresh \in Nat
  BY <1>1, ServedIsHeld
<1>3. dec \in ModelTurnDecision
  BY ClientAssumption
<1>4. ClientFits(client) /\ OutboxFits(client, rd) /\ RecordFits(doc, client, rd)
  BY DEF RecoveryInv
<1>5. /\ RecordFits(result.record, client, rd)
      /\ AnswerLeads(result.outcome, result.record, client)
  BY <1>1, <1>2, <1>3, <1>4, ServedTurn
<1> HIDE DEF result
<1> QED
  BY <1>1, <1>5, ReplyKeepsInv

LEMMA ServeEventKeepsInv ==
    ASSUME RecoveryInv, NEW pace \in Pace, ServeEvent(pace)
    PROVE  RecoveryInv'
<1> DEFINE result == HandleEvent(doc, wire.input, 0, Fresh, pace)
<1>1. /\ wire.leg = "request" /\ wire.input.kind # "turn"
      /\ doc' = IF result.saved THEN result.record ELSE doc
      /\ Reply(result.outcome) /\ client' = client /\ rd' = rd
  BY DEF ServeEvent
<1>2. client.outbox # None /\ wire.input = client.outbox /\ Fresh \in Nat
  BY <1>1, ServedIsHeld
<1>3. ClientFits(client) /\ OutboxFits(client, rd) /\ RecordFits(doc, client, rd)
  BY DEF RecoveryInv
<1>4. LeadsOn(doc, client, rd, result)
  BY <1>1, <1>2, <1>3, ServedEvent
<1> HIDE DEF result
<1>5. /\ RecordFits(doc', client, rd) /\ AnswerLeads(result.outcome, doc', client)
  BY <1>1, <1>4 DEF LeadsOn
<1> QED
  BY <1>1, <1>5, ReplyKeepsInv

\* The kind of what the client holds tells where it is.
LEMMA HeldKind ==
    ASSUME ClientFits(client), OutboxFits(client, rd), client.outbox # None
    PROVE  /\ client.outbox.kind = "turn" <=> client.mode \in {"talk", "present"}
           /\ client.outbox.kind \in {"status_v1", "poll_error_v1"}
                <=> client.mode \in {"poll", "transferred"}
           /\ client.mode \in {"poll", "transferred"} => client.outbox.sequence = client.sequence
           /\ client.mode = "talk" => client.outbox.transcript
           /\ client.mode = "present" => ~client.outbox.transcript
<1>1. CASE /\ client.mode = "talk"
           /\ client.outbox = [kind |-> "turn", transcript |-> TRUE, secret |-> client.secret]
  BY <1>1
<1>2. CASE /\ client.mode = "present"
           /\ client.outbox = [kind |-> "turn", transcript |-> FALSE, secret |-> TRUE]
  BY <1>2
<1>3. CASE /\ client.mode = "dispatch"
           /\ client.outbox = [kind |-> "dispatch_error", command |-> client.command]
  BY <1>3
<1>4. CASE /\ client.mode \in {"poll", "transferred"}
           /\ IsObservation(client.outbox) /\ client.outbox.sequence = client.sequence
  <2>1. client.outbox.kind \in {"status_v1", "poll_error_v1"}
    BY <1>4 DEF IsObservation
  <2> QED
    BY <1>4, <2>1
<1>5. CASE client.mode = "played" /\ IsPlayback(client.outbox, client.command)
  <2>1. PICK voice \in PlaybackVoice :
          client.outbox = [kind |-> "presentation", command |-> client.command, voice |-> voice]
    BY <1>5 DEF IsPlayback
  <2>2. client.outbox.kind = "presentation"
    BY <2>1
  <2> QED
    BY <1>5, <2>2
<1> QED
  BY <1>1, <1>2, <1>3, <1>4, <1>5 DEF OutboxFits

\* Where the answer leads, there is what the client needs there.
LEMMA HearKeepsInv == RecoveryInv /\ Hear => RecoveryInv'
<1> SUFFICES ASSUME RecoveryInv, Hear PROVE RecoveryInv'
  OBVIOUS
<1> DEFINE input == client.outbox
           outcome == wire.outcome
           mode == ModeAfter(input, outcome)
           command == IF mode = "dispatch" THEN outcome.command ELSE client.command
           sequence == IF input.kind \in {"status_v1", "poll_error_v1"}
                       THEN input.sequence + 1 ELSE client.sequence
           secret == client.secret \/ mode = "present"
           c == [mode |-> mode, outbox |-> None, command |-> command,
                 sequence |-> sequence, secret |-> secret]
<1>1. ClientFits(client) /\ OutboxFits(client, rd) /\ RecordFits(doc, client, rd)
  BY DEF RecoveryInv
<1>2. client.outbox # None /\ wire.input = input /\ AnswerLeads(outcome, doc, client)
  <2>1. wire.leg = "answer" /\ wire # Silence
    BY DEF Hear, Silence
  <2>2. /\ client.outbox # None
        /\ wire = [leg |-> "answer", input |-> client.outbox, outcome |-> wire.outcome]
        /\ AnswerLeads(wire.outcome, doc, client)
    BY <2>1 DEF RecoveryInv, WireFits
  <2>3. wire.input = client.outbox
    BY <2>2
  <2> QED
    BY <2>2, <2>3
<1>3. /\ client' = c /\ wire' = Silence /\ doc' = doc /\ rd' = rd
  <2>1. client' = [client EXCEPT
                     !.mode = mode, !.outbox = None, !.command = command,
                     !.sequence = sequence, !.secret = secret]
    BY <1>2 DEF Hear
  <2> HIDE DEF mode, command, sequence, secret
  <2>2. client' = c
    BY <1>1, <2>1 DEF ClientFits
  <2> QED
    BY <2>2 DEF Hear
<1>4. /\ input.kind = "turn" <=> client.mode \in {"talk", "present"}
      /\ input.kind \in {"status_v1", "poll_error_v1"} <=> client.mode \in {"poll", "transferred"}
      /\ client.mode \in {"poll", "transferred"} => input.sequence = client.sequence
  BY <1>1, <1>2, HeldKind
<1> HIDE DEF input, outcome
<1>5. /\ mode \in Mode
      /\ mode = "dispatch" => outcome.step = "EXECUTE_ACTION"
      /\ mode = "poll" => outcome.step = "POLL_RD"
      /\ mode = "present" => /\ outcome.step = "DELIVER_PASSWORD" /\ input.kind # "turn"
      /\ mode = "played" => outcome.step = "DELIVER_PASSWORD"
  BY <1>2 DEF ModeAfter, AnswerLeads, Mode
<1>6. Received(doc) = sequence - 1 /\ sequence \in Nat \ {0}
  <2>1. client.sequence \in Nat \ {0}
    BY <1>1 DEF ClientFits
  <2>2. CASE client.mode \in {"poll", "transferred"}
    BY <1>2, <1>4, <2>1, <2>2 DEF AnswerLeads, HasConsumed
  <2>3. CASE client.mode \notin {"poll", "transferred"}
    BY <1>1, <1>4, <2>1, <2>3 DEF RecordFits, Awaits, HasConsumed
  <2> QED
    BY <2>2, <2>3
<1>7. /\ mode = "dispatch" => /\ outcome.command \in ExternalActionCommand
                              /\ Correlates(doc, outcome.command) /\ CanPoll(doc)
      /\ mode = "poll" => client.command # None /\ CanPoll(doc)
      /\ mode \in {"present", "played"} => IsConfirmedReset(doc) /\ client.command # None
      /\ mode = "present" => doc.presentation = None
  BY <1>2, <1>4, <1>5 DEF AnswerLeads
<1> HIDE DEF mode, sequence
<1>8. /\ command \in Optional(ExternalActionCommand)
      /\ client.command # None \/ mode = "dispatch" => command # None
      /\ command # None => Correlates(doc, command)
      /\ secret \in BOOLEAN
      /\ secret => command # None
      /\ mode \in {"dispatch", "poll", "present", "played"} => command # None
  <2>1. mode = "dispatch" => outcome.command # None
    BY <1>7, NoOutcomeAssumption
  <2>2. /\ client.command \in Optional(ExternalActionCommand)
        /\ client.secret \in BOOLEAN /\ (client.secret => client.command # None)
        /\ client.command # None => Correlates(doc, client.command)
    BY <1>1 DEF ClientFits, RecordFits
  <2> QED
    BY <1>7, <2>1, <2>2 DEF Optional
<1> HIDE DEF command, secret
<1>9. /\ c.mode = mode /\ c.outbox = None /\ c.command = command /\ c.sequence = sequence
      /\ c.secret = secret
      /\ c = [mode |-> c.mode, outbox |-> c.outbox, command |-> c.command,
              sequence |-> c.sequence, secret |-> c.secret]
  OBVIOUS
<1> HIDE DEF c
<1>10. ClientFits(c) /\ OutboxFits(c, rd)
  BY <1>5, <1>6, <1>8, <1>9 DEF ClientFits, OutboxFits
<1>11. Awaits(doc, c)
  BY <1>6, <1>9 DEF Awaits
<1>12. RecordFits(doc, c, rd)
  BY <1>1, <1>7, <1>8, <1>9, <1>11 DEF RecordFits
<1>13. ClientFits(client') /\ OutboxFits(client', rd') /\ RecordFits(doc', client', rd')
  BY <1>3, <1>10, <1>12
<1> QED
  BY <1>3, <1>13 DEF RecoveryInv, WireFits

\* A turn whose answer is lost is gone; what is not a turn is still held.
LEMMA LoseKeepsInv == RecoveryInv /\ Lose => RecoveryInv'
<1> SUFFICES ASSUME RecoveryInv, Lose PROVE RecoveryInv'
  OBVIOUS
<1>1. ClientFits(client) /\ OutboxFits(client, rd) /\ RecordFits(doc, client, rd)
  BY DEF RecoveryInv
<1>2. client.outbox # None /\ wire.input = client.outbox
  <2>1. wire.leg # "none" /\ wire # Silence
    BY DEF Lose, Silence
  <2>2. /\ client.outbox # None
        /\ \/ wire = [leg |-> "request", input |-> client.outbox, outcome |-> None]
           \/ wire = [leg |-> "answer", input |-> client.outbox, outcome |-> wire.outcome]
    BY <2>1 DEF RecoveryInv, WireFits
  <2> QED
    BY <2>2
<1>3. wire' = Silence /\ doc' = doc /\ rd' = rd
  BY DEF Lose
<1>4. CASE IsSpoken(client.outbox)
  <2> DEFINE c == [client EXCEPT !.outbox = None]
  <2>1. client.mode = "talk"
    BY <1>1, <1>2, <1>4, HeldKind DEF IsSpoken
  <2>2. client' = c
    BY <1>2, <1>4 DEF Lose
  <2>3. /\ c.mode = "talk" /\ c.outbox = None /\ c.command = client.command
        /\ c.sequence = client.sequence /\ c.secret = client.secret
        /\ c = [mode |-> c.mode, outbox |-> c.outbox, command |-> c.command,
                sequence |-> c.sequence, secret |-> c.secret]
    BY <1>1, <2>1 DEF ClientFits
  <2> HIDE DEF c
  <2>4. ClientFits(c) /\ OutboxFits(c, rd)
    BY <1>1, <2>3 DEF ClientFits, OutboxFits, Mode
  <2>5. Awaits(doc, c)
    BY <1>1, <2>1, <2>3 DEF RecordFits, Awaits, HasConsumed
  <2>6. RecordFits(doc, c, rd)
    BY <1>1, <2>3, <2>5 DEF RecordFits
  <2>7. ClientFits(client') /\ OutboxFits(client', rd') /\ RecordFits(doc', client', rd')
    BY <1>3, <2>2, <2>4, <2>6
  <2> QED
    BY <1>3, <2>7 DEF RecoveryInv, WireFits
<1>5. CASE ~IsSpoken(client.outbox)
  <2>1. client' = client
    BY <1>2, <1>5 DEF Lose
  <2> QED
    BY <1>3, <2>1 DEF RecoveryInv, WireFits
<1> QED
  BY <1>4, <1>5

\* Every step of the client, of the service and of the wire keeps the invariant.
LEMMA NextRecoveryInv == RecoveryInv /\ [Next]_vars => RecoveryInv'
<1> SUFFICES ASSUME RecoveryInv, [Next]_vars PROVE RecoveryInv'
  OBVIOUS
<1>1. CASE Speak
  BY <1>1, SpeakKeepsInv
<1>2. CASE RDSettles
  BY <1>2, RDSettlesKeepsInv
<1>3. CASE CallRD
  BY <1>3, CallRDKeepsInv
<1>4. CASE ObserveRD
  BY <1>4, ObserveRDKeepsInv
<1>5. CASE ObserveRDLate
  BY <1>5, ObserveRDLateKeepsInv
<1>6. CASE Present
  BY <1>6, PresentKeepsInv
<1>7. CASE ReportPlayback
  BY <1>7, ReportPlaybackKeepsInv
<1>8. CASE Send
  BY <1>8, SendKeepsInv
<1>9. CASE \E dec \in Decisions : ServeTurn(dec)
  BY <1>9, ServeTurnKeepsInv
<1>10. CASE \E pace \in Pace : ServeEvent(pace)
  BY <1>10, ServeEventKeepsInv
<1>11. CASE Hear
  BY <1>11, HearKeepsInv
<1>12. CASE Lose
  BY <1>12, LoseKeepsInv
<1>13. CASE UNCHANGED vars
  BY <1>13 DEF vars, RecoveryInv, WireFits
<1> QED
  BY <1>1, <1>2, <1>3, <1>4, <1>5, <1>6, <1>7, <1>8, <1>9, <1>10, <1>11, <1>12, <1>13 DEF Next

\* Whatever is lost, the client, what it posts and the stored record keep step: the record has
\* consumed every observation the client had answered and at most the one it still holds.
THEOREM RecoveryInvariance == Spec => []RecoveryInv
<1>1. Init => RecoveryInv
  BY InitRecoveryInv
<1>2. RecoveryInv /\ [Next]_vars => RecoveryInv'
  BY NextRecoveryInv
<1> QED
  BY <1>1, <1>2, PTL DEF Spec

\* A client that keeps the protocol is never answered a conflict or an error, however often
\* it has to post again: every duplicate is acknowledged by apply_integration_event.
THEOREM RetriesAreNeverRefused == Spec => []RetryIsNeverRefused
<1>1. RecoveryInv => RetryIsNeverRefused
  BY DEF RecoveryInv, ClientFits, Mode, RetryIsNeverRefused
<1> QED
  BY <1>1, RecoveryInvariance, PTL

--------------------------------------------------------------------------------
(* The one order. *)

\* RD knows of no order the record does not; an order that is still on its way to RD, in an
\* answer or with a client that has not called yet, is one RD knows nothing of.
OrderInv ==
    /\ rd # "unknown" => doc.operation # None
    /\ Rests("dispatch") => rd = "unknown"
    /\ wire.leg = "answer" /\ wire.outcome.step = "EXECUTE_ACTION" => rd = "unknown"

\* A turn keeps the operation and its guard, or starts them; it orders only then.
LEMMA ServeTurnMoves ==
    ASSUME RecoveryInv, NEW dec \in Decisions, ServeTurn(dec)
    PROVE  /\ \/ doc'.operation = doc.operation /\ doc'.dispatch = doc.dispatch
              \/ /\ doc.operation = None
                 /\ doc'.operation # None /\ doc'.operation.status = "pending"
                 /\ doc'.dispatch # None
           /\ wire'.outcome.step = "EXECUTE_ACTION" => doc.operation = None
           /\ UNCHANGED <<client, rd>>
<1> DEFINE result == AdvanceTurn(doc, wire.input, dec, 0, Fresh)
<1>1. /\ wire.leg = "request" /\ wire.input.kind = "turn"
      /\ dec.finished => wire.input.transcript
      /\ doc' = result.record /\ wire'.outcome = result.outcome /\ UNCHANGED <<client, rd>>
  BY DEF ServeTurn, Reply
<1>2. client.outbox # None /\ wire.input = client.outbox /\ Fresh \in Nat
  BY <1>1, ServedIsHeld
<1>3. dec \in ModelTurnDecision
  BY ClientAssumption
<1>4. ClientFits(client) /\ OutboxFits(client, rd) /\ RecordFits(doc, client, rd)
  BY DEF RecoveryInv
<1>5. /\ KeepsOrStarts(doc, result, Fresh)
      /\ result.outcome.step = "EXECUTE_ACTION" => doc.operation = None
  BY <1>1, <1>2, <1>3, <1>4, ServedTurn
<1> HIDE DEF result
<1> QED
  BY <1>1, <1>5 DEF KeepsOrStarts

\* An event moves the operation forward and orders nothing.
LEMMA ServeEventMoves ==
    ASSUME RecoveryInv, NEW pace \in Pace, ServeEvent(pace)
    PROVE  /\ OperationMoves(doc, wire.input, doc')
           /\ wire'.outcome.step # "EXECUTE_ACTION"
           /\ UNCHANGED <<client, rd>>
<1> DEFINE result == HandleEvent(doc, wire.input, 0, Fresh, pace)
<1>1. /\ wire.leg = "request" /\ wire.input.kind # "turn"
      /\ doc' = IF result.saved THEN result.record ELSE doc
      /\ wire'.outcome = result.outcome /\ UNCHANGED <<client, rd>>
  BY DEF ServeEvent, Reply
<1>2. client.outbox # None /\ wire.input = client.outbox /\ Fresh \in Nat
  BY <1>1, ServedIsHeld
<1>3. ClientFits(client) /\ OutboxFits(client, rd) /\ RecordFits(doc, client, rd)
  BY DEF RecoveryInv
<1>4. LeadsOn(doc, client, rd, result)
  BY <1>1, <1>2, <1>3, ServedEvent
<1> HIDE DEF result
<1> QED
  BY <1>1, <1>2, <1>4 DEF LeadsOn

\* An operation is never forgotten.
LEMMA EventKeepsOperation ==
    ASSUME NEW rec \in Record, NEW event, NEW new, OperationMoves(rec, event, new),
           rec.operation # None
    PROVE  new.operation # None
<1>1. rec.operation \in ExternalOperation
  BY DEF Record, Optional
<1>2. \A status \in OperationStatus :
        [rec.operation EXCEPT !.status = status] \in ExternalOperation
  BY <1>1 DEF ExternalOperation
<1>3. "unknown" \in OperationStatus /\ StatusOf(event.seen) \in OperationStatus
  BY DEF OperationStatus, StatusOf
<1> QED
  BY <1>2, <1>3, NoneAssumption DEF OperationMoves

\* A client that calls RD holds an order that is to be observed.
LEMMA CallRDFindsOrder ==
    ASSUME RecoveryInv, CallRD
    PROVE  wire = Silence /\ doc.operation # None
<1>1. client.mode = "dispatch" /\ client.outbox = None
  BY DEF CallRD, Rests
<1>2. wire = Silence /\ Awaits(doc, client)
  BY <1>1, RestingClient
<1>3. CanPoll(doc)
  BY <1>1, <1>2 DEF RecoveryInv, RecordFits
<1> QED
  BY <1>2, <1>3 DEF CanPoll, IsActive

\* Only an order makes the client call.
LEMMA HearIsToldToCall ==
    ASSUME Hear
    PROVE  /\ wire.leg = "answer" /\ wire' = Silence /\ UNCHANGED <<doc, rd>>
           /\ RecoveryInv => (Rests("dispatch")' => wire.outcome.step = "EXECUTE_ACTION")
<1> DEFINE mode == ModeAfter(wire.input, wire.outcome)
<1>1. /\ wire.leg = "answer" /\ wire' = Silence /\ UNCHANGED <<doc, rd>>
      /\ mode = "dispatch" => wire.outcome.step = "EXECUTE_ACTION"
  BY DEF Hear, ModeAfter
<1>2. RecoveryInv => client'.mode = mode
  <2> SUFFICES ASSUME RecoveryInv PROVE client'.mode = mode
    OBVIOUS
  <2>1. client = [mode |-> client.mode, outbox |-> client.outbox, command |-> client.command,
                  sequence |-> client.sequence, secret |-> client.secret]
    BY DEF RecoveryInv, ClientFits
  <2> HIDE DEF mode
  <2>2. client'.mode = mode
    BY <2>1 DEF Hear, mode
  <2> QED
    BY <2>2
<1> QED
  BY <1>1, <1>2 DEF Rests

\* What is lost leaves no client resting with an order that was not resting with it.
LEMMA LoseOrdersNothing ==
    ASSUME RecoveryInv, Lose
    PROVE  /\ wire' = Silence /\ UNCHANGED <<doc, rd>>
           /\ Rests("dispatch")' => Rests("dispatch")
<1>1. ClientFits(client) /\ OutboxFits(client, rd)
  BY DEF RecoveryInv
<1>2. client.outbox # None /\ wire.input = client.outbox
  <2>1. wire # Silence
    BY DEF Lose, Silence
  <2>2. /\ client.outbox # None
        /\ \/ wire = [leg |-> "request", input |-> client.outbox, outcome |-> None]
           \/ wire = [leg |-> "answer", input |-> client.outbox, outcome |-> wire.outcome]
    BY <2>1 DEF RecoveryInv, WireFits
  <2> QED
    BY <2>2
<1>3. IsSpoken(wire.input) => client'.mode = "talk"
  <2> SUFFICES ASSUME IsSpoken(wire.input) PROVE client'.mode = "talk"
    OBVIOUS
  <2>1. client.mode = "talk" /\ client' = [client EXCEPT !.outbox = None]
    BY <1>1, <1>2, HeldKind DEF IsSpoken, Lose
  <2> QED
    BY <1>1, <2>1 DEF ClientFits
<1>4. ~IsSpoken(wire.input) => client' = client
  BY DEF Lose
<1> QED
  BY <1>3, <1>4 DEF Lose, Rests

\* RD knows nothing of an order before the one call that may tell it of it.
LEMMA NextOrderInv == RecoveryInv /\ OrderInv /\ [Next]_vars => OrderInv'
<1> SUFFICES ASSUME RecoveryInv, OrderInv, [Next]_vars PROVE OrderInv'
  OBVIOUS
<1>1. ASSUME UNCHANGED <<doc, rd>>, Rests("dispatch")' => Rests("dispatch"),
             wire'.leg # "answer" \/ wire' = wire
      PROVE  OrderInv'
  BY <1>1 DEF OrderInv
<1>2. client = [mode |-> client.mode, outbox |-> client.outbox, command |-> client.command,
                sequence |-> client.sequence, secret |-> client.secret]
  BY DEF RecoveryInv, ClientFits
<1>3. ASSUME NEW mode \in {"talk", "poll", "transferred", "present", "played"}, NEW input,
             Rests(mode), Hold(input), UNCHANGED <<doc, wire, rd>>
      PROVE  OrderInv'
  <2>1. client'.mode = mode
    BY <1>2, <1>3 DEF Hold, Rests
  <2> QED
    BY <1>1, <1>3, <2>1 DEF Rests
<1>4. CASE Speak
  BY <1>3, <1>4 DEF Speak
<1>5. CASE RDSettles
  BY <1>5 DEF RDSettles, OrderInv, Rests
<1>6. CASE CallRD
  <2>1. wire' = Silence /\ doc' = doc /\ doc.operation # None
    BY <1>6, CallRDFindsOrder DEF CallRD
  <2>2. ~Rests("dispatch")'
    <3>1. CASE client' = [client EXCEPT !.mode = "poll"]
      <4>1. client'.mode = "poll"
        BY <1>2, <3>1
      <4> QED
        BY <4>1 DEF Rests
    <3>2. CASE Hold([kind |-> "dispatch_error", command |-> client.command])
      <4>1. client.command \in ExternalActionCommand
        BY <1>6 DEF CallRD, Rests, RecoveryInv, ClientFits, Optional
      <4>2. [kind |-> "dispatch_error", command |-> client.command] # None
        BY <4>1, ClientAssumption DEF Event, DispatchErrorEvent
      <4>3. client'.outbox # None
        BY <1>2, <3>2, <4>2 DEF Hold
      <4> QED
        BY <4>3 DEF Rests
    <3> QED
      BY <1>6, <3>1, <3>2 DEF CallRD
  <2> QED
    BY <2>1, <2>2 DEF OrderInv, Silence
<1>7. CASE ObserveRD
  BY <1>3, <1>7 DEF ObserveRD
<1>8. CASE ObserveRDLate
  BY <1>3, <1>8 DEF ObserveRDLate
<1>9. CASE Present
  BY <1>3, <1>9 DEF Present
<1>10. CASE ReportPlayback
  BY <1>3, <1>10 DEF ReportPlayback
<1>11. CASE Send
  <2>1. wire'.leg = "request" /\ UNCHANGED <<doc, client, rd>>
    BY <1>11 DEF Send, Silence
  <2> QED
    BY <1>1, <2>1 DEF Rests
<1>12. ASSUME NEW dec \in Decisions, ServeTurn(dec)
       PROVE  OrderInv'
  BY <1>12, ServeTurnMoves DEF OrderInv, Rests
<1>13. ASSUME NEW pace \in Pace, ServeEvent(pace)
       PROVE  OrderInv'
  <2>1. doc \in Record
    BY DEF RecoveryInv, RecordFits
  <2> QED
    BY <1>13, <2>1, ServeEventMoves, EventKeepsOperation DEF OrderInv, Rests
<1>14. CASE Hear
  BY <1>14, HearIsToldToCall DEF OrderInv, Silence
<1>15. CASE Lose
  BY <1>1, <1>15, LoseOrdersNothing DEF Silence
<1>16. CASE UNCHANGED vars
  BY <1>1, <1>16 DEF vars, Rests
<1> QED
  BY <1>4, <1>5, <1>6, <1>7, <1>8, <1>9, <1>10, <1>11, <1>12, <1>13, <1>14, <1>15, <1>16
  DEF Next

\* Whatever is lost, an order waiting to be carried to RD was not carried before.
THEOREM OrderInvariance == Spec => [](RecoveryInv /\ OrderInv)
<1>1. Init => OrderInv
  BY DEF Init, OrderInv, Rests, Silence
<1>2. Init => RecoveryInv
  BY InitRecoveryInv
<1>3. RecoveryInv /\ OrderInv /\ [Next]_vars => (RecoveryInv /\ OrderInv)'
  BY NextRecoveryInv, NextOrderInv
<1> QED
  BY <1>1, <1>2, <1>3, PTL DEF Spec

\* Once RD was called the client never rests with an order again.
LEMMA NextKeepsCalled == RecoveryInv /\ OrderInv /\ [Next]_vars /\ RDWasCalled => RDWasCalled'
<1> SUFFICES ASSUME RecoveryInv, OrderInv, [Next]_vars, RDWasCalled PROVE RDWasCalled'
  OBVIOUS
<1>1. ASSUME UNCHANGED <<rd, client>> PROVE RDWasCalled'
  BY <1>1 DEF RDWasCalled
<1>2. ASSUME rd # "unknown", rd' # "unknown" PROVE RDWasCalled'
  BY <1>2 DEF RDWasCalled
<1>3. client = [mode |-> client.mode, outbox |-> client.outbox, command |-> client.command,
                sequence |-> client.sequence, secret |-> client.secret]
  BY DEF RecoveryInv, ClientFits
<1>4. ASSUME NEW mode \in {"talk", "poll", "transferred", "present", "played"}, NEW input,
             Rests(mode), Hold(input), UNCHANGED rd
      PROVE  RDWasCalled'
  <2>1. client'.mode = mode /\ client.mode = mode
    BY <1>3, <1>4 DEF Hold, Rests
  <2> QED
    BY <1>4, <2>1 DEF RDWasCalled
<1>5. CASE Speak
  BY <1>4, <1>5 DEF Speak
<1>6. CASE RDSettles
  BY <1>2, <1>6 DEF RDSettles
<1>7. CASE CallRD
  BY <1>7 DEF CallRD, OrderInv, Rests, RDWasCalled
<1>8. CASE ObserveRD
  BY <1>4, <1>8 DEF ObserveRD
<1>9. CASE ObserveRDLate
  BY <1>4, <1>9 DEF ObserveRDLate
<1>10. CASE Present
  BY <1>4, <1>10 DEF Present
<1>11. CASE ReportPlayback
  BY <1>4, <1>11 DEF ReportPlayback
<1>12. CASE Send
  BY <1>1, <1>12 DEF Send
<1>13. CASE \E dec \in Decisions : ServeTurn(dec)
  BY <1>1, <1>13 DEF ServeTurn
<1>14. CASE \E pace \in Pace : ServeEvent(pace)
  BY <1>1, <1>14 DEF ServeEvent
<1>15. CASE Hear
  <2> DEFINE mode == ModeAfter(client.outbox, wire.outcome)
  <2>1. /\ client.outbox # None /\ wire.input = client.outbox
        /\ AnswerLeads(wire.outcome, doc, client)
    <3>1. wire # Silence /\ wire.leg = "answer"
      BY <1>15 DEF Hear, Silence
    <3>2. /\ client.outbox # None
          /\ wire = [leg |-> "answer", input |-> client.outbox, outcome |-> wire.outcome]
          /\ AnswerLeads(wire.outcome, doc, client)
      BY <3>1 DEF RecoveryInv, WireFits
    <3>3. wire.input = client.outbox
      BY <3>2
    <3> QED
      BY <3>2, <3>3
  <2>2. client'.mode = mode /\ rd' = rd
    <3> HIDE DEF mode
    <3>1. mode = ModeAfter(wire.input, wire.outcome)
      BY <2>1 DEF mode
    <3> QED
      BY <1>3, <1>15, <3>1 DEF Hear
  <2>3. CASE rd # "unknown"
    BY <1>2, <2>2, <2>3
  <2>4. CASE rd = "unknown" /\ client.mode = "dispatch"
    <3>1. mode = "poll"
      BY <2>1, <2>4 DEF AnswerLeads, ModeAfter
    <3> QED
      BY <2>2, <3>1 DEF RDWasCalled
  <2>5. CASE rd = "unknown" /\ client.mode = "poll"
    <3>1. IsActive(doc.operation)
      <4>1. doc.operation # None /\ doc.operation \in ExternalOperation
        BY <2>5 DEF RecoveryInv, ClientFits, RecordFits, Correlates, Record, Optional
      <4>2. doc.operation.status \notin {"confirmed", "failed"}
        BY <2>5, <4>1 DEF RecoveryInv, RecordFits, IsKnown
      <4> QED
        BY <4>1, <4>2 DEF IsActive, ExternalOperation, OperationStatus
    <3>2. mode \in {"poll", "transferred"}
      BY <2>1, <2>5, <3>1 DEF AnswerLeads, ModeAfter
    <3> QED
      BY <2>2, <3>2 DEF RDWasCalled
  <2>6. CASE client.mode = "transferred"
    <3>1. mode = "over"
      BY <2>1, <2>6 DEF AnswerLeads, ModeAfter
    <3> QED
      BY <2>2, <3>1 DEF RDWasCalled
  <2>7. client.mode # "over"
    BY <2>1 DEF RecoveryInv, OutboxFits
  <2> QED
    BY <2>3, <2>4, <2>5, <2>6, <2>7 DEF RDWasCalled
<1>16. CASE Lose
  <2>1. rd' = rd /\ client' \in {client, [client EXCEPT !.outbox = None]}
    BY <1>16 DEF Lose
  <2>2. client'.mode = client.mode
    BY <1>3, <2>1
  <2>3. Rests("dispatch")' => Rests("dispatch")
    BY <1>16, LoseOrdersNothing
  <2> QED
    BY <2>1, <2>2, <2>3 DEF RDWasCalled, Rests
<1>17. CASE UNCHANGED vars
  BY <1>1, <1>17 DEF vars
<1> QED
  BY <1>5, <1>6, <1>7, <1>8, <1>9, <1>10, <1>11, <1>12, <1>13, <1>14, <1>15, <1>16, <1>17
  DEF Next

\* The call to RD is one the client had not made, and leaves it made.
LEMMA CallRDIsFirst ==
    ASSUME RecoveryInv, OrderInv, CallRD
    PROVE  ~RDWasCalled /\ RDWasCalled'
<1>1. client = [mode |-> client.mode, outbox |-> client.outbox, command |-> client.command,
                sequence |-> client.sequence, secret |-> client.secret]
  BY DEF RecoveryInv, ClientFits
<1>2. client.mode = "dispatch" /\ client.outbox = None /\ rd = "unknown"
  BY DEF CallRD, Rests, OrderInv
<1>3. CASE client' = [client EXCEPT !.mode = "poll"]
  <2>1. client'.mode = "poll"
    BY <1>1, <1>3
  <2> QED
    BY <1>2, <2>1 DEF RDWasCalled
<1>4. CASE Hold([kind |-> "dispatch_error", command |-> client.command])
  <2>1. client.command \in ExternalActionCommand
    BY <1>2 DEF RecoveryInv, ClientFits, Optional
  <2>2. [kind |-> "dispatch_error", command |-> client.command] # None
    BY <2>1, ClientAssumption DEF Event, DispatchErrorEvent
  <2>3. client'.mode = "dispatch" /\ client'.outbox # None
    BY <1>1, <1>2, <1>4, <2>2 DEF Hold
  <2> QED
    BY <1>2, <2>3 DEF RDWasCalled
<1> QED
  BY <1>3, <1>4 DEF CallRD

\* XCALLY calls RD at most once in a call: EXECUTE_ACTION is answered once and never repeated,
\* and neither a failed call nor a lost answer leads back to it.
THEOREM RDIsCalledAtMostOnce == Spec => RDIsCalledOnce
<1>1. RecoveryInv /\ OrderInv /\ [Next]_vars =>
        [(CallRD => ~RDWasCalled /\ RDWasCalled') /\ (RDWasCalled => RDWasCalled')]_vars
  BY NextKeepsCalled, CallRDIsFirst
<1> QED
  BY <1>1, OrderInvariance, PTL DEF Spec, RDIsCalledOnce

--------------------------------------------------------------------------------
(* The contract of one account operation, over the wire. *)

\* A turn orders once, or moves nothing of the contract.
LEMMA ServeTurnImplements ==
    ASSUME RecoveryInv, OrderInv, NEW dec \in Decisions, ServeTurn(dec)
    PROVE  [Contract!Next]_<<StatusSoFar, RDEvidence, StandingOrders>>
<1>1. /\ \/ doc'.operation = doc.operation /\ doc'.dispatch = doc.dispatch
         \/ /\ doc.operation = None
            /\ doc'.operation # None /\ doc'.operation.status = "pending"
            /\ doc'.dispatch # None
      /\ UNCHANGED rd
  BY ServeTurnMoves
<1>2. RDEvidence' = RDEvidence
  BY <1>1 DEF RDEvidence, Terminal
<1>3. CASE doc'.operation = doc.operation /\ doc'.dispatch = doc.dispatch
  <2>1. StatusSoFar' = StatusSoFar /\ StandingOrders' = StandingOrders
    BY <1>3 DEF StatusSoFar, StandingOrders
  <2> QED
    BY <1>2, <2>1
<1>4. CASE /\ doc.operation = None
           /\ doc'.operation # None /\ doc'.operation.status = "pending"
           /\ doc'.dispatch # None
  <2>1. StatusSoFar = "none" /\ StatusSoFar' = "pending"
    BY <1>4 DEF StatusSoFar
  <2>2. StandingOrders' # {} /\ \A c, d \in StandingOrders' : c = d
    BY <1>4 DEF StandingOrders
  <2> QED
    BY <1>2, <2>1, <2>2 DEF Contract!Next, Contract!Order
<1> QED
  BY <1>1, <1>3, <1>4

\* An event doubts the operation, settles it as RD did, or moves nothing of the contract.
LEMMA ServeEventImplements ==
    ASSUME RecoveryInv, RecoveryInv', NEW pace \in Pace, ServeEvent(pace)
    PROVE  [Contract!Next]_<<StatusSoFar, RDEvidence, StandingOrders>>
<1>1. OperationMoves(doc, wire.input, doc') /\ UNCHANGED rd
  BY ServeEventMoves
<1>2. RDEvidence' = RDEvidence /\ StandingOrders' = StandingOrders
  BY <1>1 DEF RDEvidence, StandingOrders, OperationMoves, Terminal
<1>3. doc.operation # None => doc.operation \in ExternalOperation
  BY DEF RecoveryInv, RecordFits, Record, Optional
<1>4. CASE doc'.operation = doc.operation
  BY <1>2, <1>4 DEF StatusSoFar
<1>5. CASE /\ doc.operation # None /\ doc.operation.status = "pending"
           /\ doc'.operation = [doc.operation EXCEPT !.status = "unknown"]
  <2>1. doc'.operation # None /\ doc'.operation.status = "unknown"
    <3>1. doc'.operation \in ExternalOperation /\ doc'.operation.status = "unknown"
      BY <1>3, <1>5 DEF ExternalOperation, OperationStatus
    <3> QED
      BY <3>1, NoneAssumption
  <2>2. StatusSoFar = "pending" /\ StatusSoFar' = "unknown"
    BY <1>5, <2>1 DEF StatusSoFar
  <2> QED
    BY <1>2, <2>2 DEF Contract!Next, Contract!Doubt
<1>6. CASE /\ IsActive(doc.operation) /\ wire.input.seen \in TerminalObservation
           /\ doc'.operation
                = [doc.operation EXCEPT !.status = StatusOf(wire.input.seen)]
  <2>1. doc.operation # None /\ doc.operation.status \in {"pending", "unknown"}
    BY <1>6 DEF IsActive
  <2>2. doc'.operation # None /\ doc'.operation.status \in {"confirmed", "failed"}
    <3>1. StatusOf(wire.input.seen) \in {"confirmed", "failed"}
      BY DEF StatusOf
    <3>2. /\ doc'.operation \in ExternalOperation
          /\ doc'.operation.status = StatusOf(wire.input.seen)
      BY <1>3, <1>6, <2>1, <3>1 DEF ExternalOperation, OperationStatus
    <3> QED
      BY <3>1, <3>2, NoneAssumption
  <2>3. /\ doc'.operation.status = "confirmed" => rd = "done"
        /\ doc'.operation.status = "failed" => rd = "failed"
    BY <1>1, <2>2 DEF RecoveryInv, RecordFits, IsKnown
  <2>4. /\ rd = "done" => "SUCCEEDED" \in RDEvidence
        /\ rd = "failed" => "FAILED" \in RDEvidence
    BY DEF RDEvidence, Terminal
  <2>5. /\ StatusSoFar = doc.operation.status /\ StatusSoFar' = doc'.operation.status
    BY <2>1, <2>2 DEF StatusSoFar
  <2> QED
    BY <1>2, <2>1, <2>2, <2>3, <2>4, <2>5 DEF Contract!Next, Contract!Settle, Contract!Active
<1> QED
  BY <1>1, <1>4, <1>5, <1>6 DEF OperationMoves

\* The service, RD and a client that loses answers together implement the contract of one
\* operation: it is ordered once, doubted without being repeated, and settled as RD settled it.
THEOREM LossyWireImplementsAccountOperation == Spec => ClientImplementsAccountOperation
<1>1. Init => Contract!Init
  <2> SUFFICES ASSUME Init PROVE Contract!Init
    OBVIOUS
  <2>1. doc.operation = None /\ doc.dispatch = None /\ rd = "unknown"
    BY ClientAssumption DEF Init, IsAsked
  <2> QED
    BY <2>1 DEF Contract!Init, StatusSoFar, RDEvidence, StandingOrders, Terminal
<1>2. RecoveryInv /\ OrderInv /\ (RecoveryInv /\ OrderInv)' /\ [Next]_vars =>
        [Contract!Next]_<<StatusSoFar, RDEvidence, StandingOrders>>
  <2> SUFFICES ASSUME RecoveryInv, OrderInv, RecoveryInv', [Next]_vars
               PROVE  [Contract!Next]_<<StatusSoFar, RDEvidence, StandingOrders>>
    OBVIOUS
  <2>1. CASE UNCHANGED <<doc, rd>>
    BY <2>1 DEF StatusSoFar, RDEvidence, StandingOrders, Terminal
  <2>2. CASE RDSettles
    <3>1. /\ rd = "running" /\ rd' \in {"done", "failed"} /\ doc' = doc
          /\ doc.operation # None
      BY <2>2 DEF RDSettles, OrderInv
    <3>2. doc.operation.status \in OperationStatus
      BY <3>1 DEF RecoveryInv, RecordFits, Record, Optional, ExternalOperation
    <3>3. StatusSoFar # "none" /\ StatusSoFar' = StatusSoFar /\ StandingOrders' = StandingOrders
      BY <3>1, <3>2 DEF StatusSoFar, StandingOrders, OperationStatus
    <3>4. RDEvidence = {} /\ RDEvidence' \subseteq {"SUCCEEDED", "FAILED"}
      BY <3>1 DEF RDEvidence, Terminal
    <3> QED
      BY <3>3, <3>4 DEF Contract!Next, Contract!Report, Contract!Terminal
  <2>3. CASE CallRD
    <3>1. rd = "unknown" /\ rd' \in {"unknown", "running"} /\ doc' = doc
      BY <2>3 DEF CallRD, OrderInv
    <3>2. RDEvidence' = RDEvidence
      BY <3>1 DEF RDEvidence, Terminal
    <3> QED
      BY <3>1, <3>2 DEF StatusSoFar, StandingOrders
  <2>4. CASE \E dec \in Decisions : ServeTurn(dec)
    BY <2>4, ServeTurnImplements
  <2>5. CASE \E pace \in Pace : ServeEvent(pace)
    BY <2>5, ServeEventImplements
  <2> QED
    BY <2>1, <2>2, <2>3, <2>4, <2>5
    DEF Next, Speak, ObserveRD, ObserveRDLate, Present, ReportPlayback, Send, Hear, Lose, vars
<1> QED
  BY <1>1, <1>2, OrderInvariance, PTL
  DEF Spec, ClientImplementsAccountOperation, Contract!Spec

--------------------------------------------------------------------------------
(* The observation budget, as the client spends it. *)

\* RD is read at most ObservationLimit times for an order that keeps polling: a read is made
\* only within the budget, every one that is answered takes its place in it, whether or not RD
\* answered and however often it was posted, and none is given back.
ObservationsAreBudgeted ==
    [][/\ ObserveRD => client.sequence \in 1..ObservationLimit
       /\ Hear /\ client.mode = "poll" => client'.sequence = client.sequence + 1
       /\ client'.sequence >= client.sequence]_vars

\* The client reads RD while the record has room for what it will report.
LEMMA ReadsAreWithinBudget ==
    ASSUME RecoveryInv, ObserveRD
    PROVE  client.sequence \in 1..ObservationLimit
<1>1. client.mode = "poll" /\ Awaits(doc, client)
  BY RestingClient DEF ObserveRD, Rests
<1>2. Received(doc) < ObservationLimit /\ client.sequence \in Nat \ {0}
  BY <1>1 DEF RecoveryInv, RecordFits, ClientFits, CanPoll
<1> QED
  BY <1>1, <1>2, LimitsAssumption DEF Awaits

\* An answered observation moves the client to the next one, and only that does.
LEMMA HearMovesOn ==
    ASSUME RecoveryInv, Hear
    PROVE  client'.sequence = IF client.mode \in {"poll", "transferred"}
                              THEN client.sequence + 1 ELSE client.sequence
<1> DEFINE sequence == IF client.outbox.kind \in {"status_v1", "poll_error_v1"}
                       THEN client.outbox.sequence + 1 ELSE client.sequence
<1>1. wire.input = client.outbox /\ client.outbox # None
  <2>1. wire.leg = "answer" /\ Silence.leg = "none"
    BY DEF Hear, Silence
  <2> QED
    BY <2>1 DEF RecoveryInv, WireFits
<1>2. client'.sequence = sequence
  BY <1>1 DEF Hear, RecoveryInv, ClientFits
<1>3. ClientFits(client) /\ OutboxFits(client, rd)
  BY DEF RecoveryInv
<1> QED
  BY <1>1, <1>2, <1>3, HeldKind

THEOREM ObservationsStayBudgeted == Spec => ObservationsAreBudgeted
<1>1. /\ RecoveryInv /\ [Next]_vars
      => [/\ ObserveRD => client.sequence \in 1..ObservationLimit
          /\ Hear /\ client.mode = "poll" => client'.sequence = client.sequence + 1
          /\ client'.sequence >= client.sequence]_vars
  <2> SUFFICES ASSUME RecoveryInv, Next
               PROVE  /\ ObserveRD => client.sequence \in 1..ObservationLimit
                      /\ Hear /\ client.mode = "poll" => client'.sequence = client.sequence + 1
                      /\ client'.sequence >= client.sequence
    BY DEF vars
  <2>1. client.sequence \in Nat
    BY DEF RecoveryInv, ClientFits
  <2>2. ASSUME Hear
        PROVE  /\ client.mode = "poll" => client'.sequence = client.sequence + 1
               /\ client'.sequence >= client.sequence
    <3>1. client'.sequence = IF client.mode \in {"poll", "transferred"}
                             THEN client.sequence + 1 ELSE client.sequence
      BY <2>2, HearMovesOn
    <3> QED
      BY <2>1, <3>1
  <2>3. ASSUME NEW input, NEW mode, client' \in {client, [client EXCEPT !.outbox = input],
                                                [client EXCEPT !.mode = mode]}
        PROVE  client'.sequence = client.sequence
    BY <2>3 DEF RecoveryInv, ClientFits
  <2>4. ASSUME ~Hear PROVE client'.sequence = client.sequence
    <3>1. CASE CallRD \/ Lose
      BY <2>3, <3>1 DEF CallRD, Lose, Hold
    <3>2. CASE Speak \/ ObserveRD \/ ObserveRDLate \/ Present \/ ReportPlayback
      BY <2>3, <3>2 DEF Speak, ObserveRD, ObserveRDLate, Present, ReportPlayback, Hold
    <3>3. CASE client' = client
      BY <3>3
    <3> QED
      BY <2>4, <3>1, <3>2, <3>3 DEF Next, RDSettles, Send, ServeTurn, ServeEvent
  <2>5. ObserveRD => client.sequence \in 1..ObservationLimit
    BY ReadsAreWithinBudget
  <2> QED
    BY <2>1, <2>2, <2>4, <2>5
<1> QED
  BY <1>1, RecoveryInvariance, PTL DEF Spec, ObservationsAreBudgeted
================================================================================
