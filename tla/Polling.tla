-------------------------------- MODULE Polling --------------------------------
(***************************************************************************)
(* The bounded polling plane of next-step-v1 (app/session/polling.py and   *)
(* _maybe_feedback of app/session/integration.py): strict sequence,        *)
(* deduplication by fingerprint, observation budget and waiting feedback.  *)
(***************************************************************************)
EXTENDS SessionRecord

NewPollingState(id) ==
    [operation |-> id, receipts |-> <<>>, attempted |-> None, messages |-> 0]

\* The plane of this operation, opened when it is absent or another operation's.
PollingFor(rec) ==
    IF rec.polling # None /\ rec.polling.operation = rec.operation.id
    THEN rec.polling
    ELSE NewPollingState(rec.operation.id)

BudgetExhausted(polling) == Len(polling.receipts) >= ObservationLimit

LastSequence(polling) ==
    IF polling.receipts = <<>> THEN 0
    ELSE polling.receipts[Len(polling.receipts)].sequence

\* Mutant of ClassifySequence: the last sequence is new again.
ClassifyRepeatingLast(polling, sequence, fingerprint) ==
    IF sequence \in {LastSequence(polling), LastSequence(polling) + 1} THEN "NEW"
    ELSE "CONFLICT"

\* Mutant of ClassifySequence: nothing is a replay.
ClassifyWithoutReplay(polling, sequence, fingerprint) ==
    IF sequence = LastSequence(polling) + 1 THEN "NEW" ELSE "CONFLICT"

\* The next sequence is new; a stored one is a replay only with its own fingerprint.
ClassifySequence(polling, sequence, fingerprint) ==
    IF sequence = LastSequence(polling) + 1 THEN "NEW"
    ELSE IF \E i \in 1..Len(polling.receipts) :
               polling.receipts[i] = [sequence |-> sequence, fingerprint |-> fingerprint]
         THEN "REPLAY"
         ELSE "CONFLICT"

AppendReceipt(polling, sequence, fingerprint) ==
    [polling EXCEPT !.receipts =
        Append(@, [sequence |-> sequence, fingerprint |-> fingerprint])]

\* Waiting feedback: the first observation only starts the cadence, an attempt is due an
\* interval later, at most MaxFeedback messages are ever kept.  composed: the composer
\* answered in time with an admissible message.
MaybeFeedback(polling, operation, now, composed) ==
    IF ~IsActive(operation) \/ polling.messages >= MaxFeedback THEN polling
    ELSE IF polling.attempted = None THEN [polling EXCEPT !.attempted = now]
    ELSE IF now < polling.attempted + FeedbackInterval THEN polling
    ELSE [polling EXCEPT !.attempted = now,
                         !.messages = IF composed THEN @ + 1 ELSE @]
================================================================================
