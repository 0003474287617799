---------------------------- MODULE RecordProperties ----------------------------
(***************************************************************************)
(* What relates the planes of one record to each other.  The planes are    *)
(* written by different handlers (turns own goal, challenge and dispatch;  *)
(* events own identity, status, polling and playback), so no single        *)
(* function of the code establishes any of these.                          *)
(***************************************************************************)
EXTENDS EventRules

\* An operation and the dispatch that authorized it come and stay together.
DispatchNames(rec) ==
    /\ (rec.operation = None) = (rec.dispatch = None)
    /\ rec.operation # None =>
         /\ rec.dispatch.operation = rec.operation.id
         /\ rec.dispatch.action = rec.operation.action

\* A challenge is for the goal and the validation now in force, and never waits beside a
\* running operation.
ChallengeFits(rec) ==
    rec.confirmation # None =>
        /\ Matches(rec.confirmation, rec.goal)
        /\ rec.confirmation.validatedAt = rec.identity.validatedAt
        /\ ~IsActive(rec.operation)

\* Receipts are numbered without a gap, and none but a terminal one exceeds the budget.
ReceiptsFit(rec) ==
    rec.polling # None =>
        /\ rec.operation # None
        /\ rec.polling.operation = rec.operation.id
        /\ \A i \in 1..Len(rec.polling.receipts) :
             /\ rec.polling.receipts[i].sequence = i
             /\ rec.polling.receipts[i].fingerprint \notin TerminalObservation
                  => i <= ObservationLimit

\* A terminal receipt settled the operation the same way; two that disagree cannot coexist.
ReceiptsAgreeIn(rec) ==
    rec.polling # None =>
        \A i \in 1..Len(rec.polling.receipts) :
            rec.polling.receipts[i].fingerprint \in TerminalObservation =>
                rec.operation.status = StatusOf(rec.polling.receipts[i].fingerprint)

\* A playback is only recorded for the confirmed reset it belongs to.
PresentationFits(rec) ==
    rec.presentation # None =>
        /\ rec.operation # None
        /\ rec.operation.action = Reset /\ rec.operation.status = "confirmed"
        /\ rec.presentation.operation = rec.operation.id
        /\ rec.presentation.revision = rec.dispatch.revision

\* Every record a handler reads or writes is coherent.
Coherent(rec) ==
    /\ DispatchNames(rec)
    /\ ChallengeFits(rec)
    /\ ReceiptsFit(rec)
    /\ ReceiptsAgreeIn(rec)
    /\ PresentationFits(rec)
================================================================================
