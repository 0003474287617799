------------------------- MODULE ConversationProperties -------------------------
(***************************************************************************)
(* What one conversation promises.  The first group is about every record  *)
(* a handler can read or write, and holds however handlers interleave; the *)
(* second is about the stored record over time, and is promised only when  *)
(* the requests of a conversation come one at a time.                      *)
(***************************************************************************)
EXTENDS Conversation, RecordProperties, Projection

\* Every variable keeps its type: records, requests and answers are well formed, counters
\* stay inside the limits the code enforces.
TypeOK ==
    /\ doc \in Optional(Record)
    /\ request \in [Handlers -> Request]
    /\ answer \in Optional(Outcome)
    /\ orders \subseteq ExternalActionCommand
    /\ succeeded \subseteq Nat /\ failed \subseteq Nat
    /\ clock \in Nat
    /\ nextId \in Nat \ {0}

--------------------------------------------------------------------------------
(* Every record, whatever the interleaving. *)

\* The truth of an operation is one RD reported for that operation.
EvidenceFits(rec) ==
    rec.operation # None =>
        /\ rec.operation.status = "confirmed" => rec.operation.id \in succeeded
        /\ rec.operation.status = "failed" => rec.operation.id \in failed

\* The stored operation is always the dispatched one: consolidate and the event handlers
\* never write one plane without the other.
DispatchAndOperationTogether == doc # None => DispatchNames(doc)

\* No stored challenge can be consumed for another goal revision or another validation, or
\* while an operation runs: CORRECT, CANCEL, a mode switch, VALID and a dispatch all drop it.
ChallengeIsCurrent == doc # None => ChallengeFits(doc)

\* Duplicated, skipped and late poll observations never consume the budget twice, and the
\* budget holds for all but the terminal result.
PollingIsBounded == doc # None => ReceiptsFit(doc)

\* An accepted terminal observation is what the operation says ever after.
ReceiptsAgree == doc # None => ReceiptsAgreeIn(doc)

\* The presentation plane never exists for an unlock, a failure or another operation.
PresentationIsOwed == doc # None => PresentationFits(doc)

\* Errors, timeouts, unknown literals, lateness and exhausted budgets never become success
\* or failure.
EvidenceBacked == doc # None => EvidenceFits(doc)

\* COMPLETE is answered only when nothing runs and a reset's password was presented.
ClosedOnlyWhenSettled ==
    answer # None /\ answer.step = "COMPLETE" /\ doc.operation # None =>
        \/ doc.operation.status = "failed"
        \/ /\ doc.operation.status = "confirmed"
           /\ doc.operation.action = Reset => doc.presentation # None

\* DELIVER_PASSWORD is answered only for a confirmed reset the caller has not closed.
PasswordOnlyWhenOwed ==
    answer # None /\ answer.step = "DELIVER_PASSWORD" =>
        /\ doc.operation # None
        /\ doc.operation.action = Reset /\ doc.operation.status = "confirmed"
        /\ doc.presentation # None => ~doc.presentation.finished

\* EXECUTE_ACTION is answered only after the pending operation it names was saved.
CommandIsDurable ==
    answer # None /\ answer.step = "EXECUTE_ACTION" =>
        /\ doc.operation # None /\ doc.operation.status = "pending"
        /\ doc.operation.id = answer.command.operation
        /\ doc.dispatch.action = answer.command.action
        /\ doc.dispatch.revision = answer.command.revision

\* The turns the model is being asked about.
AskedTurns ==
    {h \in Handlers :
        /\ request[h].phase = "loaded"
        /\ request[h].input.kind = "turn"
        /\ ModelIsAsked(request[h].rec, request[h].input)}

Answered(h, dec) ==
    AdvanceTurn(request[h].rec, request[h].input, dec, request[h].now, nextId)

\* The turn never opens a challenge the projection of the same turn told the model was not
\* allowed, nor one the adapter's fallback would have forbidden: the permission shown and
\* the eligibility enforced are two conditions written apart, one of them on the dispatch.
ChallengeIsPermitted ==
    \A h \in AskedTurns, dec \in Decisions :
        LET r == request[h]
            after == Answered(h, dec).record
        IN  /\ r.rec.confirmation = None /\ after.confirmation # None
            /\ after.goal = r.rec.goal
            => /\ ProjectModelState(r.rec, r.now).confirmationAllowed
               /\ ProjectionFromTurnInputs(r.rec, r.now).confirmationAllowed

\* When the model is told the turn waits for a confirmation, a plain affirmation executes
\* the action it names, unless the goal cannot be dispatched, the identity is to be handed
\* over or the call already had its action.
ObligationIsHonoured ==
    \A h \in AskedTurns, dec \in Decisions :
        LET r == request[h]
        IN  /\ RenderedObligation(r.rec, r.now) = "ACTION_CONFIRMATION"
            /\ dec.observation = "AFFIRMATIVE" /\ dec.intent = "NONE" /\ dec.mode = None
            /\ GoalIsDispatchable(r.rec.goal)
            /\ ~RequiresHandoff(r.rec.identity) /\ ~BudgetConsumed(r.rec)
            => Answered(h, dec).outcome.step = "EXECUTE_ACTION"

\* An event that found no document never overwrites the one that appeared meanwhile: the
\* bootstrap of a voice failure loses the race to another creation and to a first turn.
CreationNeverOverwrites ==
    [][\A h \in Handlers :
        /\ request[h].phase = "loaded" /\ request[h].rec = None
        /\ request'[h] # request[h]
        /\ doc # None
        => doc' = doc]_vars

--------------------------------------------------------------------------------
(* One request at a time. *)

\* A turn leaves a challenge only when what it answers puts the question: it is listened
\* to, nothing of it was refused, and it says the canonical question or what the model said
\* when it asked for one.  A fallback, an identity capture, a closing, a transfer, the limit
\* and an execution leave none to be consumed unheard, and no answer is the canonical
\* question without its challenge.  The answer is None while the request that gives it runs;
\* a turn that only dictates a password decides nothing.
ChallengeIsAsked ==
    [][\A h \in Handlers :
        LET r == request[h]
        IN  /\ r.phase = "loaded" /\ request'[h].phase = "idle"
            /\ answer = None /\ answer' # None
            => /\ answer'.message = "confirmation" => doc'.confirmation # None
               /\ /\ r.input.kind = "turn" /\ r.input.transcript
                  /\ ~PresentationIsActive(r.rec)
                  /\ doc'.confirmation # None
                  => /\ answer'.step = "LISTEN" /\ ~answer'.violated
                     /\ answer'.message \in {"confirmation", "candidate"}]_vars

\* Whatever was ordered is the stored operation: no answer outlives or precedes its record,
\* and a call never orders twice.
OrderIsDurable ==
    \A command \in orders :
        /\ doc # None /\ doc.operation # None
        /\ doc.operation.id = command.operation
        /\ doc.dispatch.action = command.action
        /\ doc.dispatch.revision = command.revision

\* A call orders at most one mutating action.
OneMutationPerCall == \A c, d \in orders : c = d

Settled(rec) == rec # None /\ rec.operation # None /\ ~IsActive(rec.operation)

\* The deployment the repository documents: the requests of a conversation do not overlap.
OneAtATime == \A g, h \in Handlers : g = h

\* A terminal operation is never reopened, replaced or contradicted, whatever arrives late.
SettledStaysSettled ==
    [][Settled(doc) => doc'.operation = doc.operation]_vars

\* The request that stores a dispatch consumed a challenge it found stored, for the goal the
\* caller still had, autonomous if a reset, and under an identity valid at the instant the
\* request was received.
ConsentBeforeDispatch ==
    [][\A h \in Handlers :
        /\ request[h].phase = "loaded"
        /\ doc # None => doc.dispatch = None
        /\ doc' # None /\ doc'.dispatch # None
        => /\ doc # None /\ doc.confirmation # None
           /\ doc'.dispatch.challenge = doc.confirmation.id
           /\ Matches(doc.confirmation, doc.goal)
           /\ doc.goal.action = Reset => doc.goal.mode = "AUTONOMOUS"
           /\ doc.identity.validatedAt # None
           /\ request[h].now < doc.identity.validatedAt + IdentityTTL
           /\ doc.identity.failures < MaxCallerFailures]_vars

\* The truth of a playback only grows: a returned one is never degraded to failed and a
\* presentation the caller finished is never reopened.
PlaybackIsMonotone ==
    [][doc # None /\ doc.presentation # None =>
        /\ doc'.presentation # None
        /\ doc.presentation.voice = "PLAYBACK_RETURNED"
             => doc'.presentation.voice = "PLAYBACK_RETURNED"
        /\ doc.presentation.finished => doc'.presentation.finished]_vars

\* Receipts are only ever appended: no turn, replay or event loses one.
ReceiptsAreKept ==
    [][doc # None /\ doc.polling # None =>
        /\ doc'.polling # None
        /\ Len(doc.polling.receipts) <= Len(doc'.polling.receipts)
        /\ \A i \in 1..Len(doc.polling.receipts) :
             doc'.polling.receipts[i] = doc.polling.receipts[i]]_vars

\* The receipt a sequenced observation would leave.
ReceiptOf(event) == [sequence |-> event.sequence, fingerprint |-> event.seen]

\* An observation delivered again changes nothing: no budget, no status, no message kept.
DuplicateChangesNothing ==
    [][\A h \in Handlers :
        /\ request[h].phase = "loaded"
        /\ request'[h].phase = "idle"
        /\ request[h].input.kind \in {"status_v1", "poll_error_v1"}
        /\ doc # None /\ doc.polling # None
        /\ \E i \in 1..Len(doc.polling.receipts) :
             doc.polling.receipts[i] = ReceiptOf(request[h].input)
        => doc' = doc]_vars

OperationOf(rec) == IF rec = None THEN None ELSE rec.operation

\* The status of the stored operation, and what RD reported of it.
StatusNow == IF OperationOf(doc) = None THEN "none" ELSE OperationOf(doc).status
EvidenceNow ==
    IF OperationOf(doc) = None THEN {}
    ELSE {seen \in TerminalObservation :
             IsReported([operation |-> OperationOf(doc).id], seen)}

\* The stored operation seen as the contract of one operation.
Contract ==
    INSTANCE AccountOperation WITH
        status <- StatusNow, evidence <- EvidenceNow, orders <- orders

\* Turns and events, interleaved with lost requests and contradictory reports, order and
\* settle one operation exactly as the contract allows.
ImplementsAccountOperation == Contract!Spec

--------------------------------------------------------------------------------
(* What the documents say and the code does not do. *)

\* docs/specs/system.md:83: the runtime makes sure that only AUTONOMOUS opens a challenge.
OnlyAutonomousIsChallenged ==
    doc # None /\ doc.confirmation # None /\ doc.goal.action = Reset =>
        doc.goal.mode = "AUTONOMOUS"

\* app/session/turns.py:740: after one AD mutation per call nothing opens a new challenge.
NoChallengeAfterMutation ==
    doc # None /\ doc.confirmation # None => doc.dispatch = None

\* docs/specs/xcally-boundary.md:119: with a terminal result the goal is resolved and cleared.
TerminalClearsGoal ==
    [][doc # None /\ ~Settled(doc) /\ Settled(doc') => doc'.goal = None]_vars

\* app/session/integration.py:26: messages are grounded in the stored state; "we could not
\* confirm the result" needs an unconfirmed result.
UnconfirmedIsGrounded ==
    answer # None /\ answer.message = "exhausted" => IsActive(doc.operation)
================================================================================
