------------------------- MODULE PollingClientProperties -------------------------
(***************************************************************************)
(* What a client that keeps the protocol may count on when requests and    *)
(* answers are lost.                                                       *)
(***************************************************************************)
EXTENDS PollingClient

\* RD knows of the order, the call failed, or the flow went on from it.
RDWasCalled ==
    \/ rd # "unknown"
    \/ client.mode = "dispatch" /\ client.outbox # None
    \/ client.mode \in {"poll", "transferred", "over"}

\* RD is called at most once in a call: not again for an answer that was lost, a call that
\* failed without a trace, observations that run out or an order confirmed a second time.
RDIsCalledOnce ==
    [][(CallRD => ~RDWasCalled /\ RDWasCalled') /\ (RDWasCalled => RDWasCalled')]_vars

(* The contract of one account operation, with what RD did for evidence and the order the
   stored guard names for the command. *)
StatusSoFar == IF doc.operation = None THEN "none" ELSE doc.operation.status

RDEvidence == IF rd \in DOMAIN Terminal THEN {Terminal[rd]} ELSE {}

StandingOrders ==
    IF doc.dispatch = None THEN {}
    ELSE {[operation |-> doc.dispatch.operation, action |-> doc.dispatch.action,
           revision |-> doc.dispatch.revision]}

Contract == INSTANCE AccountOperation
    WITH status <- StatusSoFar, evidence <- RDEvidence, orders <- StandingOrders

ClientImplementsAccountOperation == Contract!Spec

\* Posting again what was not acknowledged is never a conflict: an observation, a dispatch
\* error or a playback that was saved before its answer was lost is acknowledged again, and
\* a terminal result after the hand-over still reconciles.
RetryIsNeverRefused == client.mode # "refused"

\* An order the client received is resolved, whatever is lost and even if RD never settles
\* it: the observation budget hands the call over in the end.
OrderIsResolved ==
    client.mode = "dispatch" ~>
        \/ ~IsActive(doc.operation)
        \/ client.mode = "transferred"

\* A confirmed reset is presented although any answer of its way may be lost: the terminal
\* acknowledgement, the dictation or the record of the playback.
PasswordIsPresented ==
    /\ doc.operation # None
    /\ doc.operation.action = Reset /\ doc.operation.status = "confirmed"
    /\ client.mode \notin {"transferred", "over"}
    ~> doc.presentation # None
================================================================================
