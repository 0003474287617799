------------------------------ MODULE Conversation ------------------------------
(***************************************************************************)
(* One conversation, its durable document and the handlers that serve it.  *)
(*                                                                         *)
(* XCALLY posts turns and integration events.  A handler reads the clock,  *)
(* loads the document, awaits the model or the composer, decides, saves    *)
(* the whole record unconditionally and answers (TurnService.handle_turn,  *)
(* IntegrationEventService.handle_event).  The load, the await and the     *)
(* save are separate steps, so two handlers of the same conversation may   *)
(* interleave; a single handler is the deployment the repository           *)
(* documents.  A crash or a failed save ends a request with nothing        *)
(* written.  A lost answer needs no step: the next input never depends on  *)
(* what the caller heard.                                                  *)
(*                                                                         *)
(* External: XCALLY, the caller, the model and RD.  Any input may come at  *)
(* any time, except that an operation is only ever named by a command that *)
(* was answered, and a terminal status is only reported after RD reported  *)
(* it.  RD may contradict itself.                                          *)
(***************************************************************************)
EXTENDS EventRules

CONSTANTS
    Handlers,      \* requests of this conversation that may be in flight together
    Decisions,     \* the model's possible proposals
    Lanes,         \* the families of input XCALLY sends
    Reports,       \* the terminal statuses RD may report
    MaxTime,       \* bound: the clock stops there
    MaxIds,        \* bound: identifiers drawn
    MaxRevision,   \* bound: goal revisions
    MaxFailures,   \* bound: identity failures counted
    MaxSequence    \* bound: poll sequences sent

Lane ==
    {"turn", "password", "identity", "attempt", "voice", "legacy", "v1", "presentation"}

ASSUME ModelAssumption ==
    /\ Handlers # {}
    /\ Decisions \subseteq ModelTurnDecision
    /\ Lanes \subseteq Lane
    /\ Reports \subseteq TerminalObservation
    /\ {MaxTime, MaxIds, MaxRevision, MaxFailures, MaxSequence} \subseteq Nat

VARIABLES
    doc,        \* the stored record, None before the first write
    request,    \* what each handler is serving
    answer,     \* the outcome last answered, None once XCALLY posts again
    orders,     \* commands answered with EXECUTE_ACTION
    succeeded,  \* operations RD reported as done
    failed,     \* operations RD reported as failed
    clock,
    nextId      \* the next fresh identifier

vars == <<doc, request, answer, orders, succeeded, failed, clock, nextId>>
rd == <<succeeded, failed>>

Idle == [phase |-> "idle", input |-> None, now |-> 0, rec |-> None]

Request ==
    [phase : {"idle", "received", "loaded"}, input : Optional(TurnInput \cup Event),
     now : Nat, rec : Optional(Record)]

Init ==
    /\ doc = None
    /\ request = [h \in Handlers |-> Idle]
    /\ answer = None
    /\ orders = {}
    /\ succeeded = {} /\ failed = {}
    /\ clock = 0
    /\ nextId = 1

--------------------------------------------------------------------------------
(* What XCALLY may post. *)

TurnInputs ==
    {turn \in TurnInput :
        /\ "turn" \in Lanes
        /\ turn.secret => "password" \in Lanes}

CallerEvents ==
    {e \in IdentityEvent :
        IF e.result = "VALID" THEN "identity" \in Lanes ELSE "attempt" \in Lanes}
    \cup {e \in IdentityInputFailureEvent : "attempt" \in Lanes}
    \cup {e \in VoiceFailureEvent : "voice" \in Lanes}

IsReported(command, seen) ==
    /\ seen = "SUCCEEDED" => command.operation \in succeeded
    /\ seen = "FAILED" => command.operation \in failed

OperationEvents(command) ==
    LET about == {command}
        seen == {s \in StatusSeen : IsReported(command, s)}
        sequence == 1..MaxSequence
    IN  {e \in [kind : {"dispatch_error"}, command : about] : Lanes \cap {"legacy", "v1"} # {}}
        \cup {e \in [kind : {"status"}, command : about, seen : seen]
                    \cup [kind : {"poll_error"}, command : about] : "legacy" \in Lanes}
        \cup {e \in [kind : {"status_v1"}, command : about, seen : seen, sequence : sequence]
                    \cup [kind : {"poll_error_v1"}, command : about, seen : PollError,
                          sequence : sequence] : "v1" \in Lanes}
        \cup {e \in [kind : {"presentation"}, command : about, voice : PlaybackVoice] :
                    "presentation" \in Lanes}

Inputs == TurnInputs \cup CallerEvents \cup UNION {OperationEvents(c) : c \in orders}

--------------------------------------------------------------------------------
(* The handlers. *)

\* The instant every decision of the request uses is read before the document.
Receive(h, input) ==
    /\ request[h].phase = "idle"
    /\ request' = [request EXCEPT ![h] =
                      [phase |-> "received", input |-> input, now |-> clock, rec |-> None]]
    /\ answer' = None
    /\ UNCHANGED <<doc, orders, rd, clock, nextId>>

\* load opens a new record when there is none; load_existing does not.
Load(h) ==
    /\ request[h].phase = "received"
    /\ request' = [request EXCEPT
                      ![h].phase = "loaded",
                      ![h].rec = IF doc = None /\ request[h].input.kind = "turn"
                                 THEN NewRecord ELSE doc]
    /\ UNCHANGED <<doc, answer, orders, rd, clock, nextId>>

Finish(h) == request' = [request EXCEPT ![h] = Idle]

DrawsId(rec, id) ==
    \/ rec.dispatch # None /\ rec.dispatch.operation = id
    \/ rec.confirmation # None /\ rec.confirmation.id = id

\* The state bounds: a request that would leave them is only ever lost.
WithinBounds(rec) ==
    /\ rec.goal # None => rec.goal.revision <= MaxRevision
    /\ rec.identity.failures <= MaxFailures
    /\ DrawsId(rec, nextId) => nextId < MaxIds

\* save: the whole document, whatever it has become since it was loaded.
Save(rec) ==
    /\ WithinBounds(rec)
    /\ doc' = rec
    /\ nextId' = IF DrawsId(rec, nextId) THEN nextId + 1 ELSE nextId

Ordered(outcome) ==
    IF outcome # None /\ outcome.command # None THEN {outcome.command} ELSE {}

\* The decision is the model's, asked only for something to read; the save comes before
\* the answer, and a turn without an outcome answers an error after it.
FinishTurn(h, dec) ==
    LET r == request[h]
        result == AdvanceTurn(r.rec, r.input,
                              IF ModelIsAsked(r.rec, r.input) THEN dec ELSE None,
                              r.now, nextId)
    IN  /\ r.phase = "loaded" /\ r.input.kind = "turn"
        /\ Save(result.record)
        /\ answer' = result.outcome
        /\ orders' = orders \cup Ordered(result.outcome)
        /\ Finish(h)
        /\ UNCHANGED <<rd, clock>>

FinishEvent(h, pace) ==
    LET r == request[h]
        result == HandleEvent(r.rec, r.input, r.now, nextId, pace)
    IN  /\ r.phase = "loaded" /\ r.input.kind # "turn" /\ r.rec # None
        /\ IF result.saved THEN Save(result.record) ELSE UNCHANGED <<doc, nextId>>
        /\ answer' = result.outcome
        /\ Finish(h)
        /\ UNCHANGED <<orders, rd, clock>>

\* Only a next-step-v1 voice failure may open a conversation.
RejectUnknownSession(h) ==
    LET r == request[h]
    IN  /\ r.phase = "loaded" /\ r.input.kind # "turn" /\ r.rec = None
        /\ ~(r.input.kind = "voice" /\ r.input.v1)
        /\ answer' = None
        /\ Finish(h)
        /\ UNCHANGED <<doc, orders, rd, clock, nextId>>

\* Mutant of Bootstrap: the creation is not conditional.
BootstrapOverwriting(h) ==
    LET r == request[h]
        result == ApplyPreTurnVoiceFailure(NewRecord)
    IN  /\ r.phase = "loaded" /\ r.rec = None
        /\ r.input.kind = "voice" /\ r.input.v1
        /\ doc' = result.record
        /\ answer' = result.outcome
        /\ Finish(h)
        /\ UNCHANGED <<orders, rd, clock, nextId>>

\* create_if_absent: a record that appeared meanwhile is loaded and never overwritten.
Bootstrap(h) ==
    LET r == request[h]
        result == ApplyPreTurnVoiceFailure(NewRecord)
    IN  /\ r.phase = "loaded" /\ r.rec = None
        /\ r.input.kind = "voice" /\ r.input.v1
        /\ IF doc = None
           THEN /\ doc' = result.record
                /\ answer' = result.outcome
                /\ Finish(h)
           ELSE /\ request' = [request EXCEPT ![h].phase = "received"]
                /\ UNCHANGED <<doc, answer>>
        /\ UNCHANGED <<orders, rd, clock, nextId>>

\* The process dies, the model fails or the save does: nothing is written.
Lose(h) ==
    /\ request[h].phase # "idle"
    /\ Finish(h)
    /\ UNCHANGED <<doc, answer, orders, rd, clock, nextId>>

--------------------------------------------------------------------------------
(* The environment. *)

\* RD reports a terminal status of an operation, at any time and even against itself.
Report(command, seen) ==
    /\ succeeded' = IF seen = "SUCCEEDED" THEN succeeded \cup {command.operation} ELSE succeeded
    /\ failed' = IF seen = "FAILED" THEN failed \cup {command.operation} ELSE failed
    /\ UNCHANGED <<doc, request, answer, orders, clock, nextId>>

Tick ==
    /\ clock < MaxTime
    /\ clock' = clock + 1
    /\ UNCHANGED <<doc, request, answer, orders, rd, nextId>>

Next ==
    \/ \E h \in Handlers :
         \/ \E input \in Inputs : Receive(h, input)
         \/ Load(h)
         \/ \E dec \in Decisions : FinishTurn(h, dec)
         \/ \E pace \in Pace : FinishEvent(h, pace)
         \/ RejectUnknownSession(h)
         \/ Bootstrap(h)
         \/ Lose(h)
    \/ \E command \in orders, seen \in Reports : Report(command, seen)
    \/ Tick

Spec == Init /\ [][Next]_vars
================================================================================
