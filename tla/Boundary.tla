-------------------------------- MODULE Boundary --------------------------------
(***************************************************************************)
(* One HTTP request of one conversation, from the wire to the store and    *)
(* back: the refusals of app/api/app.py in the order they are made, the    *)
(* load of a stored document of any schema version, the model call of      *)
(* app/conversation/gemini.py, the consolidated save and the serialisation *)
(* in the selected contract.  Requests come one at a time; Conversation    *)
(* models the overlap of two.                                              *)
(*                                                                         *)
(* The store may fail at a load or at a save, and a failed save may still  *)
(* have written.  The model may time out, be unreachable or answer outside *)
(* its contract.  The process or the connection may end at any stage.      *)
(*                                                                         *)
(* A body is what its schema makes of it: a turn, an event, JSON of        *)
(* neither, or no JSON.  "numbers" says how its counters were rendered: as *)
(* JSON numbers, as canonical decimal strings, or as something only a      *)
(* lenient parser reads.                                                   *)
(***************************************************************************)
EXTENDS EventRules, Migration

CONSTANTS
    Decisions,      \* the model's possible proposals
    Stored,         \* the documents the conversation may already have, or None
    MaxRequests,    \* bound: requests posted
    MaxSequence,    \* bound: poll sequences sent
    MaxTime,        \* bound: the clock stops there
    FirstFresh      \* identifiers from here on are in no stored document

ASSUME BoundaryAssumption ==
    /\ Decisions \subseteq ModelTurnDecision
    /\ {MaxRequests, MaxSequence, MaxTime, FirstFresh} \subseteq Nat

VARIABLES
    stored,     \* the document in the store, None when there is none
    origin,     \* the document the conversation began with
    before,     \* the document when the last request was posted
    server,     \* what this process has: an API key, an engine, an event service
    request,    \* the request being served
    reply,      \* the answer XCALLY got, None until it does
    ordered,    \* operations ever written as dispatched
    posted,     \* requests posted so far
    clock

vars == <<stored, origin, before, server, request, reply, ordered, posted, clock>>
still == <<origin, before, server, posted, clock>>

Idle == [stage |-> "idle", post |-> None, now |-> 0, rec |-> None, outcome |-> None]

At(stage) == request.stage = stage

Init ==
    /\ stored \in Stored /\ origin = stored /\ before = stored
    /\ server \in [key : BOOLEAN, engine : BOOLEAN, events : BOOLEAN]
    /\ request = Idle
    /\ reply = None
    /\ ordered = {}
    /\ posted = 0
    /\ clock = 0

--------------------------------------------------------------------------------
(* What XCALLY may post. *)

Header == {"absent", "v1", "other", "repeated"}
Rendering == {"native", "decimal", "loose"}
NotJson == [kind |-> "not_json"]
OffSchema == [kind |-> "off_schema"]

\* The operation XCALLY may name is the stored one.
Named ==
    IF stored = None \/ ~Readable(stored) THEN {}
    ELSE LET rec == FromDocument(stored)
         IN  IF rec.operation = None THEN {}
             ELSE {[operation |-> rec.operation.id, action |-> rec.operation.action,
                    revision |-> 1]}

CallerEvents == IdentityEvent \cup IdentityInputFailureEvent \cup [kind : {"voice"}, v1 : {FALSE}]

OperationEvents ==
    [kind : {"status"}, command : Named, seen : StatusSeen]
    \cup [kind : {"poll_error", "dispatch_error"}, command : Named]
    \cup [kind : {"status_v1"}, command : Named, seen : StatusSeen, sequence : 1..MaxSequence]
    \cup [kind : {"poll_error_v1"}, command : Named, seen : PollError, sequence : 1..MaxSequence]
    \cup [kind : {"presentation"}, command : Named, voice : PlaybackVoice]

Post(lane, bodies, renderings) ==
    [lane : {lane}, keyed : BOOLEAN, header : Header, body : bodies, numbers : renderings]

Posts ==
    Post("turns", TurnInput \cup {NotJson, OffSchema}, {"native"})
    \cup Post("events", CallerEvents \cup {NotJson, OffSchema}, {"native"})
    \cup Post("events", OperationEvents, Rendering)

--------------------------------------------------------------------------------
(* The refusals, in the order they are made. *)

Contract(post) ==
    CASE post.header = "absent" -> "legacy"
      [] post.header = "v1" -> "next-step-v1"
      [] OTHER -> None

\* Mutant of SecretIsMisplaced: the password is admitted on either contract.
SecretIsNeverMisplaced(post) == FALSE

\* The ephemeral password belongs to next-step-v1 alone.
SecretIsMisplaced(post) ==
    /\ post.body.kind = "turn" /\ post.body.secret
    /\ Contract(post) # "next-step-v1"

\* Only an unreadable body is refused before the caller is known, and authentication precedes
\* the selector on both lanes.
TurnChecks(post) ==
    <<<<post.body = NotJson, 422>>,
      <<~server.key, 500>>, <<~post.keyed, 401>>, <<Contract(post) = None, 400>>,
      <<post.body = OffSchema, 422>>, <<SecretIsMisplaced(post), 422>>,
      <<~server.engine, 503>>>>

Vocabulary(contract) ==
    {"identity", "voice", "dispatch_error"}
    \cup IF contract = "legacy" THEN {"status", "poll_error"}
         ELSE {"identity_input", "status_v1", "poll_error_v1", "presentation"}

\* next-step-v1 reads a number or its canonical decimal rendering and nothing else.
NumbersAreRead(post) == Contract(post) = "legacy" \/ post.numbers # "loose"

EventChecks(post) ==
    <<<<~server.key, 500>>, <<~post.keyed, 401>>, <<Contract(post) = None, 400>>,
      <<~server.events, 503>>,
      <<post.body.kind \notin Vocabulary(Contract(post)) \/ ~NumbersAreRead(post), 422>>>>

Checks(post) == IF post.lane = "turns" THEN TurnChecks(post) ELSE EventChecks(post)

Passes(post) == \A i \in DOMAIN Checks(post) : ~Checks(post)[i][1]

\* The status of the first check that refuses the request.
Refusal(post) ==
    {Checks(post)[i][2] : i \in {i \in DOMAIN Checks(post) :
        Checks(post)[i][1] /\ \A j \in 1..(i - 1) : ~Checks(post)[j][1]}}

--------------------------------------------------------------------------------
(* The answers. *)

\* The conversational steps a legacy route can say.
LegacyRoute ==
    [LISTEN |-> "CONTINUE", COLLECT_IDENTITY |-> "COLLECT_IDENTITY",
     EXECUTE_ACTION |-> "EXECUTE_ACTION", COMPLETE |-> "COMPLETE", TRANSFER |-> "ESCALATE"]

\* The legacy directive each transition computes beside its step.
LegacyDirective(event, step) ==
    CASE step = "TRANSFER" -> "ESCALATE"
      [] step = "LISTEN" /\ event.kind = "voice" -> "RETRY_SPEECH"
      [] step \in {"LISTEN", "DELIVER_PASSWORD"} -> "RESUME_CONVERSATION"
      [] OTHER -> step

Told(post, outcome) ==
    IF Contract(post) = "next-step-v1" THEN outcome.step
    ELSE IF post.lane = "turns" THEN LegacyRoute[outcome.step]
    ELSE LegacyDirective(post.body, outcome.step)

\* A turn without an outcome, or whose step its route cannot say, is an error by then.
IsSerialisable(post, outcome) ==
    /\ outcome # None
    /\ post.lane = "turns" /\ Contract(post) = "legacy" => outcome.step \in DOMAIN LegacyRoute

Answer(status, told) ==
    /\ reply' = [status |-> status, lane |-> request.post.lane, told |-> told]
    /\ request' = Idle

\* SessionPersistenceError is translated on the event lane only.
PersistenceStatus == IF request.post.lane = "turns" THEN 500 ELSE 503

--------------------------------------------------------------------------------
(* The request. *)

Receive(post) ==
    /\ At("idle") /\ posted < MaxRequests
    /\ request' = [Idle EXCEPT !.stage = "received", !.post = post]
    /\ posted' = posted + 1
    /\ before' = stored
    /\ reply' = None
    /\ UNCHANGED <<stored, origin, server, ordered, clock>>

Refuse ==
    /\ At("received")
    /\ \E status \in Refusal(request.post) : Answer(status, None)
    /\ UNCHANGED <<still, stored, ordered>>

Admit ==
    /\ At("received") /\ Passes(request.post)
    /\ request' = [request EXCEPT !.stage = "admitted", !.now = clock]
    /\ UNCHANGED <<still, stored, reply, ordered>>

\* Mutant of Load: a document that cannot be read counts as none.
LoadForgiving ==
    /\ At("admitted")
    /\ request' = [request EXCEPT
                      !.stage = "loaded",
                      !.rec = IF stored # None /\ Readable(stored) THEN FromDocument(stored)
                              ELSE IF request.post.lane = "turns" THEN NewRecord
                              ELSE None]
    /\ UNCHANGED <<still, stored, reply, ordered>>

\* load, or load_existing on the event lane.
Load ==
    /\ At("admitted") /\ (stored # None => Readable(stored))
    /\ request' = [request EXCEPT
                      !.stage = "loaded",
                      !.rec = IF stored # None THEN FromDocument(stored)
                              ELSE IF request.post.lane = "turns" THEN NewRecord
                              ELSE None]
    /\ UNCHANGED <<still, stored, reply, ordered>>

\* The read fails, or what it read is refused.
FailLoad ==
    /\ At("admitted")
    /\ Answer(PersistenceStatus, None)
    /\ UNCHANGED <<still, stored, ordered>>

Decided(rec, saved, outcome) ==
    request' = [request EXCEPT !.stage = IF saved THEN "decided" ELSE "stored",
                               !.rec = rec, !.outcome = outcome]

\* Each request draws its own identifier.
Fresh == FirstFresh + posted

DecideTurn(dec) ==
    LET result == AdvanceTurn(request.rec, request.post.body,
                              IF ModelIsAsked(request.rec, request.post.body) THEN dec
                              ELSE None,
                              request.now, Fresh)
    IN  /\ At("loaded") /\ request.post.lane = "turns"
        /\ Decided(result.record, TRUE, result.outcome)
        /\ UNCHANGED <<still, stored, reply, ordered>>

\* Mutant of FailModel: the turn was consolidated before the model was asked.
FailModelAfterSave(status) ==
    /\ At("loaded") /\ request.post.lane = "turns"
    /\ ModelIsAsked(request.rec, request.post.body)
    /\ stored' = ToDocument([request.rec EXCEPT !.turned = TRUE, !.voiceRetry = 0])
    /\ Answer(status, None)
    /\ UNCHANGED <<still, ordered>>

\* The one model call times out (504), is unreachable (503), or answers no text or outside
\* the typed contract (500).
FailModel(status) ==
    /\ At("loaded") /\ request.post.lane = "turns"
    /\ ModelIsAsked(request.rec, request.post.body)
    /\ Answer(status, None)
    /\ UNCHANGED <<still, stored, ordered>>

\* The contract names the voice failure that may open a conversation.
IntegrationEvent ==
    LET body == request.post.body
    IN  IF body.kind = "voice"
        THEN [body EXCEPT !.v1 = Contract(request.post) = "next-step-v1"]
        ELSE body

\* handle_event: a composer that fails is silence, one of the paces.
EventResult(pace) ==
    IF request.rec # None
    THEN HandleEvent(request.rec, IntegrationEvent, request.now, Fresh, pace)
    ELSE IF IntegrationEvent.kind = "voice" /\ IntegrationEvent.v1
    THEN ApplyPreTurnVoiceFailure(NewRecord)
    ELSE Rejected(None)

DecideEvent(pace) ==
    LET result == EventResult(pace)
    IN  /\ At("loaded") /\ request.post.lane = "events"
        /\ result.accepted
        /\ Decided(result.record, result.saved, result.outcome)
        /\ UNCHANGED <<still, stored, reply, ordered>>

RejectEvent(pace) ==
    /\ At("loaded") /\ request.post.lane = "events"
    /\ ~EventResult(pace).accepted
    /\ Answer(409, None)
    /\ UNCHANGED <<still, stored, ordered>>

Write(rec) ==
    /\ stored' = ToDocument(rec)
    /\ ordered' = IF rec.dispatch = None THEN ordered
                  ELSE ordered \cup {rec.dispatch.operation}

Save ==
    /\ At("decided")
    /\ Write(request.rec)
    /\ request' = [request EXCEPT !.stage = "stored"]
    /\ UNCHANGED <<still, reply>>

\* A save that failed may have written.
FailSave ==
    /\ At("decided")
    /\ Write(request.rec) \/ UNCHANGED <<stored, ordered>>
    /\ Answer(PersistenceStatus, None)
    /\ UNCHANGED still

\* The answer follows the save; what cannot be serialised is an error after it.
Respond ==
    /\ At("stored")
    /\ IF IsSerialisable(request.post, request.outcome)
       THEN Answer(200, Told(request.post, request.outcome))
       ELSE Answer(500, None)
    /\ UNCHANGED <<still, stored, ordered>>

\* The process or the connection ends: XCALLY gets no answer.
Break ==
    /\ ~At("idle")
    /\ request' = Idle
    /\ UNCHANGED <<still, stored, reply, ordered>>

Tick ==
    /\ clock < MaxTime
    /\ clock' = clock + 1
    /\ UNCHANGED <<stored, origin, before, server, request, reply, ordered, posted>>

Next ==
    \/ \E post \in Posts : Receive(post)
    \/ Refuse \/ Admit
    \/ Load \/ FailLoad
    \/ \E dec \in Decisions : DecideTurn(dec)
    \/ \E status \in {500, 503, 504} : FailModel(status)
    \/ \E pace \in Pace : DecideEvent(pace) \/ RejectEvent(pace)
    \/ Save \/ FailSave
    \/ Respond \/ Break
    \/ Tick

Spec == Init /\ [][Next]_vars
================================================================================
