------------------------------ MODULE PollingClient ------------------------------
(***************************************************************************)
(* The service and a client that keeps the next-step-v1 protocol, over a   *)
(* wire that loses requests and answers: the rules of TurnRules and        *)
(* EventRules composed with the XCALLY flow of                             *)
(* docs/specs/xcally-boundary.md.                                          *)
(*                                                                         *)
(* The conversation begins with a confirmation asked.  The client posts    *)
(* the caller's turns; told EXECUTE_ACTION it calls RD once, then observes *)
(* it, numbering each observation after the last one acknowledged; told    *)
(* DELIVER_PASSWORD it dictates the password and reports the playback.     *)
(* What it cannot do without, it posts again, unchanged, until it is       *)
(* answered; a turn whose answer is lost is gone, and the caller may speak *)
(* again.  A request lost before it was served is also a process that died *)
(* before its save or a model that failed; an answer lost is a process     *)
(* that died after it.                                                     *)
(*                                                                         *)
(* External: the client, the caller, RD and the wire.  RD may never settle *)
(* an operation, the caller may never speak.                               *)
(***************************************************************************)
EXTENDS EventRules

CONSTANTS
    Decisions,  \* the model's possible proposals
    Asked,      \* records of a conversation whose caller was asked to confirm
    FirstFresh, \* an identifier no record of Asked has
    MaxLosses   \* bound: requests and answers lost

\* The first confirmation of a call waits for the caller: nothing was dispatched yet.
IsAsked(rec) ==
    /\ rec.turned
    /\ rec.confirmation # None /\ Matches(rec.confirmation, rec.goal)
    /\ rec.confirmation.validatedAt = rec.identity.validatedAt
    /\ rec.dispatch = None /\ rec.operation = None
    /\ rec.polling = None /\ rec.presentation = None

ASSUME ClientAssumption ==
    /\ Decisions \subseteq ModelTurnDecision
    /\ Asked \subseteq Record
    /\ \A rec \in Asked : IsAsked(rec)
    /\ {FirstFresh, MaxLosses} \subseteq Nat
    /\ None \notin TurnInput \cup Event

VARIABLES
    doc,        \* the stored record
    client,     \* where the client is in its flow
    wire,       \* the request or the answer on its way
    rd,         \* what RD knows of the operation
    losses      \* requests and answers lost so far

vars == <<doc, client, wire, rd, losses>>

Silence == [leg |-> "none", input |-> None, outcome |-> None]

Init ==
    /\ doc \in Asked
    /\ client = [mode |-> "talk", outbox |-> None, command |-> None, sequence |-> 1,
                 secret |-> FALSE]
    /\ wire = Silence
    /\ rd = "unknown"
    /\ losses = 0

Rests(mode) == client.mode = mode /\ client.outbox = None

\* The client holds what it posts until it is answered.
Hold(input) == client' = [client EXCEPT !.outbox = input]

--------------------------------------------------------------------------------
(* The caller and RD. *)

\* Once there is a password, every turn carries it.
Speak ==
    /\ Rests("talk")
    /\ Hold([kind |-> "turn", transcript |-> TRUE, secret |-> client.secret])
    /\ UNCHANGED <<doc, wire, rd, losses>>

RDSettles ==
    /\ rd = "running"
    /\ rd' \in {"done", "failed"}
    /\ UNCHANGED <<doc, client, wire, losses>>

--------------------------------------------------------------------------------
(* The client. *)

\* The one call to RD, which may have reached it or not when it fails.
CallRD ==
    /\ Rests("dispatch")
    /\ \/ rd' = "running" /\ client' = [client EXCEPT !.mode = "poll"]
       \/ /\ rd' \in {"unknown", "running"}
          /\ Hold([kind |-> "dispatch_error", command |-> client.command])
    /\ UNCHANGED <<doc, wire, losses>>

Terminal == [done |-> "SUCCEEDED", failed |-> "FAILED"]

Sequenced(seen) ==
    IF seen \in PollError
    THEN [kind |-> "poll_error_v1", command |-> client.command, seen |-> seen,
          sequence |-> client.sequence]
    ELSE [kind |-> "status_v1", command |-> client.command, seen |-> seen,
          sequence |-> client.sequence]

\* A GET answers what RD knows, something unheard of, or nothing.
ObserveRD ==
    /\ Rests("poll")
    /\ \E seen \in {"ERROR_TIMEOUT"} \cup
                   IF rd \in DOMAIN Terminal THEN {Terminal[rd]} ELSE {"PENDING", "UNRECOGNIZED"} :
         Hold(Sequenced(seen))
    /\ UNCHANGED <<doc, wire, rd, losses>>

\* A terminal result that arrives after the call was handed over.
ObserveRDLate ==
    /\ Rests("transferred") /\ client.command # None /\ rd \in DOMAIN Terminal
    /\ Hold(Sequenced(Terminal[rd]))
    /\ UNCHANGED <<doc, wire, rd, losses>>

\* The first dictation of the password has no transcript.
Present ==
    /\ Rests("present")
    /\ Hold([kind |-> "turn", transcript |-> FALSE, secret |-> TRUE])
    /\ UNCHANGED <<doc, wire, rd, losses>>

ReportPlayback ==
    /\ Rests("played")
    /\ \E voice \in PlaybackVoice :
         Hold([kind |-> "presentation", command |-> client.command, voice |-> voice])
    /\ UNCHANGED <<doc, wire, rd, losses>>

Send ==
    /\ client.outbox # None /\ wire.leg = "none"
    /\ wire' = [Silence EXCEPT !.leg = "request", !.input = client.outbox]
    /\ UNCHANGED <<doc, client, rd, losses>>

--------------------------------------------------------------------------------
(* The service. *)

\* uuid4: not the identifier of the challenge at hand.
Fresh == IF doc.confirmation = None THEN FirstFresh ELSE FirstFresh + doc.confirmation.id

Reply(outcome) ==
    wire' = [leg |-> "answer", input |-> wire.input, outcome |-> outcome]

\* The model has heard nobody say the password is understood before it was dictated.
ServeTurn(dec) ==
    LET result == AdvanceTurn(doc, wire.input, dec, 0, Fresh)
    IN  /\ wire.leg = "request" /\ wire.input.kind = "turn"
        /\ dec.finished => wire.input.transcript
        /\ doc' = result.record
        /\ Reply(result.outcome)
        /\ UNCHANGED <<client, rd, losses>>

\* A rejection answers no outcome.
ServeEvent(pace) ==
    LET result == HandleEvent(doc, wire.input, 0, Fresh, pace)
    IN  /\ wire.leg = "request" /\ wire.input.kind # "turn"
        /\ doc' = IF result.saved THEN result.record ELSE doc
        /\ Reply(result.outcome)
        /\ UNCHANGED <<client, rd, losses>>

--------------------------------------------------------------------------------
(* The answer, or its loss. *)

\* Where an answer to this input leads the client; None is an error or a conflict.
ModeAfter(input, outcome) ==
    CASE outcome = None -> "refused"
      [] outcome # None /\ client.mode = "transferred" -> "over"
      [] outcome # None /\ client.mode # "transferred" ->
            CASE outcome.step = "EXECUTE_ACTION" -> "dispatch"
              [] outcome.step = "POLL_RD" -> "poll"
              [] outcome.step = "DELIVER_PASSWORD" ->
                    IF input.kind = "turn" THEN "played" ELSE "present"
              [] outcome.step = "TRANSFER" -> "transferred"
              [] outcome.step = "COMPLETE" -> "over"
              [] OTHER -> "talk"

Hear ==
    LET input == wire.input
        mode == ModeAfter(input, wire.outcome)
    IN  /\ wire.leg = "answer"
        /\ client' = [client EXCEPT
                         !.mode = mode, !.outbox = None,
                         !.command = IF mode = "dispatch" THEN wire.outcome.command ELSE @,
                         !.sequence = IF input.kind \in {"status_v1", "poll_error_v1"}
                                      THEN input.sequence + 1 ELSE @,
                         !.secret = @ \/ mode = "present"]
        /\ wire' = Silence
        /\ UNCHANGED <<doc, rd, losses>>

\* Only what the caller said is not said again by the client.
IsSpoken(input) == input.kind = "turn" /\ input.transcript

Lose ==
    /\ wire.leg # "none" /\ losses < MaxLosses
    /\ losses' = losses + 1
    /\ wire' = Silence
    /\ client' = IF IsSpoken(wire.input) THEN [client EXCEPT !.outbox = None] ELSE client
    /\ UNCHANGED <<doc, rd>>

--------------------------------------------------------------------------------
ClientSteps == CallRD \/ ObserveRD \/ Present \/ ReportPlayback

Serve == (\E dec \in Decisions : ServeTurn(dec)) \/ \E pace \in Pace : ServeEvent(pace)

Next ==
    \/ Speak \/ RDSettles
    \/ CallRD \/ ObserveRD \/ ObserveRDLate \/ Present \/ ReportPlayback
    \/ Send
    \/ \E dec \in Decisions : ServeTurn(dec)
    \/ \E pace \in Pace : ServeEvent(pace)
    \/ Hear \/ Lose

\* The service answers what reaches it and the client goes on with its flow.  The caller, RD
\* and a handed-over call owe nothing.
Fairness ==
    /\ WF_vars(Serve)
    /\ WF_vars(Hear)
    /\ WF_vars(Send)
    /\ WF_vars(ClientSteps)

Spec == Init /\ [][Next]_vars /\ Fairness
================================================================================
