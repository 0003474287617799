------------------------------- MODULE EventRules -------------------------------
(***************************************************************************)
(* Reconciliation of one integration event: the handlers that _apply of    *)
(* app/session/integration.py dispatches to.  XCALLY reports what it saw   *)
(* (identity, voice capture, the operation at RD, the playback of the      *)
(* password); the handler decides from the loaded record alone.            *)
(*                                                                         *)
(* A result says whether the event is accepted (a rejection answers 409 or *)
(* 404 and changes nothing), the record, whether it is saved, and the      *)
(* outcome answered.                                                       *)
(***************************************************************************)
EXTENDS Polling, TurnRules

\* What RD reports of an operation: NONE is pending, SUCESSO succeeded, a known failure
\* status failed, any other literal unrecognized (resolve_action_status).
StatusSeen == TerminalObservation \cup {"PENDING", "UNRECOGNIZED"}

\* The waiting feedback starts its interval, is not due, is due but nothing admissible
\* was composed, or speaks: the composer and the progress clock choose.
Pace == {"starts", "waits", "fails", "speaks"}

IdentityEvent ==
    [kind : {"identity"}, result : {"VALID", "INVALID", "TECHNICAL_FAILURE"}]
IdentityInputFailureEvent == [kind : {"identity_input"}]
VoiceFailureEvent == [kind : {"voice"}, v1 : BOOLEAN]
StatusEvent == [kind : {"status"}, command : ExternalActionCommand, seen : StatusSeen]
StatusEventV1 ==
    [kind : {"status_v1"}, command : ExternalActionCommand, seen : StatusSeen,
     sequence : Nat \ {0}]
DispatchErrorEvent == [kind : {"dispatch_error"}, command : ExternalActionCommand]
PollErrorEvent == [kind : {"poll_error"}, command : ExternalActionCommand]
PollErrorEventV1 ==
    [kind : {"poll_error_v1"}, command : ExternalActionCommand, seen : PollError,
     sequence : Nat \ {0}]
PresentationEvent ==
    [kind : {"presentation"}, command : ExternalActionCommand, voice : PlaybackVoice]

Event ==
    IdentityEvent \cup IdentityInputFailureEvent \cup VoiceFailureEvent \cup StatusEvent
    \cup StatusEventV1 \cup DispatchErrorEvent \cup PollErrorEvent \cup PollErrorEventV1
    \cup PresentationEvent

Rejected(rec) ==
    [accepted |-> FALSE, record |-> rec, saved |-> FALSE, outcome |-> None]
Acknowledged(rec, outcome) ==
    [accepted |-> TRUE, record |-> rec, saved |-> FALSE, outcome |-> outcome]
Saved(rec, outcome) ==
    [accepted |-> TRUE, record |-> rec, saved |-> TRUE, outcome |-> outcome]

--------------------------------------------------------------------------------
(* Identity and voice. *)

\* A validated identity opens the confirmation of the pending goal, whatever its mode and
\* whatever the call has already dispatched.
ChallengeOnValidIdentity(rec, now, fresh) ==
    IF rec.goal # None /\ ~RequiresHandoff(rec.identity) /\ ~IsActive(rec.operation)
    THEN NewChallenge(rec.goal, [rec.identity EXCEPT !.validatedAt = now], fresh)
    ELSE None

\* Mutant of ApplyValidIdentity: the challenge bound to the older validation is kept.
ApplyValidKeepingChallenge(rec, now, fresh) ==
    Saved([rec EXCEPT !.identity = [validatedAt |-> now, failures |-> 0]],
          Say("LISTEN", "identity_valid"))

ApplyValidIdentity(rec, now, fresh) ==
    LET challenge == ChallengeOnValidIdentity(rec, now, fresh)
        updated == [rec EXCEPT !.identity = [validatedAt |-> now, failures |-> 0],
                               !.confirmation = challenge]
        outcome == Say("LISTEN",
                       IF challenge = None THEN "identity_valid" ELSE "confirmation")
    IN  IF updated = rec THEN Acknowledged(rec, outcome) ELSE Saved(updated, outcome)

ApplyInvalidIdentity(rec) ==
    LET updated == [rec EXCEPT !.identity.failures = @ + 1]
    IN  Saved(updated, IF RequiresHandoff(updated.identity)
                       THEN Say("TRANSFER", "escalation")
                       ELSE Say("COLLECT_IDENTITY", "identity_invalid"))

ApplyIdentity(rec, event, now, fresh) ==
    IF event.result = "VALID" THEN ApplyValidIdentity(rec, now, fresh)
    ELSE IF event.result = "INVALID" THEN ApplyInvalidIdentity(rec)
    ELSE Acknowledged(rec, Say("COLLECT_IDENTITY", "identity_technical"))

\* Mutant of AdvanceVoiceRetry: the counter is not capped.
AdvanceWithoutCap(count) == count + 1

AdvanceVoiceRetry(count) == IF count < MaxVoiceFailures THEN count + 1 ELSE count

VoiceOutcome(rec) ==
    IF rec.voiceRetry >= MaxVoiceFailures THEN Say("TRANSFER", "voice_transfer")
    ELSE Say("LISTEN", "retry")

\* A failed capture invalidates the confirmation attempt and nothing else.
ApplyVoiceFailure(rec) ==
    LET updated == [rec EXCEPT !.confirmation = None,
                               !.voiceRetry = AdvanceVoiceRetry(@)]
    IN  Saved(updated, VoiceOutcome(updated))

\* Before the first turn only the retry counter moves.
ApplyPreTurnVoiceFailure(rec) ==
    LET updated == [rec EXCEPT !.voiceRetry = AdvanceVoiceRetry(@)]
    IN  Saved(updated, VoiceOutcome(updated))

--------------------------------------------------------------------------------
(* The operation: correlation and terminal results. *)

\* Mutant of PresentationCorrelates: neither the status nor the revision is compared.
CorrelatesAnyRevision(rec, command) ==
    /\ rec.operation # None /\ rec.dispatch # None
    /\ rec.operation.action = command.action

\* Every action event names the operation, its action and the revision it was dispatched for.
Correlates(rec, command) ==
    /\ rec.operation # None
    /\ rec.operation.id = command.operation
    /\ rec.operation.action = command.action
    /\ rec.dispatch # None
    /\ rec.dispatch.operation = rec.operation.id
    /\ rec.dispatch.action = command.action
    /\ rec.dispatch.revision = command.revision

\* Mutant of TerminalStep: a late report asks for the password again.
TerminalStepAgain(rec) ==
    IF rec.operation.status = "confirmed" THEN "DELIVER_PASSWORD" ELSE "LISTEN"

\* An operation never closes the conversation; a confirmed reset owes the password.
TerminalStep(rec) ==
    IF /\ rec.operation.status = "confirmed"
       /\ rec.operation.action = Reset
       /\ rec.presentation = None
    THEN "DELIVER_PASSWORD"
    ELSE "LISTEN"

TerminalOutcome(rec, speak) == Say(TerminalStep(rec), IF speak THEN "terminal" ELSE "none")

\* Success clears the goal; a failure keeps it.
Terminated(rec, seen) ==
    IF seen = "SUCCEEDED"
    THEN [rec EXCEPT !.operation.status = "confirmed", !.goal = None]
    ELSE [rec EXCEPT !.operation.status = "failed"]

StatusOf(seen) == IF seen = "SUCCEEDED" THEN "confirmed" ELSE "failed"

\* Mutant of ApplyTerminal: the last terminal observation wins.
ApplyLastTerminal(rec, kept, seen, repeat) ==
    Saved(Terminated(rec, seen), TerminalOutcome(Terminated(rec, seen), TRUE))

(* A terminal observation: it settles an active operation, is acknowledged by one settled
   the same way (repeat is the acknowledgement), and conflicts with the opposite one.
   kept is the record as it was loaded. *)
ApplyTerminal(rec, kept, seen, repeat) ==
    IF IsActive(rec.operation)
    THEN Saved(Terminated(rec, seen), TerminalOutcome(Terminated(rec, seen), TRUE))
    ELSE IF rec.operation.status = StatusOf(seen) THEN repeat
    ELSE Rejected(kept)

\* Mutant of ApplyDispatchError: an uncertain dispatch is taken as a failure.
FailOnDispatchError(rec) ==
    IF IsActive(rec.operation)
    THEN Saved(Terminated(rec, "FAILED"), TerminalOutcome(Terminated(rec, "FAILED"), TRUE))
    ELSE Rejected(rec)

\* An uncertain dispatch is neither success nor failure nor an order to repeat.
ApplyDispatchError(rec) ==
    IF rec.operation.status = "pending"
    THEN Saved([rec EXCEPT !.operation.status = "unknown"], Say("POLL_RD", "none"))
    ELSE IF rec.operation.status = "unknown"
    THEN Acknowledged(rec, Say("POLL_RD", "none"))
    ELSE Rejected(rec)

--------------------------------------------------------------------------------
(* Legacy polling: unsequenced, unbounded. *)

\* The progress phrase moves only the operation's own feedback clock, which is not kept:
\* all that is left of it is that the record is saved.
ApplyProgress(rec, pace) ==
    IF pace = "speaks" THEN Saved(rec, Say("POLL_RD", "feedback"))
    ELSE IF pace = "starts" THEN Saved(rec, Say("POLL_RD", "none"))
    ELSE Acknowledged(rec, Say("POLL_RD", "none"))

ApplyStatus(rec, event, pace) ==
    IF event.seen = "UNRECOGNIZED" THEN Acknowledged(rec, Say("POLL_RD", "none"))
    ELSE IF event.seen = "PENDING"
    THEN IF IsActive(rec.operation) THEN ApplyProgress(rec, pace)
         ELSE Acknowledged(rec, TerminalOutcome(rec, FALSE))
    ELSE ApplyTerminal(rec, rec, event.seen, Acknowledged(rec, TerminalOutcome(rec, TRUE)))

ApplyPollError(rec) ==
    IF IsActive(rec.operation) THEN Acknowledged(rec, Say("POLL_RD", "none"))
    ELSE Acknowledged(rec, TerminalOutcome(rec, FALSE))

--------------------------------------------------------------------------------
(* next-step-v1 polling: sequenced observations under a budget. *)

\* Mutant of ReplayOutcome: what was settled was already told.
ReplayResumes(rec) ==
    IF IsActive(rec.operation)
    THEN Say(IF rec.polling # None /\ BudgetExhausted(rec.polling)
             THEN "TRANSFER" ELSE "POLL_RD", "none")
    ELSE Say("LISTEN", "none")

\* A replayed observation is projected again and never spoken again.
ReplayOutcome(rec) ==
    IF IsActive(rec.operation)
    THEN Say(IF rec.polling # None /\ BudgetExhausted(rec.polling)
             THEN "TRANSFER" ELSE "POLL_RD", "none")
    ELSE TerminalOutcome(rec, FALSE)

\* Mutant of NonTerminalObservation: the budget only refuses what comes after it.
NonTerminalWithoutTransfer(rec, now, pace) ==
    Saved([rec EXCEPT !.polling =
              MaybeFeedback(rec.polling, rec.operation, now, pace = "speaks")],
          Say("POLL_RD", "none"))

\* The last observation of the budget hands the call over and invents no failure.
NonTerminalObservation(rec, now, pace) ==
    LET polling == MaybeFeedback(rec.polling, rec.operation, now, pace = "speaks")
    IN  IF BudgetExhausted(rec.polling) THEN Saved(rec, Say("TRANSFER", "exhausted"))
        ELSE Saved([rec EXCEPT !.polling = polling],
                   Say("POLL_RD", IF polling.messages > rec.polling.messages
                                  THEN "feedback" ELSE "none"))

\* Mutant of ObservationIsRefused: the closed budget refuses nothing.
NothingIsRefused(polling, seen) == FALSE

\* A closed budget still reconciles a terminal result and nothing else.
ObservationIsRefused(polling, seen) ==
    seen \notin TerminalObservation /\ BudgetExhausted(polling)

\* consumed: the loaded record with the receipt of this observation.
Observe(rec, consumed, seen, now, pace) ==
    IF seen \in TerminalObservation
    THEN ApplyTerminal(consumed, rec, seen, Saved(consumed, TerminalOutcome(rec, FALSE)))
    ELSE IF seen = "UNRECOGNIZED" \/ IsActive(rec.operation)
    THEN NonTerminalObservation(consumed, now, pace)
    ELSE Saved(consumed, TerminalOutcome(rec, FALSE))

\* A sequenced status or poll error, which share their sequence and their budget.
ApplyObservation(rec, event, now, pace) ==
    LET polling == PollingFor(rec)
        decision == ClassifySequence(polling, event.sequence, event.seen)
        consumed == [rec EXCEPT !.polling =
                        AppendReceipt(polling, event.sequence, event.seen)]
    IN  IF decision = "CONFLICT" THEN Rejected(rec)
        ELSE IF decision = "REPLAY" THEN Acknowledged(rec, ReplayOutcome(rec))
        ELSE IF ObservationIsRefused(polling, event.seen) THEN Rejected(rec)
        ELSE Observe(rec, consumed, event.seen, now, pace)

--------------------------------------------------------------------------------
(* The presentation of the temporary password. *)

PresentationCorrelates(rec, command) ==
    /\ rec.operation # None
    /\ rec.operation.id = command.operation
    /\ rec.operation.action = Reset
    /\ rec.dispatch # None
    /\ rec.dispatch.operation = rec.operation.id
    /\ rec.dispatch.action = Reset
    /\ rec.dispatch.revision = command.revision
    /\ rec.operation.status = "confirmed"

\* Mutant of PlaybackReplaces: a late failure degrades a returned playback.
PlaybackAlwaysReplaces(presentation, voice) == presentation.voice # voice

\* A failure before playback may be followed by a playback, never the reverse.
PlaybackReplaces(presentation, voice) ==
    /\ presentation.voice = "PRESENTATION_FAILED_BEFORE_PLAYBACK"
    /\ voice = "PLAYBACK_RETURNED"

ApplyPresentation(rec, event) ==
    IF ~PresentationCorrelates(rec, event.command) THEN Rejected(rec)
    ELSE IF rec.presentation = None
    THEN Saved([rec EXCEPT !.presentation =
                   [operation |-> event.command.operation,
                    revision |-> event.command.revision,
                    voice |-> event.voice, finished |-> FALSE]],
               Say("LISTEN", "none"))
    ELSE IF PlaybackReplaces(rec.presentation, event.voice)
    THEN Saved([rec EXCEPT !.presentation.voice = event.voice], Say("LISTEN", "none"))
    ELSE Acknowledged(rec, Say("LISTEN", "none"))

--------------------------------------------------------------------------------
\* _apply: one event on a conversation that has had its first turn.
ApplyEvent(rec, event, now, fresh, pace) ==
    CASE event.kind = "identity" -> ApplyIdentity(rec, event, now, fresh)
      [] event.kind = "identity_input" -> Acknowledged(rec, Say("TRANSFER", "escalation"))
      [] event.kind = "voice" -> ApplyVoiceFailure(rec)
      [] event.kind = "presentation" -> ApplyPresentation(rec, event)
      [] OTHER ->
            IF ~Correlates(rec, event.command) THEN Rejected(rec)
            ELSE CASE event.kind = "status" -> ApplyStatus(rec, event, pace)
                   [] event.kind = "poll_error" -> ApplyPollError(rec)
                   [] event.kind = "dispatch_error" -> ApplyDispatchError(rec)
                   [] OTHER -> ApplyObservation(rec, event, now, pace)

\* handle_event on a record that exists: before the first turn only a next-step-v1 voice
\* failure is admitted.
HandleEvent(rec, event, now, fresh, pace) ==
    IF rec.turned THEN ApplyEvent(rec, event, now, fresh, pace)
    ELSE IF event.kind = "voice" /\ event.v1 THEN ApplyPreTurnVoiceFailure(rec)
    ELSE Rejected(rec)
================================================================================
