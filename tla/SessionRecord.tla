----------------------------- MODULE SessionRecord -----------------------------
(***************************************************************************)
(* The durable record of one conversation: app/session/record.py.          *)
(*                                                                         *)
(* One document per conversation holds independent planes: the semantic    *)
(* goal, the identity authorization, the confirmation challenge, the       *)
(* dispatch guard, the external operation, the polling plane and the       *)
(* password presentation.  A plane that is absent is None.                 *)
(*                                                                         *)
(* Abstracted: identifiers are natural numbers drawn fresh (uuid4), an     *)
(* instant is a tick of the clock, turn_count is kept only as "zero or     *)
(* not", a fingerprint is the observation it digests.  Bookkeeping that no *)
(* decision reads (revision counter, created/updated instants, issued_at,  *)
(* authorized_at, started_at, progress phrase rotation) and the            *)
(* experimental planes, which the deployed engine never fills, are left    *)
(* out.                                                                    *)
(***************************************************************************)
EXTENDS Naturals, Sequences

CONSTANTS
    None,               \* an absent plane or optional field (a model value)
    IdentityTTL,        \* IDENTITY_TTL, in ticks
    MaxCallerFailures,  \* MAX_CALLER_IDENTITY_FAILURES
    MaxVoiceFailures,   \* MAX_VOICE_CAPTURE_FAILURES
    ObservationLimit,   \* DEFAULT_OBSERVATION_LIMIT
    MaxFeedback,        \* MAX_FEEDBACK_MESSAGES
    FeedbackInterval    \* POLLING_FEEDBACK_INTERVAL, in ticks

ASSUME LimitsAssumption ==
    /\ IdentityTTL \in Nat \ {0}
    /\ MaxCallerFailures \in Nat \ {0}
    /\ MaxVoiceFailures \in Nat \ {0}
    /\ ObservationLimit \in Nat \ {0}
    /\ MaxFeedback \in Nat
    /\ FeedbackInterval \in Nat

Reset == "RESET_PASSWORD"
Unlock == "UNLOCK_ACCOUNT"

\* Both actions of the first slice mutate AD (action_effect); neither is read-only.
Action == {Reset, Unlock}
AssistanceMode == {"UNDECIDED", "GUIDED", "AUTONOMOUS"}
OperationStatus == {"pending", "unknown", "confirmed", "failed"}
PlaybackVoice == {"PLAYBACK_RETURNED", "PRESENTATION_FAILED_BEFORE_PLAYBACK"}

\* The closed observation kinds.  An error is told apart by its phase, kind and HTTP
\* status; two distinct errors are enough to have two distinct fingerprints.
TerminalObservation == {"SUCCEEDED", "FAILED"}
PollError == {"ERROR_TIMEOUT", "ERROR_HTTP"}
Observation == TerminalObservation \cup PollError \cup {"PENDING", "UNRECOGNIZED"}

Optional(S) == S \cup {None}

ConversationGoal ==
    {g \in [action : Action, revision : Nat, mode : Optional(AssistanceMode)] :
        g.mode # None => g.action = Reset}

IdentityState == [validatedAt : Optional(Nat), failures : Nat]

ConfirmationChallenge ==
    [id : Nat, action : Action, revision : Nat, validatedAt : Nat]

AuthorizedDispatch ==
    [operation : Nat, action : Action, revision : Nat, challenge : Nat]

ExternalOperation == [id : Nat, action : Action, status : OperationStatus]

PollReceipt == [sequence : Nat \ {0}, fingerprint : Observation]

PollingState ==
    [operation : Nat, receipts : Seq(PollReceipt), attempted : Optional(Nat),
     messages : 0..MaxFeedback]

PasswordPresentation ==
    [operation : Nat, revision : Nat, voice : PlaybackVoice, finished : BOOLEAN]

Record ==
    [turned : BOOLEAN,
     goal : Optional(ConversationGoal),
     identity : IdentityState,
     confirmation : Optional(ConfirmationChallenge),
     dispatch : Optional(AuthorizedDispatch),
     operation : Optional(ExternalOperation),
     polling : Optional(PollingState),
     presentation : Optional(PasswordPresentation),
     voiceRetry : 0..MaxVoiceFailures]

\* None is told apart from every plane, number and word it may stand for the absence of.
ASSUME NoneAssumption ==
    None \notin Nat \cup Action \cup AssistanceMode \cup ConversationGoal
            \cup ConfirmationChallenge \cup AuthorizedDispatch \cup ExternalOperation \cup PollingState
            \cup PasswordPresentation \cup Record

\* SessionRecord.new: the record of a conversation without durable state.
NewRecord ==
    [turned |-> FALSE, goal |-> None,
     identity |-> [validatedAt |-> None, failures |-> 0],
     confirmation |-> None, dispatch |-> None, operation |-> None,
     polling |-> None, presentation |-> None, voiceRetry |-> 0]

\* Valid only strictly before the absolute expiry.
IsValidAt(identity, now) ==
    /\ identity.validatedAt # None
    /\ now < identity.validatedAt + IdentityTTL

RequiresHandoff(identity) == identity.failures >= MaxCallerFailures

\* An operation is active while it can still produce an external result.
IsActive(operation) ==
    /\ operation # None
    /\ operation.status \in {"pending", "unknown"}

Matches(challenge, goal) ==
    /\ goal # None
    /\ challenge.action = goal.action
    /\ challenge.revision = goal.revision
================================================================================
