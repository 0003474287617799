-------------------------------- MODULE LabOracle --------------------------------
(***************************************************************************)
(* How the lab judges a replayed turn (evals/conversation_eval.py and      *)
(* evals/conversation_lab.py): everything it says is derived from the      *)
(* projections of the record before and after the turn, the model's        *)
(* decision and the selected outcome, never from what the runtime planned. *)
(*                                                                         *)
(* An expectation is a function from the property names it has a key for,  *)
(* and so are the verdicts: a property without one is NOT_ORACLED.         *)
(* Descriptive prose and the human-readable details of a failure are left  *)
(* out.                                                                    *)
(***************************************************************************)
EXTENDS Replay, Projection

PropertyVerdict == {"PASS", "FAIL", "NOT_ORACLED", "NOT_REPRESENTABLE"}
CriticalClass == {"INVALID_IDENTITY_AUTHORIZATION", "UNKNOWN_REDISPATCH",
                  "DUPLICATE_SIDE_EFFECT", "STALE_CHALLENGE_REUSE",
                  "UNAUTHORIZED_DISPATCH", "ILLEGAL_HANDOFF",
                  "INCOHERENT_CHALLENGE_PRESENTATION"}

\* project_record.
ProjectRecord(rec, memory) ==
    [action |-> IF rec.goal = None THEN None ELSE rec.goal.action,
     revision |-> IF rec.goal = None THEN None ELSE rec.goal.revision,
     mode |-> IF rec.goal = None THEN None ELSE rec.goal.mode,
     identityValid |-> IsValidAt(rec.identity, Now),
     validatedAt |-> rec.identity.validatedAt,
     handoff |-> RequiresHandoff(rec.identity),
     challenge |-> rec.confirmation,
     dispatch |-> rec.dispatch,
     operation |-> IF rec.operation = None THEN "none" ELSE rec.operation.status,
     current |-> IF memory.procedure = None THEN None ELSE memory.procedure.current,
     last |-> IF memory.procedure = None THEN None ELSE memory.procedure.last,
     pairs |-> Len(memory.window)]

DispatchEligible(state) ==
    /\ state.identityValid /\ state.action # None
    /\ state.challenge # None
    /\ state.challenge.action = state.action /\ state.challenge.revision = state.revision
    /\ state.challenge.validatedAt = state.validatedAt
    /\ state.dispatch # None => state.dispatch.challenge # state.challenge.id
    /\ state.operation \notin {"pending", "unknown"}

\* Shared shape of the goal, mode and revision transitions.
Transition(before, after, names) ==
    IF before = None /\ after = None THEN names.neither
    ELSE IF before = None THEN "created"
    ELSE IF after = None THEN "cleared"
    ELSE IF before = after THEN names.same
    ELSE names.other

GoalTransition(before, after) ==
    Transition(before.action, after.action,
               [neither |-> "absent", same |-> "retained", other |-> "changed"])
ModeTransition(before, after) ==
    Transition(before.mode, after.mode,
               [neither |-> "none", same |-> "retained", other |-> "changed"])
RevisionTransition(before, after) ==
    Transition(before.revision, after.revision,
               [neither |-> "none", same |-> "same", other |-> "incremented"])

\* What became of the challenge, and how an earlier one ended.
ConfirmationTransition(before, after, dispatched, observation) ==
    LET ended == IF observation \in {"NEGATIVE", "CANCEL"} THEN "cancelled"
                 ELSE "invalidated"
    IN  IF before.challenge = None
        THEN [state |-> IF after.challenge = None THEN "absent" ELSE "opened",
              ended |-> "none"]
        ELSE IF after.challenge = None
        THEN IF dispatched THEN [state |-> "authorized", ended |-> "none"]
             ELSE [state |-> ended, ended |-> ended]
        ELSE IF before.challenge.id = after.challenge.id
        THEN [state |-> "pending", ended |-> "none"]
        ELSE [state |-> "changed", ended |-> ended]

LegacyRoute ==
    [LISTEN |-> "CONTINUE", COLLECT_IDENTITY |-> "COLLECT_IDENTITY",
     EXECUTE_ACTION |-> "EXECUTE_ACTION", COMPLETE |-> "COMPLETE", TRANSFER |-> "ESCALATE"]

HandoffCauseOf(route, dec) ==
    IF route # "ESCALATE" THEN None
    ELSE IF dec # None /\ dec.cause # None THEN dec.cause
    ELSE "TERMINAL_FAILURE"

--------------------------------------------------------------------------------
(* Executed critical violations. *)

\* A dispatch the state before the turn did not permit, named by the first thing missing.
UnpermittedDispatch(before) ==
    IF ~before.identityValid THEN "INVALID_IDENTITY_AUTHORIZATION"
    ELSE IF before.operation = "unknown" THEN "UNKNOWN_REDISPATCH"
    ELSE IF before.operation = "pending" THEN "DUPLICATE_SIDE_EFFECT"
    ELSE IF before.challenge # None /\ before.challenge.revision # before.revision
    THEN "STALE_CHALLENGE_REUSE"
    ELSE "UNAUTHORIZED_DISPATCH"

DetectExecutedCriticals(before, dispatched, eligible, count, route, cause) ==
    {class \in CriticalClass :
        \/ dispatched /\ ~eligible /\ class = UnpermittedDispatch(before)
        \/ /\ class = "DUPLICATE_SIDE_EFFECT"
           /\ (dispatched /\ before.operation \in {"pending", "unknown"}) \/ count > 1
        \/ class = "ILLEGAL_HANDOFF" /\ route = "ESCALATE" /\ cause = None}

\* Whether an AFFIRMATIVE met no live challenge, as far as the projection before can tell.
RecoveryObservationApplies(before, after, dec, event, outcome) ==
    /\ dec # None /\ dec.observation = "AFFIRMATIVE"
    /\ after.challenge # None
    /\ outcome # None /\ outcome.step = "LISTEN" /\ ~outcome.violated
    /\ \/ before.challenge = None
       \/ event.kind = "confirmation_timeout"
       \/ before.challenge # None /\
            \/ before.challenge.action # before.action
            \/ before.challenge.revision # before.revision
            \/ before.challenge.validatedAt # before.validatedAt

\* Mutant of RequiredAct: a reconfirmation after a lost challenge asks for nothing.
RequiredActOfRequest(outcome, after, dec, recovery) ==
    IF outcome # None /\ after.challenge # None /\ dec # None /\ dec.request
    THEN "ASK_ACTION_CONFIRMATION" ELSE "OPEN_RESPONSE"

\* derive_required_act: what the selected outcome obliges the message to do.
RequiredAct(outcome, after, dec, recovery) ==
    IF outcome = None THEN "NONE"
    ELSE CASE outcome.step = "EXECUTE_ACTION" -> "REPORT_PENDING"
           [] outcome.step = "COMPLETE" -> "CLOSE"
           [] outcome.step = "TRANSFER" -> "TRANSFER_TO_HUMAN"
           [] OTHER ->
                IF outcome.violated THEN "RETRY_UNDERSTANDING"
                ELSE IF outcome.step = "COLLECT_IDENTITY" THEN "REQUEST_IDENTITY"
                ELSE IF /\ after.challenge # None
                        /\ (dec # None /\ dec.request) \/ recovery
                THEN "ASK_ACTION_CONFIRMATION"
                ELSE "OPEN_RESPONSE"

\* derive_message_source: whose words the caller hears.
MessageSource(outcome, dec, overridden, transition, recovery, first) ==
    IF outcome = None THEN "NO_SPEECH_OUTPUT"
    ELSE IF dec = None THEN "RUNTIME_LITERAL"
    ELSE IF overridden
    THEN IF recovery THEN "RECOVERY_RECONFIRMATION"
         ELSE IF first THEN "INITIAL_DETERMINISTIC_CONFIRMATION"
         ELSE "MODEL_THEN_OVERRIDDEN"
    ELSE IF transition = "changed" THEN "MODEL_RENDERED_RECONFIRMATION"
    ELSE "MODEL_RENDERED"

\* derive_override_reason: why the candidate was not rendered.
OverrideReason(outcome, overridden, recovery) ==
    IF ~overridden THEN "none"
    ELSE CASE outcome.step = "EXECUTE_ACTION" -> "DISPATCH_PROCESSING"
           [] outcome.step = "COMPLETE" -> "COMPLETE_FAREWELL"
           [] outcome.step = "TRANSFER" -> "HANDOFF_ESCALATION"
           [] OTHER -> IF outcome.violated THEN "VIOLATION_FALLBACK"
                       ELSE IF recovery THEN "RECOVERY_RECONFIRMATION" ELSE "none"

\* derive_expected_response: what the caller is expected to answer.
ExpectedUserResponse(act, after) ==
    CASE act = "ASK_ACTION_CONFIRMATION" -> "ACTION_CONFIRMATION"
      [] act = "REQUEST_IDENTITY" -> "IDENTITY_INPUT"
      [] act \in {"NONE", "REPORT_PENDING", "CLOSE", "TRANSFER_TO_HUMAN"} -> "NONE"
      [] act = "RETRY_UNDERSTANDING" -> "OPEN_RESPONSE"
      [] OTHER -> IF after.action = Reset /\ after.mode = "UNDECIDED"
                  THEN "ASSISTANCE_MODE_CHOICE" ELSE "OPEN_RESPONSE"

ChallengePresentationCoherent(after, transition, act) ==
    after.challenge # None =>
        /\ after.challenge.action = after.action /\ after.challenge.revision = after.revision
        /\ act \in (IF transition = "pending"
                    THEN {"ASK_ACTION_CONFIRMATION", "OPEN_RESPONSE"}
                    ELSE {"ASK_ACTION_CONFIRMATION"})

--------------------------------------------------------------------------------
(* _observe_turn: the observation of one replayed turn.  obligation is derived from the
   record before it, as the input of the candidate is.  The harness compares texts to tell
   whether the candidate's words were replaced; here the kind of message tells it, and a
   candidate that happens to repeat a canonical phrase counts as replaced. *)
ObserveTurn(before, after, obligation, dec, event, outcome, dispatched, count) ==
    LET route == IF outcome = None THEN None ELSE LegacyRoute[outcome.step]
        eligible == dec # None /\ DispatchEligible(before)
        cause == HandoffCauseOf(route, dec)
        transition == ConfirmationTransition(before, after, dispatched,
                            IF dec = None THEN "NONE" ELSE dec.observation)
        overridden == dec # None /\ outcome # None /\ outcome.message # "candidate"
        recovery == RecoveryObservationApplies(before, after, dec, event, outcome)
        first == /\ overridden /\ before.challenge = None /\ after.challenge # None
                 /\ outcome.step = "LISTEN" /\ ~outcome.violated /\ ~recovery
        act == RequiredAct(outcome, after, dec, recovery)
        coherent == ChallengePresentationCoherent(after, transition.state, act)
    IN  [before |-> before, after |-> after, asked |-> dec # None,
         obligation |-> obligation,
         route |-> route, cause |-> cause,
         confirmation |-> transition.state, ended |-> transition.ended,
         dispatched |-> dispatched, count |-> count, eligible |-> eligible,
         source |-> MessageSource(outcome, dec, overridden, transition.state,
                                  recovery, first),
         override |-> OverrideReason(outcome, overridden, recovery),
         act |-> act, expects |-> ExpectedUserResponse(act, after),
         coherent |-> coherent,
         criticals |->
            DetectExecutedCriticals(before, dispatched, eligible, count, route, cause)
              \cup IF coherent THEN {} ELSE {"INCOHERENT_CHALLENGE_PRESENTATION"}]

--------------------------------------------------------------------------------
(* The oracles of a case, over its last turn, and of a turn. *)

CaseConfirmationHolds(want, turn) ==
    CASE want = "pending" -> turn.after.challenge # None
      [] want = "authorized" -> /\ turn.after.challenge = None
                                /\ turn.after.dispatch # None
                                /\ turn.ended = "none"
      [] want \in {"invalidated", "cancelled"} -> turn.ended = want
      [] want = "not_valid" -> turn.after.challenge = None /\ ~turn.dispatched
      [] want = "none" -> turn.after.challenge = None

ActionEligibility(turn) ==
    IF /\ turn.after.action # None
       /\ turn.after.identityValid
       /\ turn.after.dispatch # None => turn.after.dispatch.revision # turn.after.revision
       /\ turn.after.operation \notin {"pending", "unknown"}
       /\ turn.route # "ESCALATE"
    THEN "eligible" ELSE "not_eligible"

EscalationEligibility(turn) ==
    IF turn.route = "ESCALATE" \/ turn.after.handoff THEN "eligible" ELSE "not_eligible"

CaseHolds(name, want, initial, turn) ==
    CASE name = "route" -> turn.route = want
      [] name = "conversation_goal" ->
            turn.after.action = (IF want = "unchanged" THEN initial ELSE want)
      [] name = "handoff_cause" -> turn.cause = want
      [] name = "confirmation_state" -> CaseConfirmationHolds(want, turn)
      [] name = "action_eligibility" -> ActionEligibility(turn) = want
      [] name = "escalation_eligibility" -> EscalationEligibility(turn) = want
      [] name = "dispatch_count" -> turn.count = want
      [] name = "assistance_mode" -> turn.after.mode = want

\* A route is not evaluable for a case that lists no turns, nor without speech when nothing
\* was decided.
CasePropertyVerdicts(case, turn) ==
    [name \in DOMAIN case.expected |->
        IF name = "unsupported" THEN "NOT_REPRESENTABLE"
        ELSE IF name = "route" /\ (~case.listed \/ (turn.route = None /\ ~turn.asked))
        THEN "NOT_ORACLED"
        ELSE IF CaseHolds(name, case.expected[name], case.state.action, turn)
        THEN "PASS" ELSE "FAIL"]

TurnConfirmationHolds(want, turn) ==
    CASE want = "not_valid" -> turn.after.challenge = None
      [] want \in {"pending", "new_challenge"} ->
            turn.confirmation \in {"pending", "opened", "changed"}
      [] OTHER -> turn.confirmation = want

TurnHolds(name, want, turn) ==
    CASE name = "route" -> turn.route = want
      [] name = "goal" ->
            turn.after.action = (IF want = "unchanged" THEN turn.before.action ELSE want)
      [] name = "goal_transition" -> GoalTransition(turn.before, turn.after) = want
      [] name = "revision_transition" -> RevisionTransition(turn.before, turn.after) = want
      [] name = "confirmation" -> TurnConfirmationHolds(want, turn)
      [] name = "assistance_mode" -> turn.after.mode = want
      [] name = "mode_transition" -> ModeTransition(turn.before, turn.after) = want
      [] name = "identity_valid" -> turn.after.identityValid = want
      [] name = "dispatch_count_unchanged" -> ~turn.dispatched
      [] name = "operation" -> IF want = "active"
                               THEN turn.after.operation \in {"pending", "unknown"}
                               ELSE turn.after.operation = want
      [] name = "obsolete_goal_absent" ->
            turn.before.action = None \/ turn.after.action # turn.before.action
      [] name = "procedure_current" -> turn.after.current = want
      [] name = "procedure_last_completed" -> turn.after.last = want
      [] name = "window_pairs" -> turn.after.pairs = want

TurnPropertyVerdicts(expect, turn) ==
    [name \in DOMAIN expect |->
        IF TurnHolds(name, expect[name], turn) THEN "PASS" ELSE "FAIL"]

ClassifyVerdicts(verdicts, modelFailure) ==
    LET values == {verdicts[name] : name \in DOMAIN verdicts}
    IN  IF modelFailure THEN "MODEL_FAILURE"
        ELSE IF "NOT_REPRESENTABLE" \in values THEN "NOT_REPRESENTABLE"
        ELSE IF "FAIL" \in values THEN "FAIL"
        ELSE IF "PASS" \in values THEN "PASS"
        ELSE "NOT_ORACLED"
================================================================================
