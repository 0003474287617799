# CU013 session runtime: a verification project

CU013 is the runtime behind a voice agent that resets passwords and unlocks accounts. A
caller talks to XCALLY; XCALLY posts each transcript to `/turns` and each technical fact
(identity checked, voice not heard, status of the operation at RD, password played back) to
`/integration-events`. The runtime keeps one Firestore document per conversation, asks a
language model for a *proposal*, and decides alone what is legal. XCALLY executes.

The modules beside this file model that decision, the durable document of every schema
version, the handlers that share it, the HTTP boundary, a client that loses messages, and the
lab that judges a change of the model; TLC checks them on small instances and TLAPS proves the
results listed under *What is proved* for every value of the constants.

## Inventory

| Part | State it keeps | Operations | Who calls it | Hard about it |
|---|---|---|---|---|
| Session record (`app/session/record.py`, `actions.py`) | goal and its revision, identity and its TTL, challenge, dispatch guard, external operation, polling plane, password presentation, voice retries | `new`, `is_valid_at`, `requires_handoff`, `is_active` | service and integration service | planes written by different handlers must fit each other |
| Migration (`record.py`) | none | whitelists, migration of versions 1-5, inferred assistance mode, refusal | repository | a live challenge must survive an upgrade, an unreadable document must not be replaced |
| Turn (`app/session/turns.py`) | none: a function of record, input, decision and instant | `run_model`, `advance_turn` and its helpers | `TurnService` through the LangGraph graph | precedence of some twenty rules; a challenge nobody heard must not survive |
| Turn service (`app/session/service.py`) | none | `handle_turn` = clock, load, model, `consolidate`, save, answer | `/turns` | the model is awaited between load and save; the save is unconditional |
| Integration service (`app/session/integration.py`) | none | identity, voice, status, errors, presentation; legacy and next-step-v1 vocabularies | `/integration-events` | duplicates, gaps, late and contradictory reports; the composer is awaited between load and save |
| Polling plane (`app/session/polling.py`) | receipts, feedback cadence | `classify_sequence`, `append_receipt` | integration service | the limit of nine observations, terminal results after it |
| Repository (`app/session/repository.py`) | the Firestore document | `load`, `load_existing`, `create_if_absent`, `save` | both services | last writer wins; only the creation is conditional; a failed save may have written |
| State projection, obligation (`state_projection.py`, `semantic_obligation.py`) | none | `presentation_is_active`, projections for the model | turn, adapter, lab | what the model is told and what the runtime enforces are separate conditions |
| Waiting feedback (`feedback.py`, `text.py`) | none | compose, validate | integration service | may answer late or not at all |
| Guided procedure and recent memory (`memory.py`) | procedure, suspended procedure, window | lifecycle, observation, window | turn, only when experiment 0009 is enabled | suspension and return, legality at the next load, two limits on the window |
| HTTP boundary (`app/api`) | none | authentication, contract selection, validation, error mapping, two serialisers | XCALLY | two vocabularies of one transition; the order of the refusals |
| Engine and model adapter (`app/conversation`) | none | one model call per turn, prompts | boundary | timeouts, invalid output, an error after the save |
| Conversation lab (`evals/conversation_{eval,lab,compare}.py`) | artifacts of two runs | replay in two lanes, oracles, finalisation, reruns, comparison | a developer | an oracle blind to what happened passes anything; reruns and incomplete pairs |
| Other harnesses (`evals`), scripts (`ops`), metrics | offline files, counters | | | |

What makes each correct, in one line: the **record** is coherent in every reachable state;
a **migration** keeps evidence and authorises nothing new; a **turn** dispatches only what the
caller consented to and leaves no challenge the caller did not hear; an **event** changes the
truth of an operation only by evidence and only once; **polling** consumes each observation
once and stays in its budget; the **services** answer an order only after its record is
durable; the **repository** never writes half a transition; the **boundary** writes nothing
for a request it refuses; the **projections** promise the model no more than the runtime
grants; the **lab** never accepts a run that got worse.

## Modules and their correspondence to the code

| Module | Code | What it holds |
|---|---|---|
| `SessionRecord` | `record.py`, `actions.py` | the planes as records, `NewRecord`, the validity tests |
| `Polling` | `polling.py`, `_polling_for`, `_maybe_feedback` | receipts, classification, budget, feedback cadence |
| `TurnRules` | `turns.py`, `presentation_is_active`, `consolidate` | one turn: `AdvanceTurn(rec, turn, dec, now, fresh)` returns the consolidated record and the outcome |
| `EventRules` | `integration.py` | one event: `HandleEvent(rec, event, now, fresh, pace)` returns accepted or not, the record, saved or not, the outcome |
| `Projection` | `state_projection.py`, `semantic_obligation.py`, the adapter's fallback | what the model is told, as functions of the record |
| `Migration` | `record.py` | a document of any version, `Readable`, `FromDocument`, `ToDocument` |
| `GuidedProcedure` | `memory.py` | the guided steps, their suspension and the window of pairs |
| `RecordProperties` | | what relates the planes of one record (`Coherent`) |
| `Conversation` | `service.py`, `repository.py`, the two endpoints | the stored document, the handlers and the environment; requests may overlap |
| `AccountOperation` | `integration.py:24-25`, ADR-0013 | the abstract contract of one operation; `Conversation` implements it one request at a time, `PollingClient` over a lossy wire |
| `Boundary` | `app/api`, `engine.py`, `gemini.py`, the repository | one HTTP request stage by stage, with a failure at every stage |
| `PollingClient` | both endpoints; the client is external | the service, a client that keeps the protocol, a lossy wire and RD |
| `Replay`, `LabOracle` | `conversation_eval.py`, `conversation_lab.py`, the simulated inputs of `turns.py` | a fixture, one replayed turn, its observed facts and every oracle |
| `Comparison`, `Lab` | `conversation_compare.py`, `evaluate` | two runs, finalisation, reruns and the verdict |
| `*Properties` | | the properties of `Conversation`, `Boundary`, `PollingClient`, `Lab`; those of `Conversation` and `PollingClient` with `Contract`, the refinement mapping |
| `MC*` | | the proposals, documents, corpus and settings of each run |
| `*_proofs` | | the theorems |

`TurnRules`, `EventRules` and `Migration` are pure; the three compositions above them ask
different questions. `Conversation` interleaves handlers between awaits and lets XCALLY post
anything; `Boundary` serves one request at a time but opens every stage of it to failure and
starts from documents of every version; `PollingClient` fixes the client's discipline, so that
something can be expected to happen.

### `Conversation`

It keeps the document (`doc`), what each handler is serving (`request`: the
input, the instant it read first, the record it loaded), the last outcome answered
(`answer`), every command ever answered (`orders`), what RD has reported (`succeeded`,
`failed`), the clock and the next fresh identifier. Its actions are the steps of a handler
between two awaits:

* `Receive` reads the clock, as both services do before anything else.
* `Load` is `load` for a turn and `load_existing` for an event.
* `FinishTurn` is everything after the model answered: decide, consolidate, save, answer.
  The decision is any of `Decisions`; nobody is asked when there is nothing to read.
* `FinishEvent` is `_apply` and its save, when it saves. `RejectUnknownSession` and
  `Bootstrap` are the two ends of an event without a document; a lost creation race reads
  the document again.
* `Lose` is a crash, a model failure or a failed load or save: nothing is written.
* `Report` and `Tick` are the world.

The decision and the save are one step because nothing the handler does between them reads
shared state, and a save writes a whole document. A crash after the save and before the
answer needs no step of its own: no action reads `answer`, and `orders` keeps the command
whether or not anybody heard it, so every behaviour with a lost answer is already there.

### `Boundary`

`request` moves through the stages received, admitted, loaded, decided, stored. The refusals
of an endpoint are a tuple of conditions and statuses in the order the framework evaluates them
(`TurnChecks`, `EventChecks`); `Refuse` answers the status of the first that holds. `FailModel`
is the one model call of a turn that times out, is unreachable or answers outside its contract;
`FailSave` may have written; `Break` ends the process or the connection at any stage, after the
save included. `Respond` serialises in the selected contract, and what it cannot say is a 500
after the save. `stored` starts as a document of any version, also one this version cannot
read. `before` and `ordered` are history.

### `PollingClient`

The conversation begins with a confirmation asked. The client posts turns, calls RD once when
told `EXECUTE_ACTION`, numbers its observations, dictates the password when told
`DELIVER_PASSWORD` and reports the playback. What the protocol needs it posts again, unchanged,
until it is answered: the document gives `poll_sequence` and its fingerprint that meaning
(`docs/specs/xcally-boundary.md:354`). What the caller said is not said again by the client.
`Lose` drops a request (a process that died before its save, a model that failed) or an answer
(a process that died after it).

### `Lab`

A behaviour follows one trial of one case through the baseline and then the candidate: the
fixture is built, each turn is advanced with the simulated identity, confirmation and external
inputs only the lab sets, the memory is carried from turn to turn, the facts are projected, the
oracles judge, the repetition is finalised, perhaps repeated and merged, and the two artifacts
are compared. Which of the model's answers come, whether it answers at all, whether a run covers
the trial, and how the comparison is asked for are choices. In the repository lane a turn starts
only from a memory whose document can be read (`IsLoaded`); that `TurnService` then loads the
record which was saved is `Boundary`'s matter, not the lab's.

**External.** The caller, XCALLY, the model and RD. In `Conversation` XCALLY may post any input
at any time, in any order and any number of times, with two exceptions: an event names an
operation only through a command that was answered (identifiers are unguessable), and a terminal
status is posted only after RD reported it (`IsReported`). RD may report success and failure of
the same operation. The model may propose anything in `ModelTurnDecision`; a run gives it
the few proposals that reach every branch the run is about.

**Abstractions.** Identifiers are fresh numbers; instants are ticks; a message is its kind;
`turn_count` is "zero or not"; a fingerprint is the observation it digests, with two
distinct errors; the legacy progress phrase is the saving of the record and the choice of
a phrase (`Pace`). The record's revision counter, timestamps no decision reads, the email facts
kept for old documents and the experimental planes (in `GuidedProcedure`) are left out of
`SessionRecord`. `identity_outcome`, `confirmation_event` and `external_event` of `TurnInput` are
left out of `TurnRules`, because the engine behind `/turns` never sets them
(`app/conversation/engine.py:71-78`), and are in `Replay`, because the lab does. A document of
`Migration` has a bounded voice-retry counter, where the models admit any. A body is what
its schema makes of it: a turn, an event, JSON of neither, or no JSON. A pair of the window is its
size. No operation this version opens carries a delivery, so
`ClaimIsBacked` answers no where `turns.py:891` reads one that a migrated document may hold. The
lab compares texts to tell whether the candidate's words were replaced
(`conversation_eval.py:547`); `ObserveTurn` tells by the kind of message, so a candidate that
repeats a canonical phrase word for word counts as replaced. In the comparison, latencies and token counts are "higher" and "changed".

## What each run checks

| Run | Question | Shows |
|---|---|---|
| `Plan.cfg` | goals, modes, identity, voice failures, confirmations in every order | `ConsentBeforeDispatch`: the dispatch consumes the stored challenge, for the goal and the validation in force; `ChallengeIsCurrent`: what is stored fits goal, revision and validation; `ChallengeIsAsked`: a turn that does not listen, or that broke a rule, leaves nothing to be consumed unheard; `CommandIsDurable`; `ChallengeIsPermitted`, `ObligationIsHonoured`: the model is told no more and no less than the turn enforces |
| `Settlement.cfg` | one operation ordered, doubted, reported, contradicted, asked for again | `OneMutationPerCall`, `OrderIsDurable`, `SettledStaysSettled`, and the refinement `ImplementsAccountOperation` |
| `Reset.cfg` | a reset polled under next-step-v1, then its password presented | budget, receipts, presentation, closing |
| `Overlap.cfg` | two requests in flight, the last save winning | the stored operation is still the dispatched one (`DispatchAndOperationTogether`) and settled only as RD reported (`EvidenceBacked`), and a lost creation race overwrites nothing (`CreationNeverOverwrites`); the one-at-a-time promises do not survive and are not checked there |
| `Boundary.cfg` | any two requests, on a document of any version, with a failure at any stage | `RefusalLeavesNoTrace`, `UnreadableIsKept`, `DecidedTurnIsSerialisable`; `OneMutationPerConversation` counts what older versions ordered and what a failed save wrote; `LiveChallengeSurvivesUpgrade`; `WrittenIsReadable`: no sequence of turns and events writes a document its own model refuses |
| `Recovery.cfg` | from a confirmation to the end over a lossy wire | `RetryIsNeverRefused`; `RDIsCalledOnce`, whatever is lost; the refinement `ClientImplementsAccountOperation`, with what RD did for evidence and the stored guard for the order; `OrderIsResolved` and `PasswordIsPresented`, the two liveness properties |
| `Lab.cfg` | two runs of a corpus, finalised, rerun and compared | the oracles see what the runtime did (`ProvenanceIsHonest`, `ObligationFollowsExpectation`, `NothingCriticalIsExecuted`), the memory stays sound from turn to turn (`ProcedureFollowsGoal`, `ProcedureIsLegal`, `WindowKeepsRecentPairs`), and `AcceptedIsNoWorse` |

Five runs end in a counterexample: a sentence of the documents or comments the code does
not keep. None of the first four leads to an execution the caller did not ask for.

| Run | The text says | The code does |
|---|---|---|
| `OnlyAutonomousIsChallenged.cfg` | only an autonomous reset opens a challenge (`system.md:83`) | `VALID` opens one for any pending goal; the dispatch guard refuses it later |
| `NoChallengeAfterMutation.cfg` | after one mutation nothing opens a challenge (`turns.py:740`) | `VALID` opens one when the operation is no longer active; the guard refuses it |
| `TerminalClearsGoal.cfg` | a terminal result clears the goal (`xcally-boundary.md:119`) | a failure keeps it |
| `UnconfirmedIsGrounded.cfg` | messages are grounded in the record (`integration.py:26`) | an unrecognized literal closing the budget of a settled operation announces an unconfirmed result |
| `AcceptMeansNoRegression.cfg` | paired evidence without regressions can be accepted (`0007-agent-evaluation-lab.md:97`) | a repetition whose model output became invalid has no verdicts to regress, so it is accepted |

`Lab`, `Boundary` and `Recovery` do not check deadlock: an evaluation ends with its comparison,
`Boundary` with its last request, and a caller of `PollingClient` may hang up. The others
check it.

### Bounds

`MaxTime`, `MaxIds`, `MaxRevision`, `MaxFailures` and `MaxSequence` bound the exploration: the
clock stops, inputs beyond them are not sent, and a request that would leave them can only
be lost. They are set one past what the question needs: two goal revisions (a correction
and a stale one), identifiers for a challenge, its operation, two replacements, a clock
that reaches the expiry of a validation in `Plan`, one poll sequence more than the limit in
`Reset`. The constants of the code are scaled (a limit of 2 or 3 for 9 observations, a TTL of 2
ticks, 2 failures for 3 and 4): only comparisons with them matter, and the proofs hold for
every value of them. Identity failures beyond the handoff limit change nothing more
than the limit itself. `Overlap` uses the smallest constants, and the symmetry of its two
handlers.

Some cases are left to the theorems, which cover them for any number of handlers and any bound.
`Plan` has one handler and no password turn, so `ChallengeIsCurrent` under overlapping saves, and
after a turn that saves and then answers an error (`engine.py:80`), is `ChallengeStaysCurrent`.
`Reset` has one order, of a reset: a playback reported for a revision no longer dispatched is
`PresentationStaysOwed`, and an unlock that must not deliver a password is `PasswordIsOwed`.

`Boundary` serves two requests (`MaxRequests`): the second meets what the first left, and the
stored documents already hold what longer conversations leave, one for each thing a migration
must get right. `Recovery` loses up to three messages (`MaxLosses`), enough to lose the same
request, its answer and its retry, and lets the budget of three observations run out around
them. `Lab` reruns once, with a corpus of one case per kind of fixture and event of
`evals/conversation/cases.yaml`; a window of two pairs and five bytes meets both limits.

### Fairness

Only `PollingClient` assumes any. Weak fairness of `Serve` is the process answering the request
that reached it (`/turns` and `/integration-events` await nothing but the store, the model and
the composer, each with a deadline, and a request that never ends is a lost one); of `Hear`,
`Send` and `ClientSteps` it is the flow going on with the step it was told, which is what
`docs/specs/xcally-boundary.md` requires of XCALLY. The flow itself is not in the repository, and
the document leaves its real retries open (XC-002 to XC-004, `xcally-boundary.md:534`): the
liveness results are conditional on a client that posts again what was not acknowledged. The
caller, RD and a call already handed over owe nothing: RD may never settle, so it is the
observation budget that makes `OrderIsResolved` true. Losses are finitely many. The model does
not report the password as understood before a word was said in the presentation
(`ServeTurn`); with that proposal a
presentation can be put off for ever.

## What is proved

`tlapm` checks, with no assumption but those the modules name on their constants, and that TLC
evaluates in every run (`LimitsAssumption`, `NoneAssumption`, `NoDocumentAssumption`,
`NoOutcomeAssumption`, `NoMemoryAssumption`, `NoReplyAssumption`: the limits are positive and the
values that stand for absence are no values; `ModelAssumption`, `BoundaryAssumption`,
`WindowAssumption`, `NowAssumption`, `CorpusAssumption`, `RunAssumption`, `ClientAssumption`: what
the environment may propose, store or replay is what the code admits):

* `TurnRules_proofs`: a turn keeps a record a record, its outcome an outcome, and a coherent
  record coherent; it orders only when no operation was ever opened; what it answers fits what
  it leaves, what it dispatches was consented to, and a plain yes to a consumable challenge
  dispatches.
* `EventRules_proofs`: the same of every event; a terminal status needs a terminal report, a
  receipt and a finished presentation stay, and a replayed observation changes nothing.
* `Conversation_proofs`: **for any set of handlers**, `TypeCorrect` (`TypeOK`),
  `OperationIsDispatched` (`DispatchAndOperationTogether`), `ChallengeStaysCurrent`
  (`ChallengeIsCurrent`), `PollingStaysBounded` (`PollingIsBounded`), `ReceiptsStayTrue`
  (`ReceiptsAgree`), `PresentationStaysOwed` (`PresentationIsOwed`), `TruthComesFromEvidence`
  (`EvidenceBacked`), `CreationIsConditional` (`CreationNeverOverwrites`), and what the model is
  told against what the turn does: `ChallengesArePermitted` (`ChallengeIsPermitted`) and
  `ObligationsAreHonoured` (`ObligationIsHonoured`). The inductive invariant `Inv` says that not
  only the stored record but every copy in a handler's hands is typed and `Sound`: coherent, and
  its terminal status backed by a report. That is what an overlapping save needs, since it
  stores a copy, however old; and evidence is never withdrawn, so an old copy stays sound.
* `Sequential_proofs`: **for one request at a time** (`OneAtATime`), `OrdersAreDurable`
  (`OrderIsDurable`), `OrdersOnce` (`OneMutationPerCall`), `SettlementIsFinal`
  (`SettledStaysSettled`) and `ConversationImplementsAccountOperation` (the refinement).
  `SequentialInv` adds that the copy in the handler's hands is the stored record and that
  every order names the stored operation; `OperationStep` classifies what a request may do to
  the operation, and each case is a step of the contract. `BackedInv` adds that the answer
  XCALLY holds fits the record it was saved with (`AnswerFits`) and that no goal waits beside a
  password that is owed (`OwedClearsGoal`: without it a later turn could ask a question instead of
  dictating). From it follow the answers, `CommandsAreDurable` (`CommandIsDurable`),
  `QuestionsAreStored` (`ChallengeIsAsked`), `PasswordIsOwed` (`PasswordOnlyWhenOwed`) and
  `ClosingIsSettled` (`ClosedOnlyWhenSettled`), and the action properties,
  `ConsentPrecedesDispatch` (`ConsentBeforeDispatch`), `PlaybackOnlyGrows`
  (`PlaybackIsMonotone`), `ReceiptsOnlyGrow` (`ReceiptsAreKept`) and `DuplicatesAreReplayed`
  (`DuplicateChangesNothing`).
* `Migration_proofs`: **for every document**, `MigrationKeepsEvidence` and
  `FirstVersionAuthorizesNothing`. With `TurnRules_proofs` and
  `EventRules_proofs` they carry coherence from one version to the next: the inferred mode
  touches neither challenge, dispatch nor operation.
* `Boundary_proofs`: **for any documents, requests and failures**, `RefusalsLeaveNoTrace`
  (`RefusalLeavesNoTrace`), `UnreadableStaysKept` (`UnreadableIsKept`) and
  `DecidedTurnsAreSerialisable` (`DecidedTurnIsSerialisable`). `BoundaryInv` says that nothing
  differs from what the request found before its save, that nothing is decided on a document
  that could not be read, and that an answer is withdrawn by the next request. `TurnInv` says
  that a turn past its checks passed all of them; a legacy one has therefore no password, and
  `TurnWithoutSecretIsConversational` says that such a turn takes a step every route can say.
  `HistoryInv` says that the stored document names every operation the conversation ever
  ordered, and that a decided record names what the stored one did and at most one more, only
  if that one named none; hence `OrderedAtMostOnce` (`OneMutationPerConversation`), whose one hypothesis
  is that no document already stored names two operations. No migration adds one, and a
  record has room for one dispatch. `UpgradesServeLiveChallenges`
  (`LiveChallengeSurvivesUpgrade`) needs no hypothesis. `CarryOnInvariance` says that a decided
  record keeps what the stored document has settled and is coherent if that document is;
  what is written loads as what was decided, because it is admitted by the closed model it is
  read with (`WritesAreReadable`, `WrittenIsReadable`: `model_copy` runs no validator, so it takes
  the typing of every turn and event to know it). Hence `SettlementsOutliveVersions` (a settled
  operation stays as it was settled, across versions of the service and failed saves) and
  `CoherenceIsKept` (a conversation that began coherent stays so). The one kind of
  document that is not coherent to begin with is that of version 1 with an operation, which has
  no dispatch to agree with.
* `PollingClient_proofs`: **for any losses and any proposals of the model**,
  `RetriesAreNeverRefused` (`RetryIsNeverRefused`). The property says nothing of the record, so it
  is far from inductive. `RecoveryInv` (`RecoveryInvariance`) relates the three parties: the
  command the client keeps correlates with the stored operation; the record has consumed
  every observation the client had answered (`Awaits`), or one more, which is then the very one
  the client still holds (`HasConsumed`); while the client polls there is an active operation
  and budget left; the operation is settled only as RD settled it, so a late terminal result
  agrees; and an answer on its way leads where the record can go on (`AnswerLeads`). A lost
  answer leaves `HasConsumed`, a lost request `Awaits`: the retry is classified as a replay in
  the one case and as new in the other, never as a gap or a conflict. `OrderInv`
  (`OrderInvariance`) adds where an order is on its way: RD knows of none the record does not,
  and of none that is still in an answer or with a client that has not called. The record
  orders once, so an answer with a second order cannot come, and `RDIsCalledAtMostOnce`
  (`RDIsCalledOnce`) follows: neither a lost answer, nor a call that failed without a trace, nor
  a second confirmation calls RD again. `LossyWireImplementsAccountOperation`
  (`ClientImplementsAccountOperation`) is the refinement: a turn is the order or a stutter, a
  dispatch error the doubt, a terminal observation the settlement, and what settles it is what
  RD did. `ObservationsStayBudgeted` is the safety half of `OrderIsResolved`: RD is read only
  within the budget, each answered read takes one place in it and no loss gives one back.
* `Lab_proofs`: **for every corpus, every answer of the model and every number of reruns**,
  `NoCriticalIsExecuted` (`NothingCriticalIsExecuted`), `SourcesAreHonest`
  (`ProvenanceIsHonest`), `ExpectationsAreRead` (`ObligationFollowsExpectation`),
  `ProceduresFollowTheGoal` (`ProcedureFollowsGoal`), `ProceduresStayLegal`
  (`ProcedureIsLegal`) and `AcceptanceIsSafe` (`AcceptedIsNoWorse`). They rest on `CuesKeepTheProcedure` and `GoalsKeepTheProcedure` (no
  cue and no change of goal leaves a procedure its own validator would refuse, or at another
  revision) and on `LabInv`: a trial stays one of its case, its dispatch is the runtime's, its memory fits its goal and what it observed last is what the runtime did; an
  artifact holds for each case only what such a trial can have recorded (`RepetitionFits`);
  and the report compares the two artifacts there are. The conclusions need one fact about the
  corpus (`CorpusAssumption`): a fixture that awaits a confirmation has no operation yet, as in
  every case of `evals/conversation/cases.yaml`. `WindowsKeepRecentPairs`
  (`WindowKeepsRecentPairs`) is about the loop that drops pairs until the window fits. Its byte
  total is a recursive function of the number of pairs, so what it says of a window one pair
  longer or shorter is its definition; `WindowInv` says that the window is an end of everything
  said, within both limits, and that a longer end would break one of them. That the recursion
  has a value, and that it adds up, takes an induction on the number of pairs, made without the
  library's schema: the least number at which it failed would have a smaller one.

`OneAtATime` is the deployment the repository documents: concurrency 1 (`README.md:108`),
last writer wins accepted while XCALLY serves a conversation sequentially
(`docs/specs/account-actions.md:300`, `docs/specs/system.md:138`, ADR-0009). No theorem states
what an overlap breaks.

TLC finds no violation of any of these inductive invariants on the instances of the runs
(`Plan`, `Settlement`, `Reset` and `Overlap` for `Inv`, the first three for `SequentialInv` and
`BackedInv`, `Boundary`, `Recovery` and `Lab` for theirs). Three results are stated beside their
proofs and have no run of their own: `SettlementOutlivesVersions`, `CoherenceOutlivesVersions` and
`ObservationsAreBudgeted`.

Only model-checked:

* `OrderIsResolved` and `PasswordIsPresented`: liveness under fairness, which needs `ENABLED`
  of the fair actions and is beyond this prover. Of what they rest on, `RecoveryInv` and
  `ObservationsStayBudgeted` are proved.
* The five counterexamples, which are TLC's by nature.

## What else the models met

Behaviour worth a reader's attention that no run of its own records:

* A `SessionPersistenceError` of a turn is not translated: `/turns` answers 500
  (`PersistenceStatus`; `tests/api/test_command_authorization.py:194` expects it) where
  `docs/specs/xcally-boundary.md:494` and the endpoint's own responses list 503.
* A turn without an outcome (a password, no active presentation) answers 500 after its record
  was saved.
* On the legacy contract a confirmed reset leaves every later turn waiting for a presentation
  that no legacy event can report. An operation that version 1 left without a dispatch can
  never be correlated, so it stays as it is.
* `recovery_observation_applies` of the lab does not know of a challenge dropped in the same
  turn by the change of the goal, so it reports `INCOHERENT_CHALLENGE_PRESENTATION` for a turn
  that presented what it stored; `NothingCriticalIsExecuted` leaves that class out and
  `ProvenanceIsHonest` says when it is exact.
* While an operation runs, the lab's expectation and the model's obligation differ: a caller who
  asks for a reset without saying how, beside a pending unlock, is asked for the mode
  (`ASSISTANCE_MODE_CHOICE`), and the next turn is read with the obligation `NONE` until the
  operation ends. `ObligationFollowsExpectation` says so; an earlier form of it did not, and a
  small corpus did not show it: the proof did.
* `merge_reruns` appends the whole case of a rerun when its repetition is missing in the
  original, and `finalize_repetition` judges every paraphrase trial with the
  expectation of the first turn of its case.

## Plan

1. *Done*: the record, turns, events, polling, the conversation and its contract.
2. *Done*: `PollingClient` with liveness; `Boundary` with `Migration`; `Projection`;
   `GuidedProcedure`, `Replay`, `LabOracle`, `Comparison` and `Lab`.
3. *Done*: proofs of every safety invariant, action property and refinement the passing runs
   check.
4. Open: that the legacy and the next-step contracts serialise one transition, as a lemma of
   `Boundary`; liveness in `Recovery`, with a prover that reasons about `ENABLED`.

## Not modelled

* Prompts (`prompt_*.py`) and the request the adapter renders: text for the model.
* The patterns that admit a feedback message (`feedback.py`, `text.py`): regular expressions; a
  composer that fails or is refused is one of the paces.
* The fields of a schema and the corpus loader: a body or a case is admitted or not.
* Measures, aggregates and reports of the lab, and the other harnesses of `evals`: they send
  text, measure time and match wording.
* Metrics, logging, process wiring and the deployment scripts decide no durable state.

Firestore is a document that is written whole or not at all.
