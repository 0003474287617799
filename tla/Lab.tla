----------------------------------- MODULE Lab -----------------------------------
(***************************************************************************)
(* An evaluation: the baseline and then the candidate replay the corpus,   *)
(* every repetition is finalized, focused reruns replace the ones they     *)
(* repeat, and the two runs are compared (replay_trial,                    *)
(* replay_trial_repository, finalize_repetition and evaluate of            *)
(* evals/conversation_eval.py, merge_reruns and compare_runs of            *)
(* evals/conversation_compare.py).                                         *)
(*                                                                         *)
(* A behaviour follows one trial of one case through both runs.  What the  *)
(* model answers, whether it answers, whether the run covers the trial and *)
(* how the comparison is asked for are choices of the environment.         *)
(***************************************************************************)
EXTENDS LabOracle, Comparison

CONSTANTS
    Corpus,        \* Corpus[id]: a case, its initial state, expectations and the turns its trial
                   \* replays: those it lists, or one without speech when it lists none
    Answers,       \* Answers[lane][case]: what the model of a run may answer
    Variant,       \* Variant[lane]: the memory variant under test
    Store,         \* Store[lane]: replayed "direct" or through the "repository"
    Settings,      \* the ways the comparison is asked for
    Focus,         \* the cases a focused rerun repeats
    MaxReruns      \* bound on the focused reruns of one run

Lane == {"baseline", "candidate"}
TrialKind == {"independent_trial", "sequence"}

Cases == DOMAIN Corpus

MemoryVariant ==
    {"no_recent_memory", "procedure_progress_only", "recent_conversation_memory"}

(* What validate_corpus lets in and the corpus keeps to: a fixture waits for a confirmation
   only while nothing was ordered. *)
ASSUME CorpusAssumption ==
    \A case \in Cases :
        /\ Corpus[case].kind \in TrialKind
        /\ Corpus[case].state \in InitialState
        /\ Corpus[case].state.confirmation = "pending" => Corpus[case].state.operation = None
        /\ Len(Corpus[case].turns) \in Nat
        /\ ~Corpus[case].listed =>
             Len(Corpus[case].turns) = 1 /\ ~Corpus[case].turns[1].spoken
        /\ \A i \in 1..Len(Corpus[case].turns) : Corpus[case].turns[i].event \in CorpusEvent

ASSUME RunAssumption ==
    /\ MaxReruns \in Nat
    /\ \A l \in Lane :
         /\ Variant[l] \in MemoryVariant
         /\ \A case \in Cases : Answers[l][case] \subseteq ModelReply

VARIABLES
    lane,       \* the run in progress, or "compared"
    trial,      \* the replay in progress, or None
    reruns,     \* reruns of the run in progress
    artifact,   \* artifact[lane]: the repetitions recorded
    report      \* the setting and verdict of the comparison, or None

vars == <<lane, trial, reruns, artifact, report>>

NoArtifact == <<>>      \* the artifact without repetitions

Init ==
    /\ lane = "baseline"
    /\ trial = None
    /\ reruns = 0
    /\ artifact = [l \in Lane |-> NoArtifact]
    /\ report = None

\* The case both runs follow, once one of them replayed it.
Chosen == DOMAIN artifact["baseline"] \cup DOMAIN artifact["candidate"]

--------------------------------------------------------------------------------
(* The replay of one trial. *)

NewTrial(id) ==
    LET case == Corpus[id]
        rec == BuildInitialRecord(case.state)
    IN  [case |-> id, position |-> 1, rec |-> rec, memory |-> NoMemory, fresh |-> FirstFreshId,
         known |-> IF rec.dispatch = None THEN {} ELSE {rec.dispatch.operation},
         count |-> 0, verdicts |-> <<>>, criticals |-> {}, said |-> <<>>,
         message |-> "none", last |-> None]

\* A run replays the trial it has not recorded, or repeats it while a rerun is left.
StartTrial(case) ==
    /\ lane \in Lane
    /\ trial = None
    /\ Chosen \subseteq {case}
    /\ case \in DOMAIN artifact[lane] => case \in Focus /\ reruns < MaxReruns
    /\ trial' = NewTrial(case)
    /\ reruns' = IF case \in DOMAIN artifact[lane] THEN reruns + 1 ELSE reruns
    /\ UNCHANGED <<lane, artifact, report>>

\* Mutant of Dispatched: the operation the fixture already dispatched is not remembered.
DispatchedAnything(t, rec) == rec.dispatch # None

Dispatched(t, rec) == rec.dispatch # None /\ rec.dispatch.operation \notin t.known

\* What the lab sees of the turn: the states it had in hand before and after.
Seen(t, event, reply, step, dispatched, count) ==
    ObserveTurn(ProjectRecord(t.rec, t.memory), ProjectRecord(step.record, step.memory),
                DeriveSemanticObligation(t.rec, Now),
                IF reply = None THEN None ELSE reply.decision,
                event, step.outcome, dispatched, count)

Followed(t, turn, reply, step, seen) ==
    [t EXCEPT
        !.position = @ + 1,
        !.rec = step.record,
        !.memory = step.memory,
        !.fresh = @ + 1,
        !.known = IF seen.dispatched THEN @ \cup {step.record.dispatch.operation} ELSE @,
        !.count = seen.count,
        !.verdicts = Append(@, TurnPropertyVerdicts(turn.expect, seen)),
        !.criticals = @ \cup seen.criticals,
        !.said = IF step.kept /\ Variant[lane] = "recent_conversation_memory"
                 THEN Append(@, MakePair(reply.size, Len(@) + 1, step.goal)) ELSE @,
        !.message = IF step.outcome = None THEN "none" ELSE step.outcome.message,
        !.last = seen]

Counted(t, turn, reply, step, dispatched) ==
    Followed(t, turn, reply, step,
             Seen(t, turn.event, reply, step, dispatched,
                  IF dispatched THEN t.count + 1 ELSE t.count))

Judged(t, turn, reply, step) ==
    Counted(t, turn, reply, step, Dispatched(t, step.record))

(* One turn of the trial: what the runtime makes of the conversation the turn before left,
   and what the lab says of it.  reply is None for a turn without speech. *)
Replayed(t, turn, reply) ==
    Judged(t, turn, reply,
           ReplayTurn(Variant[lane], t.rec, t.memory, turn.event, reply, t.fresh))

IsRunning == trial # None /\ trial.position <= Len(Corpus[trial.case].turns)

NextTurn == Corpus[trial.case].turns[trial.position]

\* The model answers a turn with speech; a turn without asks nobody.
Replies == IF NextTurn.spoken THEN Answers[lane][trial.case] ELSE {None}

\* Through the repository the turn starts by reading the document the turn before saved.
IsLoaded == Store[lane] = "repository" => MemoryIsAdmitted(trial.memory)

ReplayNextTurn ==
    /\ IsRunning
    /\ IsLoaded
    /\ \E reply \in Replies : trial' = Replayed(trial, NextTurn, reply)
    /\ UNCHANGED <<lane, reruns, artifact, report>>

--------------------------------------------------------------------------------
(* finalize_repetition. *)

Recorded(t, status, modelFailure) ==
    IF status # "valid"
    THEN [status |-> status, classification |-> "INFRA", verdicts |-> <<>>, turns |-> <<>>,
          criticals |-> {}]
    ELSE IF t.position = 1      \* no turn was observed
    THEN [status |-> status, verdicts |-> <<>>, turns |-> <<>>, criticals |-> {},
          classification |-> IF modelFailure THEN "MODEL_FAILURE" ELSE "FAIL"]
    ELSE LET verdicts == CasePropertyVerdicts(Corpus[t.case], t.last)
         IN  [status |-> status, verdicts |-> verdicts, turns |-> t.verdicts,
              criticals |-> t.criticals,
              classification |-> ClassifyVerdicts(verdicts, modelFailure)]

\* merge_reruns: a rerun takes the place of the repetition it repeats.
Merged(run, case, repetition) ==
    [c \in DOMAIN run \cup {case} |-> IF c = case THEN repetition ELSE run[c]]

FinishTrial(status, modelFailure) ==
    /\ artifact' = [artifact EXCEPT
            ![lane] = Merged(@, trial.case, Recorded(trial, status, modelFailure))]
    /\ trial' = None
    /\ UNCHANGED <<lane, reruns, report>>

FinalizeRepetition == trial # None /\ ~IsRunning /\ FinishTrial("valid", FALSE)

\* The model times out or is unavailable, or the document of the lane cannot be read or saved.
InfraInterrupts == IsRunning /\ (NextTurn.spoken \/ Store[lane] = "repository")
                   /\ FinishTrial("infra", FALSE)

\* The model's answer is no valid decision.
ModelFails == IsRunning /\ NextTurn.spoken /\ FinishTrial("valid", TRUE)

--------------------------------------------------------------------------------
(* The two runs, and their comparison. *)

CloseRun ==
    /\ lane \in Lane
    /\ trial = None
    /\ lane = "candidate" => Chosen # {}
    /\ lane' = IF lane = "baseline" THEN "candidate" ELSE "compared"
    /\ reruns' = 0
    /\ UNCHANGED <<trial, artifact, report>>

Compare(setting) ==
    /\ lane = "compared"
    /\ report = None
    /\ report' = [setting |-> setting,
                  verdict |-> CompareRuns(artifact["baseline"], artifact["candidate"], setting)]
    /\ UNCHANGED <<lane, trial, reruns, artifact>>

Next ==
    \/ \E case \in Cases : StartTrial(case)
    \/ ReplayNextTurn
    \/ FinalizeRepetition
    \/ InfraInterrupts
    \/ ModelFails
    \/ CloseRun
    \/ \E setting \in Settings : Compare(setting)

Spec == Init /\ [][Next]_vars
================================================================================
