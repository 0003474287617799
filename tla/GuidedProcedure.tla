----------------------------- MODULE GuidedProcedure -----------------------------
(***************************************************************************)
(* The experimental memory of a conversation (app/session/memory.py): the  *)
(* progress of the guided reset, the one procedure a change of goal may    *)
(* suspend, and the window of recent caller/assistant pairs.               *)
(*                                                                         *)
(* The guided steps (microsoft_portal, tivit_portal, service_desk) are     *)
(* their positions; a procedure without a current step is finished.  The   *)
(* only procedure there is goes without its identifier, and the text of a  *)
(* pair is its size in bytes.                                              *)
(***************************************************************************)
EXTENDS SessionRecord, FiniteSetsExt

CONSTANTS
    WindowPairs,    \* window_n
    PairBytes,      \* MEMORY_PAIR_BYTES
    WindowBytes,    \* MEMORY_WINDOW_BYTES
    MarkerBytes     \* the size of the two omission markers

ASSUME WindowAssumption ==
    /\ WindowPairs \in Nat \ {0}
    /\ PairBytes \in Nat \ {0}
    /\ MarkerBytes \in 1..PairBytes
    /\ WindowBytes \in Nat /\ WindowBytes >= PairBytes

LastStep == 3
GuidedStep == 1..LastStep
ProcedureObservation == {"NONE", "ADVANCE", "REGRESS", "PAUSE", "RESUME"}

ProcedureState ==
    [current : Optional(GuidedStep), last : Optional(GuidedStep), awaiting : BOOLEAN,
     revision : Nat]

SuspendedProcedure ==
    [action : Action, revision : Nat, current : Optional(GuidedStep),
     last : Optional(GuidedStep)]

TurnPair == [sequence : Nat, revision : Optional(Nat), size : 1..PairBytes, omitted : BOOLEAN]

Memory ==
    [procedure : Optional(ProcedureState), suspended : Optional(SuspendedProcedure),
     window : Seq(TurnPair)]

ASSUME NoMemoryAssumption == None \notin ProcedureState \cup SuspendedProcedure

NoMemory == [procedure |-> None, suspended |-> None, window |-> <<>>]

\* The validator a stored procedure must pass whenever its document is read.
StepsAreLegal(procedure) ==
    /\ procedure.current # None /\ procedure.last # None =>
         procedure.last < procedure.current
    /\ procedure.current = None => procedure.last \in {None, LastStep}

\* The memory with which a document can be read.
MemoryIsAdmitted(memory) ==
    /\ memory.procedure # None => StepsAreLegal(memory.procedure)
    /\ \A i \in DOMAIN memory.window : memory.window[i].size <= PairBytes

--------------------------------------------------------------------------------
(* The goal opens, suspends, resumes and closes the procedure. *)

\* UNLOCK has no guided self-service.
OpenProcedure(goal) ==
    IF goal.action # Reset THEN None
    ELSE [current |-> 1, last |-> None, awaiting |-> FALSE, revision |-> goal.revision]

\* What waits after the goal before was left: its own procedure, or the one already waiting.
Suspended(memory, before) ==
    IF memory.procedure = None THEN memory.suspended
    ELSE [action |-> before.action, revision |-> memory.procedure.revision,
          current |-> memory.procedure.current, last |-> memory.procedure.last]

Resumed(suspended, goal) ==
    [current |-> suspended.current, last |-> suspended.last, awaiting |-> FALSE,
     revision |-> goal.revision]

\* Mutant of ApplyGoalLifecycle: a change of goal leaves the procedure running.
LifecycleWithoutSuspension(memory, before, goal) ==
    IF goal = None THEN [memory EXCEPT !.procedure = None, !.suspended = None]
    ELSE IF memory.procedure = None
    THEN [memory EXCEPT !.procedure = OpenProcedure(goal)]
    ELSE [memory EXCEPT !.procedure.revision = goal.revision]

\* before and goal: the goal of the loaded record and the one the turn leaves.
ApplyGoalLifecycle(memory, before, goal) ==
    IF goal = None THEN [memory EXCEPT !.procedure = None, !.suspended = None]
    ELSE IF before # None /\ before.action # goal.action
    THEN LET waiting == Suspended(memory, before)
         IN  IF waiting # None /\ waiting.action = goal.action
             THEN [memory EXCEPT !.procedure = Resumed(waiting, goal), !.suspended = None]
             ELSE [memory EXCEPT !.procedure = OpenProcedure(goal), !.suspended = waiting]
    ELSE IF memory.procedure = None
    THEN [memory EXCEPT !.procedure = OpenProcedure(goal)]
    ELSE [memory EXCEPT !.procedure.revision = goal.revision]

--------------------------------------------------------------------------------
(* The model's cue moves it, one legal step at a time. *)

PreviousStep(step) == IF step = None \/ step = 1 THEN None ELSE step - 1
NextStepAfter(step) == IF step = LastStep THEN None ELSE step + 1

Advanced(procedure) ==
    IF procedure.current = None THEN procedure
    ELSE [procedure EXCEPT !.current = NextStepAfter(procedure.current),
                           !.last = procedure.current]

\* Mutant of Regressed: the step taken back still counts as completed.
RegressedKeepingLast(procedure) ==
    IF procedure.last = None THEN procedure
    ELSE [procedure EXCEPT !.current = procedure.last]

Regressed(procedure) ==
    IF procedure.last = None /\ procedure.current # None THEN procedure
    ELSE [procedure EXCEPT !.current = procedure.last,
                           !.last = PreviousStep(procedure.last)]

ApplyProcedureObservation(procedure, cue) ==
    IF procedure = None THEN None
    ELSE CASE cue = "NONE" -> procedure
           [] cue = "PAUSE" -> [procedure EXCEPT !.awaiting = TRUE]
           [] cue = "RESUME" -> [procedure EXCEPT !.awaiting = FALSE]
           [] cue = "ADVANCE" -> Advanced(procedure)
           [] cue = "REGRESS" -> Regressed(procedure)

--------------------------------------------------------------------------------
(* The window of recent pairs. *)

\* An oversize pair is replaced by an explicit omission, never cut.
MakePair(size, sequence, goal) ==
    [sequence |-> sequence,
     revision |-> IF goal = None THEN None ELSE goal.revision,
     size |-> IF size > PairBytes THEN MarkerBytes ELSE size,
     omitted |-> size > PairBytes]

NextSequence(window) ==
    IF window = <<>> THEN 1 ELSE Max({window[i].sequence : i \in DOMAIN window}) + 1

\* The bytes of the first i pairs.
BytesUpTo(window) ==
    LET upTo[i \in 0..Len(window)] ==
            IF i = 0 THEN 0 ELSE upTo[i - 1] + window[i].size
    IN  upTo

BytesOf(window) == BytesUpTo(window)[Len(window)]

Fits(window) == Len(window) <= WindowPairs /\ BytesOf(window) <= WindowBytes

DropOldest(window, n) == SubSeq(window, n + 1, Len(window))

\* Mutant of AppendPair: one oldest pair makes room for the new one, whatever the sizes.
AppendDroppingOne(window, pair) ==
    IF Fits(Append(window, pair)) THEN Append(window, pair)
    ELSE DropOldest(Append(window, pair), 1)

\* Whole pairs are dropped, the oldest first, until the window fits.
AppendPair(window, pair) ==
    LET grown == Append(window, pair)
    IN  DropOldest(grown, Min({n \in 0..Len(grown) : Fits(DropOldest(grown, n))}))
================================================================================
