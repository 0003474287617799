------------------------------- MODULE Migration -------------------------------
(***************************************************************************)
(* Stored documents of every schema version and how a load brings them to  *)
(* the current record: app/session/record.py.  A document is its version   *)
(* and its planes; a load refuses one whose version is unknown or whose    *)
(* planes are not exactly those of its version, each of its type and with  *)
(* its cross-field rules (a mode only for a reset, a bounded feedback, a   *)
(* positive sequence), as the closed pydantic models do.                   *)
(*                                                                         *)
(* Version 1 knew no planes: a flag, a requested action and an operation.  *)
(* Version 2 added the planes of goal, identity, consent and dispatch;     *)
(* version 3 polling and presentation; version 4 the voice-retry counter;  *)
(* version 6 the assistance mode of a reset.  A field that a newer version *)
(* added with a default is read as that default.  The experimental planes, *)
(* carried through unchanged, are left out as in SessionRecord.  Record    *)
(* bounds the voice-retry counter, which the models admit at any value:    *)
(* what is said of a document in this module is said of no larger one.     *)
(***************************************************************************)
EXTENDS SessionRecord

SchemaVersion == 6

\* What version 1 recorded of an operation: it had neither "unknown" nor a dispatch.
LegacyPendingOperationV1 ==
    [id : Nat, action : Action, status : {"pending", "confirmed", "failed"}]

LegacyPlanesV1 ==
    [turned : BOOLEAN, validated : BOOLEAN, requested : Optional(Action),
     pending : Optional(LegacyPendingOperationV1)]

LegacyPlanesV2 ==
    [turned : BOOLEAN, goal : Optional(ConversationGoal), identity : IdentityState,
     confirmation : Optional(ConfirmationChallenge),
     dispatch : Optional(AuthorizedDispatch), operation : Optional(ExternalOperation)]

LegacyPlanesV3 ==
    [turned : BOOLEAN, goal : Optional(ConversationGoal), identity : IdentityState,
     confirmation : Optional(ConfirmationChallenge),
     dispatch : Optional(AuthorizedDispatch), operation : Optional(ExternalOperation),
     polling : Optional(PollingState), presentation : Optional(PasswordPresentation)]

\* What the closed model of a version admits; the current one validates versions 4 and 5 too.
Admitted(version) ==
    CASE version = 1 -> LegacyPlanesV1
      [] version = 2 -> LegacyPlanesV2
      [] version = 3 -> LegacyPlanesV3
      [] OTHER -> Record

\* A stored document is never mistaken for its absence.
ASSUME NoDocumentAssumption == None \notin [version : {SchemaVersion}, planes : Record]

--------------------------------------------------------------------------------
(* The assistance mode of a goal stored before version 6. *)

\* Mutant of InferAssistanceMode: an open challenge is no evidence.
InferFromOperationOnly(rec) ==
    IF rec.operation # None \/ rec.dispatch # None \/ rec.presentation # None
    THEN "AUTONOMOUS" ELSE "UNDECIDED"

\* A stored reset operation, presentation, challenge or dispatch is evidence of the
\* autonomous path; GUIDED is never inferred.
InferAssistanceMode(rec) ==
    IF \/ rec.operation # None /\ rec.operation.action = Reset
       \/ rec.presentation # None
       \/ rec.confirmation # None /\ rec.confirmation.action = Reset
       \/ rec.dispatch # None /\ rec.dispatch.action = Reset
    THEN "AUTONOMOUS"
    ELSE "UNDECIDED"

WithInferredAssistanceMode(rec) ==
    IF rec.goal # None /\ rec.goal.action = Reset /\ rec.goal.mode = None
    THEN [rec EXCEPT !.goal.mode = InferAssistanceMode(rec)]
    ELSE rec

--------------------------------------------------------------------------------
(* One migration per version. *)

\* Mutant of MigrateV1: only what version 6 can correlate is kept.
MigrateV1WithoutOperation(old) ==
    [NewRecord EXCEPT
        !.turned = old.turned,
        !.goal = IF old.requested = None THEN None
                 ELSE [action |-> old.requested, revision |-> 1,
                       mode |-> IF old.requested = Reset THEN "UNDECIDED" ELSE None]]

\* The flag proves no instant, so it authorizes nothing; nothing else is inferred.
MigrateV1(old) ==
    [NewRecord EXCEPT
        !.turned = old.turned,
        !.goal = IF old.requested = None THEN None
                 ELSE [action |-> old.requested, revision |-> 1,
                       mode |-> IF old.requested = Reset THEN "UNDECIDED" ELSE None],
        !.operation = old.pending]

\* No poll sequence and no presentation was ever observed under version 2.
MigrateV2(old) ==
    WithInferredAssistanceMode(
        [turned |-> old.turned, goal |-> old.goal, identity |-> old.identity,
         confirmation |-> old.confirmation, dispatch |-> old.dispatch,
         operation |-> old.operation, polling |-> None, presentation |-> None,
         voiceRetry |-> 0])

MigrateV3(old) ==
    WithInferredAssistanceMode(
        [turned |-> old.turned, goal |-> old.goal, identity |-> old.identity,
         confirmation |-> old.confirmation, dispatch |-> old.dispatch,
         operation |-> old.operation, polling |-> old.polling,
         presentation |-> old.presentation, voiceRetry |-> 0])

MigrateV4(old) == WithInferredAssistanceMode(old)

MigrateV5(old) == WithInferredAssistanceMode(old)

--------------------------------------------------------------------------------
\* session_record_to_document: every plane is written, under the current version, without
\* validating any.
ToDocument(rec) == [version |-> SchemaVersion, planes |-> rec]

\* An unknown version or planes its model does not admit are refused, not migrated.
Readable(document) ==
    /\ document.version \in 1..SchemaVersion
    /\ document.planes \in Admitted(document.version)

\* session_record_from_document, for a document it does not refuse.
FromDocument(document) ==
    CASE document.version = 1 -> MigrateV1(document.planes)
      [] document.version = 2 -> MigrateV2(document.planes)
      [] document.version = 3 -> MigrateV3(document.planes)
      [] document.version = 4 -> MigrateV4(document.planes)
      [] document.version = 5 -> MigrateV5(document.planes)
      [] OTHER -> document.planes
================================================================================
