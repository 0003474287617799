----------------------------- MODULE Migration_proofs -----------------------------
(***************************************************************************)
(* What a load makes of a document of any version, for all its values.     *)
(***************************************************************************)
EXTENDS Migration, RecordProperties, TLAPS

\* The current record a document of version 2 to 6 stands for before any inference: the
\* planes of its version, and the defaults of those its version did not have.
Planes(document) ==
    CASE document.version = 2 ->
           [turned |-> document.planes.turned, goal |-> document.planes.goal,
            identity |-> document.planes.identity,
            confirmation |-> document.planes.confirmation,
            dispatch |-> document.planes.dispatch,
            operation |-> document.planes.operation, polling |-> None,
            presentation |-> None, voiceRetry |-> 0]
      [] document.version = 3 ->
           [turned |-> document.planes.turned, goal |-> document.planes.goal,
            identity |-> document.planes.identity,
            confirmation |-> document.planes.confirmation,
            dispatch |-> document.planes.dispatch,
            operation |-> document.planes.operation, polling |-> document.planes.polling,
            presentation |-> document.planes.presentation, voiceRetry |-> 0]
      [] OTHER -> document.planes

\* The goal of a record whose mode was inferred is the goal it had, by action and revision.
SameGoal(rec, new) ==
    /\ (new.goal = None) = (rec.goal = None)
    /\ rec.goal # None =>
         /\ new.goal.action = rec.goal.action /\ new.goal.revision = rec.goal.revision
         /\ rec.goal.mode # None => new.goal = rec.goal

\* Every plane but the goal.
SameEvidence(rec, new) ==
    /\ new.turned = rec.turned /\ new.identity = rec.identity
    /\ new.confirmation = rec.confirmation /\ new.dispatch = rec.dispatch
    /\ new.operation = rec.operation /\ new.polling = rec.polling
    /\ new.presentation = rec.presentation /\ new.voiceRetry = rec.voiceRetry

\* Inferring a mode changes the mode of a reset that had none, and nothing else.
LEMMA InferenceIsNarrow ==
    ASSUME NEW rec \in Record
    PROVE  /\ WithInferredAssistanceMode(rec) \in Record
           /\ SameGoal(rec, WithInferredAssistanceMode(rec))
           /\ SameEvidence(rec, WithInferredAssistanceMode(rec))
<1> DEFINE new == WithInferredAssistanceMode(rec)
<1>1. CASE rec.goal # None /\ rec.goal.action = Reset /\ rec.goal.mode = None
  <2>1. InferAssistanceMode(rec) \in AssistanceMode
    BY DEF InferAssistanceMode, AssistanceMode
  <2>2. rec.goal \in ConversationGoal
    BY <1>1 DEF Record, Optional
  <2>3. new = [rec EXCEPT !.goal = [rec.goal EXCEPT !.mode = InferAssistanceMode(rec)]]
    BY <1>1 DEF WithInferredAssistanceMode
  <2>4. [rec.goal EXCEPT !.mode = InferAssistanceMode(rec)] \in ConversationGoal
    BY <1>1, <2>1, <2>2 DEF ConversationGoal, Optional
  <2>5. [rec.goal EXCEPT !.mode = InferAssistanceMode(rec)] # None
    BY <2>4, NoneAssumption
  <2> QED
    BY <1>1, <2>2, <2>3, <2>4, <2>5 DEF Record, Optional, SameGoal, SameEvidence, ConversationGoal
<1>2. CASE ~(rec.goal # None /\ rec.goal.action = Reset /\ rec.goal.mode = None)
  BY <1>2 DEF WithInferredAssistanceMode, SameGoal, SameEvidence
<1> QED
  BY <1>1, <1>2

\* Coherence never looks at the mode of a goal.
LEMMA InferenceKeepsCoherence ==
    ASSUME NEW rec \in Record, Coherent(rec), NEW new \in Record,
           SameGoal(rec, new), SameEvidence(rec, new)
    PROVE  Coherent(new)
  BY DEF Coherent, SameGoal, SameEvidence, DispatchNames, ChallengeFits, ReceiptsFit,
         ReceiptsAgreeIn, PresentationFits, Matches

\* A document of version 2 or later stands for a well-formed record.
LEMMA PlanesType ==
    ASSUME NEW document, Readable(document), document.version \in 2..SchemaVersion
    PROVE  /\ Planes(document) \in Record
           /\ FromDocument(document) =
                IF document.version = SchemaVersion THEN Planes(document)
                ELSE WithInferredAssistanceMode(Planes(document))
<1> USE DEF SchemaVersion
<1>1. CASE document.version = 2
  <2>1. document.planes \in LegacyPlanesV2
    BY <1>1 DEF Readable, Admitted
  <2> QED
    BY <1>1, <2>1, LimitsAssumption
    DEF LegacyPlanesV2, Planes, Record, Optional, FromDocument, MigrateV2
<1>2. CASE document.version = 3
  <2>1. document.planes \in LegacyPlanesV3
    BY <1>2 DEF Readable, Admitted
  <2> QED
    BY <1>2, <2>1, LimitsAssumption
    DEF LegacyPlanesV3, Planes, Record, Optional, FromDocument, MigrateV3
<1>3. CASE document.version \in 4..6
  <2>1. document.planes \in Record
    BY <1>3 DEF Readable, Admitted
  <2>2. Planes(document) = document.planes
    BY <1>3 DEF Planes
  <2> QED
    BY <1>3, <2>1, <2>2 DEF FromDocument, MigrateV4, MigrateV5
<1> QED
  BY <1>1, <1>2, <1>3

--------------------------------------------------------------------------------
(* What a load promises. *)

\* Whatever a version 2 to 6 of the service stored loads as a well-formed record with the
\* same evidence, for the same goal, and coherent if it was.
THEOREM MigrationKeepsEvidence ==
    ASSUME NEW document, Readable(document), document.version \in 2..SchemaVersion
    PROVE  /\ FromDocument(document) \in Record
           /\ SameGoal(Planes(document), FromDocument(document))
           /\ SameEvidence(Planes(document), FromDocument(document))
           /\ Coherent(Planes(document)) => Coherent(FromDocument(document))
<1>1. Planes(document) \in Record
  BY PlanesType
<1>2. CASE document.version = SchemaVersion
  BY <1>1, <1>2, PlanesType DEF SameGoal, SameEvidence
<1>3. CASE document.version # SchemaVersion
  <2>1. FromDocument(document) = WithInferredAssistanceMode(Planes(document))
    BY <1>3, PlanesType
  <2> QED
    BY <1>1, <2>1, InferenceIsNarrow, InferenceKeepsCoherence
<1> QED
  BY <1>2, <1>3

\* Version 1 proved nothing: its flag, its requested action and its operation load without a
\* validation, a challenge or a dispatch, so no migrated conversation executes anything
\* before the caller is identified and asked again.
THEOREM FirstVersionAuthorizesNothing ==
    ASSUME NEW document, Readable(document), document.version = 1, NEW now \in Nat
    PROVE  LET rec == FromDocument(document)
           IN  /\ rec \in Record
               /\ rec.confirmation = None /\ rec.dispatch = None
               /\ ~IsValidAt(rec.identity, now)
               /\ rec.operation = document.planes.pending
<1> DEFINE old == document.planes
           goal == IF old.requested = None THEN None
                   ELSE [action |-> old.requested, revision |-> 1,
                         mode |-> IF old.requested = Reset THEN "UNDECIDED" ELSE None]
<1>1. old \in LegacyPlanesV1
  BY DEF Readable, Admitted
<1>2. goal \in Optional(ConversationGoal)
  BY <1>1 DEF LegacyPlanesV1, Optional, ConversationGoal, AssistanceMode
<1>3. old.pending \in Optional(ExternalOperation)
  BY <1>1 DEF LegacyPlanesV1, LegacyPendingOperationV1, Optional, ExternalOperation,
              OperationStatus
<1>4. [validatedAt |-> None, failures |-> 0] \in IdentityState
  BY DEF IdentityState, Optional
<1>5. FromDocument(document) =
        [turned |-> old.turned, goal |-> goal,
         identity |-> [validatedAt |-> None, failures |-> 0],
         confirmation |-> None, dispatch |-> None, operation |-> old.pending,
         polling |-> None, presentation |-> None, voiceRetry |-> 0]
  <2>1. FromDocument(document) = MigrateV1(old)
    BY DEF FromDocument
  <2>2. MigrateV1(old) = [[[NewRecord EXCEPT !.turned = old.turned] EXCEPT !.goal = goal]
                            EXCEPT !.operation = old.pending]
    BY DEF MigrateV1, NewRecord
  <2> HIDE DEF old, goal
  <2> QED
    BY <2>1, <2>2 DEF NewRecord
<1>6. old.turned \in BOOLEAN
  BY <1>1 DEF LegacyPlanesV1
<1> HIDE DEF goal
<1> QED
  BY <1>2, <1>3, <1>4, <1>5, <1>6, LimitsAssumption DEF Record, Optional, IsValidAt

\* A record of well-formed planes is admitted when it is loaded, and loads as itself.  That
\* the records a request writes are such records is Boundary_proofs!WritesAreReadable.
LEMMA SavedIsLoaded ==
    ASSUME NEW rec \in Record
    PROVE  /\ Readable(ToDocument(rec)) /\ ToDocument(rec) # None
           /\ FromDocument(ToDocument(rec)) = rec
<1>1. ToDocument(rec) \in [version : {SchemaVersion}, planes : Record]
  BY DEF ToDocument
<1> QED
  BY <1>1, NoDocumentAssumption
  DEF ToDocument, Readable, Admitted, FromDocument, SchemaVersion
================================================================================
