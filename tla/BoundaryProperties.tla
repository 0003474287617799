--------------------------- MODULE BoundaryProperties ---------------------------
(***************************************************************************)
(* What the HTTP boundary promises of one request and of the documents     *)
(* earlier versions of the service left behind.                            *)
(***************************************************************************)
EXTENDS Boundary, FiniteSets

\* A refusal, a model failure or a rejected event leaves the document as the request found
\* it: nothing is written before the last of these can happen, whatever stage they come at.
\* A failed save promises nothing, and is a 503 of the event lane or a 500.
RefusalLeavesNoTrace ==
    /\ reply # None
    /\ \/ reply.status \in {400, 401, 409, 422, 504}
       \/ reply.status = 503 /\ reply.lane = "turns"
    => stored = before

\* A document of an unknown version, or with anything its whitelist does not define, is
\* never taken for an absent one: no turn and no event ever replaces it.
UnreadableIsKept ==
    [][stored # None /\ ~Readable(stored) => stored' = stored]_vars

\* Handlers change a plane by copying it, and a save validates nothing; still every document
\* a request writes is one the next request can load.  No sequence of turns, events, mode
\* switches and corrections, over a document of any version, leaves a conversation whose
\* every later request is refused.
WrittenIsReadable == stored # None /\ stored # origin => Readable(stored)

\* What an older version of the service had already sent to RD.
OrderedBefore(document) ==
    IF document = None \/ ~Readable(document) THEN {}
    ELSE IF document.version = 1
    THEN IF document.planes.pending = None THEN {} ELSE {document.planes.pending.id}
    ELSE (IF document.planes.operation = None THEN {} ELSE {document.planes.operation.id})
         \cup (IF document.planes.dispatch = None THEN {}
               ELSE {document.planes.dispatch.operation})

\* One mutating action per call survives the upgrade of the service, a lost answer, a save
\* that failed after writing, and a caller who answers again: at most one operation is ever
\* written as dispatched, the ones of older versions included.
OneMutationPerConversation == Cardinality(ordered \cup OrderedBefore(origin)) <= 1

\* The document an older version left while its caller was being asked to confirm.
AwaitsConfirmation(old, now) ==
    /\ old.confirmation # None /\ Matches(old.confirmation, old.goal)
    /\ old.goal.mode = None
    /\ old.confirmation.validatedAt = old.identity.validatedAt
    /\ IsValidAt(old.identity, now) /\ ~RequiresHandoff(old.identity)
    /\ old.dispatch = None /\ old.operation = None

\* A caller who was asked to confirm before the upgrade and says yes after it is served: the
\* mode version 6 requires of a reset is inferred so that the stored challenge still binds.
LiveChallengeSurvivesUpgrade ==
    /\ At("loaded") /\ request.post.lane = "turns" /\ request.post.body.transcript
    /\ stored # None /\ stored.version \in 2..5
    /\ AwaitsConfirmation(stored.planes, request.now)
    => \A dec \in Decisions :
        dec.observation = "AFFIRMATIVE" /\ dec.intent = "NONE" /\ dec.mode = None =>
            AdvanceTurn(request.rec, request.post.body, dec, request.now, Fresh).outcome.step
                = "EXECUTE_ACTION"

\* Whatever a turn decided before it was saved can be said in the contract of its request:
\* no legacy turn ends in an error after its record was written because it has a step only
\* next-step-v1 knows.
DecidedTurnIsSerialisable ==
    At("stored") /\ request.outcome # None => IsSerialisable(request.post, request.outcome)
================================================================================
