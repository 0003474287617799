CONSTANTS
    None = None
    IdentityTTL = 1
    MaxCallerFailures = 2
    MaxVoiceFailures = 2
    ObservationLimit = 2
    MaxFeedback = 1
    FeedbackInterval = 1
    Decisions <- BoundaryDecisions
    Stored <- StoredDocuments
    MaxRequests = 2
    MaxSequence = 1
    MaxTime = 1
    FirstFresh = 10
SPECIFICATION Spec
CHECK_DEADLOCK FALSE
INVARIANTS
    RefusalLeavesNoTrace
    WrittenIsReadable
    OneMutationPerConversation
    LiveChallengeSurvivesUpgrade
    DecidedTurnIsSerialisable
PROPERTIES
    UnreadableIsKept
