CONSTANTS
    None = None
    IdentityTTL = 2
    MaxCallerFailures = 2
    MaxVoiceFailures = 2
    ObservationLimit = 2
    MaxFeedback = 1
    FeedbackInterval = 1
    Handlers = {h1}
    Decisions <- ResetDecisions
    Lanes = {"turn", "password", "identity", "v1", "presentation"}
    Reports = {"SUCCEEDED", "FAILED"}
    MaxTime = 1
    MaxIds = 4
    MaxRevision = 1
    MaxFailures = 0
    MaxSequence = 3
SPECIFICATION Spec
INVARIANTS
    PollingIsBounded
    ReceiptsAgree
    PresentationIsOwed
    PasswordOnlyWhenOwed
    ClosedOnlyWhenSettled
PROPERTIES
    ReceiptsAreKept
    DuplicateChangesNothing
    PlaybackIsMonotone
