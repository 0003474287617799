CONSTANTS
    None = None
    IdentityTTL = 1
    MaxCallerFailures = 2
    MaxVoiceFailures = 2
    ObservationLimit = 3
    MaxFeedback = 1
    FeedbackInterval = 0
    Decisions <- RecoveryDecisions
    Asked <- AskedRecords
    FirstFresh = 2
    MaxLosses = 3
SPECIFICATION Spec
CHECK_DEADLOCK FALSE
INVARIANTS
    RetryIsNeverRefused
PROPERTIES
    RDIsCalledOnce
    ClientImplementsAccountOperation
    OrderIsResolved
    PasswordIsPresented
