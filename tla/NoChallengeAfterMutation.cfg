CONSTANTS
    None = None
    IdentityTTL = 2
    MaxCallerFailures = 2
    MaxVoiceFailures = 2
    ObservationLimit = 2
    MaxFeedback = 1
    FeedbackInterval = 1
    Handlers = {h1}
    Decisions <- SettlementDecisions
    Lanes = {"turn", "identity", "attempt", "legacy"}
    Reports = {"SUCCEEDED", "FAILED"}
    MaxTime = 1
    MaxIds = 5
    MaxRevision = 2
    MaxFailures = 1
    MaxSequence = 0
SPECIFICATION Spec
INVARIANT NoChallengeAfterMutation
