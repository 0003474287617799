CONSTANTS
    None = None
    IdentityTTL = 2
    MaxCallerFailures = 2
    MaxVoiceFailures = 2
    ObservationLimit = 2
    MaxFeedback = 1
    FeedbackInterval = 1
    Handlers = {h1}
    Decisions <- PlanDecisions
    Lanes = {"turn", "identity", "attempt", "voice"}
    Reports = {"SUCCEEDED", "FAILED"}
    MaxTime = 2
    MaxIds = 5
    MaxRevision = 2
    MaxFailures = 2
    MaxSequence = 0
SPECIFICATION Spec
INVARIANTS
    TypeOK
    ChallengeIsCurrent
    CommandIsDurable
    ChallengeIsPermitted
    ObligationIsHonoured
PROPERTIES
    ChallengeIsAsked
    ConsentBeforeDispatch
