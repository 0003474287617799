CONSTANTS
    None = None
    IdentityTTL = 1
    MaxCallerFailures = 2
    MaxVoiceFailures = 1
    ObservationLimit = 1
    MaxFeedback = 1
    FeedbackInterval = 1
    Handlers = {h1, h2}
    Decisions <- OverlapDecisions
    Lanes = {"turn", "identity", "voice", "legacy"}
    Reports = {"SUCCEEDED"}
    MaxTime = 0
    MaxIds = 4
    MaxRevision = 1
    MaxFailures = 0
    MaxSequence = 0
SPECIFICATION Spec
SYMMETRY HandlerSymmetry
INVARIANTS
    DispatchAndOperationTogether
    EvidenceBacked
PROPERTIES
    CreationNeverOverwrites
