CONSTANTS
    None = None
    IdentityTTL = 2
    MaxCallerFailures = 2
    MaxVoiceFailures = 2
    ObservationLimit = 2
    MaxFeedback = 1
    FeedbackInterval = 1
    WindowPairs = 2
    PairBytes = 3
    WindowBytes = 5
    MarkerBytes = 2
    Now = 5
    Corpus <- MCCorpus
    Answers <- MCAnswers
    Variant <- MCVariant
    Store <- MCStore
    Settings <- MCSettings
    Focus <- MCFocus
    MaxReruns = 1
SPECIFICATION Spec
CHECK_DEADLOCK FALSE
INVARIANT AcceptMeansNoRegression
