CONSTANTS
    MaxEdits = 2
    MaxRetried = 2
    Unwritten = Unwritten
SPECIFICATION TrialSpec
INVARIANTS
    NeverStranded
    ClosureIsEarned
    JudgesAgree
    ScorerAlwaysAnswers
CHECK_DEADLOCK FALSE
