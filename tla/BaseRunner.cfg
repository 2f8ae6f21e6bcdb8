CONSTANTS
    Timeout = 1
    AbsoluteDeadline = 3
    MaxTime = 4
    None = None
    PromptLimit = 14
    ContextLimit = 7
    AppendPrefix = 1
    ContextFrame = 2
    ContextSuffix = 1
    RecordFrame = 1
    DefaultPrompt <- MCDefaultPrompt
    Unreadable = Unreadable
    Absent = Absent
    Other = Other
    Hosts <- MCHosts
SPECIFICATION BaseSpec
INVARIANTS
    CompletedIsCommitted
    SummaryTellsOutcome
    FacadeIsExact
    PromptIsHonest
PROPERTIES
    PartialIsClosed
    InvocationEnds
