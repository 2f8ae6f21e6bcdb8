CONSTANTS
    NotGiven = NotGiven
    Directories <- MCDirectories
    MaxLines = 2
    MaxBytes = 4
    OutputBytes = 7
    Unlimited = 1000
    Tasks <- MCTasks
    PageLimits <- MCPageLimits
    Unset = Unset
    Absent = Absent
    Calls <- MCCalls
    Leads <- MCLeads
    Committed <- MCCommitted
    Workspace <- MCWorkspace
    Store <- MCStore
    MaxChanges = 2
SPECIFICATION Spec
INVARIANTS
    ReadingIsExact
    EditIsExact
    SearchIsHonest
    EffectsAreLicensed
PROPERTIES
    NoLostChange
CHECK_DEADLOCK FALSE
