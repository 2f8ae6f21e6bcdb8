CONSTANTS
    read = read
    write = write
    submit = submit
    block = block
    a = a
    b = b
    art = art
    None = None
    Nodes <- MCNodes
    Terminals <- MCTerminals
    Blocked <- MCBlocked
    Required <- MCRequired
    Denied <- MCDenied
    Args <- MCArgs
    Calls <- MCCalls
    Prereqs <- MCPrereqs
    Artifacts <- MCArtifacts
    RequiredArtifacts <- MCRequiredArtifacts
    MaxBatch = 2
    MaxIterations = 3
    MaxRetries = 1
    MaxToolErrors = 1
    MaxPremature = 1
    MaxPrereq = 1
SPECIFICATION Spec
INVARIANTS
    ExecutionIsOrdered
PROPERTIES
    ImplementsContract
    CancellationWins
    SessionEnds
