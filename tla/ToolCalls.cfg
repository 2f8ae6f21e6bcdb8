CONSTANTS
    bash = bash
    push = push
    merge = merge
    tag = tag
    done = done
    None = None
    Nodes <- MCNodes
    Kind <- MCKind
    Prereqs <- MCPrereqs
    Denied <- Unavailable
    Terminals <- Ends
    Idempotency <- MCIdempotency
    Approval <- MCApproval
    CallIdKey <- Keyed
    BashNodes <- Shell
    MaxCalls = 1
    Capacity = 1
    MaxChunks = 2
    MaxCancels = 1
SPECIFICATION Spec
INVARIANTS
    TraceAccountsForEffects
    NoShellLeftRunning
PROPERTIES
    ImplementsBoundary
    CallEnds
CHECK_DEADLOCK FALSE
