CONSTANTS
    request = request
    one = one
    other = other
    None = None
    Calls <- MCCalls
    Closers <- MCClosers
    MaxInterrupts = 2
SPECIFICATION Spec
INVARIANTS
    NothingOrphaned
PROPERTIES
    CallsEnd
