CONSTANTS
    plain = plain
    dotted = dotted
    other = other
    aliased = aliased
    t1 = t1
    t2 = t2
    t3 = t3
    e1 = e1
    e2 = e2
    e3 = e3
    None = None
    Threads <- MCThreads
    Paths <- MCPaths
    Keys <- MCKeys
    Real <- MCReal
    Lexical <- MCLexical
    Existing <- MCExisting
    Entries <- MCEntries
    MaxCalls = 3
SPECIFICATION Spec
INVARIANTS
    ReadStaysCurrent
PROPERTIES
    CallsSettle
