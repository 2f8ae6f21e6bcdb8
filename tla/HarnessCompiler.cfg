CONSTANTS
    None = None
    Catalog <- MCCatalog
    Grants <- MCGrants
    Sources <- MCSources
    Values <- MCValues
    MaxWrites = 3
    NotYet = NotYet
SPECIFICATION Spec
INVARIANTS
    AdmittedIsSnapshot
    CyclesExact
    AcceptedIffSound
    SessionsCanEnd
