SPECIFICATION AdmissionSpec
CONSTANTS
  Absent = Absent
  Other = Other
  Scenarios <- MCScenarios
  ConnectorIds <- MCConnectorIds
  Stages = {s1, s2}
  MaxRuns = 1
  MaxTime = 2
INVARIANTS
  AdmissionExact
  EntryIsLicensed
CHECK_DEADLOCK FALSE
