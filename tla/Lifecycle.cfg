SPECIFICATION MCSpec
CONSTANTS
  Callers = {c1, c2, c3}
  MaxCalls = 2
  None = None
  Malformed = Malformed
  Refused = Refused
  Policies <- MCPolicies
  MaxReloads = 1
  MaxProfiles = 3
INVARIANTS
  NoStopReportWhileWorking
  RunningCouldStart
  ImportsKeepMeaning
PROPERTIES
  KeepsPromise
  CallsReturn
CHECK_DEADLOCK FALSE
