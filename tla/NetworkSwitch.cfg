SPECIFICATION MCSpec
CONSTANTS
  r1 = r1
  a1 = a1
  a2 = a2
  Reporters = {n, r1}
  Apps = {a1, a2}
  Configs <- MCConfigs
  MaxToken = 2
  Reported = {"ProxySession", "VpnFailure", "NetworkSwitch"}
  NetThread = n
  MaxHandle = 3
INVARIANTS
  OpenLanesOnLatestNetwork
PROPERTIES
  OnlyItsAnswerReleases
  HoldsEnd
CHECK_DEADLOCK FALSE
