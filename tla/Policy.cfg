SPECIFICATION MCSpec
CONSTANTS
  c1 = c1
  c2 = c2
  ads = ads
  key1 = key1
  key2 = key2
  app = app
  k1 = k1
  k2 = k2
  k3 = k3
  NoOne = NoOne
  NoBundle = NoBundle
  Unpinned = Unpinned
  EmbeddedArtifact = EmbeddedArtifact
  NoArtifact = NoArtifact
  NoApp = NoApp
  Names = {ads}
  Embedded = {}
  Controllers = {c1, c2}
  Bundles <- FourBundles
  Requests <- Documents
  Flows = {f1}
  Apps = {app}
  Revokers = {r1}
  Keys = {k1, k2, k3}
  Primary = {k1, k2}
  Capacity = 2
  MaxRow = 3
  MaxRevision = 3
  MaxEpoch = 3
  Tables <- MCTables
  NoTable = NoTable
  Domains <- MCDomains
  Packages = {"p", "q"}
  Protected = {"Vpn", "Tor"}
  Overlays = {"Tor"}
  MaxNow = 1
  Hosts = {n1, n2, n3}
  Question = n1
  Addrs = {a1}
  Ttls = {1, 2}
  MaxRecords = 2
  MaxChain = 1
  PacketLen = 4
  MaxJumps = 3
  MaxWire = 3
  LabelBytes <- MCLabelBytes
  MaxDomain = 9
  MaxLabel = 2
  MaxEntries = 3
  MaxSkew = 1
  MaxValidity = 3
INVARIANTS
  StoreConsistent
  KillSwitchHolds
  DecisionsSound
PROPERTIES
  RuleSetsNeverRollBack
  FlowsAndNamesEnd
CHECK_DEADLOCK FALSE
