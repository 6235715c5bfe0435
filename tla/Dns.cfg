SPECIFICATION MCSpec
CONSTANTS
  n1 = n1
  i1 = i1
  a1 = a1
  d1 = d1
  NoOne = NoOne
  NoBundle = NoBundle
  Unpinned = Unpinned
  EmbeddedArtifact = EmbeddedArtifact
  NoArtifact = NoArtifact
  Names = {n1}
  Embedded = {}
  Bundles <- OneBundle
  Requests <- MCRequests
  Controllers = {c1}
  Queries = {q1, q2}
  Lanes = {l1}
  MaxRevision = 1
  MaxEpoch = 3
  Domains = {"p", "q"}
  Types = {"A", "AAAA"}
  Resolvers <- MCResolvers
  Usable = 3
  HostMask = 3
  Ids = {i1, i2}
  Addrs = {a1, a2}
  Asked = {d1, d2, d3}
  Ttls = {0, 1, 3}
  MaxNames = 2
  Keys = {k1, k2, k3}
  TtlSets = {{}, {1, 2}, {3}}
  MaxTtl = 2
  StaleTtl = 1
  NegativeCache = FALSE
  Capacity = 2
  MaxNow = 4
SYMMETRY QuerySymmetry
INVARIANTS
  OwnCacheOfThisNetwork
  LeasesInverse
  TablesAtCapacity
  ServedWithinTtl
PROPERTIES
  AnswersFollowPolicy
  PromisesKept
CHECK_DEADLOCK FALSE
