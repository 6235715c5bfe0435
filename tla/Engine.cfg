CONSTANTS
  s1 = s1
  f1 = f1
  f2 = f2
  c1 = c1
  c2 = c2
  w1 = w1
  w2 = w2
  lan = lan
  h1 = h1
  h2 = h2
  d1 = d1
  t1 = t1
  t2 = t2
  Engines <- MCEngines
  Threads <- MCThreads
  Tokens <- MCTokens
  Names = {1}
  Secrets = {1}
  MAX_LOOPBACK_INBOUNDS = 2
  Apps <- MCApps
  ProxyId = lan
  Proxies <- MCProxies
  Sessions <- MCSessions
  MAX_COMPONENTS = 2
  MAX_LEASES = 2
  MAX_EVENTS_PER_COMPONENT = 1
  MAX_LAN_SESSIONS = 1
  MAX_CONFIRMED_NETWORKS = 1
  Ids <- MCIds
  FileIds <- MCFileIds
  Conns <- MCConns
  Times <- MCTimes
  Chunks = 2
  BASE = 1
  CEILING = 8
  MAX_SESSIONS = 2
  MAX_FILES_PER_SESSION = 2
  MAX_EVENTS_PER_SHARE = 1
  MAX_TOMBSTONES = 1
  MAX_DOWNLOADS = 2
  MAX_CONCURRENT_DECRYPTS = 1
  CHUNK_QUEUE = 1
  MAX_CONCURRENT_SPLICES = 1
SPECIFICATION MCSpec
INVARIANTS
  EngineSound
PROPERTIES
  HandoversSound
  EngineLetsGo
CHECK_DEADLOCK FALSE
