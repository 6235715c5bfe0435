SPECIFICATION MCSpec
CONSTANTS
  CANDIDATE_STAGGER = 2
  MAX_CONCURRENT_CANDIDATES = 2
  Flows = {f1}
  MaxNudges = 2
  MaxConns = 3
  MaxFails = 1
  Callers = {1, 2}
  MaxSessions = 2
  MAX_STREAMS_PER_SESSION = 2
  min_idle_session = 0
  MaxEpoch = 1
  STREAM_IDS = 3
  COMMAND_QUEUE = 2
  MAX_CONNECT_ATTEMPTS = 3
  Askers = {1, 2}
  BootCapacity = 2
  MaxMoves = 2
  Transactions = {1, 2}
  MAX_CONCURRENT_REQUESTS = 1
  DATAGRAM_QUEUE_CAPACITY = 1
  f1 = f1
INVARIANTS
  ConnectionsAccounted
PROPERTIES
  SessionsOfThisNetwork
  WaitsAnswered
CHECK_DEADLOCK FALSE
