SPECIFICATION MCSpec
CONSTANTS
  Count = 3
  Flows = {f1, f2}
  Prober = probe
  MaxLatency = 2
  Tolerance = 0
  MaxRevision = 4
  primary = primary
  tor = tor
  Entries = {primary, tor}
  Primary = primary
  Overlays = {tor}
  Callers = {c1}
  Passes = {p1, p2}
  MaxAttempts = 2
  BLOCK_BITS = 2
  RING_BLOCKS = 3
  REJECT_AFTER_MESSAGES = 13
  MaxCounter = 14
  None = None
  REKEY_TIMEOUT = 2
  REKEY_TIMEOUT_JITTER_MAX = 0
  REKEY_AFTER_TIME = 2
  REJECT_AFTER_TIME = 3
  KEEPALIVE_TIMEOUT = 1
  COOKIE_LIFETIME = 1
  PERSISTENT_KEEPALIVE = 2
  MAX_HANDSHAKE_ATTEMPTS = 2
  MAX_PENDING_PACKETS = 2
  REKEY_AFTER_MESSAGES = 1
  REJECT_AFTER_SENT = 2
  Packets = {"a", "b", "c", "other"}
  Luck = {0, 1}
  Networks = {n1, n2}
  TICK = 1
  MAX_IDLE_TICK = 2
  REBIND_BACKOFF_MIN = 1
  REBIND_BACKOFF_MAX = 2
  PEER_SILENCE = 2
  MAX_RECEIVE_ERRORS = 2
  Spare = TRUE
  Tagged <- MCTagged
SYMMETRY OutboundSymmetry
INVARIANTS
  ReservedHasOwner
  LanesSound
  WindowExact
  PacketTunnelSound
PROPERTIES
  SelectionSticks
  OkOnSelection
CHECK_DEADLOCK FALSE
