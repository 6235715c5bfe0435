SPECIFICATION MCSpec
CONSTANTS
  SAMPLE_SECONDS = 2
  MIN_SAMPLE_PACKETS = 2
  SALT_LEN = 2
  Indices = {1, 2}
  MaxAttempts = 2
  HeaderValues = {0, 1}
  MAX_INIT_PACKET_LEN = 4
  MaxNow = 4
  MaxLog = 3
  MaxRecordSize = 3
  ReadSize = 2
  MaxPlaintext = 2
  MaxHandshakePlain = 6
  CompactAt = 1
  OutgoingLimit = 6
  MaxIterations = 9
INVARIANTS
  TrustBeforeUse
  WireSound
PROPERTIES
  TalksEnd
CHECK_DEADLOCK FALSE
