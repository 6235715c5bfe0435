SPECIFICATION UncutSpec
CONSTANTS
  FILTER_BUDGET = 3
  MaxWrites = 3
  MaxRoom = 3
  AppBytes <- MCAppBytes
  Payload <- MCPayload
  MAX_RECORD = 2
  MAX_HEAD = 4
  FIRST_PADDINGS = 2
  MAX_NONCE = 1
  MAX_COUNTER = 2
  MAX_PAYLOAD = 2
  CONTROL_SLACK = 2
  REPLAY_BITS = 2
  MAX_SERVER_SESSIONS = 1
  MAX_PACKET_ID = 0
  MAX_CHUNK = 1
  MAX_FRAGMENTS = 2
  MAX_PARTIAL = 2
  MAX_REASSEMBLY = 2
  MAX_ASSOCIATIONS = 2
  ASSOCIATION_IDS = 4
  PACKET_IDS = 2
  CHANNEL = 1
  Handles = {1, 2, 3}
  MaxDatagrams = 2
  MaxQuicDatagrams = 3
  Offers <- MCOffers
INVARIANTS
  UplinkIntact
CHECK_DEADLOCK FALSE
