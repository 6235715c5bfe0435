SPECIFICATION MCSpec
CONSTANTS
    a = a
    b = b
    u = u
    NoConn = NoConn
    Packets <- MCPackets
    Tuples <- MCTuples
    UdpTuples = {u}
    Dst <- MCDst
    Conns = {1, 2}
    MAX_TCP_SESSIONS = 2
    MAX_SESSIONS = 2
    ACCEPT_DEPTH = 2
    TCP_MEMORY_BUDGET = 2
    PACKET_QUEUE_DEPTH = 2
    TCP_COMMANDS_PER_TICK = 1
    TCP_PACKETS_PER_TICK = 1
    TCP_FLOWS_PER_TICK = 1
    CHUNK = 2
    BUFFER = 2
    CEILING = 2
    WINDOW = 2
    Flows = {1, 2}
    Packages = {"browser"}
    Nobody = "nobody"
    FlowLanes = {"vpn", "direct"}
    EVENT_CAPACITY = 2
    MAX_DRAIN_BATCH = 3
    WORD = 4
    SESSION_QUEUE = 1
    DEVICE_QUEUE = 1
INVARIANTS
  StackSound
  TrafficSound
PROPERTIES
  MCRelayEnds
CHECK_DEADLOCK FALSE
