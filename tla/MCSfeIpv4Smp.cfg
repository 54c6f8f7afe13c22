\* Two CPUs and the timer on two connections.
CONSTANTS
    lan = lan
    wan = wan
    a = a
    b = b
    s = s
    x = x
    k1 = k1
    k2 = k2
    c1 = c1
    c2 = c2
    NULL = NULL
    Conn = {c1, c2}
    Dev = {lan, wan}
    Removable = {wan}
    Cpu = {k1, k2}
    Rule <- SmpRule
    Packet <- SmpPacket
    SyncDivisor = 2
    MaxPackets = 2
SPECIFICATION Spec
SYMMETRY Symmetry
INVARIANTS
    TypeOK
    ActiveListOK
    FlushIsExclusive
    DeviceRefsBalanced
    TableIsConsistent
    EveryPacketAccounted
PROPERTY
    ImplementsEngine
