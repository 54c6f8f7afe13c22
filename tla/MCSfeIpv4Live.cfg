\* One CPU and the timer, every outcome of a receive; liveness, so no symmetry.
CONSTANTS
    lan = lan
    wan = wan
    a = a
    b = b
    s = s
    x = x
    k1 = k1
    k2 = k2
    c1 = c1
    c2 = c2
    NULL = NULL
    Conn = {c1, c2}
    Dev = {lan, wan}
    Removable = {wan}
    Cpu = {k1}
    Rule <- LiveRule
    Packet <- LivePacket
    SyncDivisor = 2
    MaxPackets = 3
SPECIFICATION FairSpec
PROPERTIES
    RemovedIsFreed
    ActiveIsSynced
    SettlesReports
INVARIANTS
    ActiveIffUnsynced
    CounterMatchHasPredecessor
