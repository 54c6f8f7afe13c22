CONSTANTS
    Cpu = {k1, k2}
    Ct = {t1, t2}
    Obj = {o1, o2}
    NULL = NULL
    offload_at_pkts = 2
    MaxPackets = 4
    MaxMark = 1
SPECIFICATION Spec
\* Packets and conntrack entries are bounded and the module may be gone.
CHECK_DEADLOCK FALSE
SYMMETRY Symmetry
INVARIANTS
    OneConnectionPerFlow
    NoObjectLeaks
    TableFollowsConntrack
    RuleFollowsConntrack
    DoneIsAnnounced
    OffloadedHasRule
