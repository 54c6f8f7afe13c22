SPECIFICATION Spec
CONSTANTS
    Cpu = {k1, k2}
    Ct = {t1, t2}
    MaxPackets = 2
    NULL = NULL
SYMMETRY Symmetry
INVARIANT ShuttingDownNotManaged
