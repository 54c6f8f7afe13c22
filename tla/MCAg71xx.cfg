CONSTANTS
    Chips <- AllChips
    Wrap = 16
    Weight = 2
    Stop = Stop
SPECIFICATION Spec
\* What the properties say of the split chip ends with the first trouble.
CONSTRAINT SplitUntroubled
\* A failed assertion and a null pointer end in a panic.
CHECK_DEADLOCK FALSE
INVARIANTS
    TypeOK
    TxRingOK
    RxRingOK
    EarlyOnlyAfterFull
    LetGoOfRings
    ReadyIsAnnounced
    DisabledTwiceOnlyAfterStop
