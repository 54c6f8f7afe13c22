CONSTANTS
    Modulus = 32
    MaxAckWindow = 3
    Setting <- PathSettings
SPECIFICATION Spec
CHECK_DEADLOCK FALSE
INVARIANTS
    ConformingNotFlushed
    EndIsNextByte
PROPERTY
    WindowNeverRecedes
