CONSTANTS
    Modulus = 32
    MaxAckWindow = 3
    Setting <- PaddingSettings
SPECIFICATION Spec
CHECK_DEADLOCK FALSE
INVARIANT
    EndIsNextByte
