CONSTANTS
    Modulus = 32
    MaxAckWindow = 3
    Setting <- SackWrapSettings
SPECIFICATION Spec
CHECK_DEADLOCK FALSE
INVARIANT
    AckFollowsSack
