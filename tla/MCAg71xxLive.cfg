CONSTANTS
    Chips <- LiveChips
    Wrap = 8
    Weight = 2
    Stop = Stop
SPECIFICATION FairSpec
\* A failed assertion and a null pointer end in a panic.
CHECK_DEADLOCK FALSE
PROPERTY
    StoppedIsWoken
