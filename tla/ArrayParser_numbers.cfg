SPECIFICATION Spec
CONSTANTS
    UintMax = 3
    Raw <- MCRaw
    Convert <- Clamp
    Limit = 3
    PrefixSize = 4
    MaxLen = 6
INVARIANTS LoopInv NeverWraps
CHECK_DEADLOCK FALSE
