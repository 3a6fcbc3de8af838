CONSTANTS
    Top = 6
    MmapMin = 1
    MaxLen = 3
SPECIFICATION Spec
INVARIANT InsertAssertHolds
CHECK_DEADLOCK FALSE
