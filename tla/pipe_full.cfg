CONSTANTS
    Readers = {r1}
    Writers = {w1}
    Signalled = {}
    SIZE = 3
    STAMPS = 4
    MaxLen = 3
SPECIFICATION Spec
INVARIANT NoPanic
CHECK_DEADLOCK FALSE
