CONSTANTS
    Waiters = {a}
    Signalled = {}
    Wakers = {w}
    Modes = {"one_intr"}
    None = None
    MaxLen = 3
SPECIFICATION FairSpec
PROPERTY EventReturns
CHECK_DEADLOCK FALSE
