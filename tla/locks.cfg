CONSTANTS
    Users = {u1, u2, u3}
    WORD = 16
    COUNT = 4
    Procs = {p1, p2, p3}
    None = None
    Waiters = {a, b}
    Signalled = {a}
    Wakers = {w}
    Modes = {"one", "one_intr", "all", "all_intr"}
    MaxLen = 3
SPECIFICATION MCSpec
INVARIANTS
    WordAccounting MutualExclusion SleeperIsListed NoSleepThroughEvent
    DeadQueueDrains FatalSignalReaches
PROPERTY ImplementsRwLock
