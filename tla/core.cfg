CONSTANTS
    Procs = {p1, p2}
    Cpus = {c1, c2}
    None = None
    NR_WORD = 8
    MaxRunning = 3
    Threads = {t1, t2}
    Addrs = {x, y}
    Bitsets = {ANY, b1}
    ANY = ANY
    MaxWaits = 2
    MaxSignals = 1
    Areas <- AreasDef
    ORDERS = 4
    BUDDY_ENTRIES = 2
SPECIFICATION MCSpec
SYMMETRY Symmetry
INVARIANTS QueueExact LockHeldOutsideIdle  NrCoversQueue ExitedNeverRunsAgain FutexSleeperListed PagesOwnedOnce
PROPERTIES TimeoutTakesNoWake FailsOnlyWhenFull
