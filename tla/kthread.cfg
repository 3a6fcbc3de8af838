CONSTANTS
    Requests = {r1, r2}
    None = None
    Cpus = {c1, c2, c3}
    Nobody = Nobody
    Waiters = {w1, w2}
    Timed = {w1}
    CompleteAll = 3
    MaxWaits = 2
    MaxCompletes = 3
SPECIFICATION MCSpec
INVARIANTS RawArcAccounted AssertsHold RunsOnlyIfWoken DoneAccounted
PROPERTIES PoppedIsAnswered StopReturns SelfLockReturns TimedWaitReturns
