CONSTANTS
    Procs = {p1}
    Cpus = {c1, c2}
    None = None
    NR_WORD = 8
    MaxRunning = 3
SPECIFICATION Spec
INVARIANT RunnableIsQueued
CHECK_DEADLOCK FALSE
