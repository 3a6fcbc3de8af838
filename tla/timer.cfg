CONSTANTS
    Sleepers = {a}
    Idle = idle
    Remote = {x}
    Calls = 1
    MAX_RUNNING_PER_CPU = 2
    TIMER_RUN_CYCLE_THRESHOLD = 1
    MaxJiffies = 2
SPECIFICATION FairSpec
INVARIANTS OneRunner SleeperHasTimer
PROPERTY SleepEnds
