CONSTANTS
    Procs = {p1, p2}
    None = None
SPECIFICATION Spec
INVARIANT BlockedOnlyWhileLocked
