CONSTANTS
    Procs = {p1, p2}
    Locks = {l1, l2}
    None = None
    Pids = {i, a, b}
    InitPid = i
    Nobody = Nobody
    Nappers = {a}
    ByPid = {i, a, b}
    MaxSignals = 1
    MaxGroups = 3
    UserTop = 6
    MmapMin = 1
    MaxLen = 3
    Spaces = {m1, m2}
    First = m1
    SpaceTop = 3
    MaxVmas = 4
    MaxCalls = 3
    Frames = {f1, f2}
    Prots = {TRUE}
SPECIFICATION MCSpec
INVARIANTS  NoSleepThroughExit MembershipExact RegistriesInUse HolesExact RmapExact CowIsolated
 
