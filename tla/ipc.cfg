CONSTANTS
    Readers = {r1, r2}
    Writers = {w1}
    Signalled = {r1}
    SIZE = 3
    STAMPS = 6
    MaxLen = 3
    Senders = {s1}
    Sigs = {9, 18, 19}
    Actions = {"Default", "Ignore"}
    None = None
    MaxQueue = 1
    BootTop = 6
    PageSize = 2
    MaxRegions = 3
    Attrs = {NOMAP, RESERVED}
    NOMAP = NOMAP
    RESERVED = RESERVED
SPECIFICATION MCSpec
INVARIANTS StreamIntact NoSleepThroughReady PendingIsAnnounced MemblockExact BumpHandsOver
