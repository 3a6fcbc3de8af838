CONSTANTS
    Areas <- AreasDef
    ORDERS = 4
    BUDDY_ENTRIES = 2
SPECIFICATION Spec
INVARIANT BuddyAssertsHold
\* an allocator that has failed an assertion has stopped
CHECK_DEADLOCK FALSE
