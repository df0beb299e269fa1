SPECIFICATION Spec
CHECK_DEADLOCK FALSE
CONSTANTS
    a = a
    b = b
    Threads = {a, b}
    NumKeys = 2
    MaxEntries = 4
    NumShards = 1
    Plans <- MCPlans
INVARIANTS ReadersKeepData KeyedIsMapped PagesAccounted
PROPERTIES RequestsFinish
