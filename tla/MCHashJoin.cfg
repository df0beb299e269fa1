SPECIFICATION Spec
CHECK_DEADLOCK FALSE
CONSTANTS
    b1 = b1
    b2 = b2
    p1 = p1
    p2 = p2
    Builders = {b1, b2}
    Probers = {p1, p2}
    Joins <- MCJoins
    MaxLevel = 2
    Null = Null
    None = None
INVARIANTS JoinResult HandoverChecks CancelReleases
PROPERTIES JoinFinishes
