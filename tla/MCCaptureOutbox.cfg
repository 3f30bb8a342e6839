CONSTANTS
    c1 = c1
    c2 = c2
    s1 = s1
    s2 = s2
    Captures = {c1, c2}
    Syncs = {s1, s2}
SPECIFICATION OfflineSpec
INVARIANTS
    OutboxTypeOK
    ToldIsKept
PROPERTIES
    OutboxDrains
