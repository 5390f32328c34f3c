\* Three items are nested and moved; three requests connect them, or two while a client looks on.
SPECIFICATION MCSpec
CONSTANTS
    t1 = t1
    t2 = t2
    Items = {i1, i2, i3}
    Nodes = {i1, i2, i3}
    Teams = {t1, t2}
    Requests = {r1, r2}
    Asks <- SomeAsks
    Adds = {a1, a2, a3}
    Clients = {k1}
    Keep = Keep
    None = None
SYMMETRY BoardSymmetry
INVARIANTS ParentCyclesAreRaced DepthIsTrue CyclesAreRaced NothingVanishes
CHECK_DEADLOCK FALSE
