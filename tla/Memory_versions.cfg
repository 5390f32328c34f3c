\* Any two of a create, a supersession, a retraction and a deferral are accepted or rejected while people change the same memories.
SPECIFICATION Spec
CONSTANTS
    p1 = p1
    p2 = p2
    p3 = p3
    p4 = p4
    Memories = {m1, m2, m3}
    Proposals = {p1, p2, p3, p4}
    Drives = {d1, d2}
    Op <- EachOp
    None = None
CONSTRAINT TwoProposals
SYMMETRY MintSymmetry
INVARIANTS OneHead ChainIntact TakesEffectOnce
PROPERTY HistoryIsKept
CHECK_DEADLOCK FALSE
