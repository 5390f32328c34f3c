\* Runs start and close around a backfill that is repeated, stops, and meets later posts.
SPECIFICATION ThreadSpec
CONSTANTS
    ann = ann
    bob = bob
    svc = svc
    k1 = k1
    k2 = k2
    hi = hi
    Actors = {ann, bob, svc}
    Service = svc
    Readers = {}
    Keys <- AllKeys
    Bodies <- AllBodies
    Changes <- SomeChanges
    Limit = 1
    NumRuns = 2
    MaxSeq = 6
    None = None
INVARIANTS ImportedInOrder ImportsAreCompletedTurns RunsAreLinked
CHECK_DEADLOCK FALSE
