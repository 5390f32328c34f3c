\* Creates and updates are tried again and a proposal is applied under two keys, while people edit.
SPECIFICATION MCSpec
CONSTANTS
    k1 = k1
    k2 = k2
    x = x
    y = y
    Tries = {t1, t2, t3}
    Asks <- AllAsks
    Ids = {r1, r2, r3}
    Values = {x, y}
    Snapshot = x
    Payload = y
    Scope <- ScopeOf
    MaxVersion = 4
SYMMETRY TrySymmetry
CONSTRAINT FourVersionsToApply
INVARIANTS EffectsAreLedgered AnsweredMeansDone SameAnswer AppliedOnce
CHECK_DEADLOCK FALSE
