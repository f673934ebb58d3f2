SPECIFICATION FairSpec
CONSTANTS
    t1 = t1
    t2 = t2
    b1 = b1
    NoTask = NoTask
    NoBatch = NoBatch
    Task = {t1, t2}
    Tick = {k1, k2}
    Job = {j1, j2, j3}
    Recurring = {t2}
    Simulate = {t1}
    Warmup = {}
    batchId <- PairBatchId
    batchGroup <- PairGroup
    Events = {"stale", "license"}
INVARIANTS BatchInTurn
PROPERTIES DueServed RecurringRearmed
