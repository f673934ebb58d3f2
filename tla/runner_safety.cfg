SPECIFICATION Spec
CONSTANTS
    t1 = t1
    t2 = t2
    b1 = b1
    NoTask = NoTask
    NoBatch = NoBatch
    Task = {t1}
    Tick = {k1, k2}
    Job = {j1, j2, j3}
    Recurring = {t1}
    Simulate = {t1}
    Warmup = {}
    batchId <- OneBatchId
    batchGroup <- OneGroup
    Events = {"execute", "start", "cancel", "reset", "remove", "create", "stale", "license", "crash", "db"}
SYMMETRY Interchangeable
INVARIANTS NoLeakedClaim RunningHasWorker
PROPERTIES ClaimsAreLocks
