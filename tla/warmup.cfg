SPECIFICATION WarmupSpec
CONSTANTS
    r1 = r1
    r2 = r2
    Account = {a1}
    Task = {t1, t2}
    Request = {r1, r2}
    Ops <- TwoSlots
    Slot <- SomeSlots
    Start = {480, 492}
    PackageDays = 1
    Horizon = 2700
    MaxOff = 400
    NoAccount = NoAccount
    NoTask = NoTask
    Events = {"fail", "crash", "reset"}
    MaxFaults = 1
INVARIANTS ParentAgrees Served
PROPERTIES PackageGoesOn FiresOnce
CHECK_DEADLOCK FALSE
