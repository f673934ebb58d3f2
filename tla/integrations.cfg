SPECIFICATION Spec
CONSTANTS
    a1 = a1
    a2 = a2
    Account <- Accounts
    Job <- Jobs
    Run = {r1, r2}
    Pin = {p1, p2}
    NoPin = NoPin
    Limit = 2
    Feed = 3
    MaxDay = 1
    MaxFaults = 1
INVARIANTS JoinsWithinLimit PinNotLost TabsClosed
PROPERTIES RunsWindDown
