SPECIFICATION FairSpec
CONSTANTS
    Account = {a1}
    NoAccount = NoAccount
    Worker = {w1, w2}
    Clerk = {c1}
    Step = {1, 2}
    NextStep <- Loop
    Critical = {2}
    MaxFaults = 1
INVARIANTS OneHolder BusyIsHeld
PROPERTIES TasksEnd
