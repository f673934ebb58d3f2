CONSTANTS
    a1 = a1
    Account = {a1}
    NoAccount = NoAccount
    MaxCalls = 2
    MaxTicks = 2
    MaxFaults = 1
SPECIFICATION FairSpec
INVARIANTS GuardExact SuccessKept CancelledIsQuiet
PROPERTIES RegistrationSettles
CHECK_DEADLOCK FALSE
