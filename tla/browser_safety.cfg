SPECIFICATION PoolSpec
CONSTANTS
    Account = {a1}
    Call = {c1, c2}
    Browser = {x1, x2, x3}
    NoAccount = NoAccount
    NoBrowser = NoBrowser
    MaxSessions = 1
    Events = {"keep", "dual", "close", "hang", "exit"}
    Caller = {d1, d2, d3}
    MaxFaults = 1
SYMMETRY Interchangeable
INVARIANTS LaunchGuard OneBrowserPerProfile NoForgottenBrowser FewAfterCheckpoint
