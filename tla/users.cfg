SPECIFICATION UsersSpec
CONSTANTS
    r1 = r1
    r2 = r2
    Client = {c1}
    Session = {s1, s2}
    Request = {r1, r2}
    Settings = {"groups"}
    SessionCalls <- ManySessionCalls
    UserCalls <- ManyUserCalls
    NoSession = NoSession
    NoClient = NoClient
    Machine = {m1}
    Other = {x1}
    Key = {k1, k2}
    NoMachine = NoMachine
    NoKey = NoKey
    Grace = 2
    MaxBoots = 1
INVARIANTS FileFollowsMemory
PROPERTIES NoResurrection RevocationTakesEffect RevokedStaysRevoked ChangesKept
CHECK_DEADLOCK FALSE
