SPECIFICATION RowsSpec
CONSTANTS
    Id = {i1, i2, i3}
    Email = {e1, e2}
    Request = {r1, r2}
    NoId = NoId
    NoEmail = NoEmail
    NoVpn = NoVpn
    PackSize = 2
    MaxAttempts = 2
    MaxManual = 1
    MaxCrashes = 1
    Quotas = {0, 1}
    DefaultQuota = 2
SYMMETRY Symmetry
INVARIANTS WithinQuota OneRowPerEmail DefaultsFew CopiesFew AttemptsBounded AlertsFew
