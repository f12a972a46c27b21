\* Many lifetimes: crashes, failed saves, a file edited by hand or lost.
\* Address 9 is outside the pool, which has one.
SPECIFICATION MaintainedSpec
CONSTANTS
    HWID = {h1, h2}
    NoHWID = NoHWID
    DeviceID = {k1}
    NoID = NoID
    RuleSet = {r0}
    ValidRules = {r0}
    NoRules = r0
    StartIP = 2
    EndIP = 2
    ForeignIP = {9}
    LeaseDuration = 1
    MaxClock = 2
    SaveMayFail = TRUE
SYMMETRY Symmetric
INVARIANTS
    CredentialIndex
    Durable
    NoDanglingIndex
PROPERTY GrantIsHeld
