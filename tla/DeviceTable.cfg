\* One lifetime of the server: three devices and guests compete for two
\* addresses, leases last two ticks, so that leases lapse and the pool fills.
SPECIFICATION Spec
CONSTANTS
    HWID = {h1, h2, h3}
    NoHWID = NoHWID
    DeviceID = {k1, k2}
    NoID = NoID
    RuleSet = {r0, r1, bad}
    ValidRules = {r0, r1}
    NoRules = r0
    StartIP = 2
    EndIP = 3
    ForeignIP = {}
    LeaseDuration = 2
    MaxClock = 4
    SaveMayFail = FALSE
SYMMETRY Symmetric
INVARIANTS
    TypeOK
    UniqueLease
    PoolExact
PROPERTY LeasePromise
