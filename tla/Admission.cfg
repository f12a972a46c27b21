\* Two devices with one display name and two connections at a time compete for
\* one address; leases last one tick, so they can lapse while in use.
SPECIFICATION ASpec
CONSTANTS
    HWID = {h1, h2}
    NoHWID = NoHWID
    DeviceID = {k1, k2}
    NoID = NoID
    RuleSet = {r0}
    ValidRules = {r0}
    NoRules = r0
    StartIP = 2
    EndIP = 2
    ForeignIP = {}
    LeaseDuration = 1
    MaxClock = 2
    SaveMayFail = FALSE
    Conn = {c1, c2}
    NoConn = NoConn
    BaseName <- SameName
    MaxSuffix = 2
SYMMETRY Symmetric
INVARIANTS
    ATypeOK
    OneConnPerAddress
    NoGhost
    GuestKeepsAddress
PROPERTY BlockHolds
