\* The server restarts with its own, unedited device file.
SPECIFICATION RestartSpec
CONSTANTS
    HWID = {h1, h2}
    NoHWID = NoHWID
    DeviceID = {k1}
    NoID = NoID
    RuleSet = {r0}
    ValidRules = {r0}
    NoRules = r0
    StartIP = 2
    EndIP = 3
    ForeignIP = {}
    LeaseDuration = 2
    MaxClock = 3
    SaveMayFail = FALSE
INVARIANT UniqueLease
