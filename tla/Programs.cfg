\* The own programs' parts side by side: two pushes and a crash of the server,
\* two saves and a crash of the desktop program, two runs, two switchings-on.
SPECIFICATION ProgramsSpec
CONSTANTS
    Request = {r1}
    Device = {d1, d2}
    Key = {notice, nopunch}
    Value = {on}
    NoValue = NoValue
    NoFile = NoFile
    Empty = Empty
    Garbled = Garbled
    QueueCap = 2
    MaxPush = 2
    MayRestart = TRUE
    Form = {"f", "g"}
    MaxCred = 2
    MaxSave = 2
    MaxCrash = 1
    MaxRun = 2
    MaxTrp = 2
    MaxLoop = 2
    MaxMade = 2
    Call = {"x"}
    Shortcut = {"s"}
    Origin = {"o"}
    VPort = {1, 2}
    Target = {"s", "t"}
    MaxNow = 4
    B = 4
    MaxData = 3
    self = 5
    broadcast = 15
    target = 9
    other = 6
    vPort = 1
    tPort = 3
INVARIANTS
    ProgramTypes
    FilesKept
    NobodyMissesPush
    
    SingleNetwork
    
CHECK_DEADLOCK FALSE
