\* The parts of the NPS server side by side, each with the bounds it was found
\* to need for its faults to show.
SPECIFICATION ServerSpec
CONSTANTS
    Client = {c}
    MaxTask = 2
    MaxServer = 2
    Admin = {a}
    Requests = 2
    Crashes = 1
    Visitor = {"v", "w"}
    Kinds <- MCKinds
    MaxConn = 1
    FlowLimit = TRUE
    Guest = {v}
    Host = {"a", "b"}
    Owner <- MCOwner
    MaxStream = 2
    Packet = {p, q, r}
    MaxSession = 2
    Caller = {x, y}
    Site = {1, 2}
    Cert = {"c", "d"}
    BadCert = {"d"}
    MaxChange = 1
    Producer = {p, q}
    Items = 2
    FirstSize = 1
    Targets <- MCTargets
    MaxFail = 2
    Checker = {k}
    MaxWire = 1
    MaxRemoved = 2
    Losses = 1
    Ports = {1}
    MaxTry = 2
INVARIANTS
    ServerTypes
    
    TrafficSafe
PROPERTIES
    IdsStay
CHECK_DEADLOCK FALSE
