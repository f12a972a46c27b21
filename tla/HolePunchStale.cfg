\* Two devices that punch, each of which connects twice.
SPECIFICATION Spec
CONSTANTS
    Client = {a, b}
    Punching = {a, b}
    MaxJoin = 4
    MayTimeOut = TRUE
SYMMETRY Symmetric
INVARIANT FallsBack
