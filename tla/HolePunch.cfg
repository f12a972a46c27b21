\* Two devices that punch, and three connections.
SPECIFICATION Spec
CONSTANTS
    Client = {a, b}
    Punching = {a, b}
    MaxJoin = 3
    MayTimeOut = FALSE
SYMMETRY Symmetric
INVARIANTS
    TypeOK
    CandidateFound
