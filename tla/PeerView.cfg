\* Two devices and three connections: each pair of a connection that ends
\* and its successor, watched by the other device.
SPECIFICATION Spec
CONSTANTS
    Client = {a, b}
    MaxJoin = 3
SYMMETRY Symmetric
INVARIANTS
    TypeOK
    EveryoneKnown
    GoneForgotten
