\* One client that connects twice; one trouble: its second tunnel connection is
\* cut or refused, or it is told to disconnect.
SPECIFICATION Spec
CONSTANTS
    Runs = 2
    Faults = 1
    MayCut <- MCCut
    MaxRetry = 1
    Reconnect = TRUE
INVARIANTS
    TypeOK
PROPERTIES
    
    HalfGone
\* A client that stays connected has nothing left to do.
CHECK_DEADLOCK FALSE
