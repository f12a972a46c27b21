\* One client through one fault and one refusal by the server.
SPECIFICATION Spec
CONSTANTS
    Session = {s1, s2}
    NoSession = NoSession
    MaxFaults = 1
    MaxRefusals = 1
INVARIANTS
    TypeOK
    
    LiveSession
PROPERTIES
    
    ConnectsAgain
