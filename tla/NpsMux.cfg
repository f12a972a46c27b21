\* Two connections opened by A, one message, one closing; a window of one
\* segment that may grow to four, with three written and a reader that closes.
SPECIFICATION MuxSpec
CONSTANTS
    Opens = 2
    MaxId = 2
    FirstId = 1
    Writes <- BWrites
    Ends <- AEnds
    MaxStarving = 1
    Threshold = 0
    Ticks = 2
    Closers = 1
    MayClose = {}
    MayTimeOut = FALSE
    N = 3
    Sizes = {1, 4}
    FirstSize = 1
    WindowMayClose = {"B"}
    WindowMayTimeOut = FALSE
INVARIANTS
    LinkSafe
    WindowSafe
PROPERTIES
    
    ClosingEnds
CHECK_DEADLOCK FALSE
