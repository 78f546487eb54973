SPECIFICATION Spec
CONSTANTS
    Tasks = {t1}
    None = None
    MaxSockets = 1
    MaxAttempts = 1
    MaxCalls = 1
    StartCalls = {}
    LastFrame = 1
    MaxOrphans = 1
    SplitFrames = FALSE
INVARIANT SocketEndWakesCalls
