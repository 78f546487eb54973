SPECIFICATION Spec
CONSTANTS
    Tasks = {t1}
    None = None
    MaxSockets = 2
    MaxAttempts = 1
    MaxCalls = 1
    StartCalls = {1}
    LastFrame = 1
    MaxOrphans = 1
    SplitFrames = FALSE
INVARIANT SocketEndWakesWaits
