SPECIFICATION Spec
CONSTANTS
    Tasks = {t1}
    None = None
    MaxSockets = 2
    MaxAttempts = 1
    MaxCalls = 2
    StartCalls = {}
    LastFrame = 1
    MaxOrphans = 1
    SplitFrames = TRUE
INVARIANT RepliesResolve
