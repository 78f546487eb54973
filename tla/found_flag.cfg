SPECIFICATION Spec
CONSTANTS
    Tasks = {t1, t2}
    None = None
    MaxSockets = 2
    MaxAttempts = 1
    MaxCalls = 1
    StartCalls = {}
    LastFrame = 1
    MaxOrphans = 1
    SplitFrames = FALSE
INVARIANT ConnectedMeansOpen
