SPECIFICATION SceneSpec
CONSTANTS
    Tasks = {t1, t2}
    bystander = t2
    None = None
    MaxSockets = 2
    MaxAttempts = 1
    MaxCalls = 1
    StartCalls = {1}
    LastFrame = 1
    MaxOrphans = 1
    SplitFrames = TRUE
PROPERTIES ConnectReturns CallsReturn WaitersWake CloseReleasesSockets
