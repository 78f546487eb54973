SPECIFICATION Spec
CONSTANTS
    Tasks = {t1, t2}
    None = None
    MaxSockets = 3
    MaxAttempts = 2
    MaxCalls = 1
    StartCalls = {}
    LastFrame = 1
    MaxOrphans = 1
    SplitFrames = TRUE
SYMMETRY Symmetry
CONSTRAINT CutOnFirst
INVARIANTS TypeOK TornDownIsQuiet OneConnector
PROPERTIES DialsOnlyWhenClosed
