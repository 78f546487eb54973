SPECIFICATION Spec
CONSTANTS
    Tasks = {t1}
    None = None
    MaxSockets = 2
    MaxAttempts = 1
    MaxCalls = 2
    StartCalls = {1}
    LastFrame = 2
    MaxOrphans = 4
    SplitFrames = FALSE
CONSTRAINTS PlainCallsSucceed ConnectsAgain
INVARIANTS
    TornDownIsQuiet CallsAreResolvable OwnReply StreamIsWhole StreamInOrder
    OrphansAccounted
PROPERTY KeepsPromise
