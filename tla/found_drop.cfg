SPECIFICATION FairSpec
CHECK_DEADLOCK FALSE
CONSTANTS
    Runs = {r1}
    MaxDrops = 1
PROPERTY DroppedStops
