SPECIFICATION FairSpec
CHECK_DEADLOCK FALSE
CONSTANTS
    Runs = {r1}
    MaxDrops = 2
PROPERTIES RunsReturn CancelledStops TimedOutStops
