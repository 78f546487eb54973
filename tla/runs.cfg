SPECIFICATION Spec
CHECK_DEADLOCK FALSE
CONSTANTS
    Runs = {r1, r2}
    MaxDrops = 1
SYMMETRY Symmetry
INVARIANTS StartedOnce OkIsOver OnlyAbandonedKilled
PROPERTIES UsesPromise
