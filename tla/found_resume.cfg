SPECIFICATION SessionSpec
CHECK_DEADLOCK FALSE
CONSTANTS
    Tasks = {t1}
    MaxSlots = 2
PROPERTIES ResumedIsFresh
