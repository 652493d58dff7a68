CONSTANTS
    MinutesPerDay = 6
    Intervals = {1, 2, 4}
    LastMinute = 52
SPECIFICATION Spec
INVARIANTS
    EligibleInsideWindows
    KeysNameSlots
CHECK_DEADLOCK FALSE
