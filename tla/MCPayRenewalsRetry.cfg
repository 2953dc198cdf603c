\* The distance between two attempts at a failed renewal.
SPECIFICATION Spec
CONSTANTS
    Bookings = {2}
    OpenEnded = {}
    MoveOut <- MCMoveOut
    MonthDays = 2
    Lead = 1
    LastDay = 5
    LastMonth = 3
    MaxFaults = 0
PROPERTIES
    RetriedAfter72Hours
