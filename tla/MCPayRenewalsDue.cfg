\* A termination asked for while the job runs.
SPECIFICATION Spec
CONSTANTS
    Bookings = {2}
    OpenEnded = {}
    MoveOut <- MCMoveOut
    MonthDays = 2
    Lead = 1
    LastDay = 5
    LastMonth = 3
    MaxFaults = 0
INVARIANTS
    DueOnce
