\* The daily jobs: renewals of two bookings with a call that goes wrong, and
\* deposits of two with two failures.
SPECIFICATION JobsSpec
CONSTANTS
    Bookings = {1, 2}
    OpenEnded = {1, 2}
    MoveOut <- MCMoveOut
    MonthDays = 2
    Lead = 1
    LastDay = 3
    LastMonth = 2
    MaxFaults = 1
    DueBookings = {"b1", "b2"}
    WithUnused = {"b1"}
    DepositFaults = 2
INVARIANTS
    AllTriedWhenClosed
PROPERTIES
    DueIsBilled
    DepositComesBack
