\* The pay-renewal job on one booking with a move-out date, with three calls
\* that go wrong.
SPECIFICATION Spec
CONSTANTS
    Bookings = {2}
    OpenEnded = {}
    MoveOut <- MCMoveOut
    MonthDays = 2
    Lead = 2
    LastDay = 5
    LastMonth = 4
    MaxFaults = 3
INVARIANTS
    TypeOK
    MonthPaidOnce
    MonthsInOrder
    PaidIsBooked
    ChargesBooked
    NoMonthAfterMoveOut
