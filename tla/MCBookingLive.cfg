SPECIFICATION FairSpec
CONSTANTS
    b1 = b1
    b2 = b2
    p1 = p1
    p2 = p2
    c1 = c1
    c2 = c2
    a1 = a1
    NoRequest = none
    BookingOf <- MCBookingOf
    StatusFor <- MCStatusFor
    Bookings = {b1, b2}
    PayReqs = {p1}
    CancelReqs = {c1}
    InsureReqs = {i1}
    AdminReqs = {}
    Ordered = {}
    Quoted = {}
    OpenEnded = {b1, b2}
PROPERTIES
    ReservationEnds
    RequestsEnd
CHECK_DEADLOCK FALSE
