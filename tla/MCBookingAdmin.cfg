SPECIFICATION Spec
CONSTANTS
    b1 = b1
    b2 = b2
    p1 = p1
    p2 = p2
    c1 = c1
    c2 = c2
    a1 = a1
    NoRequest = none
    BookingOf <- MCBookingOf
    StatusFor <- MCStatusFor
    Bookings = {b1}
    PayReqs = {p1}
    CancelReqs = {c1}
    InsureReqs = {}
    AdminReqs = {a1, a2}
    Ordered = {b1}
    Quoted = {b1}
    OpenEnded = {b1}
INVARIANT
    PaidTogether
PROPERTY
    LifecycleImplemented
CHECK_DEADLOCK FALSE
