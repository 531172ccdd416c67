SPECIFICATION Spec
CONSTANTS
    Isbns = {i1}
    Members = {ann, bob}
    ReservationExpiryDays = 1
    NotifierRaises = FALSE
    MaxCopies = 3
    MaxWaiting = 2
    MaxDay = 2
INVARIANT AvailableCanBeBorrowed
CHECK_DEADLOCK FALSE
