SPECIFICATION Spec
CONSTANTS
    Isbns = {i1}
    Members = {ann, bob, cy}
    ReservationExpiryDays = 1
    NotifierRaises = TRUE
    MaxCopies = 3
    MaxWaiting = 3
    MaxDay = 3
INVARIANT LoansMatch
INVARIANT OnlyHeadNotified
INVARIANT NotifiedFindsCopy
PROPERTY ServedInOrder
CHECK_DEADLOCK FALSE
