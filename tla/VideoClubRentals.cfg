SPECIFICATION ClubSpec
CONSTANTS
    Names = {jaws}
    RentalPeriodDays = 1
    OnTimeReturnAward = 2
    LateReturnPenalty = 2
    MaxUsers = 2
    MaxTitles = 2
    MaxCopies = 2
    MaxPriorityPoints = 4
    MaxDay = 4
INVARIANT ClubTypeOK
INVARIANT StockConserved
INVARIANT FlagHasCause
INVARIANT SweptAreBlocked
CHECK_DEADLOCK FALSE
