SPECIFICATION AllSpec
CONSTANTS
    alice = alice
    bob = bob
    m1 = m1
    m2 = m2
    Nil = Nil
    Customers = {alice, bob}
    Machines = {m1, m2}
    Pins = {1, 2}
    MaxFailedAttempts = 2
    MaxReservations = 2
    MaxFailures = 3
    Handlers = {alice, bob}
    Amounts = {1}
    Times = {1, 2}
    MaxEvents = 4
    Survivors = {alice, bob}
    MaxWounds = 2
    BaseActions = 3
    BaseCapacity = 2
    MaxInHand = 1
    YellowAt = 1
    OrangeAt = 2
    RedAt = 3
    MaxExperience = 3
    MaxHoards = 1
    Plates = {alice, bob}
    MotorcycleSpots = 1
    CompactSpots = 1
    LargeSpots = 1
    Hour = 2
    MaxNow = 5
    Keys = {alice, bob}
    MaxRequests = 2
    Window = 2
    MaxAllowed = 6
    MaxTickets = 3
    MaxClock = 5
    Width = 3
    Height = 3
    Expenses <- ReportedExpenses
    NoReason = Nil
    MaxExpenses = 3
    MaxPoints = 5
    MaxGames = 7
    Arenas <- SmallArenas
    Methods = {"f"}
    Arguments = {"none", "one"}
    Results = {"r", "s"}
    NoResult = Nil
    MaxCalls = 3
    MaxStubs = 2
    Digits = {0, 2}
    MaxShown = 20
    GridWidth = 4
    GridHeight = 3
    MaxCommands = 3
    Fields <- Planets
    CartProducts <- PolicyProducts
    MaxQuantity = 4
    MarketProducts <- ScannedProducts
    DealLists <- DealsOffered
    Weights = {1, 3}
    MaxUnits = 2
    MaxWeight = 3
    Inventory <- Goods
    Codes = {"B", "M", "X"}
    MaxOrder = 3
    Payments = {3, 4, 10, 20}
    PartTypes = {"Head", "Body", "Arms"}
    Options <- PartOptions
    Markets <- SupplierPairs
    Stations <- Network
    Stops = {"asterisk", "barbican", "moonbase"}
    MaxRides = 6
    Users = {"u", "v"}
    Tags = {"t"}
    Texts = {1}
    PostTimes = {1, 2}
    MaxPosts = 2
    MaxComments = 2
    Table <- People
    Headers = {"age", "city"}
    FilterValues <- ComparedCells
    NaN = NaN
    NodeValues = {1, 2}
    MaxNodes = 4
    Temperatures <- SomeTemperatures
    NotANumber = NotANumber
    Humidities <- SomeHumidities
    WindSpeeds <- SomeWindSpeeds
    Thresholds <- SomeThresholds
    MaxReadings = 3
    Rows = 3
    Cols = 3
    Mazes <- Labyrinths
    Deck <- Dealt
    Rivals <- RivalHands
INVARIANT AllTypesOK
INVARIANT PinsAgree
INVARIANT GuessesCounted
INVARIANT StreamIsSound
INVARIANT HistoryAgrees
INVARIANT LevelIsHighest
INVARIANT WithinMeans
INVARIANT SpotsConserved
INVARIANT BodyIsPath
INVARIANT FoodIsFree
INVARIANT TwiceTheLimit
INVARIANT RejectsOnlySpenders
INVARIANT RetryIsExact
INVARIANT GamesEndRightly
INVARIANT ChargedRightly
INVARIANT ReviewedAsDecided
 
INVARIANT ToldIsKept
INVARIANT SearchesAreExact
SYMMETRY Symmetry
CHECK_DEADLOCK FALSE
