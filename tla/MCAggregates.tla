---------------------------- MODULE MCAggregates -----------------------------
(***************************************************************************)
(* Models of one object driven by its callers, instantiated for TLC and    *)
(* checked together: a behaviour drives the object it chose, and the       *)
(* others stay as they are made.                                           *)
(***************************************************************************)
EXTENDS Games, Charges, RateLimiter, LaundryReservation, EventSourcing, ExpenseReport, Views, TLC

CONSTANTS alice, bob, m1, m2, Nil    \* the same two names in every model

VARIABLE chosen

-----------------------------------------------------------------------------
\* A SKU sold under two policies, each policy once.
PolicyProducts ==
    {[sku |-> "a", price |-> 100, policy |-> [kind |-> "none"]],
     [sku |-> "a", price |-> 50, policy |-> [kind |-> "free", buy |-> 1, free |-> 2]],
     [sku |-> "b", price |-> 100, policy |-> [kind |-> "percent", percent |-> 15]],
     [sku |-> "b", price |-> 100, policy |-> [kind |-> "fixed", amount |-> 150]],
     [sku |-> "c", price |-> 100, policy |-> [kind |-> "bulk", threshold |-> 3, price |-> 50]]}

\* Deals that compete for a SKU, and one of a SKU with itself.
ScannedProducts ==
    {[sku |-> "a", rule |-> [kind |-> "multi", size |-> 2, group |-> 3, price |-> 2]],
     [sku |-> "b", rule |-> [kind |-> "bogof", price |-> 5]],
     [sku |-> "b", rule |-> [kind |-> "unit", price |-> 4]],
     [sku |-> "c", rule |-> [kind |-> "weight", price |-> 5]]}
DealsOffered ==
    {<<>>, <<[a |-> "a", b |-> "b", price |-> 6], [a |-> "b", b |-> "c", price |-> 7]>>,
     <<[a |-> "a", b |-> "a", price |-> 2]>>}

\* Two products of one code.
Goods ==
    <<[code |-> "B", price |-> 3, stock |-> 2], [code |-> "M", price |-> 4, stock |-> 3],
      [code |-> "B", price |-> 6, stock |-> 2]>>

\* Two suppliers, also of one name, with nothing, some or all of the parts.
PartOptions == [Head |-> {"o1", "o2"}, Body |-> {"b1", "b2"}, Arms |-> {"a1"}]
Catalogs ==
    {<<>>, "o1" :> 1 @@ "b1" :> 3, "a1" :> 1, "b1" :> 2 @@ "b2" :> 1 @@ "o2" :> 1,
     "o1" :> 2 @@ "o2" :> 2 @@ "b1" :> 2 @@ "a1" :> 1 @@ "b2" :> 2}
SupplierPairs ==
    {<<[name |-> "x", prices |-> c], [name |-> n, prices |-> d]>> :
        c \in Catalogs, d \in Catalogs, n \in {"x", "y"}}
NoSuppliers == <<[name |-> "x", prices |-> <<>>], [name |-> "y", prices |-> <<>>]>>

\* A station of each zone.
Network == [asterisk |-> "A", barbican |-> "B"]

\* Expenses over their limit, at it, and of nothing.
ReportedExpenses ==
    {[category |-> "Equipment", amount |-> 2000], [category |-> "Equipment", amount |-> 1000],
     [category |-> "Meals", amount |-> 0]}

\* Numbers in the order of numbers and against that of texts, a blank, a word,
\* and what reads as a number and is none.
Nine == [number |-> {9}, text |-> 4]
Ten == [number |-> {10}, text |-> 2]
Blank == [number |-> {}, text |-> 1]
Word == [number |-> {}, text |-> 3]
NotNumber == [number |-> {NaN}, text |-> 5]
People ==
    <<[age |-> Ten, city |-> Word], [age |-> Nine, city |-> Blank],
      [age |-> Word, city |-> Word], [age |-> Nine, city |-> NotNumber]>>
ComparedCells == {Nine, Ten, Word, NotNumber}

\* Readings below, at and above the thresholds, two that are refused, and some
\* of no number.
SomeTemperatures == {-5, 0, 30, NotANumber}
SomeHumidities == {0, 101, NotANumber}
SomeWindSpeeds == {-1, 10, 60}
NoThresholds == [ceiling |-> {}, floor |-> {}, limit |-> {}]
SomeThresholds ==
    {[ceiling |-> c, floor |-> f, limit |-> l] : c \in {{}, {0}}, f \in {{}, {0}}, l \in {{}, {10}}}

\* The planet empty, and with obstacles at an edge and inside.
Planets == {{}, {<<0, 0>>, <<2, 1>>}}

\* Nothing at all, and every pair of towers of a few kinds before three jellies.
NoArena == [towers |-> <<>>, jellies |-> <<>>]
SmallArenas ==
    {NoArena} \cup {[towers |-> <<[color |-> c, level |-> l], [color |-> d, level |-> 2]>>,
      jellies |-> <<[color |-> e, health |-> 9], [color |-> "BlueRed", health |-> 8], [color |-> "Blue", health |-> 7]>>] :
        c \in {"Blue", "BlueRed"}, d \in {"Red", "BlueRed"}, e \in {"Red", "Blue"}, l \in {1, 3}}

\* Every wall in a maze of nine cells, between two opposite corners.
Labyrinths ==
    {[walls |-> w, start |-> <<0, 0>>, end |-> <<2, 2>>] :
        w \in SUBSET (((0..2) \X (0..2)) \ {<<0, 0>>, <<2, 2>>})}

\* Fourteen cards hold every rank of hand; the rivals are of four of them.
Dealt ==
    <<<<2, "C">>, <<2, "D">>, <<2, "H">>, <<2, "S">>, <<3, "C">>, <<3, "D">>, <<4, "C">>,
      <<4, "D">>, <<5, "C">>, <<5, "D">>, <<6, "C">>, <<6, "D">>, <<6, "H">>, <<7, "C">>>>
RivalHands ==
    {<<<<2, "C">>, <<3, "C">>, <<4, "C">>, <<5, "C">>, <<6, "C">>>>,
     <<<<2, "C">>, <<3, "C">>, <<4, "D">>, <<5, "C">>, <<6, "C">>>>,
     <<<<6, "C">>, <<6, "D">>, <<4, "D">>, <<4, "C">>, <<2, "C">>>>,
     <<<<6, "C">>, <<6, "D">>, <<3, "D">>, <<4, "C">>, <<2, "C">>>>,
     <<<<2, "C">>, <<2, "D">>, <<2, "S">>, <<4, "C">>, <<3, "C">>>>}

-----------------------------------------------------------------------------
Objects ==
    {"laundry", "ledger", "zombies", "parking", "snake", "limiter", "report", "board", "tennis", "jelly",
     "mocked", "calc", "rover", "cart", "market", "sale", "robots", "clam",
     "posts", "csv", "chain", "weather", "maze", "poker"}

AllInit ==
    /\ chosen \in Objects
    /\ LaundryInit /\ LedgerInit /\ LimiterInit /\ ReportInit
    /\ LotInit /\ CartInit /\ SaleInit /\ CardInit
    /\ MarketInit /\ (chosen # "market" => checkout.deals = <<>>)
    /\ FactoryInit /\ (chosen # "robots" => factory.market = NoSuppliers)
    /\ ZombieInit /\ BoardInit /\ MatchInit
    /\ SnakeInit /\ (chosen # "snake" => food = <<1, 0>>)      \* where it lies does not matter
    /\ ArenaInit /\ (chosen = "jelly") = (arena # NoArena)
    /\ MockInit /\ CalcInit
    /\ RoverInit /\ (chosen # "rover" => obstacles = {} /\ rover.position = <<0, 0>> /\ rover.heading = "N")
    /\ BlogInit /\ QueryInit /\ ListInit
    /\ WeatherInit /\ (chosen # "weather" => station.thresholds = NoThresholds)
    /\ MazeInit /\ (chosen # "maze" => maze.walls = {})
    /\ PokerInit

serviceVars == <<laundryVars, ledgerVars, limiterVars, reportVars>>
chargeVars == <<lotVars, cartVars, marketVars, saleVars, factoryVars, cardVars>>
gameVars == <<zombieVars, snakeVars, board, match, arenaVars>>
deviceVars == <<mockVars, calc, roverVars>>
viewVars == <<blog, queryVars, listVars, weatherVars>>
searchVars == <<mazeVars, hand>>

AllNext ==
    /\ UNCHANGED chosen
    /\ \/ /\ UNCHANGED <<chargeVars, gameVars, deviceVars, viewVars, searchVars>>
          /\ \/ chosen = "laundry" /\ LaundryNext /\ UNCHANGED <<ledgerVars, limiterVars, reportVars>>
             \/ chosen = "ledger" /\ LedgerNext /\ UNCHANGED <<laundryVars, limiterVars, reportVars>>
             \/ chosen = "limiter" /\ LimiterNext /\ UNCHANGED <<laundryVars, ledgerVars, reportVars>>
             \/ chosen = "report" /\ ReportNext /\ UNCHANGED <<laundryVars, ledgerVars, limiterVars>>
       \/ /\ UNCHANGED <<serviceVars, gameVars, deviceVars, viewVars, searchVars>>
          /\ \/ chosen = "parking" /\ LotNext /\ UNCHANGED <<cartVars, marketVars, saleVars, factoryVars, cardVars>>
             \/ chosen = "cart" /\ CartNext /\ UNCHANGED <<lotVars, marketVars, saleVars, factoryVars, cardVars>>
             \/ chosen = "market" /\ MarketNext /\ UNCHANGED <<lotVars, cartVars, saleVars, factoryVars, cardVars>>
             \/ chosen = "sale" /\ SaleNext /\ UNCHANGED <<lotVars, cartVars, marketVars, factoryVars, cardVars>>
             \/ chosen = "robots" /\ FactoryNext /\ UNCHANGED <<lotVars, cartVars, marketVars, saleVars, cardVars>>
             \/ chosen = "clam" /\ CardNext /\ UNCHANGED <<lotVars, cartVars, marketVars, saleVars, factoryVars>>
       \/ /\ UNCHANGED <<serviceVars, chargeVars, deviceVars, viewVars, searchVars>>
          /\ \/ chosen = "zombies" /\ ZombieNext /\ UNCHANGED <<snakeVars, board, match, arenaVars>>
             \/ chosen = "snake" /\ SnakeNext /\ UNCHANGED <<zombieVars, board, match, arenaVars>>
             \/ chosen = "board" /\ BoardNext /\ UNCHANGED <<zombieVars, snakeVars, match, arenaVars>>
             \/ chosen = "tennis" /\ MatchNext /\ UNCHANGED <<zombieVars, snakeVars, board, arenaVars>>
             \/ chosen = "jelly" /\ ArenaNext /\ UNCHANGED <<zombieVars, snakeVars, board, match>>
       \/ /\ UNCHANGED <<serviceVars, chargeVars, gameVars, viewVars, searchVars>>
          /\ \/ chosen = "mocked" /\ MockNext /\ UNCHANGED <<calc, roverVars>>
             \/ chosen = "calc" /\ CalcNext /\ UNCHANGED <<mockVars, roverVars>>
             \/ chosen = "rover" /\ RoverNext /\ UNCHANGED <<mockVars, calc>>
       \/ /\ UNCHANGED <<serviceVars, chargeVars, gameVars, deviceVars, searchVars>>
          /\ \/ chosen = "posts" /\ BlogNext /\ UNCHANGED <<queryVars, listVars, weatherVars>>
             \/ chosen = "csv" /\ QueryNext /\ UNCHANGED <<blog, listVars, weatherVars>>
             \/ chosen = "chain" /\ ListNext /\ UNCHANGED <<blog, queryVars, weatherVars>>
             \/ chosen = "weather" /\ WeatherNext /\ UNCHANGED <<blog, queryVars, listVars>>
       \/ /\ UNCHANGED <<serviceVars, chargeVars, gameVars, deviceVars, viewVars>>
          /\ \/ chosen = "maze" /\ MazeNext /\ UNCHANGED hand
             \/ chosen = "poker" /\ Deal /\ UNCHANGED mazeVars

allVars == <<chosen, serviceVars, chargeVars, gameVars, deviceVars, viewVars, searchVars>>

AllSpec == AllInit /\ [][AllNext]_allVars

\* Names, and machines, are told apart only by being different.
Symmetry == Permutations({alice, bob}) \cup Permutations({m1, m2})

-----------------------------------------------------------------------------
\* Every state is one the classes of these systems can hold.
AllTypesOK ==
    /\ chosen = "laundry" => LaundryTypeOK
    /\ chosen = "ledger" => LedgerTypeOK
    /\ chosen = "zombies" => ZombieTypeOK
    /\ chosen = "parking" => LotTypeOK
    /\ chosen = "snake" => SnakeTypeOK
    /\ chosen = "limiter" => LimiterTypeOK
    /\ chosen = "cart" => CartTypeOK
    /\ chosen = "sale" => SaleTypeOK
    /\ chosen = "robots" => FactoryTypeOK
    /\ chosen = "clam" => CardTypeOK
    /\ chosen = "report" => ReportTypeOK
    /\ chosen = "csv" => QueryTypeOK
    /\ chosen = "chain" => ListTypeOK
    /\ chosen = "weather" => WeatherTypeOK
    /\ chosen = "mocked" => MockTypeOK
    /\ chosen = "rover" => RoverTypeOK
    /\ chosen = "jelly" => ArenaTypeOK
    /\ chosen = "maze" => MazeTypeOK
    /\ chosen = "market" => MarketTypeOK
    /\ chosen = "posts" => BlogTypeOK
    /\ chosen = "calc" => CalcTypeOK
    /\ chosen = "tennis" => MatchTypeOK
    /\ chosen = "board" => BoardTypeOK
    /\ chosen = "poker" => PokerTypeOK
=============================================================================
