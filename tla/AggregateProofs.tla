--------------------------- MODULE AggregateProofs ---------------------------
(***************************************************************************)
(* The objects of MCAggregates together: each does by itself what it does  *)
(* among the others, and so every state is one its class can hold.         *)
(***************************************************************************)
EXTENDS MCAggregates, GameProofs, ServiceProofs, ChargeProofs, ViewProofs

-----------------------------------------------------------------------------
(* A step of them all is, for each, a step of its own or none.             *)

LEMMA ServiceSteps ==
  [AllNext]_allVars =>
    /\ [LaundryNext]_laundryVars
    /\ [LedgerNext]_ledgerVars
    /\ [LimiterNext]_limiterVars
    /\ [ReportNext]_reportVars
<1> SUFFICES ASSUME [AllNext]_allVars
             PROVE  /\ [LaundryNext]_laundryVars
                    /\ [LedgerNext]_ledgerVars
                    /\ [LimiterNext]_limiterVars
                    /\ [ReportNext]_reportVars
  OBVIOUS
<1>1. CASE UNCHANGED serviceVars
  BY <1>1 DEF serviceVars
<1>2. CASE \/ LaundryNext /\ UNCHANGED <<ledgerVars, limiterVars, reportVars>>
           \/ LedgerNext /\ UNCHANGED <<laundryVars, limiterVars, reportVars>>
           \/ LimiterNext /\ UNCHANGED <<laundryVars, ledgerVars, reportVars>>
           \/ ReportNext /\ UNCHANGED <<laundryVars, ledgerVars, limiterVars>>
  BY <1>2
<1>3. UNCHANGED allVars => UNCHANGED serviceVars
  BY DEF allVars
<1> QED
  BY <1>1, <1>2, <1>3 DEF AllNext

LEMMA ChargeSteps ==
  [AllNext]_allVars =>
    /\ [LotNext]_lotVars
    /\ [CartNext]_cartVars
    /\ [MarketNext]_marketVars
    /\ [SaleNext]_saleVars
    /\ [FactoryNext]_factoryVars
    /\ [CardNext]_cardVars
<1> SUFFICES ASSUME [AllNext]_allVars
             PROVE  /\ [LotNext]_lotVars
                    /\ [CartNext]_cartVars
                    /\ [MarketNext]_marketVars
                    /\ [SaleNext]_saleVars
                    /\ [FactoryNext]_factoryVars
                    /\ [CardNext]_cardVars
  OBVIOUS
<1>1. CASE UNCHANGED chargeVars
  BY <1>1 DEF chargeVars
<1>2. CASE \/ LotNext /\ UNCHANGED <<cartVars, marketVars, saleVars, factoryVars, cardVars>>
           \/ CartNext /\ UNCHANGED <<lotVars, marketVars, saleVars, factoryVars, cardVars>>
           \/ MarketNext /\ UNCHANGED <<lotVars, cartVars, saleVars, factoryVars, cardVars>>
           \/ SaleNext /\ UNCHANGED <<lotVars, cartVars, marketVars, factoryVars, cardVars>>
           \/ FactoryNext /\ UNCHANGED <<lotVars, cartVars, marketVars, saleVars, cardVars>>
           \/ CardNext /\ UNCHANGED <<lotVars, cartVars, marketVars, saleVars, factoryVars>>
  BY <1>2
<1>3. UNCHANGED allVars => UNCHANGED chargeVars
  BY DEF allVars
<1> QED
  BY <1>1, <1>2, <1>3 DEF AllNext

LEMMA GameSteps ==
  [AllNext]_allVars =>
    /\ [ZombieNext]_zombieVars
    /\ [SnakeNext]_snakeVars
    /\ [BoardNext]_board
    /\ [MatchNext]_match
    /\ [ArenaNext]_arenaVars
<1> SUFFICES ASSUME [AllNext]_allVars
             PROVE  /\ [ZombieNext]_zombieVars
                    /\ [SnakeNext]_snakeVars
                    /\ [BoardNext]_board
                    /\ [MatchNext]_match
                    /\ [ArenaNext]_arenaVars
  OBVIOUS
<1>1. CASE UNCHANGED gameVars
  BY <1>1 DEF gameVars
<1>2. CASE \/ ZombieNext /\ UNCHANGED <<snakeVars, board, match, arenaVars>>
           \/ SnakeNext /\ UNCHANGED <<zombieVars, board, match, arenaVars>>
           \/ BoardNext /\ UNCHANGED <<zombieVars, snakeVars, match, arenaVars>>
           \/ MatchNext /\ UNCHANGED <<zombieVars, snakeVars, board, arenaVars>>
           \/ ArenaNext /\ UNCHANGED <<zombieVars, snakeVars, board, match>>
  BY <1>2
<1>3. UNCHANGED allVars => UNCHANGED gameVars
  BY DEF allVars
<1> QED
  BY <1>1, <1>2, <1>3 DEF AllNext

LEMMA DeviceSteps ==
  [AllNext]_allVars =>
    /\ [MockNext]_mockVars
    /\ [CalcNext]_calc
    /\ [RoverNext]_roverVars
<1> SUFFICES ASSUME [AllNext]_allVars
             PROVE  /\ [MockNext]_mockVars
                    /\ [CalcNext]_calc
                    /\ [RoverNext]_roverVars
  OBVIOUS
<1>1. CASE UNCHANGED deviceVars
  BY <1>1 DEF deviceVars
<1>2. CASE \/ MockNext /\ UNCHANGED <<calc, roverVars>>
           \/ CalcNext /\ UNCHANGED <<mockVars, roverVars>>
           \/ RoverNext /\ UNCHANGED <<mockVars, calc>>
  BY <1>2
<1>3. UNCHANGED allVars => UNCHANGED deviceVars
  BY DEF allVars
<1> QED
  BY <1>1, <1>2, <1>3 DEF AllNext

LEMMA ViewSteps ==
  [AllNext]_allVars =>
    /\ [BlogNext]_blog
    /\ [QueryNext]_queryVars
    /\ [ListNext]_listVars
    /\ [WeatherNext]_weatherVars
<1> SUFFICES ASSUME [AllNext]_allVars
             PROVE  /\ [BlogNext]_blog
                    /\ [QueryNext]_queryVars
                    /\ [ListNext]_listVars
                    /\ [WeatherNext]_weatherVars
  OBVIOUS
<1>1. CASE UNCHANGED viewVars
  BY <1>1 DEF viewVars
<1>2. CASE \/ BlogNext /\ UNCHANGED <<queryVars, listVars, weatherVars>>
           \/ QueryNext /\ UNCHANGED <<blog, listVars, weatherVars>>
           \/ ListNext /\ UNCHANGED <<blog, queryVars, weatherVars>>
           \/ WeatherNext /\ UNCHANGED <<blog, queryVars, listVars>>
  BY <1>2
<1>3. UNCHANGED allVars => UNCHANGED viewVars
  BY DEF allVars
<1> QED
  BY <1>1, <1>2, <1>3 DEF AllNext

LEMMA SearchSteps ==
  [AllNext]_allVars =>
    /\ [MazeNext]_mazeVars
    /\ [Deal]_hand
<1> SUFFICES ASSUME [AllNext]_allVars
             PROVE  /\ [MazeNext]_mazeVars
                    /\ [Deal]_hand
  OBVIOUS
<1>1. CASE UNCHANGED searchVars
  BY <1>1 DEF searchVars
<1>2. CASE \/ MazeNext /\ UNCHANGED hand
           \/ Deal /\ UNCHANGED mazeVars
  BY <1>2
<1>3. UNCHANGED allVars => UNCHANGED searchVars
  BY DEF allVars
<1> QED
  BY <1>1, <1>2, <1>3 DEF AllNext

-----------------------------------------------------------------------------
(* Types, from what the other modules prove of each object.                *)

\* What accounts and the stream hold are events.
LEMMA EventsAreTyped == LedgerInv => LedgerTypeOK
<1> SUFFICES ASSUME LedgerInv PROVE LedgerTypeOK
  OBVIOUS
<1>1. \A e \in Events : IsEvent(e)
  BY DEF Events
<1>2. store \in Seq(Events) /\ strayed \in BOOLEAN
  BY DEF LedgerInv
<1>3. ASSUME NEW a \in Loaded
      PROVE  a.status \in {"Open", "Closed"} /\ a.balance \in Int /\ a.events \in Seq(Events)
  <2>1. a \in AccountStates
    BY <1>3 DEF LedgerInv, Loaded
  <2> QED
    BY <2>1 DEF AccountStates
<1>4. \A s \in Seq(Events) : \A i \in DOMAIN s : IsEvent(s[i])
  BY <1>1
<1> QED
  BY <1>2, <1>3, <1>4 DEF LedgerTypeOK

LEMMA OwnTypes ==
  /\ LaundrySpec => []LaundryTypeOK
  /\ LedgerSpec => []LedgerTypeOK
  /\ LimiterSpec => []LimiterTypeOK
  /\ ReportSpec => []ReportTypeOK
  /\ LotSpec => []LotTypeOK
  /\ CartSpec => []CartTypeOK
  /\ MarketSpec => []MarketTypeOK
  /\ SaleSpec => []SaleTypeOK
  /\ FactorySpec => []FactoryTypeOK
  /\ CardSpec => []CardTypeOK
  /\ ZombieSpec => []ZombieTypeOK
  /\ SnakeSpec => []SnakeTypeOK
  /\ BoardSpec => []BoardTypeOK
  /\ MatchSpec => []MatchTypeOK
  /\ ArenaSpec => []ArenaTypeOK
  /\ MockSpec => []MockTypeOK
  /\ CalcSpec => []CalcTypeOK
  /\ RoverSpec => []RoverTypeOK
  /\ BlogSpec => []BlogTypeOK
  /\ QuerySpec => []QueryTypeOK
  /\ ListSpec => []ListTypeOK
  /\ WeatherSpec => []WeatherTypeOK
  /\ MazeSpec => []MazeTypeOK
  /\ PokerSpec => []PokerTypeOK

<1>1. LaundrySpec => []LaundryTypeOK
  <2>1. LaundryInv => LaundryTypeOK
    BY DEF LaundryInv
  <2> QED
    BY <2>1, LaundryInvariant, PTL
<1>2. LedgerSpec => []LedgerTypeOK
  BY LedgerInvariant, EventsAreTyped, PTL
<1>3. LimiterSpec => []LimiterTypeOK
  BY LimiterTypes, PTL
<1>4. ReportSpec => []ReportTypeOK
  <2>1. ReportInv => ReportTypeOK
    BY DEF ReportInv
  <2> QED
    BY <2>1, ReportInvariant, PTL
<1>5. LotSpec => []LotTypeOK
  <2>1. LotInv => LotTypeOK
    BY DEF LotInv
  <2> QED
    BY <2>1, LotInvariant, PTL
<1>6. CartSpec => []CartTypeOK
  <2>1. CartInv => CartTypeOK
    BY DEF CartInv
  <2> QED
    BY <2>1, CartStarts, CartMoves, PTL DEF CartSpec
<1>7. MarketSpec => []MarketTypeOK
  BY MarketStarts, MarketMoves, PTL DEF MarketSpec
<1>8. SaleSpec => []SaleTypeOK
  <2>1. SaleInv => SaleTypeOK
    BY DEF SaleInv
  <2> QED
    BY <2>1, SaleStarts, SaleMoves, PTL DEF SaleSpec
<1>9. FactorySpec => []FactoryTypeOK
  <2>1. FactoryInv => FactoryTypeOK
    BY DEF FactoryInv
  <2> QED
    BY <2>1, FactoryStarts, FactoryMoves, PTL DEF FactorySpec
<1>10. CardSpec => []CardTypeOK
  <2>1. CardInv => CardTypeOK
    BY DEF CardInv
  <2> QED
    BY <2>1, CardStarts, CardMoves, PTL DEF CardSpec
<1>11. ZombieSpec => []ZombieTypeOK
  <2>1. ZombieInv => ZombieTypeOK
    BY DEF ZombieInv
  <2> QED
    BY <2>1, ZombieInvariant, PTL
<1>12. SnakeSpec => []SnakeTypeOK
  <2>1. SnakeInv => SnakeTypeOK
    BY DEF SnakeInv
  <2> QED
    BY <2>1, SnakeInvariant, PTL
<1>13. BoardSpec => []BoardTypeOK
  <2>1. BoardInv => BoardTypeOK
    BY DEF BoardInv
  <2> QED
    BY <2>1, BoardInvariant, PTL
<1>14. MatchSpec => []MatchTypeOK
  <2>1. MatchInv => MatchTypeOK
    BY DEF MatchInv
  <2> QED
    BY <2>1, MatchInvariant, PTL
<1>15. ArenaSpec => []ArenaTypeOK
  <2>1. ArenaInv => ArenaTypeOK
    BY DEF ArenaInv
  <2> QED
    BY <2>1, ArenaInvariant, PTL
<1>16. MockSpec => []MockTypeOK
  <2>1. MockInv => MockTypeOK
    BY DEF MockInv
  <2> QED
    BY <2>1, MockInvariant, PTL
<1>17. CalcSpec => []CalcTypeOK
  <2>1. CalcInv => CalcTypeOK
    BY DEF CalcInv
  <2> QED
    BY <2>1, CalcInvariant, PTL
<1>18. RoverSpec => []RoverTypeOK
  BY RoverInvariant, RoverHolds, PTL
<1>19. BlogSpec => []BlogTypeOK
  BY ListingsStayAgreed, PTL
<1>20. QuerySpec => []QueryTypeOK
  BY FiltersStayInOrder, PTL
<1>21. ListSpec => []ListTypeOK
  BY ChainStaysSequence, PTL
<1>22. WeatherSpec => []WeatherTypeOK
  <2>1. WeatherInv => WeatherTypeOK
    BY DEF WeatherInv
  <2> QED
    BY <2>1, WeatherStarts, WeatherMoves, PTL DEF WeatherSpec
<1>23. MazeSpec => []MazeTypeOK
  BY PathsStayShortest, PTL
<1>24. PokerSpec => []PokerTypeOK
  BY HandsStayOrdered, PTL
<1> QED
  BY <1>1, <1>2, <1>3, <1>4, <1>5, <1>6, <1>7, <1>8, <1>9, <1>10, <1>11, <1>12, <1>13, <1>14, <1>15, <1>16, <1>17, <1>18, <1>19, <1>20, <1>21, <1>22, <1>23, <1>24

\* Each object among the others is one by itself.
LEMMA OwnSpecs ==
  AllSpec =>
    /\ LaundrySpec
    /\ LedgerSpec
    /\ LimiterSpec
    /\ ReportSpec
    /\ LotSpec
    /\ CartSpec
    /\ MarketSpec
    /\ SaleSpec
    /\ FactorySpec
    /\ CardSpec
    /\ ZombieSpec
    /\ SnakeSpec
    /\ BoardSpec
    /\ MatchSpec
    /\ ArenaSpec
    /\ MockSpec
    /\ CalcSpec
    /\ RoverSpec
    /\ BlogSpec
    /\ QuerySpec
    /\ ListSpec
    /\ WeatherSpec
    /\ MazeSpec
    /\ PokerSpec
<1>1. AllSpec => LaundrySpec
  <2>1. AllInit => LaundryInit
    BY DEF AllInit
  <2>2. [AllNext]_allVars => [LaundryNext]_laundryVars
    BY ServiceSteps
  <2> QED
    BY <2>1, <2>2, PTL DEF AllSpec, LaundrySpec
<1>2. AllSpec => LedgerSpec
  <2>1. AllInit => LedgerInit
    BY DEF AllInit
  <2>2. [AllNext]_allVars => [LedgerNext]_ledgerVars
    BY ServiceSteps
  <2> QED
    BY <2>1, <2>2, PTL DEF AllSpec, LedgerSpec
<1>3. AllSpec => LimiterSpec
  <2>1. AllInit => LimiterInit
    BY DEF AllInit
  <2>2. [AllNext]_allVars => [LimiterNext]_limiterVars
    BY ServiceSteps
  <2> QED
    BY <2>1, <2>2, PTL DEF AllSpec, LimiterSpec
<1>4. AllSpec => ReportSpec
  <2>1. AllInit => ReportInit
    BY DEF AllInit
  <2>2. [AllNext]_allVars => [ReportNext]_reportVars
    BY ServiceSteps
  <2> QED
    BY <2>1, <2>2, PTL DEF AllSpec, ReportSpec
<1>5. AllSpec => LotSpec
  <2>1. AllInit => LotInit
    BY DEF AllInit
  <2>2. [AllNext]_allVars => [LotNext]_lotVars
    BY ChargeSteps
  <2> QED
    BY <2>1, <2>2, PTL DEF AllSpec, LotSpec
<1>6. AllSpec => CartSpec
  <2>1. AllInit => CartInit
    BY DEF AllInit
  <2>2. [AllNext]_allVars => [CartNext]_cartVars
    BY ChargeSteps
  <2> QED
    BY <2>1, <2>2, PTL DEF AllSpec, CartSpec
<1>7. AllSpec => MarketSpec
  <2>1. AllInit => MarketInit
    BY DEF AllInit
  <2>2. [AllNext]_allVars => [MarketNext]_marketVars
    BY ChargeSteps
  <2> QED
    BY <2>1, <2>2, PTL DEF AllSpec, MarketSpec
<1>8. AllSpec => SaleSpec
  <2>1. AllInit => SaleInit
    BY DEF AllInit
  <2>2. [AllNext]_allVars => [SaleNext]_saleVars
    BY ChargeSteps
  <2> QED
    BY <2>1, <2>2, PTL DEF AllSpec, SaleSpec
<1>9. AllSpec => FactorySpec
  <2>1. AllInit => FactoryInit
    BY DEF AllInit
  <2>2. [AllNext]_allVars => [FactoryNext]_factoryVars
    BY ChargeSteps
  <2> QED
    BY <2>1, <2>2, PTL DEF AllSpec, FactorySpec
<1>10. AllSpec => CardSpec
  <2>1. AllInit => CardInit
    BY DEF AllInit
  <2>2. [AllNext]_allVars => [CardNext]_cardVars
    BY ChargeSteps
  <2> QED
    BY <2>1, <2>2, PTL DEF AllSpec, CardSpec
<1>11. AllSpec => ZombieSpec
  <2>1. AllInit => ZombieInit
    BY DEF AllInit
  <2>2. [AllNext]_allVars => [ZombieNext]_zombieVars
    BY GameSteps
  <2> QED
    BY <2>1, <2>2, PTL DEF AllSpec, ZombieSpec
<1>12. AllSpec => SnakeSpec
  <2>1. AllInit => SnakeInit
    BY DEF AllInit
  <2>2. [AllNext]_allVars => [SnakeNext]_snakeVars
    BY GameSteps
  <2> QED
    BY <2>1, <2>2, PTL DEF AllSpec, SnakeSpec
<1>13. AllSpec => BoardSpec
  <2>1. AllInit => BoardInit
    BY DEF AllInit
  <2>2. [AllNext]_allVars => [BoardNext]_board
    BY GameSteps
  <2> QED
    BY <2>1, <2>2, PTL DEF AllSpec, BoardSpec
<1>14. AllSpec => MatchSpec
  <2>1. AllInit => MatchInit
    BY DEF AllInit
  <2>2. [AllNext]_allVars => [MatchNext]_match
    BY GameSteps
  <2> QED
    BY <2>1, <2>2, PTL DEF AllSpec, MatchSpec
<1>15. AllSpec => ArenaSpec
  <2>1. AllInit => ArenaInit
    BY DEF AllInit
  <2>2. [AllNext]_allVars => [ArenaNext]_arenaVars
    BY GameSteps
  <2> QED
    BY <2>1, <2>2, PTL DEF AllSpec, ArenaSpec
<1>16. AllSpec => MockSpec
  <2>1. AllInit => MockInit
    BY DEF AllInit
  <2>2. [AllNext]_allVars => [MockNext]_mockVars
    BY DeviceSteps
  <2> QED
    BY <2>1, <2>2, PTL DEF AllSpec, MockSpec
<1>17. AllSpec => CalcSpec
  <2>1. AllInit => CalcInit
    BY DEF AllInit
  <2>2. [AllNext]_allVars => [CalcNext]_calc
    BY DeviceSteps
  <2> QED
    BY <2>1, <2>2, PTL DEF AllSpec, CalcSpec
<1>18. AllSpec => RoverSpec
  <2>1. AllInit => RoverInit
    BY DEF AllInit
  <2>2. [AllNext]_allVars => [RoverNext]_roverVars
    BY DeviceSteps
  <2> QED
    BY <2>1, <2>2, PTL DEF AllSpec, RoverSpec
<1>19. AllSpec => BlogSpec
  <2>1. AllInit => BlogInit
    BY DEF AllInit
  <2>2. [AllNext]_allVars => [BlogNext]_blog
    BY ViewSteps
  <2> QED
    BY <2>1, <2>2, PTL DEF AllSpec, BlogSpec
<1>20. AllSpec => QuerySpec
  <2>1. AllInit => QueryInit
    BY DEF AllInit
  <2>2. [AllNext]_allVars => [QueryNext]_queryVars
    BY ViewSteps
  <2> QED
    BY <2>1, <2>2, PTL DEF AllSpec, QuerySpec
<1>21. AllSpec => ListSpec
  <2>1. AllInit => ListInit
    BY DEF AllInit
  <2>2. [AllNext]_allVars => [ListNext]_listVars
    BY ViewSteps
  <2> QED
    BY <2>1, <2>2, PTL DEF AllSpec, ListSpec
<1>22. AllSpec => WeatherSpec
  <2>1. AllInit => WeatherInit
    BY DEF AllInit
  <2>2. [AllNext]_allVars => [WeatherNext]_weatherVars
    BY ViewSteps
  <2> QED
    BY <2>1, <2>2, PTL DEF AllSpec, WeatherSpec
<1>23. AllSpec => MazeSpec
  <2>1. AllInit => MazeInit
    BY DEF AllInit
  <2>2. [AllNext]_allVars => [MazeNext]_mazeVars
    BY SearchSteps
  <2> QED
    BY <2>1, <2>2, PTL DEF AllSpec, MazeSpec
<1>24. AllSpec => PokerSpec
  <2>1. AllInit => PokerInit
    BY DEF AllInit
  <2>2. [AllNext]_allVars => [Deal]_hand
    BY SearchSteps
  <2> QED
    BY <2>1, <2>2, PTL DEF AllSpec, PokerSpec
<1> QED
  BY <1>1, <1>2, <1>3, <1>4, <1>5, <1>6, <1>7, <1>8, <1>9, <1>10, <1>11, <1>12, <1>13, <1>14, <1>15, <1>16, <1>17, <1>18, <1>19, <1>20, <1>21, <1>22, <1>23, <1>24

-----------------------------------------------------------------------------
\* Whatever object is driven, and however, the others do not lose their types
\* and it keeps its own (the classes the 24 modules name).
THEOREM TypesStayOK == AllSpec => []AllTypesOK
<1>1. /\ LaundryTypeOK
      /\ LedgerTypeOK
      /\ LimiterTypeOK
      /\ ReportTypeOK
      /\ LotTypeOK
      /\ CartTypeOK
      /\ MarketTypeOK
      /\ SaleTypeOK
      /\ FactoryTypeOK
      /\ CardTypeOK
      /\ ZombieTypeOK
      /\ SnakeTypeOK
      /\ BoardTypeOK
      /\ MatchTypeOK
      /\ ArenaTypeOK
      /\ MockTypeOK
      /\ CalcTypeOK
      /\ RoverTypeOK
      /\ BlogTypeOK
      /\ QueryTypeOK
      /\ ListTypeOK
      /\ WeatherTypeOK
      /\ MazeTypeOK
      /\ PokerTypeOK
      => AllTypesOK
  BY DEF AllTypesOK
<1> QED
  BY <1>1, OwnTypes, OwnSpecs, PTL
=============================================================================
