---------------------------- MODULE RobotFactory ----------------------------
(***************************************************************************)
(* An order configured part by part, costed at the cheapest quotes and     *)
(* bought from the suppliers of those names. A supplier is a name and a    *)
(* catalogue of prices by option; one without an entry gives no quote and  *)
(* fails to sell, and one that quoted may still refuse. `types` are the    *)
(* parts in the order they were first configured, `bought` is what the     *)
(* last purchase left behind, and `refused` tells whether it was ended by  *)
(* a supplier who went back on his quote.                                  *)
(***************************************************************************)
EXTENDS Integers, SequencesExt, Functions

CONSTANTS PartTypes, Options,    \* Options[t]: the options of a part type
          Markets                \* sequences of [name, prices: option -> price]
VARIABLES factory, bought, refused

ASSUME FactoryAssumption ==
    /\ IsFiniteSet(PartTypes)
    /\ \A m \in Markets : DOMAIN m = 1..Len(m) /\ Len(m) \in Nat
    /\ \A m \in Markets : \A i \in DOMAIN m : \A o \in DOMAIN m[i].prices : m[i].prices[o] \in Int

Suppliers == DOMAIN factory.market
Sells(s, option) == option \in DOMAIN factory.market[s].prices
QuotePrice(s, option) == factory.market[s].prices[option]

Validates == DOMAIN factory.order = PartTypes

Quotes(option) == {s \in Suppliers : Sells(s, option)}

\* min(quotes): of the cheapest suppliers, the first.
Cheapest(option) ==
    Min({s \in Quotes(option) : \A r \in Quotes(option) : QuotePrice(s, option) <= QuotePrice(r, option)})

CanCost == Validates /\ \A t \in PartTypes : Quotes(factory.order[t]) # {}

\* What the parts cost at the suppliers given for them.
CostAt(spread) == MapThenSumSet(LAMBDA t : QuotePrice(spread[t], factory.order[t]), PartTypes)
CostRobot == CostAt([t \in PartTypes |-> Cheapest(factory.order[t])])

\* The supplier a quote is taken to: the first of that name.
SupplierOf(option) ==
    Min({s \in Suppliers : factory.market[s].name = factory.market[Cheapest(option)].name})

\* The parts of a purchase come one after the other; the first that is not in
\* its supplier's catalogue ends it, and those before it are to be bought.
Purchasable ==
    LET option(i) == factory.order[factory.types[i]]
        Fails == {i \in DOMAIN factory.types : ~Sells(SupplierOf(option(i)), option(i))}
        last == IF Fails = {} THEN Len(factory.types) ELSE Min(Fails) - 1
    IN  [i \in 1..last |-> [type |-> factory.types[i],
                            price |-> QuotePrice(SupplierOf(option(i)), option(i))]]

-----------------------------------------------------------------------------
FactoryInit ==
    /\ \E m \in Markets : factory = [market |-> m, order |-> <<>>, types |-> <<>>]
    /\ bought = <<>> /\ refused = FALSE

Configure(t, option) ==
    /\ factory' = [factory EXCEPT
          !.order = [part \in DOMAIN @ \cup {t} |-> IF part = t THEN option ELSE @[part]],
          !.types = IF Contains(@, t) THEN @ ELSE Append(@, t)]
    /\ bought' = <<>> /\ refused' = FALSE

\* Every supplier sells, or one refuses and those before him have sold.
PurchaseRobot ==
    /\ CanCost
    /\ \/ bought' = Purchasable /\ refused' = FALSE
       \/ \E n \in DOMAIN Purchasable : bought' = SubSeq(Purchasable, 1, n - 1) /\ refused' = TRUE
    /\ UNCHANGED factory

FactoryNext ==
    \/ \E t \in PartTypes : \E option \in Options[t] : Configure(t, option)
    \/ PurchaseRobot

factoryVars == <<factory, bought, refused>>
FactorySpec == FactoryInit /\ [][FactoryNext]_factoryVars

-----------------------------------------------------------------------------
FactoryTypeOK ==
    /\ factory.market \in Markets
    /\ DOMAIN factory.order = ToSet(factory.types) /\ IsInjective(factory.types)
    /\ factory.types \in Seq(PartTypes)
    /\ \A t \in DOMAIN factory.order : factory.order[t] \in Options[t]
    /\ bought \in Seq([type : PartTypes, price : Int]) /\ refused \in BOOLEAN

SumOfPrices(parts) == MapThenSumSet(LAMBDA i : parts[i].price, DOMAIN parts)

NamesAreDistinct == IsInjective([s \in Suppliers |-> factory.market[s].name])

\* What was bought are the first parts of the order, each at no less than it was
\* costed at, and no way of spreading the parts over the suppliers is cheaper
\* than that. From suppliers of different names each part costs what it was
\* costed at, and a purchase that no supplier ended by going back on his quote
\* is whole; suppliers who share a name may end it too, or charge more
\* (factory.py:17-49).
BoughtAsCosted ==
    LET Option(i) == factory.order[factory.types[i]]
        CostedAt(i) == QuotePrice(Cheapest(Option(i)), Option(i))
    IN  bought # <<>> =>
            /\ Len(bought) <= Len(factory.types)
            /\ \A i \in DOMAIN bought :
                  /\ bought[i].type = factory.types[i]
                  /\ bought[i].price >= CostedAt(i)
                  /\ NamesAreDistinct => bought[i].price = CostedAt(i)
            /\ \A spread \in [PartTypes -> Suppliers] :
                  (\A t \in PartTypes : Sells(spread[t], factory.order[t])) =>
                      CostRobot <= CostAt(spread)
            /\ NamesAreDistinct /\ ~refused =>
                  /\ {bought[i].type : i \in DOMAIN bought} = PartTypes
                  /\ Len(bought) = Cardinality(PartTypes)
                  /\ CostRobot = SumOfPrices(bought)
=============================================================================
