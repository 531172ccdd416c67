------------------------------ MODULE Checkout ------------------------------
(***************************************************************************)
(* A supermarket checkout: units and weights scanned by SKU, combination   *)
(* deals taken greedily in their order, and the pricing rule of each       *)
(* product for what is left. Money is cents, weight is tenths of a kilo.   *)
(***************************************************************************)
EXTENDS Integers, SequencesExt

CONSTANTS MarketProducts,               \* [sku, rule]
          DealLists,              \* sequences of [a, b, price]
          Weights, MaxUnits, MaxWeight    \* inputs and bounds
VARIABLE checkout

MarketSkus == {p.sku : p \in MarketProducts}

\* What the constructors accept; a deal on what is never sold is never made.
IsRule(rule) ==
    /\ rule.price \in Int
    /\ \/ rule.kind \in {"unit", "bogof"}
       \/ rule.kind = "multi" /\ rule.size \in Nat \ {0} /\ rule.group \in Int
       \/ rule.kind = "weight" /\ rule.price \in Nat

ASSUME CheckoutAssumption ==
    /\ Weights \subseteq Nat /\ MaxUnits \in Nat /\ MaxWeight \in Nat
    /\ IsFiniteSet(MarketProducts) /\ \A p \in MarketProducts : IsRule(p.rule)
    /\ DealLists \subseteq Seq([a : MarketSkus, b : MarketSkus, price : Int])

UnitPrice(rule, n) == rule.price * n
MultiBuy(rule, n) == rule.group * (n \div rule.size) + rule.price * (n % rule.size)
BuyOneGetOneFree(rule, n) == rule.price * ((n + 1) \div 2)
WeightedPrice(rule, w) == (w * rule.price + 5) \div 10             \* half a cent rounds up

Calculate(rule, n, w) ==
    CASE rule.kind = "unit"  -> UnitPrice(rule, n)
      [] rule.kind = "multi" -> MultiBuy(rule, n)
      [] rule.kind = "bogof" -> BuyOneGetOneFree(rule, n)
      [] rule.kind = "weight" -> WeightedPrice(rule, w)

\* Variant: what earlier deals took is there to take again.
RemainingAll(taken, sku) == checkout.quantity[sku]

Remaining(taken, sku) == checkout.quantity[sku] - taken.consumed[sku]

\* One deal taken as often as what is left of both its SKUs allows.
TakeDeal(deal, taken) ==
    LET pairs == Min({Remaining(taken, deal.a), Remaining(taken, deal.b)})
        once == [taken.consumed EXCEPT ![deal.a] = @ + pairs]
    IN  IF pairs <= 0 THEN taken
        ELSE [consumed |-> [once EXCEPT ![deal.b] = @ + pairs],
              charged |-> taken.charged + deal.price * pairs]

Taken == FoldLeft(LAMBDA taken, deal : TakeDeal(deal, taken),
                  [consumed |-> [sku \in MarketSkus |-> 0], charged |-> 0], checkout.deals)

Left(sku) == checkout.quantity[sku] - Taken.consumed[sku]

Registered == {sku \in MarketSkus : checkout.product[sku] # {}}
RuleOf(sku) == (CHOOSE p \in checkout.product[sku] : TRUE).rule

Sold == {sku \in Registered : Left(sku) > 0 \/ checkout.weight[sku] > 0}

MarketTotal ==
    Taken.charged
        + MapThenSumSet(LAMBDA sku : Calculate(RuleOf(sku), Left(sku), checkout.weight[sku]), Sold)

-----------------------------------------------------------------------------
MarketInit ==
    \E deals \in DealLists :
        checkout = [deals |-> deals, product |-> [sku \in MarketSkus |-> {}],
                    quantity |-> [sku \in MarketSkus |-> 0], weight |-> [sku \in MarketSkus |-> 0]]

\* The product first scanned under a SKU is the one that prices it.
EnsureRegistered(product) == IF checkout.product[product.sku] = {} THEN {product} ELSE checkout.product[product.sku]

Scan(product) ==
    /\ checkout.quantity[product.sku] < MaxUnits                \* bound
    /\ checkout' = [checkout EXCEPT !.product[product.sku] = EnsureRegistered(product),
                                    !.quantity[product.sku] = @ + 1]

ScanWeighted(product, w) ==
    /\ checkout.weight[product.sku] + w <= MaxWeight            \* bound
    /\ checkout' = [checkout EXCEPT !.product[product.sku] = EnsureRegistered(product),
                                    !.weight[product.sku] = @ + w]

MarketNext == \E p \in MarketProducts : Scan(p) \/ \E w \in Weights : ScanWeighted(p, w)

marketVars == checkout
MarketSpec == MarketInit /\ [][MarketNext]_marketVars

-----------------------------------------------------------------------------
MarketTypeOK ==
    checkout \in [deals : DealLists,
                  product : [MarketSkus -> {{}} \cup {{p} : p \in MarketProducts}],
                  quantity : [MarketSkus -> 0..MaxUnits], weight : [MarketSkus -> 0..MaxWeight]]

NotNegative(rule) == rule.price >= 0 /\ (rule.kind = "multi" => rule.group >= 0)

\* No deal that could still be made is left. No unit is in two deals, except that
\* a deal of a SKU with itself takes each unit that is left for two: a SKU is
\* overdrawn by such a deal only, and never by more than was scanned of it. The
\* rest never lowers the charge, unless a price is below zero or an overdrawn
\* SKU is priced because weight was scanned of it too.
DealsAreMade ==
    LET deals == checkout.deals
        PairsWithItself(sku) == \E i \in DOMAIN deals : deals[i].a = sku /\ deals[i].b = sku
    IN  /\ \A sku \in MarketSkus :
              /\ Left(sku) >= 0 - checkout.quantity[sku]
              /\ Left(sku) < 0 => PairsWithItself(sku)
        /\ \A i \in DOMAIN deals : Left(deals[i].a) <= 0 \/ Left(deals[i].b) <= 0
        /\ (\A sku \in Sold : NotNegative(RuleOf(sku)) /\ Left(sku) >= 0) => MarketTotal >= Taken.charged

\* A free unit follows a paid one, a weight costs its nearest whole cent, and a
\* group that costs no more than its units saves on any number of them.
RulesAreKept ==
    \A sku \in Registered :
        LET rule == RuleOf(sku)    n == Max({0, Left(sku)})    w == checkout.weight[sku]
            paid == Calculate(rule, n, w)
        IN  /\ rule.kind = "bogof" => paid = rule.price * Cardinality({i \in 1..n : i % 2 = 1})
            /\ rule.kind = "weight" => 10 * paid - w * rule.price \in -4..5
            /\ rule.kind = "multi" /\ rule.group <= rule.size * rule.price => paid <= rule.price * n

\* The units scanned of a SKU are sold in deals, once unless a deal pairs the SKU
\* with itself, and what is left by the rule of the product first scanned under
\* it: a rule of weights charges its units nothing, and a rule of units its
\* weight (checkout.py:27-53, pricing_rule.py:20-66).
SoldOnce == DealsAreMade /\ RulesAreKept
=============================================================================
