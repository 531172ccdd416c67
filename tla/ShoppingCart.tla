---------------------------- MODULE ShoppingCart ----------------------------
(***************************************************************************)
(* A cart of lines, one product and quantity each, and what the discount   *)
(* policies charge for them. Money is whole cents: the prices given keep   *)
(* percentages whole. `wanted` is what the callers have asked for by SKU.  *)
(***************************************************************************)
EXTENDS Integers, SequencesExt

CONSTANTS CartProducts,      \* [sku, price, policy]
          MaxQuantity    \* bound: units of one SKU
VARIABLES cart, wanted

\* What the constructors accept.
IsQuantity(n) == n > 0
IsPolicy(policy) ==
    \/ policy.kind = "none"
    \/ policy.kind = "percent" /\ policy.percent \in 0..100
    \/ policy.kind = "fixed" /\ policy.amount \in Nat
    \/ policy.kind = "free" /\ policy.buy \in Nat \ {0} /\ policy.free \in Nat \ {0}
    \/ policy.kind = "bulk" /\ policy.threshold \in Nat \ {0} /\ policy.price \in Nat

ASSUME CartAssumption ==
    MaxQuantity \in Nat /\ \A p \in CartProducts : p.price \in Int /\ IsPolicy(p.policy)

CartSkus == {p.sku : p \in CartProducts}

PercentOff(price, n, percent) == (price * n * (100 - percent)) \div 100
FixedOff(price, n, amount) == Max({0, price * n - amount})

BuyXGetY(price, n, buy, free) ==
    price * (buy * (n \div (buy + free)) + Min({n % (buy + free), buy}))
BulkPricing(price, n, threshold, bulk) == n * (IF n >= threshold THEN bulk ELSE price)

Subtotal(line) ==
    LET price == line.product.price    policy == line.product.policy    n == line.quantity
    IN  CASE policy.kind = "none"  -> price * n
          [] policy.kind = "percent" -> PercentOff(price, n, policy.percent)
          [] policy.kind = "fixed" -> FixedOff(price, n, policy.amount)
          [] policy.kind = "free"  -> BuyXGetY(price, n, policy.buy, policy.free)
          [] policy.kind = "bulk"  -> BulkPricing(price, n, policy.threshold, policy.price)

CartTotal == MapThenSumSet(LAMBDA i : Subtotal(cart[i]), DOMAIN cart)

FindLine(sku) == {i \in DOMAIN cart : cart[i].product.sku = sku}

-----------------------------------------------------------------------------
CartInit == cart = <<>> /\ wanted = [sku \in CartSkus |-> 0]

\* The product of the line that is there stays, whatever the new one costs.
Add(product, n) ==
    /\ wanted[product.sku] + n <= MaxQuantity                   \* bound
    /\ wanted' = [wanted EXCEPT ![product.sku] = @ + n]
    /\ LET found == FindLine(product.sku) IN
       \/ /\ found = {}
          /\ cart' = Append(cart, [product |-> product, quantity |-> n])
       \/ /\ found # {}
          /\ cart' = [cart EXCEPT ![Min(found)].quantity = @ + n]

RemoveLine(sku) ==
    /\ FindLine(sku) # {}
    /\ cart' = RemoveAt(cart, Min(FindLine(sku)))
    /\ wanted' = [wanted EXCEPT ![sku] = 0]

UpdateQuantity(sku, n) ==
    /\ FindLine(sku) # {} /\ IsQuantity(n)
    /\ cart' = [cart EXCEPT ![Min(FindLine(sku))].quantity = n]
    /\ wanted' = [wanted EXCEPT ![sku] = n]

CartNext ==
    \/ \E p \in CartProducts, n \in 1..2 : Add(p, n)
    \/ \E sku \in CartSkus : RemoveLine(sku)
    \/ \E sku \in CartSkus, n \in 0..MaxQuantity : UpdateQuantity(sku, n)

cartVars == <<cart, wanted>>
CartSpec == CartInit /\ [][CartNext]_cartVars

-----------------------------------------------------------------------------
CartTypeOK ==
    /\ cart \in Seq([product : CartProducts, quantity : 1..MaxQuantity])
    /\ wanted \in [CartSkus -> 0..MaxQuantity]

\* What a line costs when its units are taken one by one: the free ones follow
\* the paid ones in every group.
UnitsCost(line) ==
    LET policy == line.product.policy
        Paid == {i \in 1..line.quantity : (i - 1) % (policy.buy + policy.free) < policy.buy}
    IN  IF policy.kind = "free" THEN line.product.price * Cardinality(Paid)
        ELSE Subtotal(line)

UnitsTotal == MapThenSumSet(LAMBDA i : UnitsCost(cart[i]), DOMAIN cart)

HoldsAsAsked ==
    \A sku \in CartSkus :
        IF wanted[sku] = 0 THEN FindLine(sku) = {}
        ELSE \E i \in DOMAIN cart : FindLine(sku) = {i} /\ cart[i].quantity = wanted[sku]

\* A price in bulk may be above the price of one.
HighestPrice(product) ==
    IF product.policy.kind = "bulk" THEN Max({product.price, product.policy.price}) ELSE product.price

\* However it came about, the cart holds each SKU asked for once, in the number
\* asked for; no line is charged above the price of its units, and a free unit
\* is one that follows enough paid ones (cart.py:26-51, discount_policy.py:37-86).
ChargedAsAsked ==
    /\ HoldsAsAsked
    /\ \A i \in DOMAIN cart : LET product == cart[i].product IN
          product.price >= 0 => Subtotal(cart[i]) \in 0..(HighestPrice(product) * cart[i].quantity)
    /\ CartTotal = UnitsTotal
=============================================================================
