------------------------------ MODULE BakeSale ------------------------------
(***************************************************************************)
(* The till of a bake sale: the total of an order, which takes its goods   *)
(* from the stock, and the change for a payment, asked for afterwards. The *)
(* callers keep the totals: what is owed, what was paid.                   *)
(***************************************************************************)
EXTENDS Integers, SequencesExt

CONSTANTS Inventory,    \* sequence of [code, price, stock]
          Codes, MaxOrder, Payments    \* what is asked for; bound; what is paid
VARIABLES stock, till

ASSUME SaleAssumption ==
    /\ MaxOrder \in Nat /\ Payments \subseteq Int
    /\ Inventory \in Seq([code : Codes, price : Int, stock : Nat])

SaleProducts == DOMAIN Inventory
Price(product) == Inventory[product].price
WithCode(code) == {p \in SaleProducts : Inventory[p].code = code}

\* The products of an order: of several with one code, the first.
ResolveProducts(order) == [i \in DOMAIN order |-> Min(WithCode(order[i]))]
AllKnown(order) == \A i \in DOMAIN order : WithCode(order[i]) # {}

Count(products, p) == Cardinality({i \in DOMAIN products : products[i] = p})
ValidateStock(products) == \A p \in SaleProducts : Count(products, p) <= stock[p]
SumOf(products) == MapThenSumSet(LAMBDA i : Price(products[i]), DOMAIN products)

-----------------------------------------------------------------------------
SaleInit ==
    /\ stock = [p \in SaleProducts |-> Inventory[p].stock]
    /\ till = [owed |-> 0, paid |-> 0]

\* An order with a code nobody sells, or short of stock, changes nothing.
CalculateTotal(order) ==
    /\ AllKnown(order)
    /\ LET products == ResolveProducts(order) IN
          /\ ValidateStock(products)
          /\ stock' = [p \in SaleProducts |-> stock[p] - Count(products, p)]
          /\ till' = [till EXCEPT !.owed = @ + SumOf(products)]

\* The caller asks for change on all that is owed; a payment that is too small
\* is refused, and the goods are gone already.
CalculateChange(payment) ==
    /\ till.owed > 0 /\ payment >= till.owed
    /\ LET change == payment - till.owed
       IN  till' = [owed |-> 0, paid |-> till.paid + payment - change]
    /\ UNCHANGED stock

SaleNext ==
    \/ \E order \in SeqOf(Codes, MaxOrder) \ {<<>>} : CalculateTotal(order)
    \/ \E payment \in Payments : CalculateChange(payment)

saleVars == <<stock, till>>
SaleSpec == SaleInit /\ [][SaleNext]_saleVars

-----------------------------------------------------------------------------
SaleTypeOK == stock \in [SaleProducts -> Nat] /\ till \in [owed : Int, paid : Int]

Worth(goods) == MapThenSumSet(LAMBDA p : Price(p) * goods[p], SaleProducts)

\* Everything that left the stock is paid for or owed, at its price; no product
\* is sold beyond what there was of it, nor one whose code belongs to another
\* (bake_sale.py:31-67, product.py:33-34).
GoodsAreCharged ==
    /\ till.paid + till.owed = Worth([p \in SaleProducts |-> Inventory[p].stock - stock[p]])
    /\ \A p \in SaleProducts : stock[p] >= 0
    /\ \A p, q \in SaleProducts : p < q /\ Inventory[p].code = Inventory[q].code => stock[q] = Inventory[q].stock
=============================================================================
