------------------------------- MODULE Charges ------------------------------
(***************************************************************************)
(* What keeps the till in the katas, side by side: a parking lot, a cart,  *)
(* a supermarket checkout, a bake sale, a robot factory and a transit      *)
(* card. They share nothing, and each moves or waits in every step.        *)
(***************************************************************************)
EXTENDS ParkingLot, ShoppingCart, Checkout, BakeSale, RobotFactory, ClamCard

ChargesSpec == LotSpec /\ CartSpec /\ MarketSpec /\ SaleSpec /\ FactorySpec /\ CardSpec

\* What is charged is what was taken, with the discounts and caps it earned, and
\* no unit or hour more than once unless a deal pairs a SKU with itself: hours
\* parked (lot.py:83-87), carts (cart.py:26-51), checkouts (checkout.py:27-53),
\* bake sales (bake_sale.py:31-67), robots (factory.py:17-49) and rides
\* (card.py:50-86).
ChargedRightly ==
    FewestHours /\ ChargedAsAsked /\ SoldOnce /\ GoodsAreCharged /\ BoughtAsCosted /\ CapsHold
=============================================================================
