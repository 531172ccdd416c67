---------------------------- MODULE ChargeProofs ----------------------------
(***************************************************************************)
(* Proofs about what keeps the till, for any products, prices, policies,   *)
(* deals, stations and suppliers, and from them what it charges together.  *)
(***************************************************************************)
EXTENDS Charges, SequenceLemmas

-----------------------------------------------------------------------------
(* ParkingLot: every spot accounted for, every stay billed exactly.        *)

\* Those inside are finitely many, however many plates there are, and no ticket
\* is from the future.
LotInv ==
    /\ LotTypeOK /\ SpotsConserved /\ FewestHours
    /\ IsFiniteSet(Inside)
    /\ \A ticket \in issued : ticket.entry <= clock

\* The vehicles under a spot of one type.
Under(s) == {p \in Inside : active[p].spot = s}

\* Every spot a vehicle may prefer is one it fits into.
LEMMA Preferences ==
  ASSUME NEW type \in VehicleTypes
  PROVE  /\ DOMAIN Preference(type) \subseteq {1, 2, 3}
         /\ \A i \in DOMAIN Preference(type) :
              /\ Preference(type)[i] \in SpotTypes
              /\ Needs(type) <= Size(Preference(type)[i])
<1>1. CASE type = "motorcycle"
  BY <1>1 DEF Preference, Needs, Size, SpotTypes
<1>2. CASE type = "car"
  BY <1>2 DEF Preference, Needs, Size, SpotTypes
<1>3. CASE type = "bus"
  BY <1>3 DEF Preference, Needs, Size, SpotTypes
<1> QED
  BY <1>1, <1>2, <1>3 DEF VehicleTypes

\* The first place with an open spot is one of them.
LEMMA FirstOpen ==
  ASSUME NEW type \in VehicleTypes, Open(type) # {}
  PROVE  Min(Open(type)) \in Open(type)
  BY Preferences, MinOf DEF Open

LEMMA TicketsAreNotOutside == \A ticket \in Ticket : ticket # Outside /\ ticket.spot \in SpotTypes
  BY DEF Ticket, Outside, SpotTypes

\* What a division keeps and leaves.
LEMMA Divided ==
  ASSUME NEW a \in Nat, NEW b \in Nat \ {0}
  PROVE  /\ a \div b \in Nat
         /\ (a \div b) * b <= a
         /\ a < ((a \div b) + 1) * b
  BY Z3

\* The hours billed cover the stay, and no fewer do.
LEMMA HoursCover ==
  ASSUME NEW e \in Nat
  PROVE  /\ Hours(e) \in Nat /\ Hours(e) >= 1 /\ Hours(e) * Hour >= e
         /\ \A h \in 1..(Hours(e) - 1) : h * Hour < e
<1>0. Hour \in Nat \ {0}
  BY LotAssumption
<1>1. CASE e = 0
  BY <1>0, <1>1 DEF Hours
<1>2. CASE e # 0
  <2> DEFINE q == (e + Hour - 1) \div Hour
  <2>1. e + Hour - 1 \in Nat
    BY <1>0
  <2>2. q \in Nat /\ q * Hour <= e + Hour - 1 /\ e + Hour - 1 < (q + 1) * Hour
    BY <1>0, <2>1, Divided
  <2>3. Hours(e) = q
    BY <1>2 DEF Hours
  <2> HIDE DEF q
  <2>4. (q + 1) * Hour = q * Hour + Hour /\ q * Hour \in Nat
    BY <1>0, <2>2
  <2>5. q * Hour >= e
    BY <1>0, <2>2, <2>4
  <2>6. q >= 1
    BY <1>0, <1>2, <2>2, <2>5
  <2>7. ASSUME NEW h \in 1..(q - 1) PROVE h * Hour < e
    <3>1. h * Hour <= (q - 1) * Hour
      BY <1>0, <2>2
    <3>2. (q - 1) * Hour = q * Hour - Hour
      BY <1>0, <2>2
    <3>3. h * Hour \in Int /\ (q - 1) * Hour \in Int
      BY <1>0, <2>2
    <3> QED
      BY <1>0, <2>2, <2>4, <3>1, <3>2, <3>3
  <2> QED
    BY <2>2, <2>3, <2>5, <2>6, <2>7
<1> QED
  BY <1>1, <1>2

LEMMA LotStart == LotInit => LotInv
<1> SUFFICES ASSUME LotInit PROVE LotInv
  OBVIOUS
<1>1. Inside = {}
  BY DEF LotInit, Inside
<1>2. available = Capacity /\ Capacity \in [SpotTypes -> Nat]
  BY LotAssumption DEF LotInit, Capacity, SpotTypes
<1>3. LotTypeOK
  BY <1>2, LotAssumption DEF LotInit, LotTypeOK
<1>4. SpotsConserved
  <2>1. \A s \in SpotTypes : {p \in Inside : active[p].spot = s} = {}
    BY <1>1
  <2> QED
    BY <1>1, <1>2, <2>1, FS_EmptySet DEF SpotsConserved
<1>5. FewestHours
  BY LotAssumption DEF LotInit, FewestHours
<1> QED
  BY <1>1, <1>3, <1>4, <1>5, FS_EmptySet DEF LotInv, LotInit

LEMMA ParkKeeps ==
  ASSUME LotInv, NEW vehicle \in Vehicle, ParkEntry(vehicle)
  PROVE  LotInv'
<1> DEFINE plate == vehicle.plate
           spot == Preference(vehicle.type)[Min(Open(vehicle.type))]
           ticket == [vehicle |-> vehicle, spot |-> spot, entry |-> clock]
<1>1. /\ plate \in Plates /\ vehicle.type \in VehicleTypes
      /\ LotTypeOK /\ SpotsConserved /\ IsFiniteSet(Inside)
  BY DEF LotInv, Vehicle
<1>2. spot \in SpotTypes /\ available[spot] > 0 /\ Needs(vehicle.type) <= Size(spot)
  <2>1. Min(Open(vehicle.type)) \in Open(vehicle.type)
    BY <1>1, FirstOpen DEF ParkEntry
  <2> QED
    BY <1>1, <2>1, Preferences DEF Open
<1>3. ticket \in Ticket
  BY <1>1, <1>2 DEF Ticket, LotTypeOK
<1>4. /\ active[plate] = Outside
      /\ available' = [available EXCEPT ![spot] = @ - 1]
      /\ active' = [active EXCEPT ![plate] = ticket]
      /\ issued' = issued \cup {ticket}
      /\ clock' = clock /\ billed' = billed
  BY DEF ParkEntry
<1>5. ticket.spot = spot /\ ticket.vehicle = vehicle /\ ticket.entry = clock
  OBVIOUS
<1> HIDE DEF plate, spot, ticket
<1>6. LotTypeOK'
  <2>1. available[spot] - 1 \in Nat
    BY <1>1, <1>2 DEF LotTypeOK
  <2> QED
    BY <1>1, <1>3, <1>4, <2>1 DEF LotTypeOK
<1>7. Inside' = Inside \cup {plate} /\ plate \notin Inside
  BY <1>1, <1>3, <1>4, TicketsAreNotOutside DEF Inside, LotTypeOK
<1>8. \A p \in Inside : active'[p] = active[p]
  BY <1>4, <1>7 DEF Inside, LotTypeOK
<1>9. active'[plate] = ticket
  BY <1>1, <1>4 DEF LotTypeOK
<1>10. IsFiniteSet(Inside')
  BY <1>1, <1>7, FS_AddElement
<1>11. ASSUME NEW s \in SpotTypes
       PROVE  available'[s] + Cardinality(Under(s)') = Capacity[s]
  <2>1. available[s] + Cardinality(Under(s)) = Capacity[s] /\ available[s] \in Nat
    BY <1>1 DEF SpotsConserved, Under, LotTypeOK
  <2>2. IsFiniteSet(Under(s)) /\ plate \notin Under(s) /\ Cardinality(Under(s)) \in Nat
    BY <1>1, <1>7, FS_Subset, FS_CardinalityType DEF Under
  <2>3. CASE s = spot
    <3>1. Under(s)' = Under(s) \cup {plate}
      BY <1>5, <1>7, <1>8, <1>9, <2>3 DEF Under
    <3>2. Cardinality(Under(s)') = Cardinality(Under(s)) + 1
      BY <2>2, <3>1, FS_AddElement
    <3>3. available'[s] = available[s] - 1
      BY <1>1, <1>4, <2>3 DEF LotTypeOK
    <3> QED
      BY <2>1, <2>2, <3>2, <3>3
  <2>4. CASE s # spot
    <3>1. Under(s)' = Under(s)
      BY <1>5, <1>7, <1>8, <1>9, <2>4 DEF Under
    <3>2. available'[s] = available[s]
      BY <1>1, <1>4, <2>4 DEF LotTypeOK
    <3> QED
      BY <2>1, <3>1, <3>2
  <2> QED
    BY <2>3, <2>4
<1>12. \A p \in Inside' : Needs(active'[p].vehicle.type) <= Size(active'[p].spot)
  BY <1>1, <1>2, <1>5, <1>7, <1>8, <1>9 DEF SpotsConserved
<1>13. SpotsConserved'
  BY <1>11, <1>12 DEF SpotsConserved, Under, Capacity
<1>14. FewestHours' /\ \A t \in issued' : t.entry <= clock'
  BY <1>1, <1>4, <1>5 DEF LotInv, LotTypeOK, FewestHours
<1> QED
  BY <1>6, <1>10, <1>13, <1>14 DEF LotInv

LEMMA ExitKeeps ==
  ASSUME LotInv, NEW ticket \in issued, ProcessExit(ticket)
  PROVE  LotInv'
<1> DEFINE plate == ticket.vehicle.plate
           spot == ticket.spot
           stay == clock - ticket.entry
<1>1. LotTypeOK /\ SpotsConserved /\ IsFiniteSet(Inside)
  BY DEF LotInv
<1>2. ticket \in Ticket /\ plate \in Plates /\ spot \in SpotTypes
  BY <1>1 DEF LotTypeOK, Ticket, Vehicle
<1>3. stay \in Nat /\ stay \in 0..MaxClock
  BY <1>1, <1>2, LotAssumption DEF LotInv, LotTypeOK, Ticket
<1>4. /\ active[plate] = ticket
      /\ active' = [active EXCEPT ![plate] = Outside]
      /\ available' = [available EXCEPT ![spot] = @ + 1]
      /\ billed' = [elapsed |-> stay, hours |-> Hours(stay)]
      /\ issued' = issued /\ clock' = clock
  BY DEF ProcessExit, FreedSpot
<1> HIDE DEF plate, stay
<1>5. LotTypeOK'
  <2>1. available[spot] + 1 \in Nat
    BY <1>1, <1>2 DEF LotTypeOK
  <2>2. billed' \in [elapsed : 0..MaxClock, hours : Nat]
    BY <1>3, <1>4, HoursCover
  <2> QED
    BY <1>1, <1>2, <1>4, <2>1, <2>2 DEF LotTypeOK
<1>6. Inside' = Inside \ {plate} /\ plate \in Inside
  BY <1>1, <1>2, <1>4, TicketsAreNotOutside DEF Inside, LotTypeOK
<1>7. \A p \in Inside' : active'[p] = active[p]
  BY <1>1, <1>4, <1>6 DEF Inside, LotTypeOK
<1>8. IsFiniteSet(Inside')
  BY <1>1, <1>6, FS_RemoveElement
<1>9. ASSUME NEW s \in SpotTypes
      PROVE  available'[s] + Cardinality(Under(s)') = Capacity[s]
  <2>1. available[s] + Cardinality(Under(s)) = Capacity[s] /\ available[s] \in Nat
    BY <1>1 DEF SpotsConserved, Under, LotTypeOK
  <2>2. IsFiniteSet(Under(s)) /\ Cardinality(Under(s)) \in Nat
    BY <1>1, FS_Subset, FS_CardinalityType DEF Under
  <2>3. CASE s = spot
    <3>1. Under(s)' = Under(s) \ {plate} /\ plate \in Under(s)
      BY <1>4, <1>6, <1>7, <2>3 DEF Under
    <3>2. Cardinality(Under(s)') = Cardinality(Under(s)) - 1
      BY <2>2, <3>1, FS_RemoveElement
    <3>3. available'[s] = available[s] + 1
      BY <1>1, <1>4, <2>3 DEF LotTypeOK
    <3> QED
      BY <2>1, <2>2, <3>2, <3>3
  <2>4. CASE s # spot
    <3>1. Under(s)' = Under(s)
      BY <1>4, <1>6, <1>7, <2>4 DEF Under
    <3>2. available'[s] = available[s]
      BY <1>1, <1>4, <2>4 DEF LotTypeOK
    <3> QED
      BY <2>1, <3>1, <3>2
  <2> QED
    BY <2>3, <2>4
<1>10. \A p \in Inside' : Needs(active'[p].vehicle.type) <= Size(active'[p].spot)
  BY <1>1, <1>6, <1>7 DEF SpotsConserved
<1>11. SpotsConserved'
  BY <1>9, <1>10 DEF SpotsConserved, Under, Capacity
<1>12. FewestHours' /\ \A t \in issued' : t.entry <= clock'
  BY <1>3, <1>4, HoursCover DEF LotInv, FewestHours
<1> QED
  BY <1>5, <1>8, <1>11, <1>12 DEF LotInv

LEMMA TickKeeps == LotInv /\ (ClockTicks \/ UNCHANGED lotVars) => LotInv'
<1> SUFFICES ASSUME LotInv, ClockTicks \/ UNCHANGED lotVars PROVE LotInv'
  OBVIOUS
<1>1. /\ available' = available /\ active' = active /\ issued' = issued /\ billed' = billed
      /\ clock' \in 0..MaxClock /\ clock' >= clock /\ clock \in 0..MaxClock
  BY LotAssumption DEF ClockTicks, lotVars, LotInv, LotTypeOK
<1>2. LotTypeOK'
  BY <1>1 DEF LotInv, LotTypeOK
<1>3. SpotsConserved' /\ FewestHours' /\ IsFiniteSet(Inside')
  BY <1>1 DEF LotInv, SpotsConserved, FewestHours, Inside, Capacity
<1>4. \A ticket \in issued' : ticket.entry <= clock'
  BY <1>1, LotAssumption DEF LotInv, LotTypeOK, Ticket
<1> QED
  BY <1>2, <1>3, <1>4 DEF LotInv

THEOREM LotInvariant == LotSpec => []LotInv
<1>1. LotInv /\ [LotNext]_lotVars => LotInv'
  BY ParkKeeps, ExitKeeps, TickKeeps DEF LotNext
<1> QED
  BY LotStart, <1>1, PTL DEF LotSpec

\* Every spot is free or under one vehicle that fits into it, for any number of
\* plates and whatever tickets come back (lot.py:24-32, 75-80, 95-98).
THEOREM SpotsStayConserved == LotSpec => []SpotsConserved
<1>1. LotInv => SpotsConserved
  BY DEF LotInv
<1> QED
  BY LotInvariant, <1>1, PTL

\* Whatever an hour is, a stay is billed the fewest hours that cover it
\* (lot.py:83-87).
THEOREM StaysBilledExactly == LotSpec => []FewestHours
<1>1. LotInv => FewestHours
  BY DEF LotInv
<1> QED
  BY LotInvariant, <1>1, PTL

-----------------------------------------------------------------------------
(* ShoppingCart: the units a policy charges for, counted one by one, and   *)
(* a cart with one line of each SKU.                                       *)

LinesOfCart == [product : CartProducts, quantity : 1..MaxQuantity]

\* The units paid for among the first n, and how many the policy charges.
PaidUnits(buy, free, n) == {i \in 1..n : (i - 1) % (buy + free) < buy}
Chargeable(buy, free, n) == buy * (n \div (buy + free)) + Min({n % (buy + free), buy})

LEMMA ChargeableIs ==
  ASSUME NEW buy \in Nat \ {0}, NEW free \in Nat \ {0}, NEW g \in Nat \ {0}, g = buy + free,
         NEW n \in Nat, NEW q, NEW r, Grouped(n, g, q, r)
  PROVE  Chargeable(buy, free, n) = buy * q + IF r <= buy THEN r ELSE buy
<1>1. DividedInto(n, g, q, r)
  BY DivMod
<1>2. Min({r, buy}) = IF r <= buy THEN r ELSE buy
  BY MinOfTwo DEF Grouped
<1> QED
  BY <1>1, <1>2 DEF Chargeable, DividedInto

\* Not more units are charged than there are.
LEMMA ChargeableBounds ==
  ASSUME NEW buy \in Nat \ {0}, NEW free \in Nat \ {0}, NEW n \in Nat
  PROVE  0 <= Chargeable(buy, free, n) /\ Chargeable(buy, free, n) <= n
<1>1. PICK g \in Nat \ {0} : g = buy + free
  OBVIOUS
<1>2. PICK q, r : Grouped(n, g, q, r)
  BY GroupsExist
<1>3. /\ q \in Int /\ r \in Int /\ n = g * q + r /\ 0 <= r /\ r < g
      /\ Chargeable(buy, free, n) = buy * q + IF r <= buy THEN r ELSE buy
  <2>1. Chargeable(buy, free, n) = buy * q + IF r <= buy THEN r ELSE buy
    BY <1>1, <1>2, ChargeableIs
  <2> QED
    BY <1>2, <2>1 DEF Grouped
<1>4. q >= 0
  BY <1>1, <1>3
<1>5. 0 <= buy * q /\ buy * q <= g * q
  BY <1>1, <1>3, <1>4
<1>6. buy * q \in Int /\ g * q \in Int
  BY <1>1, <1>3
<1> QED
  BY <1>3, <1>5, <1>6

\* The units the policy charges are the paid ones, counted one by one.
LEMMA UnitsCounted ==
  ASSUME NEW buy \in Nat \ {0}, NEW free \in Nat \ {0}
  PROVE  \A n \in Nat : Chargeable(buy, free, n) = Cardinality(PaidUnits(buy, free, n))
<1>0. PICK g \in Nat \ {0} : g = buy + free
  OBVIOUS
<1> DEFINE S == {n \in Nat : Chargeable(buy, free, n) = Cardinality(PaidUnits(buy, free, n))}
<1>1. 0 \in S
  <2>1. PaidUnits(buy, free, 0) = {}
    BY DEF PaidUnits
  <2>2. Grouped(0, g, 0, 0)
    BY <1>0 DEF Grouped
  <2>3. Chargeable(buy, free, 0) = 0
    BY <1>0, <2>2, ChargeableIs
  <2> QED
    BY <2>1, <2>3, FS_EmptySet
<1>2. ASSUME NEW n \in Nat, n \in S
      PROVE  n + 1 \in S
  <2>1. PICK q, r : q = n \div g /\ r = n % g
    OBVIOUS
  <2>2. /\ q \in Int /\ r \in Int /\ n = g * q + r /\ 0 <= r /\ r < g
        /\ Chargeable(buy, free, n) = buy * q + IF r <= buy THEN r ELSE buy
    <3>1. Grouped(n, g, q, r)
      BY <2>1, GroupsExist
    <3>2. Chargeable(buy, free, n) = buy * q + IF r <= buy THEN r ELSE buy
      BY <1>0, <3>1, ChargeableIs
    <3> QED
      BY <3>1, <3>2 DEF Grouped
  <2>3. IsFiniteSet(PaidUnits(buy, free, n)) /\ n + 1 \notin PaidUnits(buy, free, n)
    <3>1. IsFiniteSet(1..n) /\ PaidUnits(buy, free, n) \in SUBSET (1..n)
      BY FS_Interval DEF PaidUnits
    <3> QED
      BY <3>1, FS_Subset
  <2>4. PaidUnits(buy, free, n + 1) =
          IF r < buy THEN PaidUnits(buy, free, n) \cup {n + 1} ELSE PaidUnits(buy, free, n)
    <3>1. 1..(n + 1) = 1..n \cup {n + 1} /\ (n + 1) - 1 = n
      OBVIOUS
    <3> QED
      BY <1>0, <2>1, <3>1 DEF PaidUnits
  <2>5. Cardinality(PaidUnits(buy, free, n + 1)) =
          IF r < buy THEN Cardinality(PaidUnits(buy, free, n)) + 1 ELSE Cardinality(PaidUnits(buy, free, n))
    BY <2>3, <2>4, FS_AddElement
  <2>6. Chargeable(buy, free, n) = Cardinality(PaidUnits(buy, free, n))
    BY <1>2
  <2>7. CASE r + 1 < g
    <3>1. Grouped(n + 1, g, q, r + 1)
      BY <1>0, <2>2, <2>7 DEF Grouped
    <3>3. Chargeable(buy, free, n + 1) = buy * q + IF r + 1 <= buy THEN r + 1 ELSE buy
      BY <1>0, <3>1, ChargeableIs
    <3>4. buy * q \in Int
      BY <2>2
    <3>5. Chargeable(buy, free, n + 1) = IF r < buy THEN Chargeable(buy, free, n) + 1 ELSE Chargeable(buy, free, n)
      BY <2>2, <3>3, <3>4
    <3> QED
      BY <2>5, <2>6, <3>5
  <2>8. CASE r + 1 = g
    <3>1. Grouped(n + 1, g, q + 1, 0)
      BY <1>0, <2>2, <2>8 DEF Grouped
    <3>3. Chargeable(buy, free, n + 1) = buy * (q + 1) + IF 0 <= buy THEN 0 ELSE buy
      BY <1>0, <3>1, ChargeableIs
    <3>4. buy * (q + 1) = buy * q + buy /\ buy * q \in Int
      BY <2>2
    <3>5. buy <= r
      BY <1>0, <2>2, <2>8
    <3>6. Chargeable(buy, free, n + 1) = Chargeable(buy, free, n)
      BY <2>2, <3>3, <3>4, <3>5
    <3> QED
      BY <2>2, <2>5, <2>6, <3>5, <3>6
  <2> QED
    BY <1>0, <2>2, <2>7, <2>8
<1>3. \A n \in Nat : n \in S
  <2> HIDE DEF S
  <2> QED
    BY <1>1, <1>2, NumberInduction
<1> QED
  BY <1>3

\* What a line costs, and that it costs what its units do.
LEMMA LineCosts ==
  ASSUME NEW line \in LinesOfCart
  PROVE  /\ Subtotal(line) \in Int /\ Subtotal(line) = UnitsCost(line)
         /\ line.product.price >= 0 => Subtotal(line) \in 0..(HighestPrice(line.product) * line.quantity)
<1> DEFINE product == line.product
           policy == product.policy
<1>0. PICK price, n : price = product.price /\ n = line.quantity
  OBVIOUS
<1>1. /\ price \in Int /\ IsPolicy(policy)
      /\ n \in Nat /\ n >= 1 /\ price * n \in Int /\ (price >= 0 => 0 <= price * n)
  BY <1>0, CartAssumption DEF LinesOfCart
<1>2. policy.kind # "bulk" => HighestPrice(product) = price
  BY <1>0 DEF HighestPrice
<1>3. CASE policy.kind = "none"
  <2>1. Subtotal(line) = price * n /\ Subtotal(line) = UnitsCost(line)
    BY <1>0, <1>3 DEF Subtotal, UnitsCost
  <2> QED
    BY <1>0, <1>1, <1>2, <1>3, <2>1
<1>4. CASE policy.kind = "percent"
  <2>1. Subtotal(line) = PercentOff(price, n, policy.percent) /\ Subtotal(line) = UnitsCost(line)
    BY <1>0, <1>4 DEF Subtotal, UnitsCost
  <2>2. PICK k \in 0..100 : k = 100 - policy.percent
    BY <1>1, <1>4 DEF IsPolicy
  <2>3. PICK a \in Int : a = price * n
    BY <1>1
  <2>4. Subtotal(line) = (a * k) \div 100
    BY <2>1, <2>2, <2>3 DEF PercentOff
  <2>5. Subtotal(line) \in Int
    BY <2>4
  <2>6. a >= 0 => 0 <= Subtotal(line) /\ Subtotal(line) <= a
    BY <2>4
  <2> QED
    BY <1>0, <1>1, <1>2, <1>4, <2>1, <2>3, <2>5, <2>6
<1>5. CASE policy.kind = "fixed"
  <2>1. Subtotal(line) = FixedOff(price, n, policy.amount) /\ Subtotal(line) = UnitsCost(line)
    BY <1>0, <1>5 DEF Subtotal, UnitsCost
  <2>2. PICK b \in Int : b = price * n - policy.amount /\ b <= price * n
    BY <1>1, <1>5 DEF IsPolicy
  <2>3. Max({0, b}) = IF 0 >= b THEN 0 ELSE b
    <3>1. PICK zero \in Int : zero = 0
      OBVIOUS
    <3> QED
      BY <3>1, MaxOfTwo
  <2>4. Subtotal(line) = IF 0 >= b THEN 0 ELSE b
    BY <2>1, <2>2, <2>3 DEF FixedOff
  <2>5. Subtotal(line) \in Int /\ 0 <= Subtotal(line) /\ (price >= 0 => Subtotal(line) <= price * n)
    BY <1>1, <2>2, <2>4
  <2> QED
    BY <1>0, <1>1, <1>2, <1>5, <2>1, <2>5
<1>6. CASE policy.kind = "free"
  <2>0. PICK buy, free \in Nat \ {0} : buy = policy.buy /\ free = policy.free
    BY <1>1, <1>6 DEF IsPolicy
  <2>1. PICK m : m = Chargeable(buy, free, n)
    OBVIOUS
  <2>2. Subtotal(line) = price * m
    BY <1>0, <1>6, <2>0, <2>1 DEF Subtotal, BuyXGetY, Chargeable
  <2>3. m = Cardinality(PaidUnits(buy, free, n)) /\ 0 <= m /\ m <= n
    BY <1>1, <2>0, <2>1, UnitsCounted, ChargeableBounds
  <2>4. m \in Int
    <3>1. IsFiniteSet(1..n) /\ PaidUnits(buy, free, n) \in SUBSET (1..n)
      BY <1>1, FS_Interval DEF PaidUnits
    <3>2. IsFiniteSet(PaidUnits(buy, free, n))
      BY <3>1, FS_Subset
    <3> QED
      BY <2>3, <3>2, FS_CardinalityType
  <2>5. UnitsCost(line) = price * m
    BY <1>0, <1>6, <2>0, <2>3 DEF UnitsCost, PaidUnits
  <2>6. price * m \in Int /\ (price >= 0 => 0 <= price * m /\ price * m <= price * n)
    BY <1>1, <2>3, <2>4, TimesMore
  <2> QED
    BY <1>0, <1>1, <1>2, <1>6, <2>2, <2>5, <2>6
<1>7. CASE policy.kind = "bulk"
  <2>0. PICK bulk \in Nat : bulk = policy.price
    BY <1>1, <1>7 DEF IsPolicy
  <2>1. /\ Subtotal(line) = n * (IF n >= policy.threshold THEN bulk ELSE price)
        /\ Subtotal(line) = UnitsCost(line)
    BY <1>0, <1>7, <2>0 DEF Subtotal, UnitsCost, BulkPricing
  <2>2. PICK most \in Int : most = HighestPrice(product) /\ price <= most /\ bulk <= most
    <3>1. HighestPrice(product) = Max({price, bulk})
      BY <1>0, <1>7, <2>0 DEF HighestPrice
    <3> QED
      BY <1>1, <3>1, MaxOfTwo
  <2>3. /\ n * bulk \in Int /\ n * price \in Int /\ 0 <= n * bulk /\ (price >= 0 => 0 <= n * price)
        /\ n * bulk <= most * n /\ n * price <= most * n
    BY <1>1, <2>2
  <2>4. \/ Subtotal(line) = n * bulk
        \/ Subtotal(line) = n * price
    BY <2>1
  <2>5. most * n \in Int
    BY <1>1
  <2> QED
    BY <1>0, <2>1, <2>2, <2>3, <2>4, <2>5
<1>8. \/ policy.kind = "none" \/ policy.kind = "percent" \/ policy.kind = "fixed"
      \/ policy.kind = "free" \/ policy.kind = "bulk"
  BY <1>1 DEF IsPolicy
<1> QED
  BY <1>3, <1>4, <1>5, <1>6, <1>7, <1>8

LEMMA CartLines ==
  ASSUME CartTypeOK
  PROVE  /\ cart \in Seq(LinesOfCart) /\ Len(cart) \in Nat /\ DOMAIN cart = 1..Len(cart)
         /\ \A i \in DOMAIN cart : cart[i] \in LinesOfCart
<1>1. cart \in Seq(LinesOfCart)
  BY DEF CartTypeOK, LinesOfCart
<1> QED
  BY <1>1

LEMMA SubtotalsAreSum ==
  ASSUME CartTypeOK
  PROVE  CartTotal = SumOver([i \in DOMAIN cart |-> Subtotal(cart[i])], DOMAIN cart)
<1> DEFINE D == DOMAIN cart
           v == [i \in D |-> Subtotal(cart[i])]
           Loop(f) == f = [s \in SUBSET D |-> IF s = {} THEN 0 ELSE Subtotal(cart[Some(s)]) + f[s \ {Some(s)}]]
<1>1. CartTotal = (CHOOSE f : Loop(f))[D]
  BY DEF CartTotal, MapThenSumSet, MapThenFoldSet, Some
<1>2. IsFiniteSet(D) /\ v \in [D -> Int]
  <2>1. D = 1..Len(cart) /\ Len(cart) \in Nat /\ \A i \in D : cart[i] \in LinesOfCart
    BY CartLines
  <2>2. IsFiniteSet(D)
    BY <2>1, FS_Interval
  <2>3. \A i \in D : Subtotal(cart[i]) \in Int
    BY <2>1, LineCosts
  <2> QED
    BY <2>2, <2>3
<1>3. ASSUME NEW s \in SUBSET D, s # {}
      PROVE  v[Some(s)] = Subtotal(cart[Some(s)])
  BY <1>3, SomeIn
<1> HIDE DEF v, D
<1>4. ASSUME NEW f
      PROVE  Loop(f) <=> IsSums(f, v, D)
  BY <1>3 DEF IsSums
<1> HIDE DEF Loop
<1>5. (CHOOSE f : Loop(f)) = SumTable(v, D)
  BY <1>2, <1>4, SumsTable, SumsUnique
<1> QED
  BY <1>1, <1>5 DEF SumOver, v, D

LEMMA UnitsAreSum ==
  ASSUME CartTypeOK
  PROVE  UnitsTotal = SumOver([i \in DOMAIN cart |-> UnitsCost(cart[i])], DOMAIN cart)
<1> DEFINE D == DOMAIN cart
           v == [i \in D |-> UnitsCost(cart[i])]
           Loop(f) == f = [s \in SUBSET D |-> IF s = {} THEN 0 ELSE UnitsCost(cart[Some(s)]) + f[s \ {Some(s)}]]
<1>1. UnitsTotal = (CHOOSE f : Loop(f))[D]
  BY DEF UnitsTotal, MapThenSumSet, MapThenFoldSet, Some
<1>2. IsFiniteSet(D) /\ v \in [D -> Int]
  <2>1. D = 1..Len(cart) /\ Len(cart) \in Nat /\ \A i \in D : cart[i] \in LinesOfCart
    BY CartLines
  <2>2. IsFiniteSet(D)
    BY <2>1, FS_Interval
  <2>3. \A i \in D : UnitsCost(cart[i]) \in Int
    BY <2>1, LineCosts
  <2> QED
    BY <2>2, <2>3
<1>3. ASSUME NEW s \in SUBSET D, s # {}
      PROVE  v[Some(s)] = UnitsCost(cart[Some(s)])
  BY <1>3, SomeIn
<1> HIDE DEF v, D
<1>4. ASSUME NEW f
      PROVE  Loop(f) <=> IsSums(f, v, D)
  BY <1>3 DEF IsSums
<1> HIDE DEF Loop
<1>5. (CHOOSE f : Loop(f)) = SumTable(v, D)
  BY <1>2, <1>4, SumsTable, SumsUnique
<1> QED
  BY <1>1, <1>5 DEF SumOver, v, D

CartInv == CartTypeOK /\ HoldsAsAsked

LEMMA CartCharges == CartInv => ChargedAsAsked
<1> SUFFICES ASSUME CartInv PROVE ChargedAsAsked
  OBVIOUS
<1>1. CartTypeOK /\ HoldsAsAsked
  BY DEF CartInv
<1>2. \A i \in DOMAIN cart : cart[i] \in LinesOfCart
  BY <1>1, CartLines
<1>3. [i \in DOMAIN cart |-> Subtotal(cart[i])] = [i \in DOMAIN cart |-> UnitsCost(cart[i])]
  BY <1>2, LineCosts
<1>4. CartTotal = UnitsTotal
  BY <1>1, <1>3, SubtotalsAreSum, UnitsAreSum
<1>5. ASSUME NEW i \in DOMAIN cart, cart[i].product.price >= 0
      PROVE  Subtotal(cart[i]) \in 0..(HighestPrice(cart[i].product) * cart[i].quantity)
  BY <1>2, <1>5, LineCosts
<1> QED
  BY <1>1, <1>4, <1>5 DEF ChargedAsAsked

\* Where a cart has a SKU, and that it has it as it should.
LinesOf(c, sku) == {i \in DOMAIN c : c[i].product.sku = sku}

HasOne(c, w, sku) ==
    IF w[sku] = 0 THEN LinesOf(c, sku) = {}
    ELSE \E i \in DOMAIN c : LinesOf(c, sku) = {i} /\ c[i].quantity = w[sku]

Wants == [CartSkus -> 0..MaxQuantity]

LEMMA HeldIs ==
  /\ HoldsAsAsked <=> \A sku \in CartSkus : HasOne(cart, wanted, sku)
  /\ \A sku : FindLine(sku) = LinesOf(cart, sku)
  BY DEF HoldsAsAsked, HasOne, LinesOf, FindLine

LEMMA SkuOfLine ==
  ASSUME NEW line \in LinesOfCart
  PROVE  line.product \in CartProducts /\ line.product.sku \in CartSkus /\ line.quantity \in 1..MaxQuantity
  BY DEF LinesOfCart, CartSkus

LEMMA OneAppended ==
  ASSUME NEW c \in Seq(LinesOfCart), NEW w \in Wants, NEW line \in LinesOfCart, NEW more \in Wants,
         \A sku \in CartSkus : HasOne(c, w, sku), LinesOf(c, line.product.sku) = {},
         more = [w EXCEPT ![line.product.sku] = line.quantity]
  PROVE  /\ Append(c, line) \in Seq(LinesOfCart)
         /\ \A sku \in CartSkus : HasOne(Append(c, line), more, sku)
<1>1. PICK d : d = Append(c, line)
  OBVIOUS
<1>2. /\ Len(c) \in Nat /\ DOMAIN c = 1..Len(c) /\ d \in Seq(LinesOfCart) /\ DOMAIN d = 1..(Len(c) + 1)
      /\ d[Len(c) + 1] = line /\ \A i \in 1..Len(c) : d[i] = c[i]
  BY <1>1
<1>3. 1..(Len(c) + 1) = 1..Len(c) \cup {Len(c) + 1} /\ Len(c) + 1 \notin 1..Len(c)
  BY <1>2
<1>4. line.product.sku \in CartSkus /\ line.quantity # 0
  BY SkuOfLine, CartAssumption
<1>5. ASSUME NEW sku \in CartSkus, sku = line.product.sku
      PROVE  HasOne(d, more, sku)
  <2>1. LinesOf(d, sku) = {Len(c) + 1}
    BY <1>2, <1>3, <1>5 DEF LinesOf
  <2>2. more[sku] = line.quantity
    BY <1>4, <1>5 DEF Wants
  <2> QED
    BY <1>2, <1>3, <1>4, <2>1, <2>2 DEF HasOne
<1>6. ASSUME NEW sku \in CartSkus, sku # line.product.sku
      PROVE  HasOne(d, more, sku)
  <2>1. LinesOf(d, sku) = LinesOf(c, sku)
    BY <1>2, <1>3, <1>6 DEF LinesOf
  <2>2. more[sku] = w[sku]
    BY <1>6 DEF Wants
  <2> QED
    BY <1>2, <1>3, <2>1, <2>2 DEF HasOne
<1> QED
  BY <1>1, <1>2, <1>5, <1>6

LEMMA OneChanged ==
  ASSUME NEW c \in Seq(LinesOfCart), NEW w \in Wants, NEW sku \in CartSkus, NEW n \in 1..MaxQuantity,
         \A s \in CartSkus : HasOne(c, w, s), NEW i \in DOMAIN c, LinesOf(c, sku) = {i},
         NEW more \in Wants, more = [w EXCEPT ![sku] = n]
  PROVE  /\ [c EXCEPT ![i].quantity = n] \in Seq(LinesOfCart)
         /\ \A s \in CartSkus : HasOne([c EXCEPT ![i].quantity = n], more, s)
<1>1. PICK d : d = [c EXCEPT ![i].quantity = n]
  OBVIOUS
<1>2. /\ Len(c) \in Nat /\ DOMAIN c = 1..Len(c) /\ DOMAIN d = 1..Len(c)
      /\ \A j \in 1..Len(c) : c[j] \in LinesOfCart
  BY <1>1
<1>3. /\ d[i] = [c[i] EXCEPT !.quantity = n] /\ \A j \in 1..Len(c) : j # i => d[j] = c[j]
      /\ d[i] \in LinesOfCart /\ d[i].quantity = n /\ d[i].product = c[i].product
  BY <1>1, <1>2 DEF LinesOfCart
<1>4. d \in Seq(LinesOfCart)
  <2>1. d \in [1..Len(c) -> LinesOfCart]
    BY <1>1, <1>2, <1>3
  <2> QED
    BY <1>2, <2>1
<1>5. \A s : LinesOf(d, s) = LinesOf(c, s)
  BY <1>2, <1>3 DEF LinesOf
<1>6. HasOne(d, more, sku)
  <2>1. more[sku] = n /\ n # 0
    BY CartAssumption DEF Wants
  <2> QED
    BY <1>2, <1>3, <1>5, <2>1 DEF HasOne
<1>7. ASSUME NEW s \in CartSkus, s # sku
      PROVE  HasOne(d, more, s)
  <2>1. more[s] = w[s]
    BY <1>7 DEF Wants
  <2>2. \A j \in DOMAIN c : LinesOf(c, s) = {j} => j # i
    BY <1>7 DEF LinesOf
  <2> QED
    BY <1>2, <1>3, <1>5, <2>1, <2>2 DEF HasOne
<1> QED
  BY <1>1, <1>4, <1>6, <1>7

LEMMA OneRemoved ==
  ASSUME NEW c \in Seq(LinesOfCart), NEW w \in Wants, NEW sku \in CartSkus,
         \A s \in CartSkus : HasOne(c, w, s), NEW i \in DOMAIN c, LinesOf(c, sku) = {i},
         NEW less \in Wants, less = [w EXCEPT ![sku] = 0]
  PROVE  /\ RemoveAt(c, i) \in Seq(LinesOfCart)
         /\ \A s \in CartSkus : HasOne(RemoveAt(c, i), less, s)
<1>1. PICK d : d = RemoveAt(c, i)
  OBVIOUS
<1>2. Len(c) \in Nat /\ DOMAIN c = 1..Len(c) /\ i \in 1..Len(c)
  OBVIOUS
<1>3. /\ d \in Seq(LinesOfCart) /\ DOMAIN d = 1..(Len(c) - 1)
      /\ \A j \in 1..(Len(c) - 1) : Origin(j, i) \in DOMAIN c \ {i} /\ d[j] = c[Origin(j, i)]
  BY <1>1, <1>2, RemoveAtOne
<1>4. HasOne(d, less, sku)
  <2>1. less[sku] = 0
    BY DEF Wants
  <2>2. LinesOf(d, sku) = {}
    BY <1>3 DEF LinesOf
  <2> QED
    BY <2>1, <2>2 DEF HasOne
<1>5. ASSUME NEW s \in CartSkus, s # sku
      PROVE  HasOne(d, less, s)
  <2>1. less[s] = w[s] /\ HasOne(c, w, s)
    BY <1>5 DEF Wants
  <2>2. CASE w[s] = 0
    <3>1. LinesOf(c, s) = {}
      BY <2>1, <2>2 DEF HasOne
    <3>2. LinesOf(d, s) = {}
      BY <1>3, <3>1 DEF LinesOf
    <3> QED
      BY <2>1, <2>2, <3>2 DEF HasOne
  <2>3. CASE w[s] # 0
    <3>1. PICK j \in DOMAIN c : LinesOf(c, s) = {j} /\ c[j].quantity = w[s]
      BY <2>1, <2>3 DEF HasOne
    <3>2. j # i /\ j \in 1..Len(c)
      BY <1>2, <1>5, <3>1 DEF LinesOf
    <3>3. PICK m \in 1..(Len(c) - 1) : d[m] = c[j] /\ Origin(m, i) = j
      BY <1>1, <1>2, <3>2, RemoveAtKeeps
    <3>4. LinesOf(d, s) = {m}
      <4>1. m \in LinesOf(d, s)
        BY <1>3, <3>1, <3>3 DEF LinesOf
      <4>2. ASSUME NEW k \in LinesOf(d, s)
            PROVE  k = m
        <5>1. k \in 1..(Len(c) - 1) /\ Origin(k, i) \in LinesOf(c, s)
          BY <1>3 DEF LinesOf
        <5>2. Origin(k, i) = Origin(m, i)
          BY <3>1, <3>3, <5>1
        <5>3. k \in Int /\ m \in Int /\ i \in Int
          BY <1>2, <5>1
        <5> QED
          BY <5>2, <5>3, OriginInjective
      <4> QED
        BY <4>1, <4>2
    <3> QED
      BY <1>3, <2>1, <2>3, <3>1, <3>3, <3>4 DEF HasOne
  <2> QED
    BY <2>2, <2>3
<1> QED
  BY <1>1, <1>3, <1>4, <1>5

LEMMA CartStarts == CartInit => CartInv
<1> SUFFICES ASSUME CartInit PROVE CartInv
  OBVIOUS
<1>1. cart = <<>> /\ DOMAIN cart = {} /\ wanted = [sku \in CartSkus |-> 0]
  BY DEF CartInit
<1>2. CartTypeOK
  BY <1>1, CartAssumption DEF CartTypeOK
<1>3. HoldsAsAsked
  BY <1>1 DEF HoldsAsAsked, FindLine
<1> QED
  BY <1>2, <1>3 DEF CartInv

LEMMA CartMoves == CartInv /\ [CartNext]_cartVars => CartInv'
<1> SUFFICES ASSUME CartInv, [CartNext]_cartVars PROVE CartInv'
  OBVIOUS
<1>1. /\ CartTypeOK /\ cart \in Seq(LinesOfCart) /\ wanted \in Wants
      /\ \A s \in CartSkus : HasOne(cart, wanted, s)
  BY CartLines, HeldIs DEF CartInv, CartTypeOK, Wants
<1>2. \A s \in CartSkus : wanted[s] \in 0..MaxQuantity /\ MaxQuantity \in Nat
  BY <1>1, CartAssumption DEF Wants
\* The line a SKU was found at.
<1>3. ASSUME NEW sku \in CartSkus, FindLine(sku) # {}
      PROVE  \E i \in DOMAIN cart :
                /\ LinesOf(cart, sku) = {i} /\ Min(FindLine(sku)) = i
                /\ cart[i].quantity = wanted[sku]
  <2>1. HasOne(cart, wanted, sku) /\ LinesOf(cart, sku) # {}
    BY <1>1, <1>3, HeldIs
  <2>2. PICK i \in DOMAIN cart : LinesOf(cart, sku) = {i} /\ cart[i].quantity = wanted[sku]
    BY <2>1 DEF HasOne
  <2>3. i \in Int
    BY <1>1
  <2>4. Min(FindLine(sku)) = i
    BY <2>2, <2>3, MinOfOne, HeldIs
  <2> QED
    BY <2>2, <2>4
\* What is to be shown of a step.
<1>4. ASSUME NEW c \in Seq(LinesOfCart), NEW w \in Wants, cart' = c, wanted' = w,
             \A s \in CartSkus : HasOne(c, w, s)
      PROVE  CartInv'
  <2>1. CartTypeOK'
    BY <1>4 DEF CartTypeOK, LinesOfCart, Wants, CartSkus
  <2>2. \A s \in CartSkus : HasOne(cart', wanted', s)
    BY <1>4
  <2>3. HoldsAsAsked'
    BY <2>2 DEF HoldsAsAsked, HasOne, LinesOf, FindLine, CartSkus
  <2> QED
    BY <2>1, <2>3 DEF CartInv
<1>5. ASSUME NEW p \in CartProducts, NEW n \in 1..2, Add(p, n)
      PROVE  CartInv'
  <2>1. p.sku \in CartSkus
    BY DEF CartSkus
  <2>2. wanted[p.sku] + n \in 1..MaxQuantity /\ wanted' = [wanted EXCEPT ![p.sku] = wanted[p.sku] + n]
    BY <1>2, <1>5, <2>1 DEF Add
  <2>3. wanted' \in Wants
    BY <1>1, <2>1, <2>2, CartAssumption DEF Wants
  <2>4. CASE FindLine(p.sku) = {}
    <3>1. wanted[p.sku] = 0
      <4>1. HasOne(cart, wanted, p.sku) /\ LinesOf(cart, p.sku) = {}
        BY <1>1, <2>1, <2>4, HeldIs
      <4> QED
        BY <4>1 DEF HasOne
    <3>7. n \in 1..MaxQuantity /\ wanted' = [wanted EXCEPT ![p.sku] = n]
      <4>1. wanted[p.sku] + n = n
        BY <3>1
      <4> QED
        BY <2>2, <4>1
    <3>8. [product |-> p, quantity |-> n] \in LinesOfCart
      BY <3>7 DEF LinesOfCart
    <3>2. PICK line \in LinesOfCart : line = [product |-> p, quantity |-> n]
      BY <3>8
    <3>3. line.product.sku = p.sku /\ line.quantity = n
      BY <3>2
    <3>4. cart' = Append(cart, line) /\ wanted' = [wanted EXCEPT ![line.product.sku] = line.quantity]
      <4>1. cart' = Append(cart, [product |-> p, quantity |-> n])
        BY <1>5, <2>4 DEF Add
      <4> QED
        BY <3>2, <3>3, <3>7, <4>1
    <3>5. LinesOf(cart, line.product.sku) = {}
      BY <2>4, <3>3, HeldIs
    <3>6. Append(cart, line) \in Seq(LinesOfCart) /\ \A s \in CartSkus : HasOne(Append(cart, line), wanted', s)
      BY <1>1, <2>3, <3>4, <3>5, OneAppended
    <3> QED
      BY <1>4, <2>3, <3>4, <3>6
  <2>5. CASE FindLine(p.sku) # {}
    <3>1. PICK i \in DOMAIN cart : LinesOf(cart, p.sku) = {i} /\ Min(FindLine(p.sku)) = i /\ cart[i].quantity = wanted[p.sku]
      BY <1>3, <2>1, <2>5
    <3>2. PICK k \in 1..MaxQuantity : k = wanted[p.sku] + n
      BY <2>2
    <3>3. cart' = [cart EXCEPT ![i].quantity = k]
      BY <1>5, <2>5, <3>1, <3>2 DEF Add
    <3>4. wanted' = [wanted EXCEPT ![p.sku] = k]
      BY <2>2, <3>2
    <3>5. [cart EXCEPT ![i].quantity = k] \in Seq(LinesOfCart) /\ \A s \in CartSkus : HasOne([cart EXCEPT ![i].quantity = k], wanted', s)
      BY <1>1, <2>1, <2>3, <3>1, <3>4, OneChanged
    <3> QED
      BY <1>4, <2>3, <3>3, <3>5
  <2> QED
    BY <2>4, <2>5
<1>6. ASSUME NEW sku \in CartSkus, RemoveLine(sku)
      PROVE  CartInv'
  <2>1. PICK i \in DOMAIN cart : LinesOf(cart, sku) = {i} /\ Min(FindLine(sku)) = i
    BY <1>3, <1>6 DEF RemoveLine
  <2>2. cart' = RemoveAt(cart, i) /\ wanted' = [wanted EXCEPT ![sku] = 0]
    BY <1>6, <2>1 DEF RemoveLine
  <2>3. wanted' \in Wants
    BY <1>1, <2>2, CartAssumption DEF Wants
  <2>4. RemoveAt(cart, i) \in Seq(LinesOfCart) /\ \A s \in CartSkus : HasOne(RemoveAt(cart, i), wanted', s)
    BY <1>1, <2>1, <2>2, <2>3, OneRemoved
  <2> QED
    BY <1>4, <2>2, <2>3, <2>4
<1>7. ASSUME NEW sku \in CartSkus, NEW n \in 0..MaxQuantity, UpdateQuantity(sku, n)
      PROVE  CartInv'
  <2>1. PICK i \in DOMAIN cart : LinesOf(cart, sku) = {i} /\ Min(FindLine(sku)) = i
    BY <1>3, <1>7 DEF UpdateQuantity
  <2>2. /\ n \in 1..MaxQuantity /\ wanted' = [wanted EXCEPT ![sku] = n]
        /\ cart' = [cart EXCEPT ![i].quantity = n]
    BY <1>7, <2>1, CartAssumption DEF UpdateQuantity, IsQuantity
  <2>3. wanted' \in Wants
    BY <1>1, <2>2, CartAssumption DEF Wants
  <2>4. [cart EXCEPT ![i].quantity = n] \in Seq(LinesOfCart) /\ \A s \in CartSkus : HasOne([cart EXCEPT ![i].quantity = n], wanted', s)
    BY <1>1, <2>1, <2>2, <2>3, OneChanged
  <2> QED
    BY <1>4, <2>2, <2>3, <2>4
<1>8. CASE UNCHANGED cartVars
  BY <1>1, <1>4, <1>8 DEF cartVars
<1> QED
  BY <1>5, <1>6, <1>7, <1>8 DEF CartNext

\* However it came about, a cart holds each SKU asked for once and in the number
\* asked for, charges no line above the price of its units, and gives away only
\* units that follow enough paid ones (cart.py:26-51, discount_policy.py:37-86).
THEOREM CartsStayCharged == CartSpec => []ChargedAsAsked
<1> QED
  BY CartStarts, CartMoves, CartCharges, PTL DEF CartSpec

-----------------------------------------------------------------------------
(* Checkout: the deals are a fold, after which no deal is left that could  *)
(* be made; the rules are counted unit by unit.                            *)

Deals == [a : MarketSkus, b : MarketSkus, price : Int]

\* What was taken so far.
TakenStates == [consumed : [MarketSkus -> Int], charged : Int]

NothingTaken == [consumed |-> [sku \in MarketSkus |-> 0], charged |-> 0]

DealStep == [p \in TakenStates \X Deals |-> TakeDeal(p[2], p[1])]

\* One deal takes as many pairs as are free, of both its SKUs; of a SKU it pairs
\* with itself it takes twice as many.
LEMMA DealTaken ==
  ASSUME MarketTypeOK, NEW deal \in Deals, NEW taken \in TakenStates
  PROVE  LET free(sku) == checkout.quantity[sku] - taken.consumed[sku]
             pairs == IF free(deal.a) <= free(deal.b) THEN free(deal.a) ELSE free(deal.b)
             after == TakeDeal(deal, taken)
         IN  /\ after \in TakenStates
             /\ pairs <= 0 => after = taken
             /\ pairs > 0 =>
                   \A sku \in MarketSkus :
                      after.consumed[sku] = taken.consumed[sku] + (IF sku = deal.a THEN pairs ELSE 0)
                                                                + (IF sku = deal.b THEN pairs ELSE 0)
<1>1. PICK q \in [MarketSkus -> Int] : q = checkout.quantity
  BY DEF MarketTypeOK
<1>2. PICK c \in [MarketSkus -> Int] : c = taken.consumed
  BY DEF TakenStates
<1>3. PICK a, b \in MarketSkus : a = deal.a /\ b = deal.b
  BY DEF Deals
<1>4. PICK pairs \in Int : /\ pairs = Min({q[a] - c[a], q[b] - c[b]})
                           /\ pairs = IF q[a] - c[a] <= q[b] - c[b] THEN q[a] - c[a] ELSE q[b] - c[b]
  <2>1. q[a] - c[a] \in Int /\ q[b] - c[b] \in Int
    OBVIOUS
  <2> QED
    BY <2>1, MinOfTwo
<1>5. PICK once \in [MarketSkus -> Int] : once = [c EXCEPT ![a] = c[a] + pairs]
  <2>1. c[a] + pairs \in Int
    OBVIOUS
  <2>2. [c EXCEPT ![a] = c[a] + pairs] \in [MarketSkus -> Int]
    BY <2>1
  <2> QED
    BY <2>2
<1>6. PICK twice \in [MarketSkus -> Int] : twice = [once EXCEPT ![b] = once[b] + pairs]
  <2>1. once[b] + pairs \in Int
    OBVIOUS
  <2>2. [once EXCEPT ![b] = once[b] + pairs] \in [MarketSkus -> Int]
    BY <2>1
  <2> QED
    BY <2>2
<1>7. TakeDeal(deal, taken) = IF pairs <= 0 THEN taken
                              ELSE [consumed |-> twice, charged |-> taken.charged + deal.price * pairs]
  BY <1>1, <1>2, <1>3, <1>4, <1>5, <1>6 DEF TakeDeal, Remaining
<1>8. TakeDeal(deal, taken) \in TakenStates
  <2>1. taken.charged + deal.price * pairs \in Int
    BY DEF TakenStates, Deals
  <2> QED
    BY <1>7, <2>1 DEF TakenStates
<1>9. ASSUME pairs > 0, NEW sku \in MarketSkus
      PROVE  TakeDeal(deal, taken).consumed[sku] =
                c[sku] + (IF sku = a THEN pairs ELSE 0) + (IF sku = b THEN pairs ELSE 0)
  <2>1. TakeDeal(deal, taken).consumed[sku] = twice[sku]
    BY <1>7, <1>9
  <2>2. /\ once[sku] = c[sku] + (IF sku = a THEN pairs ELSE 0)
        /\ twice[sku] = once[sku] + (IF sku = b THEN pairs ELSE 0)
    BY <1>5, <1>6
  <2> QED
    BY <2>1, <2>2
<1> QED
  BY <1>1, <1>2, <1>3, <1>4, <1>7, <1>8, <1>9

LEMMA DealStepType ==
  ASSUME MarketTypeOK
  PROVE  /\ DealStep \in Operators(TakenStates, Deals) /\ NothingTaken \in TakenStates
         /\ \A taken \in TakenStates, deal \in Deals : DealStep[<<taken, deal>>] = TakeDeal(deal, taken)
<1>1. \A p \in TakenStates \X Deals : TakeDeal(p[2], p[1]) \in TakenStates
  BY DealTaken
<1>2. NothingTaken \in TakenStates
  BY DEF NothingTaken, TakenStates
<1> QED
  BY <1>1, <1>2 DEF DealStep, Operators

\* What the loop over the deals takes is the fold of the lemmas.
LEMMA TakenIsFold ==
  ASSUME MarketTypeOK
  PROVE  checkout.deals \in Seq(Deals) /\ Taken = FoldOf(DealStep, NothingTaken, checkout.deals)
<1>0. PICK deals \in Seq(Deals) : deals = checkout.deals
  BY CheckoutAssumption DEF MarketTypeOK, Deals
<1> DEFINE Loop(f) == f = [s \in SUBSET (DOMAIN deals) |->
                              IF s = {} THEN NothingTaken
                              ELSE TakeDeal(deals[Max(s)], f[s \ {Max(s)}])]
<1>1. Taken = (CHOOSE f : Loop(f))[DOMAIN deals]
  BY <1>0 DEF Taken, FoldLeft, MapThenFoldSet, NothingTaken
<1>2. /\ DOMAIN deals = Places(deals) /\ Len(deals) \in Nat
      /\ \A i \in Places(deals) : deals[i] \in Deals
  BY DEF Places
<1>3. ASSUME NEW s \in SUBSET Places(deals), s # {}
      PROVE  Max(s) \in Places(deals) /\ s \ {Max(s)} \in SUBSET Places(deals)
  BY <1>2, <1>3, MaxOf DEF Places
<1>4. PICK g \in Tables(TakenStates, deals) :
         /\ IsTable(g, DealStep, NothingTaken, deals)
         /\ FoldOf(DealStep, NothingTaken, deals) = g[Places(deals)]
  <2>1. ASSUME NEW A, NEW op \in Operators(A, Deals), NEW base \in A
        PROVE  \E g \in Tables(A, deals) :
                  IsTable(g, op, base, deals) /\ FoldOf(op, base, deals) = g[Places(deals)]
    BY <2>1, FoldTable
  <2> QED
    BY <2>1, DealStepType
<1>5. Loop(g)
  <2>1. ASSUME NEW s \in SUBSET Places(deals), s # {}
        PROVE  DealStep[<<g[s \ {Max(s)}], deals[Max(s)]>>] = TakeDeal(deals[Max(s)], g[s \ {Max(s)}])
    <3>1. g[s \ {Max(s)}] \in TakenStates /\ deals[Max(s)] \in Deals
      BY <1>2, <1>3, <1>4, <2>1 DEF Tables
    <3> QED
      BY <3>1, DealStepType
  <2> QED
    BY <1>2, <1>4, <2>1 DEF IsTable
<1>6. ASSUME NEW f, Loop(f)
      PROVE  f = g
  <2>1. /\ f = [s \in SUBSET Places(deals) |-> f[s]]
        /\ \A s \in SUBSET Places(deals) :
              f[s] = IF s = {} THEN NothingTaken ELSE TakeDeal(deals[Max(s)], f[s \ {Max(s)}])
    BY <1>2, <1>6
  <2> HIDE DEF Loop
  <2>2. f[{}] = NothingTaken
    BY <2>1
  <2>3. Follows(f, TakenStates, DealStep, NothingTaken, deals)
    <3>1. ASSUME NEW s \in SUBSET Places(deals), s # {}, f[s \ {Max(s)}] \in TakenStates
          PROVE  f[s] = DealStep[<<f[s \ {Max(s)}], deals[Max(s)]>>]
      <4>1. deals[Max(s)] \in Deals
        BY <1>2, <1>3, <3>1
      <4>2. f[s] = TakeDeal(deals[Max(s)], f[s \ {Max(s)}])
        BY <2>1, <3>1
      <4> QED
        BY <3>1, <4>1, <4>2, DealStepType
    <3> QED
      BY <2>1, <2>2, <3>1 DEF Follows
  <2> QED
    BY <1>4, <2>3, TableReached, DealStepType
<1>7. (CHOOSE f : Loop(f)) = g
  <2> HIDE DEF Loop
  <2> QED
    BY <1>5, <1>6
<1> QED
  BY <1>0, <1>1, <1>2, <1>4, <1>7

\* The SKUs that some deal pairs with themselves.
PairedAlone(deals) == {sku \in MarketSkus : \E i \in DOMAIN deals : deals[i].a = sku /\ deals[i].b = sku}

\* What is taken of a SKU is no more than was scanned, or than twice as much where
\* a deal pairs it with itself.
Fits(taken, alone) ==
    \A sku \in MarketSkus :
        /\ 0 <= taken.consumed[sku] /\ taken.consumed[sku] <= 2 * checkout.quantity[sku]
        /\ taken.consumed[sku] <= checkout.quantity[sku] \/ sku \in alone

\* Of every deal made one SKU is taken up.
UsedUp(taken, deal) ==
    \/ taken.consumed[deal.a] >= checkout.quantity[deal.a]
    \/ taken.consumed[deal.b] >= checkout.quantity[deal.b]

LEMMA DealFits ==
  ASSUME MarketTypeOK, NEW deal \in Deals, NEW taken \in TakenStates, NEW alone, Fits(taken, alone),
         NEW more, alone \subseteq more, deal.a = deal.b => deal.a \in more
  PROVE  /\ Fits(TakeDeal(deal, taken), more) /\ UsedUp(TakeDeal(deal, taken), deal)
         /\ \A d \in Deals : UsedUp(taken, d) => UsedUp(TakeDeal(deal, taken), d)
<1>1. PICK q \in [MarketSkus -> Int] : q = checkout.quantity
  BY DEF MarketTypeOK
<1>2. PICK c \in [MarketSkus -> Int] : c = taken.consumed
  BY DEF TakenStates
<1>3. PICK a, b \in MarketSkus : a = deal.a /\ b = deal.b
  BY DEF Deals
<1>4. PICK pairs \in Int : pairs = IF q[a] - c[a] <= q[b] - c[b] THEN q[a] - c[a] ELSE q[b] - c[b]
  OBVIOUS
<1>5. PICK after \in TakenStates :
         /\ after = TakeDeal(deal, taken)
         /\ pairs <= 0 => after = taken
         /\ pairs > 0 => \A sku \in MarketSkus :
               after.consumed[sku] = c[sku] + (IF sku = a THEN pairs ELSE 0) + (IF sku = b THEN pairs ELSE 0)
  BY <1>1, <1>2, <1>3, <1>4, DealTaken
<1>6. \A sku \in MarketSkus : /\ 0 <= c[sku] /\ c[sku] <= 2 * q[sku] /\ c[sku] \in Int /\ q[sku] \in Int
                              /\ c[sku] <= q[sku] \/ sku \in alone
  BY <1>1, <1>2 DEF Fits
<1>7. CASE pairs <= 0
  <2>1. after = taken /\ (c[a] >= q[a] \/ c[b] >= q[b])
    BY <1>4, <1>5, <1>6, <1>7
  <2>2. UsedUp(taken, deal)
    BY <1>1, <1>2, <1>3, <2>1 DEF UsedUp
  <2>3. Fits(taken, more)
    BY DEF Fits
  <2> QED
    BY <1>5, <2>1, <2>2, <2>3
<1>8. CASE pairs > 0
  <2>1. \A sku \in MarketSkus :
           /\ sku # a /\ sku # b => after.consumed[sku] = c[sku]
           /\ sku = a /\ sku # b => after.consumed[sku] = c[sku] + pairs
           /\ sku # a /\ sku = b => after.consumed[sku] = c[sku] + pairs
           /\ sku = a /\ sku = b => after.consumed[sku] = c[sku] + 2 * pairs
    BY <1>5, <1>6, <1>8
  <2>2. pairs <= q[a] - c[a] /\ pairs <= q[b] - c[b]
    BY <1>4, <1>6
  <2>3. ASSUME NEW sku \in MarketSkus
        PROVE  /\ c[sku] <= after.consumed[sku] /\ after.consumed[sku] <= 2 * q[sku]
               /\ after.consumed[sku] <= q[sku] \/ sku \in more
    <3>1. CASE sku # a /\ sku # b
      BY <1>6, <2>1, <3>1
    <3>2. CASE (sku = a /\ sku # b) \/ (sku # a /\ sku = b)
      <4>1. after.consumed[sku] = c[sku] + pairs /\ pairs <= q[sku] - c[sku]
        BY <2>1, <2>2, <3>2
      <4>2. c[sku] \in Int /\ q[sku] \in Int /\ 0 <= c[sku]
        BY <1>6
      <4> QED
        BY <1>8, <4>1, <4>2
    <3>3. CASE sku = a /\ sku = b
      <4>1. after.consumed[sku] = c[sku] + 2 * pairs /\ pairs <= q[sku] - c[sku]
        BY <2>1, <2>2, <3>3
      <4>2. c[sku] \in Int /\ q[sku] \in Int /\ 0 <= c[sku]
        BY <1>6
      <4>3. sku \in more
        BY <1>3, <3>3
      <4> QED
        BY <1>8, <4>1, <4>2, <4>3
    <3> QED
      BY <3>1, <3>2, <3>3
  <2>4. \A sku \in MarketSkus : after.consumed[sku] \in Int
    BY DEF TakenStates
  <2>5. Fits(after, more)
    <3>1. \A sku \in MarketSkus : 0 <= after.consumed[sku]
      BY <1>6, <2>3, <2>4
    <3> QED
      BY <1>1, <2>3, <3>1 DEF Fits
  <2>6. after.consumed[a] >= q[a] \/ after.consumed[b] >= q[b]
    <3>1. after.consumed[a] >= c[a] + pairs /\ after.consumed[b] >= c[b] + pairs
      BY <1>6, <1>8, <2>1
    <3>2. c[a] + pairs = q[a] \/ c[b] + pairs = q[b]
      BY <1>4, <1>6
    <3> QED
      BY <3>1, <3>2
  <2>7. UsedUp(after, deal)
    BY <1>1, <1>3, <2>6 DEF UsedUp
  <2>8. ASSUME NEW d \in Deals, UsedUp(taken, d)
        PROVE  UsedUp(after, d)
    <3>1. PICK e, f \in MarketSkus : e = d.a /\ f = d.b
      BY DEF Deals
    <3>2. c[e] >= q[e] \/ c[f] >= q[f]
      BY <1>1, <1>2, <2>8, <3>1 DEF UsedUp
    <3>3. after.consumed[e] >= q[e] \/ after.consumed[f] >= q[f]
      BY <1>6, <2>3, <2>4, <3>2
    <3> QED
      BY <1>1, <3>1, <3>3 DEF UsedUp
  <2> QED
    BY <1>5, <2>5, <2>7, <2>8
<1> QED
  BY <1>7, <1>8

\* So it is after any sequence of deals.
TakenFrom(deals) == FoldOf(DealStep, NothingTaken, deals)

AllMade(deals) ==
    Fits(TakenFrom(deals), PairedAlone(deals)) /\ \A i \in DOMAIN deals : UsedUp(TakenFrom(deals), deals[i])

LEMMA DealsFit ==
  ASSUME MarketTypeOK
  PROVE  \A deals \in Seq(Deals) : AllMade(deals)
<1> DEFINE S == {deals \in Seq(Deals) : AllMade(deals)}
<1>0. ASSUME NEW deals \in Seq(Deals)
      PROVE  /\ TakenFrom(deals) \in TakenStates
             /\ \A deal \in Deals : TakenFrom(Append(deals, deal)) = TakeDeal(deal, TakenFrom(deals))
  <2>3. TakenFrom(deals) \in TakenStates
    <3>1. ASSUME NEW A, NEW op \in Operators(A, Deals), NEW base \in A
          PROVE  FoldOf(op, base, deals) \in A
      BY <3>1, FoldType
    <3> QED
      BY <3>1, DealStepType DEF TakenFrom
  <2>4. ASSUME NEW deal \in Deals
        PROVE  TakenFrom(Append(deals, deal)) = TakeDeal(deal, TakenFrom(deals))
    <3>2. ASSUME NEW A, NEW op \in Operators(A, Deals), NEW base \in A
          PROVE  FoldOf(op, base, Append(deals, deal)) = op[<<FoldOf(op, base, deals), deal>>]
      BY <3>2, FoldAppend
    <3>3. TakenFrom(Append(deals, deal)) = DealStep[<<TakenFrom(deals), deal>>]
      BY <3>2, DealStepType DEF TakenFrom
    <3> QED
      BY <2>3, <3>3, DealStepType
  <2> QED
    BY <2>3, <2>4
<1>1. <<>> \in S
  <2>1. ASSUME NEW A, NEW op \in Operators(A, Deals), NEW base \in A
        PROVE  FoldOf(op, base, <<>>) = base
    BY <2>1, FoldEmpty
  <2>2. TakenFrom(<<>>) = NothingTaken
    BY <2>1, DealStepType DEF TakenFrom
  <2>3. Fits(NothingTaken, PairedAlone(<<>>))
    <3>1. \A sku \in MarketSkus : checkout.quantity[sku] \in 0..MaxUnits
      BY DEF MarketTypeOK
    <3> QED
      BY <3>1, CheckoutAssumption DEF Fits, NothingTaken
  <2>4. AllMade(<<>>)
    BY <2>2, <2>3 DEF AllMade
  <2> QED
    BY <2>4
<1>2. ASSUME NEW deals \in Seq(Deals), NEW deal \in Deals, deals \in S
      PROVE  Append(deals, deal) \in S
  <2>1. PICK more \in Seq(Deals) : more = Append(deals, deal)
    <3>1. Append(deals, deal) \in Seq(Deals)
      OBVIOUS
    <3> QED
      BY <3>1
  <2>2. PICK taken \in TakenStates : taken = TakenFrom(deals)
    BY <1>0
  <2>3. TakenFrom(more) = TakeDeal(deal, taken) /\ Fits(taken, PairedAlone(deals))
    BY <1>0, <1>2, <2>1, <2>2 DEF AllMade
  <2>7. /\ PairedAlone(deals) \subseteq PairedAlone(more)
        /\ deal.a = deal.b => deal.a \in PairedAlone(more)
    <3>1. /\ DOMAIN deals \subseteq DOMAIN more /\ \A i \in DOMAIN deals : more[i] = deals[i]
          /\ Len(deals) + 1 \in DOMAIN more /\ more[Len(deals) + 1] = deal
      BY <2>1
    <3>2. deal.a \in MarketSkus
      BY DEF Deals
    <3> QED
      BY <3>1, <3>2 DEF PairedAlone
  <2>4. /\ Fits(TakenFrom(more), PairedAlone(more)) /\ UsedUp(TakenFrom(more), deal)
        /\ \A d \in Deals : UsedUp(taken, d) => UsedUp(TakenFrom(more), d)
    BY <2>3, <2>7, DealFits
  <2>5. ASSUME NEW i \in DOMAIN more
        PROVE  UsedUp(TakenFrom(more), more[i])
    <3>1. \/ more[i] = deal
          \/ i \in DOMAIN deals /\ more[i] = deals[i] /\ deals[i] \in Deals
      BY <2>1
    <3>2. i \in DOMAIN deals => UsedUp(taken, deals[i])
      BY <1>2, <2>2 DEF AllMade
    <3> QED
      BY <2>4, <3>1, <3>2
  <2>6. AllMade(more)
    BY <2>4, <2>5 DEF AllMade
  <2> QED
    BY <2>1, <2>6
<1> HIDE DEF S
<1>3. \A deals \in Seq(Deals) : deals \in S
  BY <1>1, <1>2, SequenceInduction
<1> QED
  BY <1>3 DEF S

-----------------------------------------------------------------------------
\* Of every two units the first is paid for.
OddOnes(n) == {i \in 1..n : i % 2 = 1}

LEMMA OddCounted == \A n \in Nat : Cardinality(OddOnes(n)) = (n + 1) \div 2
<1> DEFINE S == {n \in Nat : Cardinality(OddOnes(n)) = (n + 1) \div 2}
<1>1. 0 \in S
  <2>1. OddOnes(0) = {} /\ (0 + 1) \div 2 = 0
    BY DEF OddOnes
  <2> QED
    BY <2>1, FS_EmptySet
<1>2. ASSUME NEW n \in Nat, n \in S
      PROVE  n + 1 \in S
  <2>1. IsFiniteSet(OddOnes(n)) /\ n + 1 \notin OddOnes(n)
    <3>1. IsFiniteSet(1..n) /\ OddOnes(n) \in SUBSET (1..n)
      BY FS_Interval DEF OddOnes
    <3>2. n + 1 \notin 1..n
      OBVIOUS
    <3> QED
      BY <3>1, <3>2, FS_Subset
  <2>2. OddOnes(n + 1) = IF (n + 1) % 2 = 1 THEN OddOnes(n) \cup {n + 1} ELSE OddOnes(n)
    <3>1. 1..(n + 1) = 1..n \cup {n + 1}
      OBVIOUS
    <3> QED
      BY <3>1 DEF OddOnes
  <2>3. Cardinality(OddOnes(n + 1)) =
          IF (n + 1) % 2 = 1 THEN Cardinality(OddOnes(n)) + 1 ELSE Cardinality(OddOnes(n))
    BY <2>1, <2>2, FS_AddElement
  <2>4. ((n + 1) + 1) \div 2 = IF (n + 1) % 2 = 1 THEN (n + 1) \div 2 + 1 ELSE (n + 1) \div 2
    OBVIOUS
  <2>5. Cardinality(OddOnes(n)) = (n + 1) \div 2
    BY <1>2
  <2>6. Cardinality(OddOnes(n + 1)) = ((n + 1) + 1) \div 2
    BY <2>3, <2>4, <2>5
  <2> QED
    BY <2>6
<1>3. \A n \in Nat : n \in S
  <2> HIDE DEF S
  <2> QED
    BY <1>1, <1>2, NumberInduction
<1> QED
  BY <1>3

\* What a rule charges.
LEMMA RuleCharges ==
  ASSUME NEW rule, IsRule(rule), NEW n \in Nat, NEW w \in Nat
  PROVE  /\ Calculate(rule, n, w) \in Int
         /\ rule.kind = "bogof" => Calculate(rule, n, w) = rule.price * Cardinality(OddOnes(n))
         /\ rule.kind = "weight" => 10 * Calculate(rule, n, w) - w * rule.price \in -4..5
         /\ rule.kind = "multi" /\ rule.group <= rule.size * rule.price =>
               Calculate(rule, n, w) <= rule.price * n
         /\ NotNegative(rule) => Calculate(rule, n, w) >= 0
<1>1. PICK price \in Int : price = rule.price
  BY DEF IsRule
<1>2. CASE rule.kind = "unit"
  <2>1. Calculate(rule, n, w) = price * n
    BY <1>1, <1>2 DEF Calculate, UnitPrice
  <2>2. price * n \in Int /\ (price >= 0 => price * n >= 0)
    OBVIOUS
  <2> QED
    BY <1>1, <1>2, <2>1, <2>2 DEF NotNegative
<1>3. CASE rule.kind = "bogof"
  <2>1. Calculate(rule, n, w) = price * ((n + 1) \div 2)
    BY <1>1, <1>3 DEF Calculate, BuyOneGetOneFree
  <2>2. PICK odd \in Nat : odd = (n + 1) \div 2
    OBVIOUS
  <2>3. price * odd \in Int /\ (price >= 0 => price * odd >= 0)
    OBVIOUS
  <2>4. Cardinality(OddOnes(n)) = odd
    BY <2>2, OddCounted
  <2> QED
    BY <1>1, <1>3, <2>1, <2>2, <2>3, <2>4 DEF NotNegative
<1>4. CASE rule.kind = "weight"
  <2>1. PICK all \in Nat : all = w * price
    BY <1>1, <1>4 DEF IsRule
  <2>2. Calculate(rule, n, w) = (all + 5) \div 10
    BY <1>1, <1>4, <2>1 DEF Calculate, WeightedPrice
  <2>3. /\ (all + 5) \div 10 \in Int /\ (all + 5) \div 10 >= 0
        /\ 10 * ((all + 5) \div 10) - all \in -4..5
    OBVIOUS
  <2> QED
    BY <1>1, <1>4, <2>1, <2>2, <2>3
<1>5. CASE rule.kind = "multi"
  <2>1. PICK size \in Nat \ {0}, group \in Int : size = rule.size /\ group = rule.group
    BY <1>5 DEF IsRule
  <2>2. PICK q, r : q = n \div size /\ r = n % size
    OBVIOUS
  <2>3. Grouped(n, size, q, r)
    BY <2>2, GroupsExist
  <2>4. q \in Int /\ r \in Int /\ n = size * q + r /\ 0 <= r /\ r < size
    BY <2>3 DEF Grouped
  <2>5. q >= 0
    BY <2>4
  <2>6. Calculate(rule, n, w) = group * q + price * r
    BY <1>1, <1>5, <2>1, <2>2 DEF Calculate, MultiBuy
  <2>7. group * q \in Int /\ price * r \in Int /\ size * price \in Int /\ price * n \in Int
    BY <2>4
  <2>8. group <= size * price => Calculate(rule, n, w) <= price * n
    <3>1. SUFFICES ASSUME group <= size * price
                   PROVE  Calculate(rule, n, w) <= price * n
      OBVIOUS
    <3>2. q * group <= q * (size * price)
      BY <2>4, <2>5, <2>7, <3>1, TimesMore
    <3>3. price * n = q * (size * price) + price * r
      BY <2>4
    <3>4. q * group = group * q /\ q * (size * price) \in Int
      BY <2>4, <2>7
    <3> QED
      BY <2>6, <2>7, <3>2, <3>3, <3>4
  <2>9. price >= 0 /\ group >= 0 => Calculate(rule, n, w) >= 0
    <3>1. price >= 0 => price * r >= 0
      BY <2>4
    <3>2. group >= 0 => group * q >= 0
      BY <2>4, <2>5
    <3> QED
      BY <2>6, <2>7, <3>1, <3>2
  <2> QED
    BY <1>1, <1>5, <2>1, <2>6, <2>7, <2>8, <2>9 DEF NotNegative
<1>6. rule.kind = "unit" \/ rule.kind = "bogof" \/ rule.kind = "weight" \/ rule.kind = "multi"
  BY DEF IsRule
<1> QED
  BY <1>2, <1>3, <1>4, <1>5, <1>6

LEMMA LeftIs ==
  ASSUME MarketTypeOK
  PROVE  /\ Taken \in TakenStates
         /\ \A sku \in MarketSkus : Left(sku) \in Int /\ Left(sku) = checkout.quantity[sku] - Taken.consumed[sku]
<1>1. Taken \in TakenStates
  <2>1. ASSUME NEW A, NEW op \in Operators(A, Deals), NEW base \in A
        PROVE  FoldOf(op, base, checkout.deals) \in A
    BY <2>1, FoldType, TakenIsFold
  <2> QED
    BY <2>1, DealStepType, TakenIsFold
<1>2. \A sku \in MarketSkus : checkout.quantity[sku] \in Int
  BY DEF MarketTypeOK
<1> QED
  BY <1>1, <1>2 DEF Left, TakenStates

LEMMA RulesRegistered ==
  ASSUME MarketTypeOK, NEW sku \in Registered
  PROVE  /\ sku \in MarketSkus /\ IsRule(RuleOf(sku)) /\ checkout.weight[sku] \in Nat
<1>1. sku \in MarketSkus /\ checkout.product[sku] # {}
  BY DEF Registered
<1>2. checkout.product[sku] \in {{}} \cup {{p} : p \in MarketProducts}
  BY <1>1 DEF MarketTypeOK
<1>3. PICK p \in MarketProducts : checkout.product[sku] = {p}
  BY <1>1, <1>2
<1>4. RuleOf(sku) = p.rule
  BY <1>3 DEF RuleOf
<1>5. checkout.weight[sku] \in Nat
  BY <1>1, CheckoutAssumption DEF MarketTypeOK
<1> QED
  BY <1>1, <1>4, <1>5, CheckoutAssumption

Charges(sku) == Calculate(RuleOf(sku), Left(sku), checkout.weight[sku])

SoldTotal == MapThenSumSet(LAMBDA sku : Calculate(RuleOf(sku), Left(sku), checkout.weight[sku]), Sold)

LEMMA ChargesAreSum ==
  ASSUME IsFiniteSet(Sold), \A sku \in Sold : Charges(sku) \in Int
  PROVE  SoldTotal = SumOver([sku \in Sold |-> Charges(sku)], Sold)
<1> DEFINE D == Sold
           v == [sku \in D |-> Charges(sku)]
           Loop(f) == f = [s \in SUBSET D |-> IF s = {} THEN 0
                     ELSE Calculate(RuleOf(Some(s)), Left(Some(s)), checkout.weight[Some(s)]) + f[s \ {Some(s)}]]
<1>1. SoldTotal = (CHOOSE f : Loop(f))[D]
  BY DEF SoldTotal, MapThenSumSet, MapThenFoldSet, Some
<1>2. IsFiniteSet(D) /\ v \in [D -> Int]
  OBVIOUS
<1>3. ASSUME NEW s \in SUBSET D, s # {}
      PROVE  v[Some(s)] = Calculate(RuleOf(Some(s)), Left(Some(s)), checkout.weight[Some(s)])
  BY <1>3, SomeIn DEF Charges
<1> HIDE DEF v, D
<1>4. ASSUME NEW f
      PROVE  Loop(f) <=> IsSums(f, v, D)
  BY <1>3 DEF IsSums
<1> HIDE DEF Loop
<1>5. (CHOOSE f : Loop(f)) = SumTable(v, D)
  BY <1>2, <1>4, SumsTable, SumsUnique
<1> QED
  BY <1>1, <1>5 DEF SumOver, v, D

LEMMA KeptRules == MarketTypeOK => RulesAreKept
<1> SUFFICES ASSUME MarketTypeOK, NEW sku \in Registered
             PROVE  LET rule == RuleOf(sku)    n == Max({0, Left(sku)})    w == checkout.weight[sku]
                        paid == Calculate(rule, n, w)
                    IN  /\ rule.kind = "bogof" => paid = rule.price * Cardinality({i \in 1..n : i % 2 = 1})
                        /\ rule.kind = "weight" => 10 * paid - w * rule.price \in -4..5
                        /\ rule.kind = "multi" /\ rule.group <= rule.size * rule.price => paid <= rule.price * n
  BY DEF RulesAreKept
<1>1. sku \in MarketSkus /\ IsRule(RuleOf(sku)) /\ checkout.weight[sku] \in Nat
  BY RulesRegistered
<1>2. PICK n \in Nat : n = Max({0, Left(sku)})
  <2>1. Left(sku) \in Int
    BY <1>1, LeftIs
  <2>2. PICK zero \in Int : zero = 0
    OBVIOUS
  <2>3. Max({zero, Left(sku)}) = IF zero >= Left(sku) THEN zero ELSE Left(sku)
    BY <2>1, MaxOfTwo
  <2> QED
    BY <2>1, <2>2, <2>3
<1>3. PICK rule : rule = RuleOf(sku)
  OBVIOUS
<1>4. PICK w \in Nat : w = checkout.weight[sku]
  BY <1>1
<1>5. /\ rule.kind = "bogof" => Calculate(rule, n, w) = rule.price * Cardinality(OddOnes(n))
      /\ rule.kind = "weight" => 10 * Calculate(rule, n, w) - w * rule.price \in -4..5
      /\ rule.kind = "multi" /\ rule.group <= rule.size * rule.price => Calculate(rule, n, w) <= rule.price * n
  BY <1>1, <1>3, RuleCharges
<1> QED
  BY <1>2, <1>3, <1>4, <1>5 DEF OddOnes

LEMMA MadeDeals == MarketTypeOK => DealsAreMade
<1> SUFFICES ASSUME MarketTypeOK
             PROVE  /\ \A sku \in MarketSkus :
                          /\ Left(sku) >= 0 - checkout.quantity[sku]
                          /\ Left(sku) < 0 =>
                                \E i \in DOMAIN checkout.deals :
                                   checkout.deals[i].a = sku /\ checkout.deals[i].b = sku
                    /\ \A i \in DOMAIN checkout.deals :
                          Left(checkout.deals[i].a) <= 0 \/ Left(checkout.deals[i].b) <= 0
                    /\ (\A sku \in Sold : NotNegative(RuleOf(sku)) /\ Left(sku) >= 0) =>
                          MarketTotal >= Taken.charged
  BY DEF DealsAreMade
<1>1. PICK deals \in Seq(Deals) : deals = checkout.deals
  BY TakenIsFold
<1>2. AllMade(deals) /\ TakenFrom(deals) = Taken
  BY <1>1, DealsFit, TakenIsFold DEF TakenFrom
<1>6. ASSUME NEW sku \in MarketSkus
      PROVE  /\ Left(sku) = checkout.quantity[sku] - Taken.consumed[sku]
             /\ checkout.quantity[sku] \in Int /\ Taken.consumed[sku] \in Int
  BY LeftIs DEF MarketTypeOK, TakenStates
<1>3. ASSUME NEW sku \in MarketSkus
      PROVE  /\ Left(sku) >= 0 - checkout.quantity[sku]
             /\ Left(sku) < 0 =>
                   \E i \in DOMAIN checkout.deals :
                      checkout.deals[i].a = sku /\ checkout.deals[i].b = sku
  <2>1. /\ Taken.consumed[sku] <= 2 * checkout.quantity[sku]
        /\ Taken.consumed[sku] <= checkout.quantity[sku] \/ sku \in PairedAlone(deals)
    BY <1>2 DEF AllMade, Fits
  <2>2. Left(sku) >= 0 - checkout.quantity[sku]
    BY <1>6, <2>1
  <2>3. Left(sku) < 0 => sku \in PairedAlone(deals)
    BY <1>6, <2>1
  <2> QED
    BY <1>1, <2>2, <2>3 DEF PairedAlone
<1>4. ASSUME NEW i \in DOMAIN checkout.deals
      PROVE  Left(checkout.deals[i].a) <= 0 \/ Left(checkout.deals[i].b) <= 0
  <2>1. UsedUp(Taken, checkout.deals[i])
    BY <1>1, <1>2 DEF AllMade
  <2>2. PICK a, b \in MarketSkus : a = checkout.deals[i].a /\ b = checkout.deals[i].b
    <3>1. deals[i] \in Deals
      BY <1>1
    <3> QED
      BY <1>1, <3>1 DEF Deals
  <2>3. Taken.consumed[a] >= checkout.quantity[a] \/ Taken.consumed[b] >= checkout.quantity[b]
    BY <2>1, <2>2 DEF UsedUp
  <2>4. Left(a) <= 0 \/ Left(b) <= 0
    BY <1>6, <2>3
  <2> QED
    BY <2>2, <2>4
<1>5. ASSUME \A sku \in Sold : NotNegative(RuleOf(sku)) /\ Left(sku) >= 0
      PROVE  MarketTotal >= Taken.charged
  <2>1. IsFiniteSet(Sold)
    <3>1. IsFiniteSet(MarketSkus)
      <4>1. [p \in MarketProducts |-> p.sku] \in Surjection(MarketProducts, MarketSkus)
        BY DEF Surjection, MarketSkus
      <4> QED
        BY <4>1, CheckoutAssumption, FS_Surjection
    <3>2. Sold \in SUBSET MarketSkus
      BY DEF Sold, Registered
    <3> QED
      BY <3>1, <3>2, FS_Subset
  <2>2. ASSUME NEW sku \in Sold
        PROVE  Charges(sku) \in Int /\ Charges(sku) >= 0
    <3>1. sku \in Registered
      BY DEF Sold
    <3>2. sku \in MarketSkus /\ IsRule(RuleOf(sku)) /\ checkout.weight[sku] \in Nat
      BY <3>1, RulesRegistered
    <3>3. Left(sku) \in Nat
      BY <1>5, <3>2, LeftIs
    <3>4. NotNegative(RuleOf(sku))
      BY <1>5
    <3>5. PICK rule, n, w : rule = RuleOf(sku) /\ n = Left(sku) /\ w = checkout.weight[sku]
      OBVIOUS
    <3>6. Calculate(rule, n, w) \in Int /\ Calculate(rule, n, w) >= 0
      BY <3>2, <3>3, <3>4, <3>5, RuleCharges
    <3> QED
      BY <3>5, <3>6 DEF Charges
  <2> DEFINE v == [sku \in Sold |-> Charges(sku)]
             zeros == [sku \in Sold |-> 0]
  <2>3. /\ v \in [Sold -> Int] /\ zeros \in [Sold -> Int]
        /\ \A sku \in Sold : zeros[sku] <= v[sku] /\ zeros[sku] = 0
    BY <2>2
  <2>4. SoldTotal = SumOver(v, Sold)
    BY <2>1, <2>2, ChargesAreSum
  <2> HIDE DEF v, zeros
  <2>5. SumOver(zeros, Sold) <= SumOver(v, Sold) /\ SumOver(zeros, Sold) = 0 /\ SumOver(v, Sold) \in Int
    BY <2>1, <2>3, SumAtMost, SumOfNone, SumType
  <2>6. MarketTotal = Taken.charged + SoldTotal
    BY DEF MarketTotal, SoldTotal
  <2>7. Taken.charged \in Int
    BY LeftIs DEF TakenStates
  <2> QED
    BY <2>4, <2>5, <2>6, <2>7
<1> QED
  BY <1>3, <1>4, <1>5

LEMMA MarketStarts == MarketInit => MarketTypeOK
<1> SUFFICES ASSUME MarketInit PROVE MarketTypeOK
  OBVIOUS
<1>1. PICK deals \in DealLists :
        checkout = [deals |-> deals, product |-> [sku \in MarketSkus |-> {}],
                    quantity |-> [sku \in MarketSkus |-> 0], weight |-> [sku \in MarketSkus |-> 0]]
  BY DEF MarketInit
<1> QED
  BY <1>1, CheckoutAssumption DEF MarketTypeOK

LEMMA MarketMoves == MarketTypeOK /\ [MarketNext]_marketVars => MarketTypeOK'
<1> SUFFICES ASSUME MarketTypeOK, [MarketNext]_marketVars PROVE MarketTypeOK'
  OBVIOUS
<1> DEFINE Products == [MarketSkus -> {{}} \cup {{p} : p \in MarketProducts}]
<1>1. /\ checkout \in [deals : DealLists, product : Products,
                       quantity : [MarketSkus -> 0..MaxUnits], weight : [MarketSkus -> 0..MaxWeight]]
  BY DEF MarketTypeOK
<1>2. ASSUME NEW p \in MarketProducts
      PROVE  p.sku \in MarketSkus /\ EnsureRegistered(p) \in {{}} \cup {{x} : x \in MarketProducts}
  <2>1. p.sku \in MarketSkus
    BY DEF MarketSkus
  <2>2. checkout.product[p.sku] \in {{}} \cup {{x} : x \in MarketProducts}
    BY <1>1, <2>1
  <2> QED
    BY <2>1, <2>2 DEF EnsureRegistered
<1>3. ASSUME NEW p \in MarketProducts
      PROVE  [checkout.product EXCEPT ![p.sku] = EnsureRegistered(p)] \in Products
  BY <1>1, <1>2
<1> HIDE DEF Products
<1>4. ASSUME NEW p \in MarketProducts, Scan(p)
      PROVE  MarketTypeOK'
  <2>1. checkout' = [checkout EXCEPT !.product = [checkout.product EXCEPT ![p.sku] = EnsureRegistered(p)],
                                     !.quantity = [checkout.quantity EXCEPT ![p.sku] = checkout.quantity[p.sku] + 1]]
    BY <1>1, <1>4 DEF Scan
  <2>2. [checkout.quantity EXCEPT ![p.sku] = checkout.quantity[p.sku] + 1] \in [MarketSkus -> 0..MaxUnits]
    BY <1>1, <1>2, <1>4, CheckoutAssumption DEF Scan
  <2> QED
    BY <1>1, <1>3, <2>1, <2>2 DEF MarketTypeOK, Products, MarketSkus
<1>5. ASSUME NEW p \in MarketProducts, NEW w \in Weights, ScanWeighted(p, w)
      PROVE  MarketTypeOK'
  <2>1. checkout' = [checkout EXCEPT !.product = [checkout.product EXCEPT ![p.sku] = EnsureRegistered(p)],
                                     !.weight = [checkout.weight EXCEPT ![p.sku] = checkout.weight[p.sku] + w]]
    BY <1>1, <1>5 DEF ScanWeighted
  <2>2. [checkout.weight EXCEPT ![p.sku] = checkout.weight[p.sku] + w] \in [MarketSkus -> 0..MaxWeight]
    <3>1. w \in Nat /\ checkout.weight[p.sku] + w <= MaxWeight
      BY <1>5, CheckoutAssumption DEF ScanWeighted
    <3> QED
      BY <1>1, <1>2, <3>1, CheckoutAssumption
  <2> QED
    BY <1>1, <1>3, <2>1, <2>2 DEF MarketTypeOK, Products, MarketSkus
<1>6. CASE UNCHANGED marketVars
  BY <1>6 DEF MarketTypeOK, marketVars, MarketSkus
<1> QED
  BY <1>4, <1>5, <1>6 DEF MarketNext

\* Whatever is scanned in whatever order, and whatever the deals, no deal that
\* could be made is left out, no unit is in two deals unless a deal pairs its SKU
\* with itself, and then in two at most, and each rule charges what it says
\* (checkout.py:27-53, pricing_rule.py:20-66).
THEOREM UnitsStaySold == MarketSpec => []SoldOnce
<1>1. MarketTypeOK => SoldOnce
  BY KeptRules, MadeDeals DEF SoldOnce
<1> QED
  BY <1>1, MarketStarts, MarketMoves, PTL DEF MarketSpec

-----------------------------------------------------------------------------
(* BakeSale: an order is worth what its products take out of the stock.    *)

LEMMA Inventoried ==
  /\ Len(Inventory) \in Nat /\ SaleProducts = 1..Len(Inventory) /\ IsFiniteSet(SaleProducts)
  /\ \A p \in SaleProducts : Price(p) \in Int /\ Inventory[p].stock \in Nat
<1> DEFINE Goods == [code : Codes, price : Int, stock : Nat]
<1>1. Inventory \in Seq(Goods)
  BY SaleAssumption
<1> HIDE DEF Goods
<1>2. /\ Len(Inventory) \in Nat /\ SaleProducts = 1..Len(Inventory)
      /\ \A p \in SaleProducts : Inventory[p] \in Goods
  BY <1>1 DEF SaleProducts
<1>3. IsFiniteSet(SaleProducts)
  BY <1>2, FS_Interval
<1>4. \A p \in SaleProducts : Price(p) \in Int /\ Inventory[p].stock \in Nat
  BY <1>2 DEF Price, Goods
<1> QED
  BY <1>2, <1>3, <1>4

LEMMA WorthIsSum ==
  ASSUME NEW goods \in [SaleProducts -> Int]
  PROVE  /\ [p \in SaleProducts |-> Price(p) * goods[p]] \in [SaleProducts -> Int]
         /\ Worth(goods) = SumOver([p \in SaleProducts |-> Price(p) * goods[p]], SaleProducts)
<1> DEFINE D == SaleProducts
           v == [p \in D |-> Price(p) * goods[p]]
           Loop(f) == f = [s \in SUBSET D |-> IF s = {} THEN 0 ELSE Price(Some(s)) * goods[Some(s)] + f[s \ {Some(s)}]]
<1>1. Worth(goods) = (CHOOSE f : Loop(f))[D]
  BY DEF Worth, MapThenSumSet, MapThenFoldSet, Some
<1>2. IsFiniteSet(D) /\ v \in [D -> Int]
  <2>1. \A p \in D : Price(p) * goods[p] \in Int
    BY Inventoried
  <2> QED
    BY <2>1, Inventoried
<1>3. ASSUME NEW s \in SUBSET D, s # {}
      PROVE  v[Some(s)] = Price(Some(s)) * goods[Some(s)]
  BY <1>3, SomeIn
<1> HIDE DEF v, D
<1>4. ASSUME NEW f
      PROVE  Loop(f) <=> IsSums(f, v, D)
  BY <1>3 DEF IsSums
<1> HIDE DEF Loop
<1>5. (CHOOSE f : Loop(f)) = SumTable(v, D)
  BY <1>2, <1>4, SumsTable, SumsUnique
<1> QED
  BY <1>1, <1>2, <1>5 DEF SumOver, v, D

LEMMA PricesAreSum ==
  ASSUME NEW products \in Seq(SaleProducts)
  PROVE  /\ [i \in DOMAIN products |-> Price(products[i])] \in [DOMAIN products -> Int]
         /\ SumOf(products) = SumOver([i \in DOMAIN products |-> Price(products[i])], DOMAIN products)
         /\ IsFiniteSet(DOMAIN products)
<1> DEFINE D == DOMAIN products
           v == [i \in D |-> Price(products[i])]
           Loop(f) == f = [s \in SUBSET D |-> IF s = {} THEN 0 ELSE Price(products[Some(s)]) + f[s \ {Some(s)}]]
<1>1. SumOf(products) = (CHOOSE f : Loop(f))[D]
  BY DEF SumOf, MapThenSumSet, MapThenFoldSet, Some
<1>2. IsFiniteSet(D) /\ v \in [D -> Int]
  <2>1. D = 1..Len(products) /\ Len(products) \in Nat /\ \A i \in D : products[i] \in SaleProducts
    OBVIOUS
  <2>2. IsFiniteSet(D)
    BY <2>1, FS_Interval
  <2>3. \A i \in D : Price(products[i]) \in Int
    BY <2>1, Inventoried
  <2> QED
    BY <2>2, <2>3
<1>3. ASSUME NEW s \in SUBSET D, s # {}
      PROVE  v[Some(s)] = Price(products[Some(s)])
  BY <1>3, SomeIn
<1> HIDE DEF v, D
<1>4. ASSUME NEW f
      PROVE  Loop(f) <=> IsSums(f, v, D)
  BY <1>3 DEF IsSums
<1> HIDE DEF Loop
<1>5. (CHOOSE f : Loop(f)) = SumTable(v, D)
  BY <1>2, <1>4, SumsTable, SumsUnique
<1> QED
  BY <1>1, <1>2, <1>5 DEF SumOver, v, D

Counts(products) == [p \in SaleProducts |-> Count(products, p)]

LEMMA CountsType ==
  ASSUME NEW products \in Seq(SaleProducts)
  PROVE  Counts(products) \in [SaleProducts -> Nat]
<1>1. ASSUME NEW p \in SaleProducts
      PROVE  Count(products, p) \in Nat
  <2>1. Len(products) \in Nat /\ DOMAIN products = 1..Len(products)
    OBVIOUS
  <2>2. IsFiniteSet(1..Len(products)) /\ {i \in DOMAIN products : products[i] = p} \in SUBSET (1..Len(products))
    BY <2>1, FS_Interval
  <2> QED
    BY <2>2, FS_Subset, FS_CardinalityType DEF Count
<1> QED
  BY <1>1 DEF Counts

\* One more product in an order is one more of it.
LEMMA CountAppended ==
  ASSUME NEW products \in Seq(SaleProducts), NEW q \in SaleProducts
  PROVE  Counts(Append(products, q)) = [Counts(products) EXCEPT ![q] = @ + 1]
<1> DEFINE n == Len(products)
           more == Append(products, q)
           Where(ps, p) == {i \in DOMAIN ps : ps[i] = p}
<1>1. /\ n \in Nat /\ DOMAIN products = 1..n /\ DOMAIN more = 1..(n + 1) /\ more[n + 1] = q
      /\ \A i \in 1..n : more[i] = products[i]
  OBVIOUS
<1> HIDE DEF more, n
<1>2. 1..(n + 1) = 1..n \cup {n + 1} /\ n + 1 \notin 1..n
  BY <1>1
<1>3. ASSUME NEW p \in SaleProducts
      PROVE  Counts(more)[p] = IF p = q THEN Counts(products)[p] + 1 ELSE Counts(products)[p]
  <2>1. Where(more, p) = IF p = q THEN Where(products, p) \cup {n + 1} ELSE Where(products, p)
    BY <1>1, <1>2
  <2>2. IsFiniteSet(Where(products, p)) /\ n + 1 \notin Where(products, p)
    <3>1. IsFiniteSet(1..n)
      BY <1>1, FS_Interval
    <3>2. Where(products, p) \in SUBSET (1..n)
      BY <1>1
    <3> QED
      BY <1>2, <3>1, <3>2, FS_Subset
  <2> HIDE DEF Where
  <2>3. Cardinality(Where(products, p) \cup {n + 1}) = Cardinality(Where(products, p)) + 1
    BY <2>2, FS_AddElement
  <2>4. Counts(more)[p] = Cardinality(Where(more, p)) /\ Counts(products)[p] = Cardinality(Where(products, p))
    BY DEF Counts, Count, Where
  <2> QED
    BY <2>1, <2>3, <2>4
<1>4. Counts(more) = [p \in SaleProducts |-> Counts(more)[p]] /\ Counts(products) = [p \in SaleProducts |-> Counts(products)[p]]
  BY DEF Counts
<1>5. Counts(products) \in [SaleProducts -> Nat] /\ Counts(more) = [Counts(products) EXCEPT ![q] = @ + 1]
  BY <1>3, <1>4, CountsType
<1> QED
  BY <1>5 DEF more

\* An order is worth what its products are, counted.
LEMMA OrderIsWorth == \A products \in Seq(SaleProducts) : SumOf(products) = Worth(Counts(products))
<1> DEFINE S == {products \in Seq(SaleProducts) : SumOf(products) = Worth(Counts(products))}
<1>1. <<>> \in S
  <2>0. <<>> \in Seq(SaleProducts)
    OBVIOUS
  <2>1. PICK none \in Seq(SaleProducts) : none = <<>>
    BY <2>0
  <2>2. SumOf(none) = 0
    <3>1. PICK v : v = [i \in DOMAIN none |-> Price(none[i])]
      OBVIOUS
    <3>2. v \in [DOMAIN none -> Int] /\ SumOf(none) = SumOver(v, DOMAIN none)
      BY <3>1, PricesAreSum
    <3>3. DOMAIN none = {}
      BY <2>1
    <3> QED
      BY <3>2, <3>3, SumEmpty
  <2>3. Counts(none) = [p \in SaleProducts |-> 0]
    <3>1. \A p \in SaleProducts : Count(none, p) = 0
      <4>1. \A p : {i \in DOMAIN none : none[i] = p} = {}
        BY <2>1
      <4> QED
        BY <4>1, FS_EmptySet DEF Count
    <3> QED
      BY <3>1 DEF Counts
  <2>4. Worth(Counts(none)) = 0
    <3> DEFINE v == [p \in SaleProducts |-> Price(p) * Counts(none)[p]]
    <3>1. Counts(none) \in [SaleProducts -> Int]
      BY <2>3
    <3>2. v \in [SaleProducts -> Int] /\ Worth(Counts(none)) = SumOver(v, SaleProducts)
      BY <3>1, WorthIsSum
    <3>3. \A p \in SaleProducts : v[p] = 0
      BY <2>3, Inventoried
    <3> HIDE DEF v
    <3> QED
      BY <3>2, <3>3, SumOfNone, Inventoried
  <2> QED
    BY <2>1, <2>2, <2>4
<1>2. ASSUME NEW products \in Seq(SaleProducts), NEW q \in SaleProducts, products \in S
      PROVE  Append(products, q) \in S
  <2>0. PICK n \in Nat : n = Len(products)
    OBVIOUS
  <2> DEFINE more == Append(products, q)
             v == [i \in DOMAIN products |-> Price(products[i])]
             w == [i \in DOMAIN more |-> Price(more[i])]
             c == [p \in SaleProducts |-> Price(p) * Counts(products)[p]]
             d == [p \in SaleProducts |-> Price(p) * Counts(more)[p]]
  <2>1. /\ n \in Nat /\ DOMAIN products = 1..n /\ DOMAIN more = 1..(n + 1) /\ more[n + 1] = q
        /\ \A i \in 1..n : more[i] = products[i] /\ more \in Seq(SaleProducts)
        /\ more \in Seq(SaleProducts)
    BY <2>0
  <2> HIDE DEF more
  <2>2. v \in [1..n -> Int] /\ SumOf(products) = SumOver(v, 1..n)
    BY <2>1, PricesAreSum
  <2>3. w \in [1..(n + 1) -> Int] /\ SumOf(more) = SumOver(w, 1..(n + 1)) /\ IsFiniteSet(1..(n + 1))
    BY <2>1, PricesAreSum
  <2>4. w[n + 1] = Price(q) /\ \A i \in 1..n : w[i] = v[i]
    BY <2>1
  <2>5. n + 1 \in 1..(n + 1) /\ (1..(n + 1)) \ {n + 1} = 1..n /\ IsFiniteSet(1..n)
    <3>1. n + 1 \in 1..(n + 1) /\ (1..(n + 1)) \ {n + 1} = 1..n
      BY <2>1
    <3>2. IsFiniteSet(1..n)
      BY <2>1, FS_Interval
    <3> QED
      BY <3>1, <3>2
  <2>6. /\ Counts(products) \in [SaleProducts -> Int]
        /\ Counts(more) = [Counts(products) EXCEPT ![q] = @ + 1]
        /\ Counts(more) \in [SaleProducts -> Int]
    BY CountsType, CountAppended DEF more
  <2>7. /\ c \in [SaleProducts -> Int] /\ Worth(Counts(products)) = SumOver(c, SaleProducts)
        /\ d \in [SaleProducts -> Int] /\ Worth(Counts(more)) = SumOver(d, SaleProducts)
    BY <2>6, WorthIsSum
  <2>8. /\ d[q] = c[q] + Price(q) /\ Price(q) \in Int
        /\ \A p \in SaleProducts \ {q} : c[p] = d[p]
    <3>1. /\ Counts(products)[q] \in Int /\ Price(q) \in Int
          /\ Counts(more)[q] = Counts(products)[q] + 1
          /\ \A p \in SaleProducts \ {q} : Counts(more)[p] = Counts(products)[p]
      BY <2>6, Inventoried
    <3>2. ASSUME NEW a \in Int, NEW b \in Int
          PROVE  a * (b + 1) = a * b + a
      OBVIOUS
    <3>3. Price(q) * Counts(more)[q] = Price(q) * Counts(products)[q] + Price(q)
      BY <3>1, <3>2
    <3> QED
      BY <3>1, <3>3
  <2> HIDE DEF v, w, c, d
  <2>9. SumOver(w, 1..(n + 1)) = w[n + 1] + SumOver(v, 1..n)
    BY <2>2, <2>3, <2>4, <2>5, SumMore
  <2>10. SumOver(d, SaleProducts) = SumOver(c, SaleProducts) + d[q] - c[q]
    BY <2>7, <2>8, SumChanged, Inventoried
  <2>11. SumOver(v, 1..n) \in Int /\ c[q] \in Int /\ SumOver(c, SaleProducts) \in Int
    BY <2>2, <2>5, <2>7, SumType, Inventoried
  <2>12. SumOf(products) = Worth(Counts(products))
    BY <1>2
  <2>13. SumOf(more) = Worth(Counts(more))
    BY <2>2, <2>3, <2>4, <2>7, <2>8, <2>9, <2>10, <2>11, <2>12
  <2> QED
    BY <2>1, <2>13 DEF more
<1> HIDE DEF S
<1>3. \A products \in Seq(SaleProducts) : products \in S
  BY <1>1, <1>2, SequenceInduction
<1> QED
  BY <1>3 DEF S

SaleInv == SaleTypeOK /\ GoodsAreCharged

LEMMA SaleStarts == SaleInit => SaleInv
<1> SUFFICES ASSUME SaleInit PROVE SaleInv
  OBVIOUS
<1> DEFINE gone == [p \in SaleProducts |-> Inventory[p].stock - stock[p]]
<1>1. stock = [p \in SaleProducts |-> Inventory[p].stock] /\ till = [owed |-> 0, paid |-> 0]
  BY DEF SaleInit
<1>2. SaleTypeOK
  BY <1>1, Inventoried DEF SaleTypeOK
<1>3. gone = [p \in SaleProducts |-> 0]
  BY <1>1, Inventoried
<1> HIDE DEF gone
<1>4. Worth(gone) = 0
  <2>1. /\ <<>> \in Seq(SaleProducts) /\ gone \in [SaleProducts -> Int]
        /\ [p \in SaleProducts |-> Price(p) * gone[p]] \in [SaleProducts -> Int]
        /\ Worth(gone) = SumOver([p \in SaleProducts |-> Price(p) * gone[p]], SaleProducts)
    BY <1>3, WorthIsSum
  <2> DEFINE v == [p \in SaleProducts |-> Price(p) * gone[p]]
  <2>2. \A p \in SaleProducts : v[p] = 0
    BY <1>3, Inventoried
  <2> HIDE DEF v
  <2>3. v \in [SaleProducts -> Int] /\ Worth(gone) = SumOver(v, SaleProducts)
    BY <2>1 DEF v
  <2> QED
    BY <2>2, <2>3, SumOfNone, Inventoried
<1>5. GoodsAreCharged
  BY <1>1, <1>4, Inventoried DEF GoodsAreCharged, gone
<1> QED
  BY <1>2, <1>5 DEF SaleInv

LEMMA Resolved ==
  ASSUME NEW order, order \in Seq(Codes), AllKnown(order)
  PROVE  /\ ResolveProducts(order) \in Seq(SaleProducts)
         /\ \A p, q \in SaleProducts : p < q /\ Inventory[p].code = Inventory[q].code
               => Count(ResolveProducts(order), q) = 0
<1> DEFINE n == Len(order)
           products == ResolveProducts(order)
<1>1. n \in Nat /\ DOMAIN order = 1..n /\ products = [i \in 1..n |-> Min(WithCode(order[i]))]
  BY DEF ResolveProducts
<1>2. ASSUME NEW i \in 1..n
      PROVE  Min(WithCode(order[i])) \in WithCode(order[i]) /\ \A p \in WithCode(order[i]) : Min(WithCode(order[i])) <= p
  <2>1. WithCode(order[i]) # {} /\ WithCode(order[i]) \in SUBSET Nat
    BY <1>1, Inventoried DEF AllKnown, WithCode
  <2> QED
    BY <2>1, MinOf
<1> HIDE DEF n, products
<1>3. products \in Seq(SaleProducts) /\ DOMAIN products = 1..n
  <2>1. \A i \in 1..n : Min(WithCode(order[i])) \in SaleProducts
    BY <1>2 DEF WithCode
  <2> QED
    BY <1>1, <2>1
<1>4. ASSUME NEW p \in SaleProducts, NEW q \in SaleProducts, p < q, Inventory[p].code = Inventory[q].code
      PROVE  Count(products, q) = 0
  <2>1. ASSUME NEW i \in 1..n, products[i] = q
        PROVE  FALSE
    <3>1. q = Min(WithCode(order[i])) /\ q \in WithCode(order[i])
      BY <1>1, <1>2, <2>1
    <3>2. p \in WithCode(order[i])
      BY <1>4, <3>1 DEF WithCode
    <3>3. q <= p /\ p \in Nat /\ q \in Nat
      BY <1>2, <3>1, <3>2, Inventoried
    <3> QED
      BY <1>4, <3>3
  <2>2. {i \in DOMAIN products : products[i] = q} = {}
    BY <1>3, <2>1
  <2> QED
    BY <2>2, FS_EmptySet DEF Count
<1> QED
  BY <1>3, <1>4 DEF products

LEMMA SaleMoves == SaleInv /\ [SaleNext]_saleVars => SaleInv'
<1> SUFFICES ASSUME SaleInv, [SaleNext]_saleVars PROVE SaleInv'
  OBVIOUS
<1>0. SaleTypeOK /\ GoodsAreCharged
  BY DEF SaleInv
<1>1. /\ stock \in [SaleProducts -> Nat] /\ till \in [owed : Int, paid : Int]
      /\ till.owed \in Int /\ till.paid \in Int
      /\ till.paid + till.owed = Worth([p \in SaleProducts |-> Inventory[p].stock - stock[p]])
  BY <1>0 DEF SaleTypeOK, GoodsAreCharged
<1>2. ASSUME NEW order, order \in Seq(Codes), CalculateTotal(order)
      PROVE  SaleInv'
  <2> DEFINE products == ResolveProducts(order)
             gone == [p \in SaleProducts |-> Inventory[p].stock - stock[p]]
             more == [p \in SaleProducts |-> Inventory[p].stock - stock'[p]]
             counts == Counts(products)
  <2>1. /\ AllKnown(order) /\ ValidateStock(products)
        /\ stock' = [p \in SaleProducts |-> stock[p] - Count(products, p)]
        /\ till' = [till EXCEPT !.owed = @ + SumOf(products)]
    BY <1>2 DEF CalculateTotal
  <2>2. /\ products \in Seq(SaleProducts)
        /\ \A p, q \in SaleProducts : p < q /\ Inventory[p].code = Inventory[q].code => Count(products, q) = 0
    BY <1>2, <2>1, Resolved
  <2> HIDE DEF products
  <2>3. SumOf(products) = Worth(counts) /\ counts \in [SaleProducts -> Nat]
        /\ \A p \in SaleProducts : counts[p] = Count(products, p)
    BY <2>2, OrderIsWorth, CountsType DEF Counts
  <2> HIDE DEF counts
  <2>4. stock' = [p \in SaleProducts |-> stock[p] - counts[p]] /\ \A p \in SaleProducts : counts[p] <= stock[p]
    BY <2>1, <2>3 DEF ValidateStock
  <2>5. stock' \in [SaleProducts -> Nat]
    <3>1. \A p \in SaleProducts : stock[p] - counts[p] \in Nat
      BY <1>1, <2>3, <2>4
    <3> QED
      BY <2>4, <3>1
  <2>6. gone \in [SaleProducts -> Int] /\ more \in [SaleProducts -> Int] /\ counts \in [SaleProducts -> Int]
    BY <1>1, <2>3, <2>5, Inventoried
  <2>7. \A p \in SaleProducts : more[p] = gone[p] + counts[p]
    <3>1. ASSUME NEW a \in Int, NEW b \in Int, NEW c \in Int
          PROVE  a - (b - c) = (a - b) + c
      OBVIOUS
    <3>2. \A p \in SaleProducts : Inventory[p].stock - (stock[p] - counts[p]) = (Inventory[p].stock - stock[p]) + counts[p]
      BY <1>1, <2>3, <3>1, Inventoried
    <3> QED
      BY <2>4, <3>2
  <2>8. till.paid + till.owed = Worth(gone)
    BY <1>1
  <2> HIDE DEF gone, more
  <2>9. Worth(more) = Worth(gone) + Worth(counts) /\ Worth(counts) \in Int
    <3> DEFINE u == [p \in SaleProducts |-> Price(p) * gone[p]]
               v == [p \in SaleProducts |-> Price(p) * counts[p]]
               w == [p \in SaleProducts |-> Price(p) * more[p]]
    <3>1. u \in [SaleProducts -> Int] /\ Worth(gone) = SumOver(u, SaleProducts)
      BY <2>6, WorthIsSum
    <3>2. v \in [SaleProducts -> Int] /\ Worth(counts) = SumOver(v, SaleProducts)
      BY <2>6, WorthIsSum
    <3>3. w \in [SaleProducts -> Int] /\ Worth(more) = SumOver(w, SaleProducts)
      BY <2>6, WorthIsSum
    <3>4. \A p \in SaleProducts : w[p] = u[p] + v[p]
      <4>1. ASSUME NEW a \in Int, NEW b \in Int, NEW c \in Int
            PROVE  a * (b + c) = a * b + a * c
        OBVIOUS
      <4>2. \A p \in SaleProducts : Price(p) * (gone[p] + counts[p]) = Price(p) * gone[p] + Price(p) * counts[p]
        BY <2>6, <4>1, Inventoried
      <4> QED
        BY <2>7, <4>2
    <3> HIDE DEF u, v, w
    <3>5. SumOver(w, SaleProducts) = SumOver(u, SaleProducts) + SumOver(v, SaleProducts)
      BY <3>1, <3>2, <3>3, <3>4, SumPlus, Inventoried
    <3>6. SumOver(v, SaleProducts) \in Int
      BY <3>2, SumType, Inventoried
    <3> QED
      BY <3>1, <3>2, <3>3, <3>5, <3>6
  <2>10. /\ till' \in [owed : Int, paid : Int] /\ till'.paid = till.paid
         /\ till'.owed = till.owed + Worth(counts)
    BY <1>1, <2>1, <2>3, <2>9
  <2>11. till'.paid + till'.owed = Worth(more)
    BY <1>1, <2>8, <2>9, <2>10
  <2>12. ASSUME NEW p \in SaleProducts, NEW q \in SaleProducts, p < q, Inventory[p].code = Inventory[q].code
         PROVE  stock'[q] = Inventory[q].stock
    <3>1. stock[q] = Inventory[q].stock
      BY <1>0, <2>12 DEF GoodsAreCharged
    <3>2. counts[q] = 0
      BY <2>2, <2>3, <2>12
    <3> QED
      BY <1>1, <2>4, <3>1, <3>2
  <2>13. \A p \in SaleProducts : stock'[p] >= 0
    BY <2>5
  <2>14. GoodsAreCharged'
    BY <2>11, <2>12, <2>13 DEF GoodsAreCharged, more
  <2> QED
    BY <2>5, <2>10, <2>14 DEF SaleInv, SaleTypeOK, SaleProducts
<1>3. ASSUME NEW payment \in Payments, CalculateChange(payment)
      PROVE  SaleInv'
  <2>1. /\ stock' = stock /\ payment \in Int
        /\ till' = [owed |-> 0, paid |-> till.paid + payment - (payment - till.owed)]
    BY <1>3, SaleAssumption DEF CalculateChange
  <2>2. till' \in [owed : Int, paid : Int] /\ till'.paid + till'.owed = till.paid + till.owed
    BY <1>1, <2>1
  <2>3. till'.paid + till'.owed = Worth([p \in SaleProducts |-> Inventory[p].stock - stock'[p]])
    BY <1>1, <2>1, <2>2
  <2>4. GoodsAreCharged'
    BY <1>0, <2>1, <2>3 DEF GoodsAreCharged
  <2> QED
    BY <1>1, <2>1, <2>2, <2>4 DEF SaleInv, SaleTypeOK, SaleProducts
<1>4. CASE UNCHANGED saleVars
  BY <1>0, <1>4 DEF SaleInv, SaleTypeOK, GoodsAreCharged, saleVars
<1>5. \A order \in SeqOf(Codes, MaxOrder) : order \in Seq(Codes)
  BY SaleAssumption DEF SeqOf
<1> QED
  BY <1>2, <1>3, <1>4, <1>5 DEF SaleNext

\* Whatever is ordered and paid, in any order, what left the stock is paid for or
\* owed at its price, and no product is sold for another (bake_sale.py:31-67).
THEOREM GoodsStayCharged == SaleSpec => []GoodsAreCharged
<1>1. SaleInv => GoodsAreCharged
  BY DEF SaleInv
<1> QED
  BY <1>1, SaleStarts, SaleMoves, PTL DEF SaleSpec

-----------------------------------------------------------------------------
(* RobotFactory: suppliers of different names sell what they quoted, and   *)
(* the cheapest quote of each part is the cheapest spread of them all.     *)

Marketed ==
  /\ Suppliers = 1..Len(factory.market) /\ Len(factory.market) \in Nat
  /\ \A s \in Suppliers : \A o : Sells(s, o) => QuotePrice(s, o) \in Int

LEMMA MarketsAreSold == FactoryTypeOK => Marketed
  BY FactoryAssumption DEF FactoryTypeOK, Marketed, Suppliers, Sells, QuotePrice

\* The cheapest quote is one, and no other is cheaper.
LEMMA CheapestIsLeast ==
  ASSUME Marketed, NEW option, Quotes(option) # {}
  PROVE  /\ Cheapest(option) \in Suppliers /\ Sells(Cheapest(option), option)
         /\ \A s \in Suppliers : Sells(s, option) => QuotePrice(Cheapest(option), option) <= QuotePrice(s, option)
<1> DEFINE D == Quotes(option)
           v == [s \in D |-> QuotePrice(s, option)]
           Least == {s \in D : \A r \in D : QuotePrice(s, option) <= QuotePrice(r, option)}
<1>1. D \in SUBSET (1..Len(factory.market)) /\ v \in [D -> Int]
  BY DEF Quotes, Marketed
<1>2. IsFiniteSet(D)
  <2>1. IsFiniteSet(1..Len(factory.market))
    BY FS_Interval DEF Marketed
  <2> QED
    BY <1>1, <2>1, FS_Subset
<1>3. PICK x \in D : \A y \in D : v[x] <= v[y]
  <2> HIDE DEF D, v
  <2> QED
    BY <1>1, <1>2, SomeLeast DEF D
<1>4. Least # {} /\ Least \in SUBSET Nat
  <2>1. x \in Least
    BY <1>3
  <2>2. D \in SUBSET Nat
    BY <1>1 DEF Marketed
  <2> QED
    BY <2>1, <2>2
<1>5. Cheapest(option) \in Least
  BY <1>4, MinOf DEF Cheapest
<1> QED
  BY <1>5 DEF Quotes

\* From suppliers of different names the quote is taken to the one who gave it.
LEMMA TakenToTheCheapest ==
  ASSUME Marketed, NamesAreDistinct, NEW option, Quotes(option) # {}
  PROVE  SupplierOf(option) = Cheapest(option)
<1> DEFINE c == Cheapest(option)
           Named == {s \in Suppliers : factory.market[s].name = factory.market[c].name}
<1>1. c \in Suppliers
  BY CheapestIsLeast
<1>2. \A s \in Suppliers : factory.market[s].name = factory.market[c].name => s = c
  BY <1>1 DEF NamesAreDistinct, IsInjective
<1>3. Named = {c}
  BY <1>1, <1>2
<1>4. {c} \in SUBSET Nat /\ {c} # {}
  BY <1>1 DEF Marketed
<1>5. Min(Named) = c
  BY <1>3, <1>4, MinOf
<1> QED
  BY <1>5 DEF SupplierOf

LEMMA CostIsSum ==
  ASSUME NEW spread, \A t \in PartTypes : QuotePrice(spread[t], factory.order[t]) \in Int
  PROVE  /\ [t \in PartTypes |-> QuotePrice(spread[t], factory.order[t])] \in [PartTypes -> Int]
         /\ CostAt(spread) = SumOver([t \in PartTypes |-> QuotePrice(spread[t], factory.order[t])], PartTypes)
<1> DEFINE D == PartTypes
           v == [t \in D |-> QuotePrice(spread[t], factory.order[t])]
           Loop(f) == f = [s \in SUBSET D |-> IF s = {} THEN 0
                              ELSE QuotePrice(spread[Some(s)], factory.order[Some(s)]) + f[s \ {Some(s)}]]
<1>1. CostAt(spread) = (CHOOSE f : Loop(f))[D]
  BY DEF CostAt, MapThenSumSet, MapThenFoldSet, Some
<1>2. IsFiniteSet(D) /\ v \in [D -> Int]
  BY FactoryAssumption
<1>3. ASSUME NEW s \in SUBSET D, s # {}
      PROVE  v[Some(s)] = QuotePrice(spread[Some(s)], factory.order[Some(s)])
  BY <1>3, SomeIn
<1> HIDE DEF v, D
<1>4. ASSUME NEW f
      PROVE  Loop(f) <=> IsSums(f, v, D)
  BY <1>3 DEF IsSums
<1> HIDE DEF Loop
<1>5. (CHOOSE f : Loop(f)) = SumTable(v, D)
  BY <1>2, <1>4, SumsTable, SumsUnique
<1> QED
  BY <1>1, <1>2, <1>5 DEF SumOver, v, D

LEMMA PricesSum ==
  ASSUME NEW parts, IsFiniteSet(DOMAIN parts), \A i \in DOMAIN parts : parts[i].price \in Int
  PROVE  /\ [i \in DOMAIN parts |-> parts[i].price] \in [DOMAIN parts -> Int]
         /\ SumOfPrices(parts) = SumOver([i \in DOMAIN parts |-> parts[i].price], DOMAIN parts)
<1> DEFINE D == DOMAIN parts
           v == [i \in D |-> parts[i].price]
           Loop(f) == f = [s \in SUBSET D |-> IF s = {} THEN 0 ELSE parts[Some(s)].price + f[s \ {Some(s)}]]
<1>1. SumOfPrices(parts) = (CHOOSE f : Loop(f))[D]
  BY DEF SumOfPrices, MapThenSumSet, MapThenFoldSet, Some
<1>2. IsFiniteSet(D) /\ v \in [D -> Int]
  OBVIOUS
<1>3. ASSUME NEW s \in SUBSET D, s # {}
      PROVE  v[Some(s)] = parts[Some(s)].price
  BY <1>3, SomeIn
<1> HIDE DEF v, D
<1>4. ASSUME NEW f
      PROVE  Loop(f) <=> IsSums(f, v, D)
  BY <1>3 DEF IsSums
<1> HIDE DEF Loop
<1>5. (CHOOSE f : Loop(f)) = SumTable(v, D)
  BY <1>2, <1>4, SumsTable, SumsUnique
<1> QED
  BY <1>1, <1>2, <1>5 DEF SumOver, v, D

\* What was bought last are the first parts that a purchase of the order can buy,
\* and all of them unless a supplier went back on his quote.
Bought ==
    /\ CanCost
    /\ \E n \in Nat : n <= Len(Purchasable) /\ bought = SubSeq(Purchasable, 1, n)
    /\ ~refused => bought = Purchasable

FactoryInv == FactoryTypeOK /\ (bought # <<>> => Bought)

\* The parts that can be bought are the first of the order, each from a supplier
\* that has it in its catalogue.
LEMMA PurchasableParts ==
  ASSUME FactoryTypeOK, CanCost
  PROVE  /\ Purchasable \in Seq([type : PartTypes, price : Int])
         /\ Len(Purchasable) <= Len(factory.types)
         /\ \A i \in DOMAIN Purchasable :
               LET option == factory.order[factory.types[i]]
               IN  /\ factory.types[i] \in PartTypes
                   /\ Purchasable[i].type = factory.types[i]
                   /\ SupplierOf(option) \in Suppliers /\ Sells(SupplierOf(option), option)
                   /\ Purchasable[i].price = QuotePrice(SupplierOf(option), option)
<1> DEFINE option(i) == factory.order[factory.types[i]]
           Fails == {i \in DOMAIN factory.types : ~Sells(SupplierOf(option(i)), option(i))}
           last == IF Fails = {} THEN Len(factory.types) ELSE Min(Fails) - 1
<1>1. Marketed
  BY MarketsAreSold
<1>2. /\ Len(factory.types) \in Nat /\ DOMAIN factory.types = 1..Len(factory.types)
      /\ \A i \in 1..Len(factory.types) : factory.types[i] \in PartTypes
  BY DEF FactoryTypeOK
<1>3. last \in Nat /\ last <= Len(factory.types) /\ \A i \in 1..last : i \in DOMAIN factory.types /\ i \notin Fails
  <2>1. CASE Fails = {}
    BY <1>2, <2>1
  <2>2. CASE Fails # {}
    <3>1. Fails \in SUBSET Nat /\ Fails \in SUBSET (1..Len(factory.types))
      BY <1>2
    <3>2. Min(Fails) \in Fails /\ \A i \in Fails : Min(Fails) <= i
      <4> HIDE DEF Fails
      <4> QED
        BY <2>2, <3>1, MinOf
    <3>3. last = Min(Fails) - 1
      BY <2>2
    <3> HIDE DEF last, Fails
    <3>4. Min(Fails) \in 1..Len(factory.types)
      BY <3>1, <3>2
    <3>5. \A i \in 1..last : i < Min(Fails) /\ i \in 1..Len(factory.types)
      BY <1>2, <3>3, <3>4
    <3> QED
      BY <1>2, <3>2, <3>3, <3>4, <3>5
  <2> QED
    BY <2>1, <2>2
<1>4. ASSUME NEW i \in 1..last
      PROVE  /\ QuotePrice(SupplierOf(option(i)), option(i)) \in Int /\ factory.types[i] \in PartTypes
             /\ SupplierOf(option(i)) \in Suppliers /\ Sells(SupplierOf(option(i)), option(i))
  <2>1. Sells(SupplierOf(option(i)), option(i)) /\ factory.types[i] \in PartTypes
    BY <1>2, <1>3
  <2>2. SupplierOf(option(i)) \in Suppliers
    <3> DEFINE o == option(i)
               Named == {s \in Suppliers : factory.market[s].name = factory.market[Cheapest(o)].name}
    <3>1. Quotes(o) # {}
      BY <2>1 DEF CanCost
    <3>2. Cheapest(o) \in Suppliers
      BY <1>1, <3>1, CheapestIsLeast
    <3>3. Named # {} /\ Named \in SUBSET Nat
      BY <1>1, <3>2 DEF Marketed
    <3>4. Min(Named) \in Named
      <4> HIDE DEF Named
      <4> QED
        BY <3>3, MinOf
    <3> QED
      BY <3>4 DEF SupplierOf
  <2> QED
    BY <1>1, <2>1, <2>2 DEF Marketed
<1>5. Purchasable = [i \in 1..last |-> [type |-> factory.types[i], price |-> QuotePrice(SupplierOf(option(i)), option(i))]]
  BY DEF Purchasable
<1> HIDE DEF last
<1>6. Len(Purchasable) = last /\ DOMAIN Purchasable = 1..last
  BY <1>3, <1>5
<1>7. Purchasable \in Seq([type : PartTypes, price : Int])
  BY <1>3, <1>4, <1>5
<1> QED
  BY <1>3, <1>4, <1>5, <1>6, <1>7

\* From suppliers of different names all the parts are bought, at the cheapest.
LEMMA AllAreBought ==
  ASSUME FactoryTypeOK, CanCost, NamesAreDistinct
  PROVE  Purchasable = [i \in 1..Len(factory.types) |->
            [type |-> factory.types[i],
             price |-> QuotePrice(Cheapest(factory.order[factory.types[i]]), factory.order[factory.types[i]])]]
<1> DEFINE n == Len(factory.types)
           option(i) == factory.order[factory.types[i]]
           Fails == {i \in DOMAIN factory.types : ~Sells(SupplierOf(option(i)), option(i))}
<1>1. Marketed
  BY MarketsAreSold
<1>2. ASSUME NEW i \in DOMAIN factory.types
      PROVE  SupplierOf(option(i)) = Cheapest(option(i)) /\ Sells(Cheapest(option(i)), option(i))
  <2>1. factory.types[i] \in PartTypes
    BY DEF FactoryTypeOK, ToSet
  <2>2. Quotes(option(i)) # {}
    BY <2>1 DEF CanCost
  <2> QED
    BY <1>1, <2>2, CheapestIsLeast, TakenToTheCheapest
<1>3. Fails = {}
  BY <1>2
<1>4. n \in Nat /\ DOMAIN factory.types = 1..n
  BY DEF FactoryTypeOK
<1>5. Purchasable = [i \in 1..n |-> [type |-> factory.types[i],
                     price |-> QuotePrice(SupplierOf(option(i)), option(i))]]
  BY <1>3 DEF Purchasable
<1> QED
  BY <1>2, <1>4, <1>5

LEMMA CostsAreInts ==
  ASSUME FactoryTypeOK, NEW spread \in [PartTypes -> Suppliers],
         \A t \in PartTypes : Sells(spread[t], factory.order[t])
  PROVE  \A t \in PartTypes : QuotePrice(spread[t], factory.order[t]) \in Int
  BY MarketsAreSold DEF Marketed

\* Each part bought costs no less than it was costed at, and from suppliers of
\* different names no more.
LEMMA BoughtParts ==
  ASSUME FactoryInv, bought # <<>>
  PROVE  /\ Len(bought) <= Len(factory.types)
         /\ \A i \in DOMAIN bought :
               LET option == factory.order[factory.types[i]]
               IN  /\ bought[i].type = factory.types[i]
                   /\ bought[i].price >= QuotePrice(Cheapest(option), option)
                   /\ NamesAreDistinct => bought[i].price = QuotePrice(Cheapest(option), option)
<1>1. FactoryTypeOK /\ CanCost /\ Marketed
  BY MarketsAreSold DEF FactoryInv, Bought
<1>2. PICK parts \in Seq([type : PartTypes, price : Int]) : parts = Purchasable
  BY <1>1, PurchasableParts
<1>3. PICK n \in Nat : n <= Len(parts) /\ bought = SubSeq(parts, 1, n)
  BY <1>2 DEF FactoryInv, Bought
<1>4. Len(bought) = n /\ DOMAIN bought = 1..n /\ \A i \in 1..n : bought[i] = parts[i] /\ i \in DOMAIN parts
  BY <1>3
<1>5. Len(parts) <= Len(factory.types) /\ Len(factory.types) \in Nat
  BY <1>1, <1>2, PurchasableParts DEF FactoryTypeOK
<1>6. ASSUME NEW i \in DOMAIN bought, NEW option, option = factory.order[factory.types[i]]
      PROVE  /\ bought[i].type = factory.types[i]
             /\ bought[i].price >= QuotePrice(Cheapest(option), option)
             /\ NamesAreDistinct => bought[i].price = QuotePrice(Cheapest(option), option)
  <2>1. /\ bought[i].type = factory.types[i] /\ factory.types[i] \in PartTypes
        /\ SupplierOf(option) \in Suppliers /\ Sells(SupplierOf(option), option)
        /\ bought[i].price = QuotePrice(SupplierOf(option), option)
    BY <1>1, <1>2, <1>4, <1>6, PurchasableParts
  <2>2. Quotes(option) # {}
    BY <2>1 DEF Quotes
  <2>3. QuotePrice(Cheapest(option), option) <= QuotePrice(SupplierOf(option), option)
    BY <1>1, <2>1, <2>2, CheapestIsLeast
  <2>4. NamesAreDistinct => SupplierOf(option) = Cheapest(option)
    BY <1>1, <2>2, TakenToTheCheapest
  <2>5. /\ QuotePrice(SupplierOf(option), option) \in Int
        /\ QuotePrice(Cheapest(option), option) \in Int
    BY <1>1, <2>1, <2>2, CheapestIsLeast DEF Marketed
  <2> QED
    BY <2>1, <2>3, <2>4, <2>5
<1> QED
  BY <1>3, <1>4, <1>5, <1>6

\* No way of spreading the parts over the suppliers is cheaper than the cost.
LEMMA CostIsLeast ==
  ASSUME FactoryTypeOK, CanCost, NEW spread \in [PartTypes -> Suppliers],
         \A t \in PartTypes : Sells(spread[t], factory.order[t])
  PROVE  CostRobot <= CostAt(spread)
<1> DEFINE best == [t \in PartTypes |-> Cheapest(factory.order[t])]
           cost == [t \in PartTypes |-> QuotePrice(best[t], factory.order[t])]
           other == [t \in PartTypes |-> QuotePrice(spread[t], factory.order[t])]
<1>1. Marketed /\ IsFiniteSet(PartTypes)
  BY MarketsAreSold, FactoryAssumption
<1>2. \A t \in PartTypes : Cheapest(factory.order[t]) \in Suppliers /\ Sells(Cheapest(factory.order[t]), factory.order[t])
  BY <1>1, CheapestIsLeast DEF CanCost
<1>3. best \in [PartTypes -> Suppliers] /\ \A t \in PartTypes : Sells(best[t], factory.order[t])
  BY <1>2
<1>4. \A t \in PartTypes : QuotePrice(best[t], factory.order[t]) \in Int
  <2> HIDE DEF best
  <2> QED
    BY <1>3, CostsAreInts
<1>5. cost \in [PartTypes -> Int] /\ CostRobot = SumOver(cost, PartTypes)
  <2>1. CostRobot = CostAt(best)
    BY DEF CostRobot
  <2> HIDE DEF best
  <2> QED
    BY <1>4, <2>1, CostIsSum
<1>6. other \in [PartTypes -> Int] /\ CostAt(spread) = SumOver(other, PartTypes)
  BY CostsAreInts, CostIsSum
<1>7. \A t \in PartTypes : cost[t] <= other[t]
  <2>1. ASSUME NEW t \in PartTypes
        PROVE  QuotePrice(Cheapest(factory.order[t]), factory.order[t]) <= QuotePrice(spread[t], factory.order[t])
    <3>1. Quotes(factory.order[t]) # {} /\ spread[t] \in Suppliers /\ Sells(spread[t], factory.order[t])
      BY DEF CanCost
    <3> QED
      BY <1>1, <3>1, CheapestIsLeast
  <2> QED
    BY <2>1
<1> HIDE DEF best, cost, other
<1>8. SumOver(cost, PartTypes) <= SumOver(other, PartTypes)
  BY <1>1, <1>5, <1>6, <1>7, SumAtMost
<1> QED
  BY <1>5, <1>6, <1>8

LEMMA BoughtWhole ==
  ASSUME FactoryInv, bought # <<>>, NamesAreDistinct, ~refused
  PROVE  /\ {bought[i].type : i \in DOMAIN bought} = PartTypes
         /\ Len(bought) = Cardinality(PartTypes)
         /\ CostRobot = SumOfPrices(bought)
<1> DEFINE n == Len(factory.types)
           types == factory.types
           D == 1..n
           best == [t \in PartTypes |-> Cheapest(factory.order[t])]
           cost == [t \in PartTypes |-> QuotePrice(best[t], factory.order[t])]
           paid == [i \in DOMAIN bought |-> bought[i].price]
<1>1. /\ FactoryTypeOK /\ CanCost /\ Marketed
      /\ bought = [i \in D |-> [type |-> types[i],
             price |-> QuotePrice(Cheapest(factory.order[types[i]]), factory.order[types[i]])]]
  BY AllAreBought, MarketsAreSold DEF FactoryInv, Bought
<1>2. /\ n \in Nat /\ types \in [D -> PartTypes] /\ DOMAIN types = D
      /\ \A i, j \in D : types[i] = types[j] => i = j
      /\ \A t \in PartTypes : \E i \in D : types[i] = t
  <2>1. types \in Seq(PartTypes) /\ IsInjective(types) /\ ToSet(types) = PartTypes
    BY <1>1 DEF FactoryTypeOK, CanCost, Validates
  <2>2. n \in Nat /\ types \in [D -> PartTypes] /\ DOMAIN types = D
    BY <2>1
  <2> HIDE DEF n, types, D
  <2> QED
    BY <2>1, <2>2 DEF IsInjective, ToSet
<1>3. IsFiniteSet(D) /\ IsFiniteSet(PartTypes)
  BY <1>2, FS_Interval, FactoryAssumption
<1>4. /\ DOMAIN bought = D
      /\ \A i \in D : /\ bought[i].type = types[i]
                      /\ bought[i].price = QuotePrice(Cheapest(factory.order[types[i]]), factory.order[types[i]])
  BY <1>1
<1>5. \A t \in PartTypes : Cheapest(factory.order[t]) \in Suppliers /\ Sells(Cheapest(factory.order[t]), factory.order[t])
  BY <1>1, CheapestIsLeast DEF CanCost
<1> HIDE DEF types, n, D
<1>6. best \in [PartTypes -> Suppliers] /\ \A t \in PartTypes : Sells(best[t], factory.order[t])
  BY <1>5
<1>7. \A t \in PartTypes : QuotePrice(best[t], factory.order[t]) \in Int
  <2> HIDE DEF best
  <2> QED
    BY <1>1, <1>6, CostsAreInts
<1>8. cost \in [PartTypes -> Int] /\ CostRobot = SumOver(cost, PartTypes)
  <2>1. CostRobot = CostAt(best)
    BY DEF CostRobot
  <2> HIDE DEF best
  <2> QED
    BY <1>7, <2>1, CostIsSum
<1>9. \A i \in D : bought[i].price = cost[types[i]] /\ bought[i].price \in Int
  BY <1>2, <1>4, <1>7
<1>10. paid \in [D -> Int] /\ SumOfPrices(bought) = SumOver(paid, D)
  BY <1>3, <1>4, <1>9, PricesSum
<1>11. \A i \in D : paid[i] = cost[types[i]]
  BY <1>4, <1>9
<1>12. CostRobot = SumOfPrices(bought)
  <2> HIDE DEF paid, cost
  <2>1. SumOver(paid, D) = SumOver(cost, PartTypes)
    BY <1>2, <1>3, <1>8, <1>10, <1>11, SumReindexed
  <2> QED
    BY <1>8, <1>10, <2>1
<1>13. {bought[i].type : i \in DOMAIN bought} = PartTypes
  BY <1>2, <1>4
<1>14. Len(bought) = Cardinality(PartTypes)
  <2>1. Cardinality(D) = n
    BY <1>2, FS_Interval DEF D
  <2>2. types \in Bijection(D, PartTypes)
    BY <1>2 DEF Bijection, Injection, Surjection, IsInjective
  <2>3. Cardinality(D) = Cardinality(PartTypes)
    <3>1. ExistsBijection(D, PartTypes)
      BY <2>2 DEF ExistsBijection
    <3> QED
      BY <1>3, <3>1, FS_Bijection
  <2>4. Len(bought) = n
    BY <1>1, <1>2 DEF D
  <2> QED
    BY <2>1, <2>3, <2>4
<1> HIDE DEF best, cost, paid
<1> QED
  BY <1>12, <1>13, <1>14

LEMMA BoughtRight == FactoryInv => BoughtAsCosted
<1> SUFFICES ASSUME FactoryInv, bought # <<>> PROVE BoughtAsCosted
  BY DEF BoughtAsCosted
<1>1. \A spread \in [PartTypes -> Suppliers] :
         (\A t \in PartTypes : Sells(spread[t], factory.order[t])) => CostRobot <= CostAt(spread)
  BY CostIsLeast DEF FactoryInv, Bought
<1> QED
  BY <1>1, BoughtParts, BoughtWhole DEF BoughtAsCosted

LEMMA FactoryStarts == FactoryInit => FactoryInv
<1> SUFFICES ASSUME FactoryInit PROVE FactoryInv
  OBVIOUS
<1>1. PICK m \in Markets : factory = [market |-> m, order |-> <<>>, types |-> <<>>]
  BY DEF FactoryInit
<1>2. bought = <<>> /\ factory.market = m /\ factory.order = <<>> /\ factory.types = <<>>
  BY <1>1 DEF FactoryInit
<1>3. DOMAIN factory.order = {} /\ factory.types \in Seq(PartTypes) /\ DOMAIN factory.types = {}
  BY <1>2
<1>4. bought \in Seq([type : PartTypes, price : Int]) /\ refused \in BOOLEAN
  <2>1. bought \in Seq([type : PartTypes, price : Int])
    BY <1>2
  <2>2. refused \in BOOLEAN
    BY Zenon DEF FactoryInit
  <2> QED
    BY <2>1, <2>2
<1> QED
  BY <1>2, <1>3, <1>4 DEF FactoryInv, FactoryTypeOK, ToSet, IsInjective

\* The first elements of a sequence are a sequence of the same kind.
LEMMA FirstPart ==
  ASSUME NEW S, NEW s \in Seq(S), NEW n \in Nat, n <= Len(s)
  PROVE  SubSeq(s, 1, n) \in Seq(S)
<1>1. 1 \in Int /\ n \in Int /\ \A i \in 1..n : s[i] \in S
  OBVIOUS
<1> QED
  BY <1>1, SubSeqProperties

LEMMA FactoryMoves == FactoryInv /\ [FactoryNext]_factoryVars => FactoryInv'
<1> SUFFICES ASSUME FactoryInv, [FactoryNext]_factoryVars PROVE FactoryInv'
  OBVIOUS
<1>0. FactoryTypeOK
  BY DEF FactoryInv
<1>1. ASSUME NEW t \in PartTypes, NEW option \in Options[t], Configure(t, option)
      PROVE  FactoryInv'
  <2>1. /\ factory'.market = factory.market
        /\ factory'.order = [part \in DOMAIN factory.order \cup {t} |-> IF part = t THEN option ELSE factory.order[part]]
        /\ factory'.types = IF Contains(factory.types, t) THEN factory.types ELSE Append(factory.types, t)
        /\ bought' = <<>>
    BY <1>1 DEF Configure
  <2>2. /\ DOMAIN factory'.order = DOMAIN factory.order \cup {t}
        /\ \A u \in DOMAIN factory'.order : factory'.order[u] \in Options[u]
    BY <1>0, <2>1 DEF FactoryTypeOK
  <2>3. /\ factory'.types \in Seq(PartTypes) /\ IsInjective(factory'.types)
        /\ ToSet(factory'.types) = ToSet(factory.types) \cup {t}
    <3>1. PICK types \in Seq(PartTypes) : types = factory.types
      BY <1>0 DEF FactoryTypeOK
    <3>2. /\ Len(types) \in Nat /\ DOMAIN types = 1..Len(types)
          /\ \A i, j \in DOMAIN types : types[i] = types[j] => i = j
      BY <1>0, <3>1 DEF FactoryTypeOK, IsInjective
    <3>3. CASE Contains(types, t)
      <4>1. t \in ToSet(types)
        BY <3>2, <3>3 DEF Contains, ToSet
      <4>2. factory'.types = types
        BY <2>1, <3>1, <3>3
      <4>3. IsInjective(types)
        BY <3>2 DEF IsInjective
      <4> QED
        BY <3>1, <4>1, <4>2, <4>3
    <3>4. CASE ~Contains(types, t)
      <4>1. PICK more : more = Append(types, t)
        OBVIOUS
      <4>2. /\ more \in Seq(PartTypes) /\ DOMAIN more = 1..(Len(types) + 1)
            /\ more[Len(types) + 1] = t /\ \A i \in 1..Len(types) : more[i] = types[i]
        BY <4>1
      <4>3. \A i \in 1..Len(types) : types[i] # t
        BY <3>4 DEF Contains
      <4>4. 1..(Len(types) + 1) = 1..Len(types) \cup {Len(types) + 1}
        BY <3>2
      <4>5. IsInjective(more)
        BY <3>2, <4>2, <4>3, <4>4 DEF IsInjective
      <4>6. ToSet(more) = ToSet(types) \cup {t}
        BY <3>2, <4>2, <4>4 DEF ToSet
      <4>7. factory'.types = more
        BY <2>1, <3>1, <3>4, <4>1
      <4> QED
        BY <3>1, <4>2, <4>5, <4>6, <4>7
    <3> QED
      BY <3>3, <3>4
  <2>4. bought' \in Seq([type : PartTypes, price : Int]) /\ refused' \in BOOLEAN
    <3>1. bought' \in Seq([type : PartTypes, price : Int])
      BY <2>1
    <3>2. refused' \in BOOLEAN
      BY <1>1, Zenon DEF Configure
    <3> QED
      BY <3>1, <3>2
  <2> QED
    BY <1>0, <2>1, <2>2, <2>3, <2>4 DEF FactoryInv, FactoryTypeOK
<1>2. ASSUME factory' = factory
      PROVE  CanCost' = CanCost /\ Purchasable' = Purchasable
  BY <1>2 DEF CanCost, Purchasable, Validates, Quotes, Suppliers, Sells, SupplierOf, Cheapest, QuotePrice
<1>3. CASE PurchaseRobot
  <2>1. CanCost /\ factory' = factory
    BY <1>3 DEF PurchaseRobot
  <2>2. PICK parts \in Seq([type : PartTypes, price : Int]) : parts = Purchasable
    BY <1>0, <2>1, PurchasableParts
  <2>3. \/ bought' = parts /\ refused' = FALSE
        \/ \E k \in DOMAIN parts : bought' = SubSeq(parts, 1, k - 1) /\ refused' = TRUE
    BY <1>3, <2>2 DEF PurchaseRobot
  <2>7. refused' \in BOOLEAN /\ (~refused' => bought' = parts)
    BY <2>3, Zenon
  <2>8. bought' = parts \/ \E k \in DOMAIN parts : bought' = SubSeq(parts, 1, k - 1)
    BY <2>3, Zenon
  <2>9. PICK n \in Nat : n <= Len(parts) /\ bought' = SubSeq(parts, 1, n)
    <3>1. CASE bought' = parts
      <4>1. Len(parts) \in Nat /\ Len(parts) <= Len(parts)
        OBVIOUS
      <4>2. SubSeq(parts, 1, Len(parts)) = parts
        BY SubSeqFull
      <4> QED
        BY <3>1, <4>1, <4>2, Zenon
    <3>2. CASE \E k \in DOMAIN parts : bought' = SubSeq(parts, 1, k - 1)
      <4>1. PICK k \in DOMAIN parts : bought' = SubSeq(parts, 1, k - 1)
        BY <3>2
      <4>2. k - 1 \in Nat /\ k - 1 <= Len(parts)
        OBVIOUS
      <4> QED
        BY <4>1, <4>2
    <3> QED
      BY <2>8, <3>1, <3>2
  <2>4. bought' \in Seq([type : PartTypes, price : Int])
    BY <2>9, FirstPart
  <2>5. FactoryTypeOK'
    BY <1>0, <2>1, <2>4, <2>7 DEF FactoryTypeOK
  <2>6. Bought'
    BY <1>2, <2>1, <2>2, <2>7, <2>9 DEF Bought
  <2> QED
    BY <2>5, <2>6 DEF FactoryInv
<1>4. CASE UNCHANGED factoryVars
  <2>1. factory' = factory /\ bought' = bought /\ refused' = refused
    BY <1>4 DEF factoryVars
  <2>2. Bought => Bought'
    BY <1>2, <2>1 DEF Bought
  <2> QED
    BY <2>1, <2>2 DEF FactoryInv, FactoryTypeOK
<1> QED
  BY <1>1, <1>3, <1>4 DEF FactoryNext

\* A purchase buys the first parts of the order, none for less than it was costed
\* at, and no way of spreading the parts is cheaper than that; from suppliers of
\* different names each costs what it was costed at, and a purchase nobody goes
\* back on is whole (factory.py:17-49).
THEOREM RobotsStayCosted == FactorySpec => []BoughtAsCosted
<1>1. FactoryInv => BoughtAsCosted
  BY BoughtRight
<1> QED
  BY <1>1, FactoryStarts, FactoryMoves, PTL DEF FactorySpec

-----------------------------------------------------------------------------
(* ClamCard: the fares of a zone grow to its cap and stay there.           *)

Rides == [from : DOMAIN Stations, to : DOMAIN Stations, zone : Zones, fare : Nat]

LEMMA FaresAreSum ==
  ASSUME NEW rides \in Seq(Rides)
  PROVE  SumOfFares(rides) = SumOver([i \in DOMAIN rides |-> rides[i].fare], DOMAIN rides)
<1> DEFINE D == DOMAIN rides
           v == [i \in D |-> rides[i].fare]
           Loop(f) == f = [s \in SUBSET D |-> IF s = {} THEN 0 ELSE rides[Some(s)].fare + f[s \ {Some(s)}]]
<1>1. SumOfFares(rides) = (CHOOSE f : Loop(f))[D]
  BY DEF SumOfFares, MapThenSumSet, MapThenFoldSet, Some
<1>2. IsFiniteSet(D) /\ v \in [D -> Int]
  <2>1. D = 1..Len(rides) /\ Len(rides) \in Nat /\ \A i \in 1..Len(rides) : rides[i] \in Rides
    OBVIOUS
  <2>2. IsFiniteSet(D)
    BY <2>1, FS_Interval
  <2>3. \A i \in D : rides[i].fare \in Int
    BY <2>1 DEF Rides
  <2> QED
    BY <2>2, <2>3
<1>3. ASSUME NEW s \in SUBSET D, s # {}
      PROVE  v[Some(s)] = rides[Some(s)].fare
  BY <1>3, SomeIn
<1> HIDE DEF v, D
<1>4. ASSUME NEW f
      PROVE  Loop(f) <=> IsSums(f, v, D)
  BY <1>3 DEF IsSums
<1> HIDE DEF Loop
<1>5. (CHOOSE f : Loop(f)) = SumTable(v, D)
  BY <1>2, <1>4, SumsTable, SumsUnique
<1> QED
  BY <1>1, <1>5 DEF SumOver, v, D

\* The fare for one more ride, of a zone that was charged for m.
NextFare(single, cap, m, c, fare) ==
    /\ (single = 5 /\ cap = 14) \/ (single = 6 /\ cap = 16)
    /\ m \in Nat /\ c = Min({cap, single * m}) /\ fare = Max({0, Min({single, cap - c})})

ToTheCap(single, cap, m, c, fare) ==
    /\ fare \in Nat /\ c + fare = Min({cap, single * (m + 1)})
    /\ m + 1 <= cap \div single => fare = single
    /\ m + 1 > cap \div single + 1 => fare = 0

\* A fare brings what is charged up to the cap and not beyond.
LEMMA FareToCap ==
  ASSUME NEW single, NEW cap, NEW m, NEW c, NEW fare, NextFare(single, cap, m, c, fare)
  PROVE  ToTheCap(single, cap, m, c, fare)
<1>0. /\ (single = 5 /\ cap = 14) \/ (single = 6 /\ cap = 16)
      /\ m \in Nat /\ c = Min({cap, single * m}) /\ fare = Max({0, Min({single, cap - c})})
  BY DEF NextFare
<1>1. cap \div single = 2 /\ single * m \in Int /\ single * (m + 1) \in Int /\ cap \in Int /\ single \in Int
  <2>1. 14 \div 5 = 2 /\ 16 \div 6 = 2
    OBVIOUS
  <2> QED
    BY <1>0, <2>1
<1>2. c = IF cap <= single * m THEN cap ELSE single * m
  BY <1>0, <1>1, MinOfTwo
<1>3. c \in Int /\ cap - c \in Int
  BY <1>0, <1>1, <1>2
<1>4. Min({single, cap - c}) = IF single <= cap - c THEN single ELSE cap - c
  BY <1>1, <1>3, MinOfTwo
<1>5. PICK x \in Int : x = Min({single, cap - c})
  BY <1>1, <1>3, <1>4
<1>6. fare = IF 0 >= x THEN 0 ELSE x
  <2>1. PICK zero \in Int : zero = 0
    OBVIOUS
  <2>2. Max({zero, x}) = IF zero >= x THEN zero ELSE x
    BY MaxOfTwo
  <2> QED
    BY <1>0, <1>5, <2>1, <2>2
<1>7. Min({cap, single * (m + 1)}) = IF cap <= single * (m + 1) THEN cap ELSE single * (m + 1)
  BY <1>0, <1>1, MinOfTwo
<1>8. CASE single = 5 /\ cap = 14
  <2>1. c = (IF 14 <= 5 * m THEN 14 ELSE 5 * m) /\ x = IF 5 <= 14 - c THEN 5 ELSE 14 - c
    BY <1>2, <1>4, <1>5, <1>8
  <2>2. /\ c + fare = (IF 14 <= 5 * (m + 1) THEN 14 ELSE 5 * (m + 1)) /\ fare \in Nat
        /\ (m + 1 <= 2 => fare = 5) /\ (m + 1 > 2 + 1 => fare = 0)
    BY <1>0, <1>6, <2>1
  <2> QED
    BY <1>1, <1>7, <1>8, <2>2 DEF ToTheCap
<1>9. CASE single = 6 /\ cap = 16
  <2>1. c = (IF 16 <= 6 * m THEN 16 ELSE 6 * m) /\ x = IF 6 <= 16 - c THEN 6 ELSE 16 - c
    BY <1>2, <1>4, <1>5, <1>9
  <2>2. /\ c + fare = (IF 16 <= 6 * (m + 1) THEN 16 ELSE 6 * (m + 1)) /\ fare \in Nat
        /\ (m + 1 <= 2 => fare = 6) /\ (m + 1 > 2 + 1 => fare = 0)
    BY <1>0, <1>6, <2>1
  <2> QED
    BY <1>1, <1>7, <1>9, <2>2 DEF ToTheCap
<1> QED
  BY <1>0, <1>8, <1>9

\* How many rides of a zone there were, counted as one more is added.
LEMMA RidesCounted ==
  ASSUME CardTypeOK, NEW zone \in Zones, NEW n \in 0..Len(card.rides)
  PROVE  /\ IsFiniteSet(RidesIn(zone, n)) /\ Cardinality(RidesIn(zone, n)) \in Nat
         /\ n = 0 => Cardinality(RidesIn(zone, n)) = 0
<1>1. Len(card.rides) \in Nat
  BY DEF CardTypeOK
<1>2. IsFiniteSet(1..n) /\ RidesIn(zone, n) \in SUBSET (1..n)
  BY <1>1, FS_Interval DEF RidesIn
<1>3. IsFiniteSet(RidesIn(zone, n))
  BY <1>2, FS_Subset
<1>4. n = 0 => RidesIn(zone, n) = {}
  BY DEF RidesIn
<1> QED
  BY <1>3, <1>4, FS_CardinalityType, FS_EmptySet

CardInv == CardTypeOK /\ CapsHold

LEMMA CardStarts == CardInit => CardInv
<1> SUFFICES ASSUME CardInit PROVE CardInv
  OBVIOUS
<1>1. card.rides = <<>> /\ card.charged = [zone \in Zones |-> 0] /\ begun = {}
  BY DEF CardInit
<1>2. CardTypeOK
  BY <1>1 DEF CardTypeOK
<1>3. Len(card.rides) = 0 /\ DOMAIN card.rides = {}
  BY <1>1
<1>4. ASSUME NEW zone \in Zones
      PROVE  /\ RidesIn(zone, Len(card.rides)) = {}
             /\ card.charged[zone] = Min({DailyCap[zone], SingleFare[zone] * Cardinality(RidesIn(zone, Len(card.rides)))})
  <2>1. RidesIn(zone, Len(card.rides)) = {}
    BY <1>3 DEF RidesIn
  <2>2. Cardinality(RidesIn(zone, Len(card.rides))) = 0
    BY <2>1, FS_EmptySet
  <2>3. DailyCap[zone] \in Nat /\ SingleFare[zone] * 0 = 0
    BY DEF DailyCap, SingleFare, Zones
  <2> QED
    BY <1>1, <2>1, <2>2, <2>3, MinOfTwo
<1>5. TotalCharged = SumOfFares(card.rides)
  <2>1. TotalCharged = 0
    BY <1>1 DEF TotalCharged, Zones
  <2>2. SumOver([i \in DOMAIN card.rides |-> card.rides[i].fare], DOMAIN card.rides) = 0
    <3>1. PICK v : v = [i \in DOMAIN card.rides |-> card.rides[i].fare]
      OBVIOUS
    <3>2. v \in [{} -> Int]
      BY <1>3, <3>1
    <3> QED
      BY <1>3, <3>1, <3>2, SumEmpty
  <2>3. QED
    <3>1. card.rides \in Seq(Rides)
      BY <1>1
    <3> QED
      BY <2>1, <2>2, <3>1, FaresAreSum
<1> QED
  BY <1>2, <1>3, <1>4, <1>5 DEF CardInv, CapsHold

LEMMA CardMoves == CardInv /\ [CardNext]_cardVars => CardInv'
<1> SUFFICES ASSUME CardInv, [CardNext]_cardVars PROVE CardInv'
  OBVIOUS
<1>0. CardTypeOK /\ CapsHold
  BY DEF CardInv
<1>9. PICK n \in Nat : n = Len(card.rides)
  BY <1>0 DEF CardTypeOK
<1>1. n \in Nat /\ DOMAIN card.rides = 1..n /\ \A i \in 1..n : card.rides[i] \in Rides
  <2>1. card.rides \in Seq(Rides)
    BY <1>0 DEF CardTypeOK, Rides
  <2> QED
    BY <1>9, <2>1
<1>2. CASE UNCHANGED card
  <2>1. begun' \subseteq DOMAIN Stations
    BY <1>0, <1>2 DEF CardNext, TravelFrom, CompleteJourney, cardVars, IsKnown, CardTypeOK
  <2>2. CardTypeOK'
    BY <1>0, <1>2, <2>1 DEF CardTypeOK
  <2>3. CapsHold'
    BY <1>0, <1>2 DEF CapsHold, RidesIn, TotalCharged
  <2> QED
    BY <2>2, <2>3 DEF CardInv
<1>3. ASSUME NEW from \in begun, NEW to, CompleteJourney(from, to)
      PROVE  CardInv'
  <2> DEFINE z == JourneyZone(from, to)
             fare == Fare(z)
             ride == [from |-> from, to |-> to, zone |-> z, fare |-> fare]
             m == Cardinality(RidesIn(z, n))
  <2>1. /\ from \in DOMAIN Stations /\ to \in DOMAIN Stations /\ z \in Zones
        /\ card' = [rides |-> Append(card.rides, ride), charged |-> [card.charged EXCEPT ![z] = @ + fare]]
        /\ begun' = begun
    BY <1>0, <1>3 DEF CompleteJourney, CardTypeOK, IsKnown, JourneyZone, Zones
  <2>2. z = "A" <=> Stations[from] = "A" /\ Stations[to] = "A"
    <3>1. Stations[from] \in Zones /\ Stations[to] \in Zones
      BY <2>1, CardAssumption
    <3> QED
      BY <3>1 DEF JourneyZone, Zones
  <2>3. m \in Nat /\ IsFiniteSet(RidesIn(z, n)) /\ card.charged[z] = Min({DailyCap[z], SingleFare[z] * m})
    <3>1. n \in 0..Len(card.rides)
      BY <1>9
    <3>2. m \in Nat /\ IsFiniteSet(RidesIn(z, n))
      BY <1>0, <2>1, <3>1, RidesCounted
    <3> QED
      BY <1>0, <1>9, <2>1, <3>2 DEF CapsHold
  <2> HIDE DEF z
  <2>4. /\ fare \in Nat
        /\ card.charged[z] + fare = Min({DailyCap[z], SingleFare[z] * (m + 1)})
        /\ m + 1 <= DailyCap[z] \div SingleFare[z] => fare = SingleFare[z]
        /\ m + 1 > DailyCap[z] \div SingleFare[z] + 1 => fare = 0
    <3>1. /\ (SingleFare[z] = 5 /\ DailyCap[z] = 14) \/ (SingleFare[z] = 6 /\ DailyCap[z] = 16)
          /\ fare = Max({0, Min({SingleFare[z], DailyCap[z] - card.charged[z]})})
      BY <2>1 DEF SingleFare, DailyCap, Zones, Fare
    <3> HIDE DEF fare, m
    <3>2. NextFare(SingleFare[z], DailyCap[z], m, card.charged[z], fare)
      BY <2>3, <3>1 DEF NextFare
    <3>3. ToTheCap(SingleFare[z], DailyCap[z], m, card.charged[z], fare)
      BY <3>2, FareToCap
    <3> QED
      BY <3>3 DEF ToTheCap
  <2> HIDE DEF fare, m
  <2>5. /\ card.rides \in Seq(Rides) /\ ride \in Rides
        /\ card'.rides = Append(card.rides, ride)
        /\ card.charged \in [Zones -> Nat]
        /\ card'.charged = [card.charged EXCEPT ![z] = @ + fare]
    <3>1. card.rides \in Seq(Rides) /\ card.charged \in [Zones -> Nat]
      BY <1>0 DEF CardTypeOK, Rides
    <3>2. ride \in Rides
      BY <2>1, <2>4 DEF Rides
    <3>3. card'.rides = Append(card.rides, ride) /\ card'.charged = [card.charged EXCEPT ![z] = @ + fare]
      BY <2>1, Zenon
    <3> QED
      BY <3>1, <3>2, <3>3
  <2> HIDE DEF ride
  <2>6. CardTypeOK'
    BY <1>0, <2>1, <2>4, <2>5 DEF CardTypeOK, Rides
  <2>7. /\ Len(card'.rides) = n + 1 /\ DOMAIN card'.rides = 1..(n + 1) /\ card'.rides[n + 1] = ride
        /\ \A i \in 1..n : card'.rides[i] = card.rides[i]
    BY <1>9, <2>5
  <2>8. ride.zone = z /\ ride.fare = fare /\ ride.from = from /\ ride.to = to
    BY DEF ride
  <2>9. ASSUME NEW zone \in Zones, NEW i \in 1..n
        PROVE  RidesIn(zone, i)' = RidesIn(zone, i)
    <3>1. 1..i \subseteq 1..n
      BY <1>1
    <3> QED
      BY <2>7, <3>1 DEF RidesIn
  <2>10. ASSUME NEW zone \in Zones
         PROVE  RidesIn(zone, n + 1)' = IF zone = z THEN RidesIn(zone, n) \cup {n + 1} ELSE RidesIn(zone, n)
    <3>1. 1..(n + 1) = 1..n \cup {n + 1}
      BY <1>1
    <3> QED
      BY <2>7, <2>8, <3>1 DEF RidesIn
  <2>11. /\ Cardinality(RidesIn(z, n + 1)') = m + 1
         /\ RidesIn(z, n + 1)' = RidesIn(z, n) \cup {n + 1}
    <3>1. n + 1 \notin RidesIn(z, n)
      BY <1>1 DEF RidesIn
    <3> QED
      BY <2>1, <2>3, <2>10, <3>1, FS_AddElement DEF m
  <2>12. ASSUME NEW zone \in Zones
         PROVE  /\ card'.charged[zone] = Min({DailyCap[zone], SingleFare[zone] * Cardinality(RidesIn(zone, n + 1)')})
                /\ \A i \in RidesIn(zone, n + 1)' :
                      /\ Cardinality(RidesIn(zone, i)') <= DailyCap[zone] \div SingleFare[zone]
                            => card'.rides[i].fare = SingleFare[zone]
                      /\ Cardinality(RidesIn(zone, i)') > DailyCap[zone] \div SingleFare[zone] + 1
                            => card'.rides[i].fare = 0
    <3>1. /\ card.charged[zone] = Min({DailyCap[zone], SingleFare[zone] * Cardinality(RidesIn(zone, n))})
          /\ \A i \in RidesIn(zone, n) :
                /\ Cardinality(RidesIn(zone, i)) <= DailyCap[zone] \div SingleFare[zone]
                      => card.rides[i].fare = SingleFare[zone]
                /\ Cardinality(RidesIn(zone, i)) > DailyCap[zone] \div SingleFare[zone] + 1
                      => card.rides[i].fare = 0
      BY <1>0, <1>9 DEF CapsHold
    <3>2. ASSUME NEW i \in RidesIn(zone, n)
          PROVE  RidesIn(zone, i)' = RidesIn(zone, i) /\ card'.rides[i] = card.rides[i]
      <4>1. i \in 1..n
        BY DEF RidesIn
      <4> QED
        BY <2>7, <2>9, <4>1
    <3>3. CASE zone # z
      <4>1. card'.charged[zone] = card.charged[zone]
        BY <2>5, <3>3
      <4>2. RidesIn(zone, n + 1)' = RidesIn(zone, n)
        BY <2>10, <3>3
      <4> QED
        BY <3>1, <3>2, <4>1, <4>2
    <3>4. CASE zone = z
      <4>1. card'.charged[z] = card.charged[z] + fare
        BY <2>1, <2>5
      <4>2. card'.rides[n + 1].fare = fare /\ Cardinality(RidesIn(zone, n + 1)') = m + 1
        BY <2>7, <2>8, <2>11, <3>4
      <4>3. \A i \in RidesIn(zone, n + 1)' : i = n + 1 \/ i \in RidesIn(zone, n)
        BY <2>11, <3>4
      <4>4. card'.charged[zone] = Min({DailyCap[zone], SingleFare[zone] * Cardinality(RidesIn(zone, n + 1)')})
        BY <2>4, <3>4, <4>1, <4>2
      <4>5. ASSUME NEW i \in RidesIn(zone, n + 1)'
            PROVE  /\ Cardinality(RidesIn(zone, i)') <= DailyCap[zone] \div SingleFare[zone]
                        => card'.rides[i].fare = SingleFare[zone]
                   /\ Cardinality(RidesIn(zone, i)') > DailyCap[zone] \div SingleFare[zone] + 1
                        => card'.rides[i].fare = 0
        <5>1. CASE i = n + 1
          BY <2>4, <3>4, <4>2, <5>1
        <5>2. CASE i \in RidesIn(zone, n)
          BY <3>1, <3>2, <5>2
        <5> QED
          BY <4>3, <5>1, <5>2
      <4> QED
        BY <4>4, <4>5
    <3> QED
      BY <3>3, <3>4
  <2>13. \A i \in DOMAIN card'.rides :
            card'.rides[i].zone = "A" <=> Stations[card'.rides[i].from] = "A" /\ Stations[card'.rides[i].to] = "A"
    <3>1. \A i \in 1..n : card.rides[i].zone = "A" <=> Stations[card.rides[i].from] = "A" /\ Stations[card.rides[i].to] = "A"
      BY <1>0, <1>1 DEF CapsHold
    <3>2. \A i \in 1..(n + 1) : i = n + 1 \/ i \in 1..n
      BY <1>1
    <3> QED
      BY <2>2, <2>7, <2>8, <3>1, <3>2
  <2>14. TotalCharged' = SumOfFares(card'.rides)
    <3> DEFINE v == [i \in DOMAIN card.rides |-> card.rides[i].fare]
               w == [i \in DOMAIN card'.rides |-> card'.rides[i].fare]
    <3>1. TotalCharged = SumOver(v, 1..n)
      BY <1>0, <1>1, <2>5, FaresAreSum DEF CapsHold
    <3>2. SumOfFares(card'.rides) = SumOver(w, 1..(n + 1))
      <4>1. card'.rides \in Seq(Rides)
        BY <2>5
      <4> QED
        BY <2>7, <4>1, FaresAreSum
    <3>3. TotalCharged' = TotalCharged + fare
      BY <2>1, <2>4, <2>5 DEF TotalCharged, Zones
    <3>4. /\ IsFiniteSet(1..(n + 1)) /\ n + 1 \in 1..(n + 1) /\ (1..(n + 1)) \ {n + 1} = 1..n
      BY <1>1, FS_Interval
    <3>5. v \in [1..n -> Int] /\ w \in [1..(n + 1) -> Int]
      <4>1. \A i \in 1..n : card.rides[i].fare \in Int
        BY <1>1 DEF Rides
      <4>2. \A i \in 1..(n + 1) : card'.rides[i].fare \in Int
        <5>1. \A i \in 1..(n + 1) : i = n + 1 \/ i \in 1..n
          BY <1>1
        <5> QED
          BY <2>4, <2>7, <2>8, <4>1, <5>1
      <4> QED
        BY <1>1, <2>7, <4>1, <4>2
    <3>6. w[n + 1] = fare /\ \A i \in 1..n : w[i] = v[i]
      <4>1. w[n + 1] = card'.rides[n + 1].fare
        BY <1>1, <2>7
      <4>2. ASSUME NEW i \in 1..n PROVE w[i] = card'.rides[i].fare /\ v[i] = card.rides[i].fare
        BY <1>1, <2>7
      <4> QED
        BY <2>7, <2>8, <4>1, <4>2
    <3> HIDE DEF v, w
    <3>7. SumOver(w, 1..(n + 1)) = w[n + 1] + SumOver(v, 1..n)
      BY <3>4, <3>5, <3>6, SumMore
    <3>8. SumOver(v, 1..n) \in Int
      <4>1. IsFiniteSet(1..n)
        BY <1>1, FS_Interval
      <4> QED
        BY <3>5, <4>1, SumType
    <3> QED
      BY <2>4, <3>1, <3>2, <3>3, <3>6, <3>7, <3>8
  <2>15. CapsHold'
    BY <2>7, <2>12, <2>13, <2>14 DEF CapsHold
  <2> QED
    BY <2>6, <2>15 DEF CardInv
<1>4. ASSUME NEW place, TravelFrom(place)
      PROVE  UNCHANGED card
  BY <1>4 DEF TravelFrom
<1> QED
  BY <1>2, <1>3, <1>4 DEF CardNext, cardVars

\* Each zone is charged up to its cap, whatever the network, however many rides
\* there are and however they overlap (card.py:50-86).
THEOREM RidesStayCapped == CardSpec => []CapsHold
<1>1. CardInv => CapsHold
  BY DEF CardInv
<1> QED
  BY <1>1, CardStarts, CardMoves, PTL DEF CardSpec

-----------------------------------------------------------------------------
\* Whatever is bought, parked or ridden is charged rightly, all at once.
THEOREM ChargesStayRight == ChargesSpec => []ChargedRightly
<1>1. FewestHours /\ ChargedAsAsked /\ SoldOnce /\ GoodsAreCharged /\ BoughtAsCosted /\ CapsHold
        => ChargedRightly
  BY DEF ChargedRightly
<1> QED
  BY <1>1, StaysBilledExactly, CartsStayCharged, UnitsStaySold, GoodsStayCharged, RobotsStayCosted,
     RidesStayCapped, PTL DEF ChargesSpec
=============================================================================
