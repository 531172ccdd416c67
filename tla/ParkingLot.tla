------------------------------ MODULE ParkingLot -----------------------------
(***************************************************************************)
(* Lot of parking-lot: the free spots of each type and the tickets of the  *)
(* vehicles inside, kept by license plate. Tickets are values: a driver    *)
(* may hand in any one he was ever given, also one already paid, and the   *)
(* same plate may come back as another type of vehicle.                    *)
(*                                                                         *)
(* A call that raises is a step that is not enabled. Left out: the rates,  *)
(* which only multiply the hours.                                          *)
(***************************************************************************)
EXTENDS Integers, SequencesExt

CONSTANTS
    Plates,
    MotorcycleSpots, CompactSpots, LargeSpots,
    Hour,           \* units of the clock in an hour
    MaxClock,         \* bound: the last time on the clock
    MaxTickets      \* bound: different tickets issued

ASSUME LotAssumption ==
    /\ MotorcycleSpots \in Nat /\ CompactSpots \in Nat /\ LargeSpots \in Nat
    /\ MotorcycleSpots + CompactSpots + LargeSpots > 0
    /\ Hour \in Nat \ {0} /\ MaxClock \in Nat /\ MaxTickets \in Nat

VARIABLES
    available,  \* free spots of each type
    active,     \* the ticket of each plate inside
    issued,     \* history: every ticket handed out
    clock,
    billed      \* history: the last stay and the hours billed for it

lotVars == <<available, active, issued, clock, billed>>

SpotTypes == {"motorcycle", "compact", "large"}
VehicleTypes == {"motorcycle", "car", "bus"}
Vehicle == [type : VehicleTypes, plate : Plates]
Ticket == [vehicle : Vehicle, spot : SpotTypes, entry : 0..MaxClock]
Outside == [spot |-> "outside"]

Capacity ==
    [motorcycle |-> MotorcycleSpots, compact |-> CompactSpots, large |-> LargeSpots]

Preference(type) ==
    CASE type = "motorcycle" -> <<"motorcycle", "compact", "large">>
      [] type = "car" -> <<"compact", "large">>
      [] type = "bus" -> <<"large">>

\* The places in its preference where a vehicle finds a spot.
Open(type) == {i \in DOMAIN Preference(type) : available[Preference(type)[i]] > 0}

\* Variant: the spot freed is the one the vehicle would like best.
FreedSpotBest(ticket) == Preference(ticket.vehicle.type)[1]

FreedSpot(ticket) == ticket.spot

\* The hours begun by a stay, and one at least.
Hours(elapsed) == IF elapsed = 0 THEN 1 ELSE (elapsed + Hour - 1) \div Hour

-----------------------------------------------------------------------------
LotInit ==
    /\ available = Capacity
    /\ active = [p \in Plates |-> Outside]
    /\ issued = {}
    /\ clock = 0
    /\ billed = [elapsed |-> 0, hours |-> 1]

ParkEntry(vehicle) ==
    LET spot == Preference(vehicle.type)[Min(Open(vehicle.type))]
        ticket == [vehicle |-> vehicle, spot |-> spot, entry |-> clock]
    IN  /\ active[vehicle.plate] = Outside
        /\ Open(vehicle.type) # {}
        /\ Cardinality(issued \cup {ticket}) <= MaxTickets
        /\ available' = [available EXCEPT ![spot] = @ - 1]
        /\ active' = [active EXCEPT ![vehicle.plate] = ticket]
        /\ issued' = issued \cup {ticket}
        /\ UNCHANGED <<clock, billed>>

ProcessExit(ticket) ==
    /\ active[ticket.vehicle.plate] = ticket
    /\ active' = [active EXCEPT ![ticket.vehicle.plate] = Outside]
    /\ available' = [available EXCEPT ![FreedSpot(ticket)] = @ + 1]
    /\ billed' = [elapsed |-> clock - ticket.entry, hours |-> Hours(clock - ticket.entry)]
    /\ UNCHANGED <<issued, clock>>

ClockTicks ==
    /\ clock < MaxClock
    /\ clock' = clock + 1
    /\ UNCHANGED <<available, active, issued, billed>>

LotNext ==
    \/ \E vehicle \in Vehicle : ParkEntry(vehicle)
    \/ \E ticket \in issued : ProcessExit(ticket)
    \/ ClockTicks

LotSpec == LotInit /\ [][LotNext]_lotVars

-----------------------------------------------------------------------------
LotTypeOK ==
    /\ available \in [SpotTypes -> Nat]
    /\ active \in [Plates -> Ticket \cup {Outside}]
    /\ issued \in SUBSET Ticket
    /\ clock \in 0..MaxClock
    /\ billed \in [elapsed : 0..MaxClock, hours : Nat]

Inside == {p \in Plates : active[p] # Outside}

Size(s) == CASE s = "motorcycle" -> 1 [] s = "compact" -> 2 [] s = "large" -> 3
Needs(type) == CASE type = "motorcycle" -> 1 [] type = "car" -> 2 [] type = "bus" -> 3

\* A spot is free or under one vehicle that fits into it, whatever tickets come
\* back in whatever order (lot.py:24-32, 75-80, 95-98).
SpotsConserved ==
    /\ \A s \in SpotTypes :
           available[s] + Cardinality({p \in Inside : active[p].spot = s}) = Capacity[s]
    /\ \A p \in Inside : Needs(active[p].vehicle.type) <= Size(active[p].spot)

\* A stay is billed the fewest hours, one at least, that cover it (lot.py:83-87).
FewestHours ==
    /\ billed.hours >= 1 /\ billed.hours * Hour >= billed.elapsed
    /\ \A h \in 1..(billed.hours - 1) : h * Hour < billed.elapsed
=============================================================================
