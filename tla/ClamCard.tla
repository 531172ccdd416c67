------------------------------ MODULE ClamCard ------------------------------
(***************************************************************************)
(* A transit card: journeys are begun at one station, may be held back and *)
(* completed at another, and are charged on completion, each zone up to    *)
(* its cap. Money is in half dollars. `begun` are the journeys the callers *)
(* hold; one that is completed can be completed again.                     *)
(***************************************************************************)
EXTENDS Integers, SequencesExt

CONSTANTS Stations,    \* [station -> zone]: the network of the card
          Stops,      \* where callers try to travel
          MaxRides     \* bound
VARIABLES card, begun

Zones == {"A", "B"}
ASSUME CardAssumption == Stations \in [DOMAIN Stations -> Zones] /\ MaxRides \in Nat

SingleFare == [A |-> 5, B |-> 6]
DailyCap == [A |-> 14, B |-> 16]

IsKnown(place) == place \in DOMAIN Stations
JourneyZone(from, to) == IF "B" \in {Stations[from], Stations[to]} THEN "B" ELSE "A"
Fare(zone) == Max({0, Min({SingleFare[zone], DailyCap[zone] - card.charged[zone]})})
TotalCharged == card.charged["A"] + card.charged["B"]

-----------------------------------------------------------------------------
CardInit ==
    /\ card = [rides |-> <<>>, charged |-> [zone \in Zones |-> 0]]
    /\ begun = {}

TravelFrom(place) ==
    /\ IsKnown(place)
    /\ begun' = begun \cup {place}
    /\ UNCHANGED card

CompleteJourney(from, to) ==
    /\ Len(card.rides) < MaxRides                               \* bound
    /\ from \in begun /\ IsKnown(to)
    /\ LET zone == JourneyZone(from, to)
           ride == [from |-> from, to |-> to, zone |-> zone, fare |-> Fare(zone)]
       IN  card' = [rides |-> Append(card.rides, ride),
                    charged |-> [card.charged EXCEPT ![zone] = @ + ride.fare]]
    /\ UNCHANGED begun

CardNext == \E place \in Stops : TravelFrom(place) \/ \E from \in begun : CompleteJourney(from, place)

cardVars == <<card, begun>>
CardSpec == CardInit /\ [][CardNext]_cardVars

-----------------------------------------------------------------------------
CardTypeOK ==
    /\ begun \subseteq DOMAIN Stations
    /\ card.rides \in Seq([from : DOMAIN Stations, to : DOMAIN Stations, zone : Zones, fare : Nat])
    /\ card.charged \in [Zones -> Nat]

\* Where the rides of a zone are among the first n.
RidesIn(zone, n) == {i \in 1..n : card.rides[i].zone = zone}

SumOfFares(rides) == MapThenSumSet(LAMBDA i : rides[i].fare, DOMAIN rides)

\* However journeys overlap, each zone is charged on its own: as many single
\* fares as there were rides in it, up to its cap, only the ride that reaches the
\* cap paying a part; a ride is dear if it touches zone B at either end; and the
\* charges are what the rides say (card.py:50-86).
CapsHold ==
    /\ \A zone \in Zones :
          LET rides == RidesIn(zone, Len(card.rides))    whole == DailyCap[zone] \div SingleFare[zone]
          IN  /\ card.charged[zone] = Min({DailyCap[zone], SingleFare[zone] * Cardinality(rides)})
              /\ \A i \in rides : LET nth == Cardinality(RidesIn(zone, i)) IN
                    /\ nth <= whole => card.rides[i].fare = SingleFare[zone]
                    /\ nth > whole + 1 => card.rides[i].fare = 0
    /\ \A i \in DOMAIN card.rides :
          LET ride == card.rides[i]
          IN  ride.zone = "A" <=> Stations[ride.from] = "A" /\ Stations[ride.to] = "A"
    /\ TotalCharged = SumOfFares(card.rides)
=============================================================================
