----------------------------- MODULE PokerHands -----------------------------
(***************************************************************************)
(* How hands of five cards are ranked and compared. A card is <<rank,      *)
(* suit>>, a hand a sequence of cards of one deck; parsing is left out.    *)
(***************************************************************************)
EXTENDS Integers, SequencesExt, Functions, Sorting

CONSTANTS Deck, Rivals    \* the cards dealt from, in order; the hands each is compared with
VARIABLE hand

HandSize == 5
Ranks == 2..14
Suits == {"C", "D", "H", "S"}
IsHand(h) == h \in [1..HandSize -> ToSet(Deck)] /\ IsInjective(h)
ASSUME DeckAssumption ==
    Deck \in Seq(Ranks \X Suits) /\ IsInjective(Deck) /\ \A h \in Rivals : IsHand(h)

RanksOf(h) == [i \in DOMAIN h |-> h[i][1]]
HeldOf(h, rank) == Cardinality({i \in DOMAIN h : h[i][1] = rank})

\* Ranks by the size of their group, then by rank, both descending, each as
\* often as it is held.
Strongest(h) ==
    LET held == [i \in DOMAIN h |-> HeldOf(h, h[i][1])]
    IN  {p \in (DOMAIN h) \X (DOMAIN h) :
           \/ held[p[1]] > held[p[2]]
           \/ held[p[1]] = held[p[2]] /\ h[p[1]][1] > h[p[2]][1]
           \/ h[p[1]][1] = h[p[2]][1] /\ p[1] < p[2]}
TieBreakSignature(h) ==
    LET places == SortedBy(DOMAIN h, Strongest(h)) IN [k \in DOMAIN h |-> h[places[k]][1]]

\* The sizes of the two largest groups; the second is 0 if there is one only.
GroupCounts(h) ==
    LET signature == TieBreakSignature(h)
        first == HeldOf(h, signature[1])
    IN  <<first, IF first < HandSize THEN HeldOf(h, signature[first + 1]) ELSE 0>>

IsFlush(h) == \A i \in DOMAIN h : h[i][2] = h[1][2]
Lowest(h) ==
    {p \in (DOMAIN h) \X (DOMAIN h) :
        h[p[1]][1] < h[p[2]][1] \/ (h[p[1]][1] = h[p[2]][1] /\ p[1] < p[2])}
IsStraight(h) ==
    LET places == SortedBy(DOMAIN h, Lowest(h))
        ordered == [k \in DOMAIN h |-> h[places[k]][1]]
    IN  \A i \in 2..HandSize : ordered[i] = ordered[i - 1] + 1

HandRanks == <<"HighCard", "Pair", "TwoPair", "ThreeOfAKind", "Straight",
               "Flush", "FullHouse", "FourOfAKind", "StraightFlush">>

Evaluate(h) ==
    LET counts == GroupCounts(h)
    IN  CASE IsStraight(h) /\ IsFlush(h) -> 9
          [] counts[1] = 4 -> 8
          [] counts = <<3, 2>> -> 7
          [] IsFlush(h) /\ ~IsStraight(h) -> 6
          [] IsStraight(h) /\ ~IsFlush(h) -> 5
          [] counts = <<3, 1>> -> 4
          [] counts = <<2, 2>> -> 3
          [] counts = <<2, 1>> -> 2
          [] OTHER -> 1

\* 1, 2 or 0 for a tie.
CompareTo(mine, theirs) ==
    LET a == <<Evaluate(mine)>> \o TieBreakSignature(mine)
        b == <<Evaluate(theirs)>> \o TieBreakSignature(theirs)
        differs == {i \in DOMAIN a : a[i] # b[i]}
    IN  IF differs = {} THEN 0
        ELSE IF a[Min(differs)] > b[Min(differs)] THEN 1 ELSE 2

-----------------------------------------------------------------------------
\* No hand is made yet.
NoHand == <<>>
PokerInit == hand = NoHand

Deal ==
    /\ hand = NoHand
    /\ \E at \in [1..HandSize -> DOMAIN Deck] :
          /\ \A i \in 2..HandSize : at[i - 1] < at[i]
          /\ hand' = [i \in 1..HandSize |-> Deck[at[i]]]

PokerSpec == PokerInit /\ [][Deal]_hand

-----------------------------------------------------------------------------
PokerTypeOK == hand = NoHand \/ IsHand(hand)

\* The pairs of cards of one rank tell the groups apart: none, 1, 2, 3, 4 or 6.
RankPairs(h) == Cardinality({p \in (1..Len(h)) \X (1..Len(h)) : p[1] < p[2] /\ h[p[1]][1] = h[p[2]][1]})
ByPairs(h) ==
    LET pairs == RankPairs(h)
        row == Max(Range(RanksOf(h))) - Min(Range(RanksOf(h))) = 4
    IN  CASE pairs = 0 -> IF IsFlush(h) THEN IF row THEN 9 ELSE 6 ELSE IF row THEN 5 ELSE 1
          [] pairs = 4 -> 7
          [] pairs = 6 -> 8
          [] OTHER -> pairs + 1

Beaten == [other \in Rivals |-> {third \in Rivals : CompareTo(other, third) = 1}]

\* A hand ranks as the pairs in it say; of two hands one wins whoever is asked,
\* a tie is one of rank and ranks, whatever the suits; and who beats the winner
\* beats the loser (hand.py:47-86, 101-119).
HandsAreOrdered ==
    hand # NoHand =>
        /\ Evaluate(hand) = ByPairs(hand)
        /\ LET result == [other \in Rivals |-> CompareTo(hand, other)] IN
           \A other \in Rivals :
              /\ CompareTo(other, hand) = <<0, 2, 1>>[result[other] + 1]
              /\ result[other] = 0 <=> /\ IsFlush(hand) <=> IsFlush(other)
                                       /\ \A r \in Ranks : HeldOf(hand, r) = HeldOf(other, r)
              /\ result[other] = 1 => \A third \in Beaten[other] : result[third] = 1
=============================================================================
