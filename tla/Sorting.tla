------------------------------- MODULE Sorting ------------------------------
(***************************************************************************)
(* Python's sorted and its list comprehension with a condition, written so *)
(* that they can be reasoned about: an order is a set of pairs.            *)
(***************************************************************************)
EXTENDS Integers, Sequences, FiniteSets

\* The elements of S, each behind as many as come before it.
SortedBy(S, before) ==
    [k \in 1..Cardinality(S) |->
        CHOOSE x \in S : Cardinality({y \in S : <<y, x>> \in before}) = k - 1]

Ascending(S) == SortedBy(S, {p \in S \X S : p[1] < p[2]})

\* The elements of seq that are in S, as they stand.
Filtered(seq, S) ==
    LET places == Ascending({i \in DOMAIN seq : seq[i] \in S})
    IN  [k \in DOMAIN places |-> seq[places[k]]]
=============================================================================
