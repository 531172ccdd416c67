----------------------------- MODULE PresentLine -----------------------------
(***************************************************************************)
(* What the present pipeline promises, whoever runs it: a present moves    *)
(* through its states one at a time and in order, and is recorded as       *)
(* delivered at most once, after it was delivered.                         *)
(***************************************************************************)
EXTENDS Sequences, Naturals

CONSTANT Presents

VARIABLES state, delivered

vars == <<state, delivered>>

\* The order of the states: the guards of Present.make, wrap, load, deliver.
Successor == [unmade |-> "made", made |-> "wrapped", wrapped |-> "loaded",
              loaded |-> "delivered"]

Recorded == {delivered[i] : i \in 1..Len(delivered)}

Init == /\ state = [p \in Presents |-> "unmade"]
        /\ delivered = <<>>

Advance(p) == /\ state[p] \in DOMAIN Successor
              /\ state' = [state EXCEPT ![p] = Successor[@]]
              /\ UNCHANGED delivered

Record(p) == /\ state[p] = "delivered"
             /\ p \notin Recorded
             /\ delivered' = Append(delivered, p)
             /\ UNCHANGED state

Next == \E p \in Presents : Advance(p) \/ Record(p)

Spec == Init /\ [][Next]_vars
=============================================================================
