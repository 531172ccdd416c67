------------------------------- MODULE LruMap --------------------------------
(***************************************************************************)
(* What a bounded cache with a time to live promises: a lookup answers     *)
(* with the latest value put, never one that has outlived the ttl, and it  *)
(* may miss a live key only after Capacity other keys were used since.     *)
(* Nothing here has a size: the map remembers every put.                   *)
(***************************************************************************)
EXTENDS Integers, FiniteSets

CONSTANTS Keys, Values, Capacity, Ttl, None

VARIABLES
    latest,     \* the latest put of each key: its value and time
    since,      \* the keys used since each key was last put or hit
    now,
    answer      \* what the latest call returned

vars == <<latest, since, now, answer>>

Init ==
    /\ latest = [k \in Keys |-> None]
    /\ since = [k \in Keys |-> {}]
    /\ now = 0
    /\ answer = None

Live(k) == latest[k] # None /\ now - latest[k].at < Ttl

Use(k) == since' = [j \in Keys |-> IF j = k THEN {} ELSE since[j] \cup {k}]

MayMiss(k) == ~Live(k) \/ Cardinality(since[k]) >= Capacity

Put(k, v) ==
    /\ latest' = [latest EXCEPT ![k] = [value |-> v, at |-> now]]
    /\ Use(k)
    /\ answer' = None
    /\ UNCHANGED now

Hit(k) ==
    /\ Live(k)
    /\ answer' = latest[k].value
    /\ Use(k)
    /\ UNCHANGED <<latest, now>>

Miss(k) ==
    /\ MayMiss(k)
    /\ answer' = None
    /\ UNCHANGED <<latest, since, now>>

Contains(k) ==
    /\ \/ answer' = TRUE /\ Live(k)
       \/ answer' = FALSE /\ MayMiss(k)
    /\ UNCHANGED <<latest, since, now>>

Forget ==
    /\ answer' = None
    /\ UNCHANGED <<latest, since, now>>

Tick ==
    /\ now' = now + 1
    /\ UNCHANGED <<latest, since, answer>>

Next ==
    \/ \E k \in Keys : \/ \E v \in Values : Put(k, v)
                       \/ Hit(k) \/ Miss(k) \/ Contains(k)
    \/ Forget \/ Tick

Spec == Init /\ [][Next]_vars
=============================================================================
