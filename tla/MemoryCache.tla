----------------------------- MODULE MemoryCache -----------------------------
(***************************************************************************)
(* Cache of memory-cache: put, get, contains and evict_expired over an     *)
(* ordered dictionary. The order of the dictionary is the relation `ahead' *)
(* on its keys, most recent first.                                         *)
(***************************************************************************)
EXTENDS Integers, FiniteSets

CONSTANTS
    Keys,
    Values,
    Capacity,
    Ttl,
    None,       \* python's None
    MaxNow      \* bound: time

ASSUME CacheAssumption ==
    /\ IsFiniteSet(Keys)
    /\ Capacity \in Nat \ {0}
    /\ Ttl \in Nat \ {0}
    /\ MaxNow \in Nat
    /\ None \notin [value : Values, at : Nat]

VARIABLES
    entries,        \* the entry of each key, or None
    ahead,          \* the cached keys more recent than each cached key
    now,
    answer,         \* what the latest call returned
    latest, since   \* history: every key's latest put, and keys used since

cacheVars == <<entries, ahead, now, answer, latest, since>>

Entry == [value : Values, at : Nat]

-----------------------------------------------------------------------------
Cached == {k \in Keys : entries[k] # None}

\* Variant: an entry outlives its ttl by one unit.
IsExpiredLate(k) == now - entries[k].at > Ttl

IsExpired(k) == now - entries[k].at >= Ttl

\* Variant: the most recent key is evicted.
IsMru(k) == ahead[k] = {}

\* The last key of the dictionary.
IsLru(k) == ahead[k] = Cached \ {k}

\* Variant: a full cache takes one more.
FullAbove == Cardinality(Cached) > Capacity

Full == Cardinality(Cached) >= Capacity

\* Variant: the key keeps its place.
FrontKept(k, removed) ==
    [j \in Keys |-> IF j = k THEN ahead[k] \ removed
                    ELSE IF j \in Cached \ removed THEN ahead[j] \ removed ELSE {}]

\* The order with some keys removed and k put before the rest.
MovedToFront(k, removed) ==
    [j \in Keys |-> IF j = k THEN {}
                    ELSE IF j \in Cached \ removed
                         THEN (ahead[j] \ removed) \cup {k} ELSE {}]

\* The order with some keys removed.
Rest(removed) ==
    [j \in Keys |-> IF j \in removed THEN {} ELSE ahead[j] \ removed]

Use(k) == since' = [j \in Keys |-> IF j = k THEN {} ELSE since[j] \cup {k}]

CacheInit ==
    /\ entries = [k \in Keys |-> None]
    /\ ahead = [k \in Keys |-> {}]
    /\ now = 0 /\ answer = None
    /\ latest = [k \in Keys |-> None]
    /\ since = [k \in Keys |-> {}]

\* put once it is known which keys make room: the new entry goes first.
Store(k, v, evicted) ==
    LET entry == [value |-> v, at |-> now]
    IN  /\ entries' = [j \in Keys |-> IF j = k THEN entry
                                      ELSE IF j \in evicted THEN None ELSE entries[j]]
        /\ ahead' = MovedToFront(k, evicted)
        /\ latest' = [latest EXCEPT ![k] = entry]
        /\ Use(k)
        /\ answer' = None
        /\ UNCHANGED now

PutReplacing(k, v) == k \in Cached /\ Store(k, v, {})

PutEvicting(k, v) ==
    /\ k \notin Cached /\ Full
    /\ \E lru \in Cached : IsLru(lru) /\ Store(k, v, {lru})

PutFree(k, v) == k \notin Cached /\ ~Full /\ Store(k, v, {})

GetHit(k) ==
    /\ k \in Cached /\ ~IsExpired(k)
    /\ ahead' = MovedToFront(k, {})
    /\ answer' = entries[k].value
    /\ Use(k)
    /\ UNCHANGED <<entries, now, latest>>

GetExpired(k) ==
    /\ k \in Cached /\ IsExpired(k)
    /\ entries' = [entries EXCEPT ![k] = None]
    /\ ahead' = Rest({k})
    /\ answer' = None
    /\ UNCHANGED <<now, latest, since>>

GetAbsent(k) ==
    /\ k \notin Cached
    /\ answer' = None
    /\ UNCHANGED <<entries, ahead, now, latest, since>>

ContainsKey(k) ==
    /\ answer' = (k \in Cached /\ ~IsExpired(k))
    /\ UNCHANGED <<entries, ahead, now, latest, since>>

EvictExpired ==
    LET stale == {k \in Cached : IsExpired(k)}
    IN  /\ entries' = [k \in Keys |-> IF k \in stale THEN None ELSE entries[k]]
        /\ ahead' = Rest(stale)
        /\ answer' = None
        /\ UNCHANGED <<now, latest, since>>

Tick ==
    /\ now < MaxNow
    /\ now' = now + 1
    /\ UNCHANGED <<entries, ahead, answer, latest, since>>

CacheNext ==
    \/ \E k \in Keys :
         \/ \E v \in Values : PutReplacing(k, v) \/ PutEvicting(k, v) \/ PutFree(k, v)
         \/ GetHit(k) \/ GetExpired(k) \/ GetAbsent(k) \/ ContainsKey(k)
    \/ EvictExpired \/ Tick

CacheSpec == CacheInit /\ [][CacheNext]_cacheVars

-----------------------------------------------------------------------------
\* Types; the cache never holds more than its capacity (cache.py:46-50).
CacheTypeOK ==
    /\ entries \in [Keys -> Entry \cup {None}]
    /\ Cardinality(Cached) <= Capacity
    /\ ahead \in [Keys -> SUBSET Keys]
    /\ now \in 0..MaxNow
    /\ answer \in Values \cup {None} \cup BOOLEAN
    /\ latest \in [Keys -> Entry \cup {None}]
    /\ since \in [Keys -> SUBSET Keys]

\* The dictionary's order is the order of last use, whatever was removed from
\* its middle: of two cached keys the one ahead was used since the other, and
\* not the other way round (cache.py:42, 53, 62).
RecencyIsUse ==
    \A j, k \in Cached : j # k => (j \in ahead[k] <=> j \in since[k] /\ k \notin since[j])

\* The cache is a LruMap: it answers with the latest put, never after the ttl,
\* and misses a live key only once Capacity others were used since, although
\* expired entries still take up room (cache.py:39-63).
Contract == INSTANCE LruMap
ImplementsLruMap == Contract!Spec
=============================================================================
