----------------------------- MODULE RateLimiter -----------------------------
(***************************************************************************)
(* Limiter.request of rate-limiter: a fixed window per key that opens at   *)
(* the key's first request and again at the first request after its end.   *)
(***************************************************************************)
EXTENDS Integers, Sequences

CONSTANTS
    Keys,
    MaxRequests,
    Window,
    MaxAllowed,     \* bound: requests allowed to one key
    MaxNow          \* bound: time

ASSUME LimiterAssumption ==
    /\ MaxRequests \in Nat \ {0}
    /\ Window \in Nat \ {0}
    /\ MaxAllowed \in Nat /\ MaxNow \in Nat

VARIABLES
    start, count,   \* the window of each key; no window starts at Never
    now,
    allowedAt,      \* history: when each key's allowed requests came
    promised        \* history: when a rejected key was last told to retry

limiterVars == <<start, count, now, allowedAt, promised>>

Never == -1

-----------------------------------------------------------------------------
\* Variant: a request at the very end still belongs to the window.
OpensLate(k) == start[k] = Never \/ now > start[k] + Window

\* The next request of k opens a window.
Opens(k) == start[k] = Never \/ now >= start[k] + Window

\* Variant: the request that opens a window is not counted.
FirstCountUncounted == 0

\* The count of a window as it opens.
FirstCount == 1

\* The window of k has room for another request.
HasRoom(k) == count[k] < MaxRequests

\* Variant: the wait is the whole window and not what is left of it.
RetryAfterWhole(k) == Window

\* The wait a rejection reports.
RetryAfter(k) == start[k] + Window - now

LimiterInit ==
    /\ start = [k \in Keys |-> Never]
    /\ count = [k \in Keys |-> 0]
    /\ now = 0
    /\ allowedAt = [k \in Keys |-> <<>>]
    /\ promised = [k \in Keys |-> Never]

Allow(k) ==
    /\ Len(allowedAt[k]) < MaxAllowed
    /\ allowedAt' = [allowedAt EXCEPT ![k] = Append(@, now)]
    /\ UNCHANGED <<now, promised>>

OpenWindow(k) ==
    /\ Opens(k)
    /\ start' = [start EXCEPT ![k] = now]
    /\ count' = [count EXCEPT ![k] = FirstCount]
    /\ Allow(k)

CountRequest(k) ==
    /\ ~Opens(k) /\ HasRoom(k)
    /\ count' = [count EXCEPT ![k] = @ + 1]
    /\ UNCHANGED start
    /\ Allow(k)

Reject(k) ==
    /\ ~Opens(k) /\ ~HasRoom(k)
    /\ promised' = [promised EXCEPT ![k] = now + RetryAfter(k)]
    /\ UNCHANGED <<start, count, now, allowedAt>>

Tick ==
    /\ now < MaxNow
    /\ now' = now + 1
    /\ UNCHANGED <<start, count, allowedAt, promised>>

LimiterNext ==
    \/ \E k \in Keys : OpenWindow(k) \/ CountRequest(k) \/ Reject(k)
    \/ Tick

LimiterSpec == LimiterInit /\ [][LimiterNext]_limiterVars

-----------------------------------------------------------------------------
LimiterTypeOK ==
    /\ start \in [Keys -> Nat \cup {Never}]
    /\ count \in [Keys -> 0..MaxRequests]
    /\ now \in 0..MaxNow
    /\ allowedAt \in [Keys -> Seq(0..MaxNow)]
    /\ promised \in [Keys -> Nat \cup {Never}]

\* Over any stretch of one window's length a key is allowed at most twice the
\* limit: the n-th allowed request and the one 2 * MaxRequests later are a
\* window apart, wherever the boundaries fall (limiter.py:30-36).
TwiceTheLimit ==
    \A k \in Keys : \A i \in 1..(Len(allowedAt[k]) - 2 * MaxRequests) :
        allowedAt[k][i + 2 * MaxRequests] - allowedAt[k][i] >= Window

\* A key that would be rejected now has spent its whole limit within the last
\* window's length: nobody is rejected on account of old requests
\* (limiter.py:30, 34, 38).
RejectsOnlySpenders ==
    \A k \in Keys : ~Opens(k) /\ ~HasRoom(k) =>
        LET n == Len(allowedAt[k])
        IN  n >= MaxRequests /\ now - allowedAt[k][n - MaxRequests + 1] < Window

\* A client that waits as long as it was told finds the window over, or a new
\* one opened since by another of its requests; and no sooner
\* (limiter.py:38-39).
RetryIsExact ==
    \A k \in Keys : promised[k] # Never =>
        IF now < promised[k] THEN ~Opens(k) /\ ~HasRoom(k)
        ELSE Opens(k) \/ start[k] >= promised[k]
=============================================================================
