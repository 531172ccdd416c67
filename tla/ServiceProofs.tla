---------------------------- MODULE ServiceProofs ----------------------------
(***************************************************************************)
(* Proofs about RateLimiter, LaundryReservation, EventSourcing,            *)
(* ExpenseReport, CircuitBreaker and VideoClub, for every value of their   *)
(* parameters.                                                             *)
(***************************************************************************)
EXTENDS RateLimiter, LaundryReservation, EventSourcing, ExpenseReport, CircuitBreaker, VideoClub, SequenceLemmas

-----------------------------------------------------------------------------
(* RateLimiter. The invariant splits the allowed requests of a key in      *)
(* three: those of the current window (the last count[k]), the at most     *)
(* MaxRequests before them, and the older ones, a whole window before this *)
(* one began.                                                              *)

Total(k) == Len(allowedAt[k])

\* The requests of the current window came since it opened, in order.
Current(k) ==
    /\ count[k] <= Total(k)
    /\ \A i \in (Total(k) - count[k] + 1)..Total(k) :
           start[k] <= allowedAt[k][i] /\ allowedAt[k][i] <= now
    /\ start[k] <= now

\* The requests before it came no later than its opening.
EarlierWindow(k) ==
    \A i \in 1..(Total(k) - count[k]) : allowedAt[k][i] <= start[k]

\* All of those but MaxRequests came a whole window before it.
Older(k) ==
    \A i \in 1..(Total(k) - count[k] - MaxRequests) :
        allowedAt[k][i] + Window <= start[k]

\* A window that has not opened holds nothing.
Unopened(k) == start[k] = Never <=> Total(k) = 0

\* What a retry was told, against the window it was told of.
Promised(k) ==
    promised[k] # Never =>
        /\ start[k] # Never
        /\ \/ promised[k] <= start[k]
           \/ promised[k] = start[k] + Window /\ count[k] = MaxRequests

KeyInv(k) ==
    Current(k) /\ EarlierWindow(k) /\ Older(k) /\ Unopened(k) /\ Promised(k)

Burst(k) ==
    \A i \in 1..(Total(k) - 2 * MaxRequests) :
        allowedAt[k][i + 2 * MaxRequests] - allowedAt[k][i] >= Window

IInv == LimiterTypeOK /\ \A k \in Keys : KeyInv(k) /\ Burst(k)

USE LimiterAssumption

LEMMA InitIInv == LimiterInit => IInv
  BY DEF LimiterInit, IInv, LimiterTypeOK, KeyInv, Current, EarlierWindow, Older, Unopened,
     Promised, Burst, Total, Never

LEMMA AppendAt ==
  ASSUME NEW S, NEW s \in Seq(S), NEW e \in S
  PROVE  /\ Append(s, e) \in Seq(S)
         /\ Len(Append(s, e)) = Len(s) + 1
         /\ Append(s, e)[Len(s) + 1] = e
         /\ \A i \in 1..Len(s) : Append(s, e)[i] = s[i]
  OBVIOUS

\* What an allowed request does to its key's history.
LEMMA AllowAppends ==
  ASSUME LimiterTypeOK, NEW k \in Keys, Allow(k)
  PROVE  /\ allowedAt'[k] \in Seq(0..MaxNow)
         /\ Total(k)' = Total(k) + 1
         /\ allowedAt'[k][Total(k) + 1] = now
         /\ \A i \in 1..Total(k) : allowedAt'[k][i] = allowedAt[k][i]
         /\ \A l \in Keys \ {k} : allowedAt'[l] = allowedAt[l]
<1>1. allowedAt'[k] = Append(allowedAt[k], now)
  BY DEF Allow, LimiterTypeOK
<1>2. allowedAt[k] \in Seq(0..MaxNow) /\ now \in 0..MaxNow
  BY DEF LimiterTypeOK
<1>3. \A l \in Keys \ {k} : allowedAt'[l] = allowedAt[l]
  BY DEF Allow, LimiterTypeOK
<1> QED
  BY <1>1, <1>2, <1>3, AppendAt DEF Total

LEMMA NextTypeOK == LimiterTypeOK /\ [LimiterNext]_limiterVars => LimiterTypeOK'
<1> SUFFICES ASSUME LimiterTypeOK, [LimiterNext]_limiterVars PROVE LimiterTypeOK'
  OBVIOUS
<1> USE DEF LimiterTypeOK, Never
<1>1. ASSUME NEW k \in Keys, OpenWindow(k) PROVE LimiterTypeOK'
  BY <1>1, AllowAppends DEF OpenWindow, FirstCount, Allow
<1>2. ASSUME NEW k \in Keys, CountRequest(k) PROVE LimiterTypeOK'
  BY <1>2, AllowAppends DEF CountRequest, HasRoom, Allow
<1>3. ASSUME NEW k \in Keys, Reject(k) PROVE LimiterTypeOK'
  BY <1>3 DEF Reject, RetryAfter, Opens
<1>4. CASE Tick
  BY <1>4 DEF Tick
<1>5. CASE UNCHANGED limiterVars
  BY <1>5 DEF limiterVars
<1> QED
  BY <1>1, <1>2, <1>3, <1>4, <1>5 DEF LimiterNext

\* A key whose own state a step leaves alone keeps its invariant.
LEMMA Untouched ==
  ASSUME LimiterTypeOK, NEW k \in Keys, KeyInv(k), Burst(k), now' >= now,
         now' \in Int, start'[k] = start[k], count'[k] = count[k],
         allowedAt'[k] = allowedAt[k], promised'[k] = promised[k]
  PROVE  KeyInv(k)' /\ Burst(k)'
<1>1. \A i \in 1..Total(k) : allowedAt[k][i] \in 0..MaxNow
  BY DEF LimiterTypeOK, Total
<1> QED
  BY <1>1 DEF LimiterTypeOK, KeyInv, Burst, Current, EarlierWindow, Older, Unopened, Promised,
        Total, Never

LEMMA OpenKeeps ==
  ASSUME LimiterTypeOK, NEW k \in Keys, KeyInv(k), Burst(k), OpenWindow(k)
  PROVE  KeyInv(k)' /\ Burst(k)'
<1>1. /\ Total(k)' = Total(k) + 1
      /\ allowedAt'[k][Total(k) + 1] = now
      /\ \A i \in 1..Total(k) : allowedAt'[k][i] = allowedAt[k][i]
  BY AllowAppends DEF OpenWindow
<1>2. /\ start'[k] = now /\ count'[k] = 1 /\ now' = now
      /\ promised'[k] = promised[k]
  BY DEF OpenWindow, Allow, FirstCount, LimiterTypeOK
<1>3. /\ Total(k) \in Nat /\ count[k] \in 0..MaxRequests /\ now \in Nat
      /\ start[k] \in Nat \cup {Never} /\ promised[k] \in Nat \cup {Never}
      /\ \A i \in 1..Total(k) : allowedAt[k][i] \in Nat
  BY DEF LimiterTypeOK, Total
<1>4. \A i \in 1..Total(k) : allowedAt[k][i] <= now
  <2> SUFFICES ASSUME NEW i \in 1..Total(k) PROVE allowedAt[k][i] <= now
    OBVIOUS
  <2>1. CASE i \in 1..(Total(k) - count[k])
    <3>1. allowedAt[k][i] <= start[k] /\ start[k] <= now
      BY <2>1 DEF KeyInv, Current, EarlierWindow
    <3> QED
      BY <3>1, <1>3 DEF Never
  <2>2. CASE i \in (Total(k) - count[k] + 1)..Total(k)
    BY <2>2 DEF KeyInv, Current
  <2> QED
    BY <2>1, <2>2, <1>3
<1>5. \A i \in 1..(Total(k) - MaxRequests) : allowedAt[k][i] + Window <= now
  <2> SUFFICES ASSUME NEW i \in 1..(Total(k) - MaxRequests)
               PROVE  allowedAt[k][i] + Window <= now
    OBVIOUS
  <2>1. i \in 1..(Total(k) - count[k]) /\ i \in 1..Total(k)
    BY <1>3
  <2>2. allowedAt[k][i] <= start[k] /\ start[k] # Never
    BY <2>1, <1>3 DEF KeyInv, EarlierWindow, Unopened
  <2> QED
    BY <2>1, <2>2, <1>3 DEF OpenWindow, Opens, Never
<1>6. Current(k)'
  BY <1>1, <1>2, <1>3 DEF Current
<1>7. EarlierWindow(k)' /\ Older(k)'
  BY <1>1, <1>2, <1>3, <1>4, <1>5 DEF EarlierWindow, Older
<1>8. Unopened(k)' /\ Promised(k)'
  BY <1>1, <1>2, <1>3 DEF Unopened, Promised, KeyInv, OpenWindow, Opens, Never,
     Current
<1>9. Burst(k)'
  <2> SUFFICES ASSUME NEW i \in 1..(Total(k)' - 2 * MaxRequests)
               PROVE  allowedAt'[k][i + 2 * MaxRequests] - allowedAt'[k][i] >= Window
    BY DEF Burst
  <2>1. /\ i \in 1..(Total(k) + 1 - 2 * MaxRequests) /\ i \in 1..Total(k)
        /\ allowedAt'[k][i] = allowedAt[k][i] /\ allowedAt[k][i] \in Nat
    BY <1>1, <1>3
  <2>2. CASE i + 2 * MaxRequests = Total(k) + 1
    <3>1. i \in 1..(Total(k) - MaxRequests)
      BY <2>1, <2>2, <1>3
    <3> QED
      BY <1>1, <1>3, <1>5, <2>1, <2>2, <3>1
  <2>3. CASE i + 2 * MaxRequests # Total(k) + 1
    <3>1. i \in 1..(Total(k) - 2 * MaxRequests) /\ i + 2 * MaxRequests \in 1..Total(k)
      BY <2>1, <2>3, <1>3
    <3> QED
      BY <1>1, <2>1, <3>1 DEF Burst
  <2> QED
    BY <2>2, <2>3
<1> QED
  BY <1>6, <1>7, <1>8, <1>9 DEF KeyInv

LEMMA CountKeeps ==
  ASSUME LimiterTypeOK, NEW k \in Keys, KeyInv(k), Burst(k), CountRequest(k)
  PROVE  KeyInv(k)' /\ Burst(k)'
<1>1. /\ Total(k)' = Total(k) + 1
      /\ allowedAt'[k][Total(k) + 1] = now
      /\ \A i \in 1..Total(k) : allowedAt'[k][i] = allowedAt[k][i]
  BY AllowAppends DEF CountRequest
<1>2. /\ start'[k] = start[k] /\ count'[k] = count[k] + 1 /\ now' = now
      /\ promised'[k] = promised[k] /\ count[k] < MaxRequests
  BY DEF CountRequest, Allow, HasRoom, LimiterTypeOK
<1>3. /\ Total(k) \in Nat /\ count[k] \in 0..MaxRequests /\ now \in Nat
      /\ start[k] \in Nat \cup {Never} /\ promised[k] \in Nat \cup {Never}
      /\ \A i \in 1..Total(k) : allowedAt[k][i] \in Nat
  BY DEF LimiterTypeOK, Total
<1>4. Current(k)'
  BY <1>1, <1>2, <1>3 DEF KeyInv, Current
<1>5. EarlierWindow(k)' /\ Older(k)'
  BY <1>1, <1>2, <1>3 DEF KeyInv, EarlierWindow, Older, Current
<1>6. Unopened(k)' /\ Promised(k)'
  BY <1>1, <1>2, <1>3 DEF KeyInv, Unopened, Promised, CountRequest, Opens, Never
<1>7. Burst(k)'
  <2> SUFFICES ASSUME NEW i \in 1..(Total(k)' - 2 * MaxRequests)
               PROVE  allowedAt'[k][i + 2 * MaxRequests] - allowedAt'[k][i] >= Window
    BY DEF Burst
  <2>1. CASE i <= Total(k) - 2 * MaxRequests
    BY <2>1, <1>1, <1>3 DEF Burst
  <2>2. CASE i = Total(k) + 1 - 2 * MaxRequests
    <3>1. i \in 1..(Total(k) - count[k] - MaxRequests) /\ i \in 1..Total(k)
      BY <2>2, <1>2, <1>3
    <3>2. allowedAt[k][i] + Window <= start[k] /\ start[k] <= now
      BY <3>1 DEF KeyInv, Older, Current
    <3> QED
      BY <3>1, <3>2, <2>2, <1>1, <1>3 DEF Never
  <2> QED
    BY <2>1, <2>2, <1>1, <1>3
<1> QED
  BY <1>4, <1>5, <1>6, <1>7 DEF KeyInv

LEMMA RejectKeeps ==
  ASSUME LimiterTypeOK, NEW k \in Keys, KeyInv(k), Burst(k), Reject(k)
  PROVE  KeyInv(k)' /\ Burst(k)'
<1>1. /\ start' = start /\ count' = count /\ now' = now
      /\ allowedAt' = allowedAt
      /\ promised'[k] = now + RetryAfter(k)
  BY DEF Reject, LimiterTypeOK
<1>2. promised'[k] = start[k] + Window /\ count[k] = MaxRequests
      /\ start[k] # Never
  BY <1>1 DEF Reject, RetryAfter, HasRoom, Opens, LimiterTypeOK, Never
<1>3. Promised(k)'
  BY <1>1, <1>2 DEF Promised
<1> QED
  BY <1>1, <1>3 DEF KeyInv, Burst, Current, EarlierWindow, Older, Unopened, Total

LEMMA NextIInv == IInv /\ [LimiterNext]_limiterVars => IInv'
<1> SUFFICES ASSUME IInv, [LimiterNext]_limiterVars PROVE IInv'
  OBVIOUS
<1>1. LimiterTypeOK /\ LimiterTypeOK' /\ \A k \in Keys : KeyInv(k) /\ Burst(k)
  BY NextTypeOK DEF IInv
<1>2. now \in Int
  BY <1>1 DEF LimiterTypeOK
<1> SUFFICES ASSUME NEW l \in Keys PROVE KeyInv(l)' /\ Burst(l)'
  BY <1>1 DEF IInv
<1>3. ASSUME NEW k \in Keys, OpenWindow(k) PROVE KeyInv(l)' /\ Burst(l)'
  <2>1. CASE l = k
    BY <1>1, <1>3, <2>1, OpenKeeps
  <2>2. CASE l # k
    <3>1. /\ start'[l] = start[l] /\ count'[l] = count[l] /\ now' = now
          /\ allowedAt'[l] = allowedAt[l] /\ promised'[l] = promised[l]
      BY <1>1, <1>3, <2>2 DEF OpenWindow, Allow, LimiterTypeOK
    <3> QED
      BY <3>1, <1>1, <1>2, Untouched
  <2> QED
    BY <2>1, <2>2
<1>4. ASSUME NEW k \in Keys, CountRequest(k) PROVE KeyInv(l)' /\ Burst(l)'
  <2>1. CASE l = k
    BY <1>1, <1>4, <2>1, CountKeeps
  <2>2. CASE l # k
    <3>1. /\ start'[l] = start[l] /\ count'[l] = count[l] /\ now' = now
          /\ allowedAt'[l] = allowedAt[l] /\ promised'[l] = promised[l]
      BY <1>1, <1>4, <2>2 DEF CountRequest, Allow, LimiterTypeOK
    <3> QED
      BY <3>1, <1>1, <1>2, Untouched
  <2> QED
    BY <2>1, <2>2
<1>5. ASSUME NEW k \in Keys, Reject(k) PROVE KeyInv(l)' /\ Burst(l)'
  <2>1. CASE l = k
    BY <1>1, <1>5, <2>1, RejectKeeps
  <2>2. CASE l # k
    <3>1. /\ start'[l] = start[l] /\ count'[l] = count[l] /\ now' = now
          /\ allowedAt'[l] = allowedAt[l] /\ promised'[l] = promised[l]
      BY <1>1, <1>5, <2>2 DEF Reject, LimiterTypeOK
    <3> QED
      BY <3>1, <1>1, <1>2, Untouched
  <2> QED
    BY <2>1, <2>2
<1>6. CASE Tick \/ UNCHANGED limiterVars
  <2>1. /\ start' = start /\ count' = count /\ now' >= now /\ now' \in Int
        /\ allowedAt' = allowedAt /\ promised' = promised
    BY <1>2, <1>6 DEF Tick, limiterVars
  <2> QED
    BY <2>1, <1>1, Untouched
<1> QED
  BY <1>3, <1>4, <1>5, <1>6 DEF LimiterNext

\* The inductive invariant of the limiter.
THEOREM LimiterInvariant == LimiterSpec => []IInv
  BY InitIInv, NextIInv, PTL DEF LimiterSpec

\* Types: a window never counts more than the limit.
THEOREM LimiterTypes == LimiterSpec => []LimiterTypeOK
<1>1. IInv => LimiterTypeOK
  BY DEF IInv
<1> QED
  BY <1>1, LimiterInvariant, PTL

\* Any stretch of one window's length allows at most twice the limit, whatever
\* the limit and the window (limiter.py:30-36).
THEOREM BurstIsBounded == LimiterSpec => []TwiceTheLimit
<1>1. IInv => TwiceTheLimit
  BY DEF IInv, Burst, TwiceTheLimit, Total
<1> QED
  BY <1>1, LimiterInvariant, PTL

\* A key is rejected only if it has spent its whole limit within the last
\* window's length (limiter.py:30, 34, 38).
THEOREM OnlySpendersRejected == LimiterSpec => []RejectsOnlySpenders
<1>1. IInv => RejectsOnlySpenders
  <2> SUFFICES ASSUME IInv, NEW k \in Keys, ~Opens(k), ~HasRoom(k)
               PROVE  LET n == Len(allowedAt[k])
                      IN  n >= MaxRequests
                          /\ now - allowedAt[k][n - MaxRequests + 1] < Window
    BY DEF RejectsOnlySpenders
  <2>1. /\ count[k] = MaxRequests /\ count[k] <= Total(k)
        /\ Total(k) \in Nat /\ start[k] \in Nat /\ now \in Nat
        /\ now < start[k] + Window
        /\ \A i \in 1..Total(k) : allowedAt[k][i] \in Nat
    BY DEF IInv, KeyInv, Current, LimiterTypeOK, Opens, HasRoom, Never, Total
  <2>2. Total(k) - MaxRequests + 1 \in (Total(k) - count[k] + 1)..Total(k)
    BY <2>1
  <2>3. start[k] <= allowedAt[k][Total(k) - MaxRequests + 1]
    BY <2>2 DEF IInv, KeyInv, Current
  <2> QED
    BY <2>1, <2>2, <2>3 DEF Total
<1> QED
  BY <1>1, LimiterInvariant, PTL

\* A rejected client is told exactly when the limiter will take it again
\* (limiter.py:38-39).
THEOREM RetryTold == LimiterSpec => []RetryIsExact
<1>1. IInv => RetryIsExact
  BY DEF IInv, KeyInv, Promised, Current, RetryIsExact, LimiterTypeOK, Opens, HasRoom, Never
<1> QED
  BY <1>1, LimiterInvariant, PTL

HIDE LimiterAssumption

-----------------------------------------------------------------------------
(* LaundryReservation. What PinsAgree and GuessesCounted need to be kept:  *)
(* a lock belongs to its machine, sharing a machine is trouble for all who *)
(* share it, and only the reservation found first is ever guessed at.      *)

\* Only reservations that were made are known to the MachineApi or met trouble.
KnownMade == assigned \cup troubled \subseteq DOMAIN reservations

\* A machine is locked for a reservation of its own.
LockedFor ==
    \A m \in Machines : lock[m].id # Unlocked => reservations[lock[m].id].machine = m

SharedTroubled ==
    \A r, s \in Active :
        r # s /\ reservations[r].machine = reservations[s].machine => r \in troubled

OnlyFoundGuessed == \A m \in Machines : \A r \in OfMachine(m) : r # Found(m) => guesses[r] = 0

NotYetGuessed == \A r \in Ids : r > Len(reservations) => guesses[r] = 0

\* What GuessesCounted says of one machine.
CounterExact(m) ==
    /\ failures[m] = carried[m] + IF OfMachine(m) = {} THEN 0 ELSE guesses[Found(m)]
    /\ carried[m] > 0 => \E r \in troubled : reservations[r].machine = m

LaundryInv ==
    /\ LaundryTypeOK /\ PinsAgree /\ GuessesCounted
    /\ KnownMade /\ LockedFor /\ SharedTroubled /\ OnlyFoundGuessed /\ NotYetGuessed

LEMMA ActiveTyped ==
  ASSUME LaundryTypeOK
  PROVE  /\ DOMAIN reservations = 1..Len(reservations) /\ DOMAIN reservations \subseteq Ids
         /\ Active \subseteq DOMAIN reservations
         /\ \A r \in DOMAIN reservations : reservations[r] \in Reservation
  BY LaundryAssumption DEF LaundryTypeOK, Active, Ids

\* The repository finds the oldest active reservation of a machine.
LEMMA FoundFirst ==
  ASSUME LaundryTypeOK, NEW m \in Machines, OfMachine(m) # {}
  PROVE  /\ Found(m) \in OfMachine(m) /\ Found(m) \in Active
         /\ reservations[Found(m)].machine = m
         /\ \A r \in OfMachine(m) : Found(m) <= r
<1>1. OfMachine(m) \in SUBSET Nat
  BY ActiveTyped DEF OfMachine, Ids
<1>2. Found(m) \in OfMachine(m) /\ \A r \in OfMachine(m) : Found(m) <= r
  BY <1>1, MinOf DEF Found
<1> QED
  BY <1>2 DEF OfMachine

\* A locked machine is locked for a reservation that was made.
LEMMA LockMade ==
  ASSUME LaundryInv, NEW m \in Machines, lock[m].id # Unlocked
  PROVE  lock[m].id \in DOMAIN reservations /\ reservations[lock[m].id].machine = m
  BY DEF LaundryInv, PinsAgree, KnownMade, LockedFor

\* A counter stays exact where neither it, nor the reservations of its machine,
\* nor the guesses at the one that is found change.
LEMMA CounterStays ==
  ASSUME NEW m \in Machines, CounterExact(m),
         failures'[m] = failures[m], carried'[m] = carried[m],
         OfMachine(m)' = OfMachine(m),
         OfMachine(m) # {} => guesses'[Found(m)] = guesses[Found(m)],
         troubled \subseteq troubled',
         \A r \in troubled : reservations'[r].machine = reservations[r].machine
  PROVE  CounterExact(m)'
<1>1. Found(m)' = Found(m)
  BY DEF Found
<1> QED
  BY <1>1 DEF CounterExact

LEMMA LaundryStart == LaundryInit => LaundryInv
<1> SUFFICES ASSUME LaundryInit PROVE LaundryInv
  OBVIOUS
<1>1. reservations = <<>> /\ Len(reservations) = 0 /\ Active = {}
  BY DEF LaundryInit, Active
<1>2. LaundryTypeOK
  BY <1>1, LaundryAssumption DEF LaundryInit, LaundryTypeOK
<1>3. \A m \in Machines : OfMachine(m) = {} /\ failures[m] = 0 /\ lock[m].id = Unlocked
  BY <1>1 DEF LaundryInit, OfMachine
<1>4. PinsAgree /\ KnownMade /\ LockedFor /\ SharedTroubled
  BY <1>1, <1>3 DEF LaundryInit, PinsAgree, KnownMade, LockedFor, SharedTroubled
<1>5. GuessesCounted /\ OnlyFoundGuessed /\ NotYetGuessed
  BY <1>1, <1>3 DEF LaundryInit, GuessesCounted, OnlyFoundGuessed, NotYetGuessed
<1> QED
  BY <1>2, <1>4, <1>5 DEF LaundryInv

\* A new reservation is the last and leaves the others as they were.
LEMMA Created ==
  ASSUME LaundryTypeOK, NEW c \in Customers, NEW m \in Machines, NEW pin \in Pins,
         CreateReservation(c, m, pin),
         NEW id, id = Len(reservations) + 1
  PROVE  /\ id \in Ids /\ id \notin Active /\ \A r \in Active : r < id
         /\ reservations' \in Seq(Reservation) /\ Len(reservations') = id
         /\ Active' = Active \cup {id}
         /\ \A r \in DOMAIN reservations : reservations'[r] = reservations[r]
         /\ reservations'[id].machine = m /\ reservations'[id].pin = pin
         /\ OfMachine(m)' = OfMachine(m) \cup {id}
         /\ \A k \in Machines \ {m} : OfMachine(k)' = OfMachine(k)
<1> DEFINE new == [customer |-> c, machine |-> m, pin |-> pin, used |-> FALSE]
<1>1. /\ reservations \in Seq(Reservation) /\ Len(reservations) \in Nat
      /\ new \in Reservation /\ reservations' = Append(reservations, new)
      /\ id \in Ids
  BY DEF LaundryTypeOK, CreateReservation, Reservation
<1>2. /\ reservations' \in Seq(Reservation) /\ Len(reservations') = id
      /\ DOMAIN reservations' = 1..id
      /\ \A r \in DOMAIN reservations : reservations'[r] = reservations[r]
      /\ reservations'[id] = new
  BY <1>1
<1>3. ~new.used /\ new.machine = m /\ new.pin = pin
  OBVIOUS
<1> HIDE DEF new
<1>4. /\ id \notin Active /\ (\A r \in Active : r < id)
      /\ DOMAIN reservations' = DOMAIN reservations \cup {id}
  BY <1>1, <1>2, ActiveTyped
<1>5. Active' = Active \cup {id}
  BY <1>2, <1>3, <1>4 DEF Active
<1>6. \A r \in Active : reservations'[r] = reservations[r]
  BY <1>2, ActiveTyped
<1>7. \A k \in Machines : OfMachine(k)' = {r \in Active \cup {id} : reservations'[r].machine = k}
  BY <1>5 DEF OfMachine
<1> QED
  BY <1>1, <1>2, <1>3, <1>4, <1>5, <1>6, <1>7 DEF OfMachine

\* What becomes of the lock, the notice and the trouble of the new one.
LEMMA CreatedLock ==
  ASSUME LaundryTypeOK, NEW c \in Customers, NEW m \in Machines, NEW pin \in Pins,
         CreateReservation(c, m, pin),
         NEW id, id = Len(reservations) + 1
  PROVE  /\ troubled \subseteq troubled' /\ troubled' \subseteq troubled \cup OfMachine(m) \cup {id}
         /\ OfMachine(m) # {} => OfMachine(m) \cup {id} \subseteq troubled'
         /\ id \notin troubled' => lock'[m] = [id |-> id, pin |-> pin] /\ told'[id] = pin
         /\ \A k \in Machines \ {m} : lock'[k] = lock[k]
         /\ \A r \in Ids \ {id} : told'[r] = told[r]
         /\ \/ lock'[m] = lock[m] /\ assigned' = assigned
            \/ lock'[m].id = id /\ assigned' = assigned \cup {id}
            \/ lock'[m].id = id /\ id \in troubled' /\ assigned' = assigned
         /\ lock' \in [Machines -> [id : Ids, pin : Pins] \cup {[id |-> Unlocked]}]
         /\ told' \in [Ids -> Pins \cup {Untold}]
<1> DEFINE sharing == IF OfMachine(m) = {} THEN {} ELSE OfMachine(m) \cup {id}
<1>1. /\ lock \in [Machines -> [id : Ids, pin : Pins] \cup {[id |-> Unlocked]}]
      /\ told \in [Ids -> Pins \cup {Untold}] /\ troubled \subseteq Ids
      /\ id \in Ids
  BY DEF LaundryTypeOK, CreateReservation
<1>2. OfMachine(m) \subseteq Ids
  BY ActiveTyped DEF OfMachine
<1>3. /\ sharing \subseteq OfMachine(m) \cup {id}
      /\ OfMachine(m) # {} => OfMachine(m) \cup {id} \subseteq sharing
  BY <1>1, <1>2
<1>4. \/ /\ told' = [told EXCEPT ![id] = pin]
         /\ Lock(id, m, pin, sharing) \/ LockRaises(id, m, pin, sharing)
      \/ troubled' = troubled \cup sharing \cup {id} /\ UNCHANGED <<told, lock, assigned>>
  BY DEF CreateReservation
<1> HIDE DEF sharing
<1>5. CASE /\ told' = [told EXCEPT ![id] = pin]
           /\ Lock(id, m, pin, sharing) \/ LockRaises(id, m, pin, sharing)
  <2>1. CASE /\ lock' = [lock EXCEPT ![m] = [id |-> id, pin |-> pin]]
             /\ assigned' = assigned \cup {id}
             /\ troubled' = troubled \cup sharing
    BY <1>1, <1>3, <1>5, <2>1
  <2>2. CASE troubled' = troubled \cup sharing \cup {id} /\ UNCHANGED <<lock, assigned>>
    BY <1>1, <1>3, <1>5, <2>2
  <2>3. CASE /\ lock' \in {lock, [lock EXCEPT ![m] = [id |-> id, pin |-> pin]]}
             /\ troubled' = troubled \cup sharing \cup {id} /\ assigned' = assigned
    <3>1. CASE lock' = lock
      BY <1>1, <1>3, <1>5, <2>3, <3>1
    <3>2. CASE lock' = [lock EXCEPT ![m] = [id |-> id, pin |-> pin]]
      BY <1>1, <1>3, <1>5, <2>3, <3>2
    <3> QED
      BY <2>3, <3>1, <3>2
  <2> QED
    BY <1>5, <2>1, <2>2, <2>3 DEF Lock, LockRaises
<1>6. CASE troubled' = troubled \cup sharing \cup {id} /\ UNCHANGED <<told, lock, assigned>>
  BY <1>1, <1>3, <1>6
<1> QED
  BY <1>4, <1>5, <1>6

LEMMA CreateKeeps ==
  ASSUME LaundryInv, NEW c \in Customers, NEW m \in Machines, NEW pin \in Pins,
         CreateReservation(c, m, pin)
  PROVE  LaundryInv'
<1> DEFINE id == Len(reservations) + 1
<1>0. LaundryTypeOK /\ id = Len(reservations) + 1
  BY DEF LaundryInv
<1> HIDE DEF id
<1>1. /\ id \in Ids /\ id \notin Active /\ \A r \in Active : r < id
      /\ reservations' \in Seq(Reservation) /\ Len(reservations') = id
      /\ Active' = Active \cup {id}
      /\ \A r \in DOMAIN reservations : reservations'[r] = reservations[r]
      /\ reservations'[id].machine = m /\ reservations'[id].pin = pin
      /\ OfMachine(m)' = OfMachine(m) \cup {id}
      /\ \A k \in Machines \ {m} : OfMachine(k)' = OfMachine(k)
  BY <1>0, Created
<1>15. DOMAIN reservations' = DOMAIN reservations \cup {id}
  BY <1>0, <1>1 DEF LaundryTypeOK
<1>2. /\ troubled \subseteq troubled' /\ troubled' \subseteq troubled \cup OfMachine(m) \cup {id}
      /\ OfMachine(m) # {} => OfMachine(m) \cup {id} \subseteq troubled'
      /\ id \notin troubled' => lock'[m] = [id |-> id, pin |-> pin] /\ told'[id] = pin
      /\ \A k \in Machines \ {m} : lock'[k] = lock[k]
      /\ \A r \in Ids \ {id} : told'[r] = told[r]
      /\ \/ lock'[m] = lock[m] /\ assigned' = assigned
         \/ lock'[m].id = id /\ assigned' = assigned \cup {id}
         \/ lock'[m].id = id /\ id \in troubled' /\ assigned' = assigned
      /\ lock' \in [Machines -> [id : Ids, pin : Pins] \cup {[id |-> Unlocked]}]
      /\ told' \in [Ids -> Pins \cup {Untold}]
  BY <1>0, CreatedLock
<1>3. failures' = failures /\ guesses' = guesses /\ carried' = carried
  BY DEF CreateReservation
<1>4. /\ Active \subseteq DOMAIN reservations /\ DOMAIN reservations \subseteq Ids
      /\ Active \subseteq Ids /\ \A r \in Active : reservations[r].machine \in Machines
      /\ OfMachine(m) \subseteq DOMAIN reservations
  BY <1>0, ActiveTyped DEF Reservation, OfMachine
<1>14. KnownMade'
  <2>1. assigned \subseteq DOMAIN reservations /\ troubled \subseteq DOMAIN reservations
    BY DEF LaundryInv, KnownMade
  <2>2. assigned' \subseteq DOMAIN reservations'
    BY <1>1, <1>2, <1>15, <2>1
  <2>3. troubled' \subseteq DOMAIN reservations'
    BY <1>1, <1>2, <1>4, <1>15, <2>1
  <2> QED
    BY <2>2, <2>3 DEF KnownMade
<1>5. LaundryTypeOK'
  <2>1. Len(reservations') <= MaxReservations
    BY <1>1, LaundryAssumption DEF Ids
  <2>2. assigned' \subseteq Ids
    BY <1>0, <1>1, <1>2 DEF LaundryTypeOK
  <2>3. troubled' \subseteq Ids
    BY <1>0, <1>1, <1>2, <1>4 DEF LaundryTypeOK
  <2> QED
    BY <1>0, <1>1, <1>2, <1>3, <2>1, <2>2, <2>3 DEF LaundryTypeOK
<1>6. PinsAgree'
  <2>1. ASSUME NEW r \in Active' \ troubled'
        PROVE  /\ lock'[reservations'[r].machine] = [id |-> r, pin |-> reservations'[r].pin]
               /\ told'[r] = reservations'[r].pin
    <3>1. CASE r = id
      BY <1>1, <1>2, <2>1, <3>1
    <3>2. CASE r # id
      <4>1. /\ r \in Active \ troubled /\ r \in Ids
            /\ reservations'[r] = reservations[r]
        BY <1>1, <1>2, <1>4, <2>1, <3>2
      <4>2. reservations[r].machine # m
        BY <1>2, <2>1, <4>1 DEF OfMachine
      <4>3. /\ lock[reservations[r].machine] = [id |-> r, pin |-> reservations[r].pin]
            /\ told[r] = reservations[r].pin
        BY <4>1 DEF LaundryInv, PinsAgree
      <4> QED
        BY <1>2, <1>4, <3>2, <4>1, <4>2, <4>3
    <3> QED
      BY <3>1, <3>2
  <2>2. ASSUME NEW k \in Machines
        PROVE  lock'[k].id \in (assigned' \cap Active') \cup troubled' \cup {Unlocked}
    <3>1. lock[k].id \in (assigned \cap Active) \cup troubled \cup {Unlocked}
      BY DEF LaundryInv, PinsAgree
    <3>2. CASE lock'[k] = lock[k]
      BY <1>1, <1>2, <3>1, <3>2
    <3>3. CASE k = m /\ lock'[m] # lock[m]
      BY <1>1, <1>2, <3>3
    <3> QED
      BY <1>2, <3>2, <3>3
  <2>3. assigned' \subseteq Active' \cup troubled'
    BY <1>1, <1>2 DEF LaundryInv, PinsAgree
  <2> QED
    BY <2>1, <2>2, <2>3 DEF PinsAgree
<1>7. \A k \in Machines : OfMachine(k) # {} => OfMachine(k)' # {} /\ Found(k)' = Found(k)
  <2> SUFFICES ASSUME NEW k \in Machines, OfMachine(k) # {}
               PROVE  OfMachine(k)' # {} /\ Found(k)' = Found(k)
    OBVIOUS
  <2>1. CASE k # m
    <3>1. OfMachine(k)' = OfMachine(k)
      BY <1>1, <2>1
    <3> QED
      BY <3>1 DEF Found
  <2>2. CASE k = m
    <3>1. Found(k) \in OfMachine(k) /\ \A r \in OfMachine(k) : Found(k) <= r
      BY <1>0, FoundFirst
    <3>2. OfMachine(k)' # {} /\ OfMachine(k) \subseteq Active
      BY <1>1, <2>2 DEF OfMachine
    <3>3. Found(k)' \in OfMachine(k)' /\ \A r \in OfMachine(k)' : Found(k)' <= r
      <4>1. OfMachine(k)' \in SUBSET Nat
        <5>1. OfMachine(k)' = OfMachine(k) \cup {id}
          BY <1>1, <2>2
        <5>2. OfMachine(k) \subseteq Ids /\ id \in Ids
          BY <1>1, <1>4, <3>2
        <5>3. Ids \subseteq Nat
          BY DEF Ids
        <5> QED
          BY <5>1, <5>2, <5>3
      <4> QED
        BY <3>2, <4>1, MinOf DEF Found
    <3>4. Found(k) < id /\ Found(k)' <= Found(k)
      BY <1>1, <2>2, <3>1, <3>2, <3>3
    <3>5. PICK a, b \in Ids : a = Found(k) /\ b = Found(k)'
      BY <1>1, <1>4, <2>2, <3>1, <3>2, <3>3
    <3>6. b \in OfMachine(k)
      BY <1>1, <2>2, <3>3, <3>4, <3>5 DEF Ids
    <3>7. a <= b /\ b <= a
      BY <3>1, <3>4, <3>5, <3>6
    <3> QED
      BY <3>2, <3>5, <3>7 DEF Ids
  <2> QED
    BY <2>1, <2>2
<1>8. guesses[id] = 0
  BY <1>0, <1>1 DEF LaundryInv, NotYetGuessed, LaundryTypeOK
<1>9. GuessesCounted'
  <2>1. \A r \in Active' : guesses'[r] < MaxFailedAttempts
    BY <1>1, <1>3, <1>8, LaundryAssumption DEF LaundryInv, GuessesCounted
  <2>2. ASSUME NEW k \in Machines PROVE CounterExact(k)'
    <3>1. CounterExact(k)
      BY DEF LaundryInv, GuessesCounted, CounterExact
    <3>2. \A r \in troubled : r \in troubled' /\ reservations'[r].machine = reservations[r].machine
      BY <1>1, <1>2 DEF LaundryInv, KnownMade
    <3>3. CASE OfMachine(k) # {}
      BY <1>3, <1>7, <3>1, <3>2, <3>3 DEF CounterExact
    <3>4. CASE OfMachine(k) = {} /\ k # m
      BY <1>1, <1>3, <3>1, <3>2, <3>4 DEF CounterExact
    <3>5. CASE OfMachine(k) = {} /\ k = m
      <4>1. OfMachine(k)' = {id}
        BY <1>1, <3>5
      <4>2. Found(k)' = id
        BY <1>1, <4>1, MinOfOne DEF Found, Ids
      <4>3. /\ OfMachine(k)' # {}
            /\ guesses'[Found(k)'] = 0
        BY <1>3, <1>8, <4>1, <4>2
      <4> QED
        BY <1>3, <3>1, <3>2, <3>5, <4>3 DEF CounterExact
    <3> QED
      BY <3>3, <3>4, <3>5
  <2> QED
    BY <2>1, <2>2 DEF GuessesCounted, CounterExact
<1>10. LockedFor'
  <2> SUFFICES ASSUME NEW k \in Machines, lock'[k].id # Unlocked
               PROVE  reservations'[lock'[k].id].machine = k
    BY DEF LockedFor
  <2>1. CASE lock'[k] = lock[k]
    <3>1. lock[k].id \in DOMAIN reservations /\ reservations[lock[k].id].machine = k
      BY <2>1, LockMade
    <3> QED
      BY <1>1, <2>1, <3>1
  <2>2. CASE k = m /\ lock'[k].id = id
    BY <1>1, <2>2
  <2> QED
    BY <1>2, <2>1, <2>2
<1>11. SharedTroubled'
  <2> SUFFICES ASSUME NEW r \in Active', NEW s \in Active', r # s,
                      reservations'[r].machine = reservations'[s].machine
               PROVE  r \in troubled'
    BY DEF SharedTroubled
  <2>1. CASE r # id /\ s # id
    BY <1>1, <1>2, <1>4, <2>1 DEF LaundryInv, SharedTroubled
  <2>2. CASE r = id
    <3>1. s \in OfMachine(m)
      BY <1>1, <2>2 DEF OfMachine
    <3> QED
      BY <1>2, <2>2, <3>1
  <2>3. CASE s = id
    <3>1. r \in OfMachine(m)
      BY <1>1, <2>3 DEF OfMachine
    <3> QED
      BY <1>2, <3>1
  <2> QED
    BY <2>1, <2>2, <2>3
<1>12. OnlyFoundGuessed'
  <2> SUFFICES ASSUME NEW k \in Machines, NEW r \in OfMachine(k)', r # Found(k)'
               PROVE  guesses'[r] = 0
    BY DEF OnlyFoundGuessed
  <2>1. CASE r = id
    BY <1>3, <1>8, <2>1
  <2>2. CASE r # id
    <3>1. r \in OfMachine(k)
      BY <1>1, <2>2
    <3> QED
      BY <1>3, <1>7, <3>1 DEF LaundryInv, OnlyFoundGuessed
  <2> QED
    BY <2>1, <2>2
<1>13. NotYetGuessed'
  <2> SUFFICES ASSUME NEW r \in Ids, r > Len(reservations') PROVE guesses'[r] = 0
    BY DEF NotYetGuessed, Ids
  <2>1. r > Len(reservations)
    BY <1>0, <1>1 DEF LaundryTypeOK, Ids
  <2> QED
    BY <1>3, <2>1 DEF LaundryInv, NotYetGuessed
<1> QED
  BY <1>5, <1>6, <1>9, <1>10, <1>11, <1>12, <1>13, <1>14 DEF LaundryInv

\* One reservation of the repository is changed in its place.
LEMMA Replaced ==
  ASSUME NEW S, NEW res \in Seq(S), NEW r \in DOMAIN res, NEW x \in S
  PROVE  /\ [res EXCEPT ![r] = x] \in Seq(S) /\ Len([res EXCEPT ![r] = x]) = Len(res)
         /\ DOMAIN [res EXCEPT ![r] = x] = DOMAIN res
         /\ \A s \in DOMAIN res \ {r} : [res EXCEPT ![r] = x][s] = res[s]
         /\ [res EXCEPT ![r] = x][r] = x
  BY ExceptSeq

\* Claiming uses the reservation up, whether its machine unlocks or its device
\* raises; everything about the others stays.
LEMMA ClaimKeeps ==
  ASSUME LaundryInv, NEW m \in Machines, NEW pin \in Pins, ClaimRight(m, pin)
  PROVE  LaundryInv'
<1> DEFINE r == Found(m)
<1>0. LaundryTypeOK /\ OfMachine(m) # {}
  BY DEF LaundryInv, ClaimRight
<1>1. /\ r \in OfMachine(m) /\ r \in Active /\ reservations[r].machine = m
      /\ r \in DOMAIN reservations /\ r \in Ids
  BY <1>0, FoundFirst, ActiveTyped
<1>2. /\ reservations' = [reservations EXCEPT ![r].used = TRUE]
      /\ Unlock(r, m) \/ UnlockRaises(r, m)
      /\ told' = told /\ guesses' = guesses
  BY DEF ClaimRight
<1> HIDE DEF r
<1>3. /\ reservations' \in Seq(Reservation) /\ Len(reservations') = Len(reservations)
      /\ DOMAIN reservations' = DOMAIN reservations
      /\ \A s \in DOMAIN reservations \ {r} : reservations'[s] = reservations[s]
      /\ reservations'[r].used
      /\ \A s \in DOMAIN reservations : reservations'[s].machine = reservations[s].machine
  <2> DEFINE x == [reservations[r] EXCEPT !.used = TRUE]
  <2>1. reservations \in Seq(Reservation) /\ reservations[r] \in Reservation
    BY <1>0, <1>1, ActiveTyped DEF LaundryTypeOK
  <2>2. x \in Reservation /\ x.used /\ x.machine = reservations[r].machine
    BY <2>1 DEF Reservation
  <2>3. reservations' = [reservations EXCEPT ![r] = x]
    BY <1>2
  <2> HIDE DEF x
  <2> QED
    BY <1>1, <2>1, <2>2, <2>3, Replaced
<1>4. Active' = Active \ {r} /\ Active \subseteq DOMAIN reservations
  BY <1>0, <1>3, ActiveTyped DEF Active
<1>5. \A s \in Active' : reservations'[s] = reservations[s] /\ s \in Ids
  BY <1>0, <1>3, <1>4, ActiveTyped
<1>6. /\ OfMachine(m)' = OfMachine(m) \ {r}
      /\ \A k \in Machines \ {m} : OfMachine(k)' = OfMachine(k)
  BY <1>1, <1>4, <1>5 DEF OfMachine
<1>7. \A k \in Machines \ {m} : Found(k)' = Found(k)
  BY <1>6 DEF Found
\* What the unlocking did, or left when the device raised.
<1>8. /\ \A k \in Machines \ {m} : /\ lock'[k] = lock[k] /\ failures'[k] = failures[k]
                                   /\ carried'[k] = carried[k]
      /\ lock'[m].id = Unlocked \/ (lock'[m] = lock[m] /\ r \in troubled')
      /\ failures'[m] = carried'[m]
      /\ carried'[m] = 0 \/ r \in troubled'
      /\ troubled \subseteq troubled' /\ troubled' \subseteq troubled \cup {r}
      /\ assigned' \subseteq assigned /\ (r \notin assigned' \/ r \in troubled')
      /\ assigned \ {r} \subseteq assigned'
      /\ failures' \in [Machines -> 0..MaxFailures]
      /\ carried' \in [Machines -> 0..MaxFailures]
      /\ lock' \in [Machines -> [id : Ids, pin : Pins] \cup {[id |-> Unlocked]}]
  <2>0. /\ lock \in [Machines -> [id : Ids, pin : Pins] \cup {[id |-> Unlocked]}]
        /\ failures \in [Machines -> 0..MaxFailures] /\ 0 \in 0..MaxFailures
        /\ carried \in [Machines -> 0..MaxFailures]
    BY <1>0, LaundryAssumption DEF LaundryTypeOK
  <2>1. CASE Unlock(r, m)
    BY <2>0, <2>1 DEF Unlock
  <2>2. CASE UnlockRaises(r, m)
    <3>1. lock' \in {lock, [lock EXCEPT ![m] = [id |-> Unlocked]]}
      BY <2>2 DEF UnlockRaises
    <3>2. /\ carried' = [carried EXCEPT ![m] = failures[m]]
          /\ troubled' = troubled \cup {r} /\ assigned' = assigned /\ failures' = failures
      BY <2>2 DEF UnlockRaises
    <3>3. CASE lock' = lock
      BY <2>0, <3>2, <3>3
    <3>4. CASE lock' = [lock EXCEPT ![m] = [id |-> Unlocked]]
      BY <2>0, <3>2, <3>4
    <3> QED
      BY <3>1, <3>3, <3>4
  <2> QED
    BY <1>2, <2>1, <2>2
<1>9. LaundryTypeOK'
  <2>1. assigned' \subseteq Ids /\ troubled' \subseteq Ids
    BY <1>0, <1>1, <1>8 DEF LaundryTypeOK
  <2> QED
    BY <1>0, <1>2, <1>3, <1>8, <2>1 DEF LaundryTypeOK
<1>10. KnownMade'
  <2>1. assigned \subseteq DOMAIN reservations /\ troubled \subseteq DOMAIN reservations
    BY DEF LaundryInv, KnownMade
  <2> QED
    BY <1>1, <1>3, <1>8, <2>1 DEF KnownMade
<1>11. LockedFor'
  <2> SUFFICES ASSUME NEW k \in Machines, lock'[k].id # Unlocked
               PROVE  reservations'[lock'[k].id].machine = k
    BY DEF LockedFor
  <2>1. lock'[k] = lock[k]
    BY <1>8
  <2> QED
    BY <1>3, <2>1, LockMade
<1>12. PinsAgree'
  <2>1. ASSUME NEW s \in Active' \ troubled'
        PROVE  /\ lock'[reservations'[s].machine] = [id |-> s, pin |-> reservations'[s].pin]
               /\ told'[s] = reservations'[s].pin
    <3>1. s \in Active \ troubled /\ s # r /\ reservations'[s] = reservations[s]
      BY <1>4, <1>5, <1>8, <2>1
    <3>2. reservations[s].machine # m
      BY <1>1, <3>1 DEF LaundryInv, SharedTroubled
    <3>3. reservations[s].machine \in Machines
      BY <1>0, <1>4, <3>1, ActiveTyped DEF Reservation
    <3>4. lock'[reservations[s].machine] = lock[reservations[s].machine]
      BY <1>8, <3>2, <3>3
    <3>5. /\ lock[reservations[s].machine] = [id |-> s, pin |-> reservations[s].pin]
          /\ told[s] = reservations[s].pin
      BY <3>1 DEF LaundryInv, PinsAgree
    <3> QED
      BY <1>2, <3>1, <3>4, <3>5
  <2>2. ASSUME NEW k \in Machines
        PROVE  lock'[k].id \in (assigned' \cap Active') \cup troubled' \cup {Unlocked}
    <3>1. CASE k = m
      <4>1. CASE lock'[m].id = Unlocked
        BY <3>1, <4>1
      <4>2. CASE lock'[m] = lock[m] /\ r \in troubled'
        <5>1. lock[m].id \in (assigned \cap Active) \cup troubled \cup {Unlocked}
          BY DEF LaundryInv, PinsAgree
        <5> QED
          BY <1>4, <1>8, <3>1, <4>2, <5>1
      <4> QED
        BY <1>8, <4>1, <4>2
    <3>2. CASE k # m
      <4>1. lock'[k] = lock[k] /\ lock[k].id \in (assigned \cap Active) \cup troubled \cup {Unlocked}
        BY <1>8, <3>2 DEF LaundryInv, PinsAgree
      <4>2. lock[k].id = Unlocked \/ lock[k].id # r
        BY <1>1, <3>2, LockMade
      <4> QED
        BY <1>4, <1>8, <4>1, <4>2
    <3> QED
      BY <3>1, <3>2
  <2>3. assigned' \subseteq Active' \cup troubled'
    BY <1>4, <1>8 DEF LaundryInv, PinsAgree
  <2> QED
    BY <2>1, <2>2, <2>3 DEF PinsAgree
<1>13. SharedTroubled'
  BY <1>4, <1>5, <1>8 DEF LaundryInv, SharedTroubled
<1>14. GuessesCounted'
  <2>1. \A s \in Active' : guesses'[s] < MaxFailedAttempts
    BY <1>2, <1>4 DEF LaundryInv, GuessesCounted
  <2>2. ASSUME NEW k \in Machines PROVE CounterExact(k)'
    <3>1. CASE k = m
      <4>1. OfMachine(m)' # {} => guesses'[Found(m)'] = 0
        <5> SUFFICES ASSUME OfMachine(m)' # {} PROVE guesses'[Found(m)'] = 0
          OBVIOUS
        <5>1. OfMachine(m)' \in SUBSET Nat
          BY <1>0, <1>6, ActiveTyped DEF OfMachine, Ids
        <5>2. Found(m)' \in OfMachine(m) \ {r}
          BY <1>6, <5>1, MinOf DEF Found
        <5> QED
          BY <1>2, <5>2 DEF LaundryInv, OnlyFoundGuessed, r
      <4>2. carried'[m] \in Nat
        BY <1>8
      <4>3. carried'[m] > 0 => r \in troubled' /\ reservations'[r].machine = m
        BY <1>1, <1>3, <1>8
      <4> QED
        BY <1>8, <3>1, <4>1, <4>2, <4>3 DEF CounterExact
    <3>2. CASE k # m
      <4>1. CounterExact(k)
        BY DEF LaundryInv, GuessesCounted, CounterExact
      <4>2. \A s \in troubled : reservations'[s].machine = reservations[s].machine
        BY <1>3 DEF LaundryInv, KnownMade
      <4>3. failures'[k] = failures[k] /\ carried'[k] = carried[k] /\ OfMachine(k)' = OfMachine(k)
        BY <1>6, <1>8, <3>2
      <4> QED
        BY <1>2, <1>8, <4>1, <4>2, <4>3, CounterStays
    <3> QED
      BY <3>1, <3>2
  <2> QED
    BY <2>1, <2>2 DEF GuessesCounted, CounterExact
<1>15. OnlyFoundGuessed'
  <2> SUFFICES ASSUME NEW k \in Machines, NEW s \in OfMachine(k)', s # Found(k)'
               PROVE  guesses'[s] = 0
    BY DEF OnlyFoundGuessed
  <2>1. CASE k = m
    BY <1>2, <1>6, <2>1 DEF LaundryInv, OnlyFoundGuessed, r
  <2>2. CASE k # m
    BY <1>2, <1>6, <1>7, <2>2 DEF LaundryInv, OnlyFoundGuessed
  <2> QED
    BY <2>1, <2>2
<1>16. NotYetGuessed'
  BY <1>2, <1>3 DEF LaundryInv, NotYetGuessed
<1> QED
  BY <1>9, <1>10, <1>11, <1>12, <1>13, <1>14, <1>15, <1>16 DEF LaundryInv

\* A wrong pin is counted for the machine and for the one it was guessed at.
LEMMA GuessKeeps ==
  ASSUME LaundryInv, NEW m \in Machines, NEW pin \in Pins, ClaimWrong(m, pin)
  PROVE  LaundryInv'
<1> DEFINE r == Found(m)
<1>0. LaundryTypeOK /\ OfMachine(m) # {}
  BY DEF LaundryInv, ClaimWrong
<1>1. r \in OfMachine(m) /\ r \in Active /\ reservations[r].machine = m /\ r \in Ids
  BY <1>0, FoundFirst, ActiveTyped
<1>2. /\ failures[m] + 1 < MaxFailedAttempts
      /\ failures' = [failures EXCEPT ![m] = @ + 1]
      /\ guesses' = [guesses EXCEPT ![r] = @ + 1]
      /\ UNCHANGED <<reservations, lock, assigned, told, carried, troubled>>
  BY <1>0, LaundryAssumption DEF ClaimWrong, LockedOut, LaundryTypeOK
<1>3. /\ Active' = Active
      /\ \A k \in Machines : OfMachine(k)' = OfMachine(k) /\ Found(k)' = Found(k)
  BY <1>2 DEF Active, OfMachine, Found
<1>4. /\ failures[m] \in Nat /\ failures'[m] = failures[m] + 1
      /\ \A k \in Machines \ {m} : failures'[k] = failures[k]
      /\ guesses[r] \in Nat /\ guesses'[r] = guesses[r] + 1
      /\ \A s \in Ids \ {r} : guesses'[s] = guesses[s]
  BY <1>0, <1>1, <1>2 DEF LaundryTypeOK
<1>5. failures[m] = carried[m] + guesses[r] /\ carried[m] \in Nat
  BY <1>0 DEF LaundryInv, GuessesCounted, LaundryTypeOK
<1> HIDE DEF r
<1>6. LaundryTypeOK'
  <2>1. failures[m] + 1 \in 0..MaxFailures
    BY <1>2, <1>4, LaundryAssumption
  <2> QED
    BY <1>0, <1>1, <1>2, <1>4, <2>1 DEF LaundryTypeOK
<1>7. PinsAgree' /\ KnownMade' /\ LockedFor' /\ SharedTroubled'
  BY <1>2, <1>3 DEF LaundryInv, PinsAgree, KnownMade, LockedFor, SharedTroubled
<1>8. GuessesCounted'
  <2>1. ASSUME NEW s \in Active' PROVE guesses'[s] < MaxFailedAttempts
    <3>1. s \in Active /\ s \in Ids
      BY <1>0, <1>3, ActiveTyped
    <3>2. CASE s = r
      BY <1>2, <1>4, <1>5, <3>2, LaundryAssumption
    <3>3. CASE s # r
      BY <1>4, <3>1, <3>3 DEF LaundryInv, GuessesCounted
    <3> QED
      BY <3>2, <3>3
  <2>2. ASSUME NEW k \in Machines PROVE CounterExact(k)'
    <3>1. CounterExact(k)
      BY DEF LaundryInv, GuessesCounted, CounterExact
    <3>2. CASE k = m
      <4>1. OfMachine(k)' # {} /\ Found(k)' = r
        BY <1>0, <1>3, <3>2 DEF r
      <4>2. failures'[k] = carried'[k] + guesses'[Found(k)']
        BY <1>2, <1>4, <1>5, <3>2, <4>1
      <4> QED
        BY <1>2, <3>1, <4>1, <4>2 DEF CounterExact
    <3>3. CASE k # m
      <4>1. OfMachine(k) # {} => Found(k) \in Ids /\ Found(k) # r
        BY <1>0, <1>1, <3>3, FoundFirst, ActiveTyped
      <4> QED
        BY <1>2, <1>3, <1>4, <3>1, <3>3, <4>1, CounterStays
    <3> QED
      BY <3>2, <3>3
  <2> QED
    BY <2>1, <2>2 DEF GuessesCounted, CounterExact
<1>9. OnlyFoundGuessed'
  <2> SUFFICES ASSUME NEW k \in Machines, NEW s \in OfMachine(k), s # Found(k)
               PROVE  guesses'[s] = 0
    BY <1>3 DEF OnlyFoundGuessed
  <2>1. guesses[s] = 0
    BY DEF LaundryInv, OnlyFoundGuessed
  <2>2. s \in Ids /\ reservations[s].machine = k
    BY <1>0, ActiveTyped DEF OfMachine
  <2>3. s # r
    BY <1>1, <2>2 DEF r
  <2> QED
    BY <1>4, <2>1, <2>2, <2>3
<1>10. NotYetGuessed'
  <2>1. r <= Len(reservations)
    BY <1>0, <1>1, ActiveTyped
  <2>2. r \in Int /\ Len(reservations) \in Int
    BY <1>0, <1>1 DEF LaundryTypeOK, Ids
  <2> QED
    BY <1>2, <1>4, <2>1, <2>2 DEF LaundryInv, NotYetGuessed
<1> QED
  BY <1>6, <1>7, <1>8, <1>9, <1>10 DEF LaundryInv

\* A lock-out gives the reservation a new pin and a fresh count of guesses.
LEMMA LockOutKeeps ==
  ASSUME LaundryInv, NEW m \in Machines, NEW pin \in Pins, NEW new \in Pins,
         ClaimLockedOut(m, pin, new)
  PROVE  LaundryInv'
<1> DEFINE r == Found(m)
<1>0. LaundryTypeOK /\ OfMachine(m) # {}
  BY DEF LaundryInv, ClaimLockedOut
<1>1. /\ r \in OfMachine(m) /\ r \in Active /\ reservations[r].machine = m
      /\ r \in DOMAIN reservations /\ r \in Ids
  BY <1>0, FoundFirst, ActiveTyped
<1>2. /\ failures[m] < MaxFailures
      /\ reservations' = [reservations EXCEPT ![r].pin = new]
      /\ guesses' = [guesses EXCEPT ![r] = 0]
      /\ \/ /\ told' = [told EXCEPT ![r] = new]
            /\ Lock(r, m, new, {})
            /\ failures' = [failures EXCEPT ![m] = 0]
            /\ carried' = [carried EXCEPT ![m] = 0]
         \/ /\ \/ /\ troubled' = troubled \cup {r}
                  /\ UNCHANGED <<told, lock, assigned>>
               \/ /\ told' = [told EXCEPT ![r] = new]
                  /\ LockRaises(r, m, new, {})
            /\ failures' = [failures EXCEPT ![m] = @ + 1]
            /\ carried' = [carried EXCEPT ![m] = failures[m] + 1]
  BY DEF ClaimLockedOut, RelockPin
<1> HIDE DEF r
<1>3. /\ reservations' \in Seq(Reservation) /\ Len(reservations') = Len(reservations)
      /\ DOMAIN reservations' = DOMAIN reservations
      /\ \A s \in DOMAIN reservations \ {r} : reservations'[s] = reservations[s]
      /\ reservations'[r].pin = new
      /\ \A s \in DOMAIN reservations :
           /\ reservations'[s].used = reservations[s].used
           /\ reservations'[s].machine = reservations[s].machine
  <2> DEFINE x == [reservations[r] EXCEPT !.pin = new]
  <2>1. reservations \in Seq(Reservation) /\ reservations[r] \in Reservation
    BY <1>0, <1>1, ActiveTyped DEF LaundryTypeOK
  <2>2. /\ x \in Reservation /\ x.pin = new
        /\ x.used = reservations[r].used /\ x.machine = reservations[r].machine
    BY <2>1 DEF Reservation
  <2>3. reservations' = [reservations EXCEPT ![r] = x]
    BY <1>2
  <2> HIDE DEF x
  <2> QED
    BY <1>1, <2>1, <2>2, <2>3, Replaced
<1>4. Active' = Active /\ Active \subseteq DOMAIN reservations /\ Active \subseteq Ids
  BY <1>0, <1>3, ActiveTyped DEF Active
<1>5. \A k \in Machines : OfMachine(k)' = OfMachine(k) /\ Found(k)' = Found(k)
  BY <1>3, <1>4 DEF OfMachine, Found
<1>6. /\ troubled \subseteq troubled' /\ troubled' \subseteq troubled \cup {r}
      /\ r \notin troubled' => lock'[m] = [id |-> r, pin |-> new] /\ told'[r] = new
      /\ \A k \in Machines \ {m} : /\ lock'[k] = lock[k] /\ failures'[k] = failures[k]
                                   /\ carried'[k] = carried[k]
      /\ \A s \in Ids \ {r} : told'[s] = told[s]
      /\ \/ lock'[m] = lock[m] /\ assigned' = assigned
         \/ lock'[m].id = r /\ assigned' = assigned \cup {r}
         \/ lock'[m].id = r /\ r \in troubled' /\ assigned' = assigned
      /\ failures'[m] = carried'[m] /\ (carried'[m] = 0 \/ r \in troubled')
      /\ lock' \in [Machines -> [id : Ids, pin : Pins] \cup {[id |-> Unlocked]}]
      /\ told' \in [Ids -> Pins \cup {Untold}]
      /\ failures' \in [Machines -> 0..MaxFailures]
      /\ carried' \in [Machines -> 0..MaxFailures]
  <2>0. /\ lock \in [Machines -> [id : Ids, pin : Pins] \cup {[id |-> Unlocked]}]
        /\ told \in [Ids -> Pins \cup {Untold}]
        /\ failures \in [Machines -> 0..MaxFailures] /\ 0 \in 0..MaxFailures
        /\ carried \in [Machines -> 0..MaxFailures]
        /\ failures[m] + 1 \in 0..MaxFailures
    BY <1>0, <1>2, LaundryAssumption DEF LaundryTypeOK
  <2>1. CASE /\ told' = [told EXCEPT ![r] = new]
             /\ Lock(r, m, new, {})
             /\ failures' = [failures EXCEPT ![m] = 0]
             /\ carried' = [carried EXCEPT ![m] = 0]
    <3>1. CASE /\ lock' = [lock EXCEPT ![m] = [id |-> r, pin |-> new]]
               /\ assigned' = assigned \cup {r}
               /\ troubled' = troubled \cup {}
      BY <1>1, <2>0, <2>1, <3>1
    <3>2. CASE troubled' = troubled \cup {} \cup {r} /\ UNCHANGED <<lock, assigned>>
      BY <1>1, <2>0, <2>1, <3>2
    <3> QED
      BY <2>1, <3>1, <3>2 DEF Lock
  <2>2. CASE /\ \/ /\ troubled' = troubled \cup {r}
                   /\ UNCHANGED <<told, lock, assigned>>
                \/ /\ told' = [told EXCEPT ![r] = new]
                   /\ LockRaises(r, m, new, {})
             /\ failures' = [failures EXCEPT ![m] = @ + 1]
             /\ carried' = [carried EXCEPT ![m] = failures[m] + 1]
    <3>1. /\ troubled' = troubled \cup {r} /\ assigned' = assigned
          /\ told' = told \/ told' = [told EXCEPT ![r] = new]
          /\ lock' = lock \/ lock' = [lock EXCEPT ![m] = [id |-> r, pin |-> new]]
      BY <2>2 DEF LockRaises
    <3>2. /\ \A s \in Ids \ {r} : told'[s] = told[s]
          /\ told' \in [Ids -> Pins \cup {Untold}]
      BY <1>1, <2>0, <3>1
    <3>3. /\ \A k \in Machines \ {m} : lock'[k] = lock[k]
          /\ lock'[m] = lock[m] \/ lock'[m].id = r
          /\ lock' \in [Machines -> [id : Ids, pin : Pins] \cup {[id |-> Unlocked]}]
      BY <1>1, <2>0, <3>1
    <3> QED
      BY <2>0, <2>2, <3>1, <3>2, <3>3
  <2> QED
    BY <1>2, <2>1, <2>2
<1>7. guesses'[r] = 0 /\ \A s \in Ids \ {r} : guesses'[s] = guesses[s]
  BY <1>0, <1>1, <1>2 DEF LaundryTypeOK
<1>8. LaundryTypeOK'
  <2>1. guesses' \in [Ids -> Nat]
    BY <1>0, <1>2 DEF LaundryTypeOK
  <2>2. assigned' \subseteq Ids /\ troubled' \subseteq Ids
    BY <1>0, <1>1, <1>6 DEF LaundryTypeOK
  <2> QED
    BY <1>0, <1>3, <1>6, <2>1, <2>2 DEF LaundryTypeOK
<1>9. LockedFor'
  <2> SUFFICES ASSUME NEW k \in Machines, lock'[k].id # Unlocked
               PROVE  reservations'[lock'[k].id].machine = k
    BY DEF LockedFor
  <2>1. CASE lock'[k] = lock[k]
    <3>1. lock[k].id \in DOMAIN reservations /\ reservations[lock[k].id].machine = k
      BY <2>1, LockMade
    <3> QED
      BY <1>3, <2>1, <3>1
  <2>2. CASE k = m /\ lock'[k].id = r
    BY <1>1, <1>3, <2>2
  <2> QED
    BY <1>6, <2>1, <2>2
<1>10. PinsAgree'
  <2>1. ASSUME NEW s \in Active' \ troubled'
        PROVE  /\ lock'[reservations'[s].machine] = [id |-> s, pin |-> reservations'[s].pin]
               /\ told'[s] = reservations'[s].pin
    <3>1. CASE s = r
      BY <1>1, <1>3, <1>6, <2>1, <3>1
    <3>2. CASE s # r
      <4>1. s \in Active \ troubled /\ s \in Ids /\ reservations'[s] = reservations[s]
        BY <1>3, <1>4, <1>6, <2>1, <3>2
      <4>2. reservations[s].machine # m /\ reservations[s].machine \in Machines
        <5>1. reservations[s].machine # m
          BY <1>1, <3>2, <4>1 DEF LaundryInv, SharedTroubled
        <5>2. reservations[s] \in Reservation
          BY <1>0, <4>1, ActiveTyped
        <5> QED
          BY <5>1, <5>2 DEF Reservation
      <4>3. /\ lock[reservations[s].machine] = [id |-> s, pin |-> reservations[s].pin]
            /\ told[s] = reservations[s].pin
        BY <4>1 DEF LaundryInv, PinsAgree
      <4> QED
        BY <1>6, <3>2, <4>1, <4>2, <4>3
    <3> QED
      BY <3>1, <3>2
  <2>2. ASSUME NEW k \in Machines
        PROVE  lock'[k].id \in (assigned' \cap Active') \cup troubled' \cup {Unlocked}
    <3>1. lock[k].id \in (assigned \cap Active) \cup troubled \cup {Unlocked}
      BY DEF LaundryInv, PinsAgree
    <3>2. CASE lock'[k] = lock[k]
      BY <1>4, <1>6, <3>1, <3>2
    <3>3. CASE k = m /\ lock'[m] # lock[m]
      BY <1>1, <1>4, <1>6, <3>3
    <3> QED
      BY <1>6, <3>2, <3>3
  <2>3. assigned' \subseteq Active' \cup troubled'
    BY <1>1, <1>4, <1>6 DEF LaundryInv, PinsAgree
  <2> QED
    BY <2>1, <2>2, <2>3 DEF PinsAgree
<1>11. SharedTroubled'
  BY <1>3, <1>4, <1>6 DEF LaundryInv, SharedTroubled
<1>12. GuessesCounted'
  <2>1. \A s \in Active' : guesses'[s] < MaxFailedAttempts
    BY <1>4, <1>7, LaundryAssumption DEF LaundryInv, GuessesCounted
  <2>2. ASSUME NEW k \in Machines PROVE CounterExact(k)'
    <3>1. CASE k = m
      <4>1. OfMachine(k)' # {} /\ guesses'[Found(k)'] = 0 /\ carried'[m] \in Nat
        BY <1>0, <1>5, <1>6, <1>7, <3>1 DEF r
      <4>2. carried'[m] > 0 => r \in troubled' /\ reservations'[r].machine = m
        BY <1>1, <1>3, <1>6
      <4> QED
        BY <1>6, <3>1, <4>1, <4>2 DEF CounterExact
    <3>2. CASE k # m
      <4>1. CounterExact(k)
        BY DEF LaundryInv, GuessesCounted, CounterExact
      <4>2. \A s \in troubled : reservations'[s].machine = reservations[s].machine
        BY <1>3 DEF LaundryInv, KnownMade
      <4>3. OfMachine(k) # {} => Found(k) \in Ids /\ Found(k) # r
        BY <1>0, <1>1, <3>2, FoundFirst, ActiveTyped
      <4> QED
        BY <1>5, <1>6, <1>7, <3>2, <4>1, <4>2, <4>3, CounterStays
    <3> QED
      BY <3>1, <3>2
  <2> QED
    BY <2>1, <2>2 DEF GuessesCounted, CounterExact
<1>13. OnlyFoundGuessed'
  <2> SUFFICES ASSUME NEW k \in Machines, NEW s \in OfMachine(k), s # Found(k)
               PROVE  guesses'[s] = 0
    BY <1>5 DEF OnlyFoundGuessed
  <2>1. guesses[s] = 0
    BY DEF LaundryInv, OnlyFoundGuessed
  <2>2. s \in Ids
    BY <1>4 DEF OfMachine
  <2> QED
    BY <1>7, <2>1, <2>2
<1>15. KnownMade'
  <2>1. assigned \subseteq DOMAIN reservations /\ troubled \subseteq DOMAIN reservations
    BY DEF LaundryInv, KnownMade
  <2> QED
    BY <1>1, <1>3, <1>6, <2>1 DEF KnownMade
<1>14. NotYetGuessed'
  <2>1. r <= Len(reservations)
    BY <1>0, <1>1, ActiveTyped
  <2>2. r \in Int /\ Len(reservations) \in Int
    BY <1>0, <1>1 DEF LaundryTypeOK, Ids
  <2> QED
    BY <1>3, <1>7, <2>1, <2>2 DEF LaundryInv, NotYetGuessed
<1> QED
  BY <1>8, <1>9, <1>10, <1>11, <1>12, <1>13, <1>14, <1>15 DEF LaundryInv

\* What the laundry keeps, through claims, lock-outs and failing collaborators.
THEOREM LaundryInvariant == LaundrySpec => []LaundryInv
<1>1. LaundryInv /\ [LaundryNext]_laundryVars => LaundryInv'
  <2> SUFFICES ASSUME LaundryInv, [LaundryNext]_laundryVars PROVE LaundryInv'
    OBVIOUS
  <2>1. CASE LaundryNext
    BY <2>1, CreateKeeps, ClaimKeeps, GuessKeeps, LockOutKeeps DEF LaundryNext
  <2>2. CASE UNCHANGED laundryVars
    <3>1. /\ Active' = Active
          /\ \A k \in Machines : OfMachine(k)' = OfMachine(k) /\ Found(k)' = Found(k)
      BY <2>2 DEF laundryVars, Active, OfMachine, Found
    <3>2. /\ LaundryTypeOK' /\ PinsAgree' /\ KnownMade' /\ LockedFor'
          /\ SharedTroubled' /\ NotYetGuessed'
      BY <2>2, <3>1
         DEF laundryVars, LaundryInv, LaundryTypeOK, PinsAgree, KnownMade, LockedFor,
             SharedTroubled, NotYetGuessed
    <3>3. GuessesCounted' /\ OnlyFoundGuessed'
      BY <2>2, <3>1 DEF laundryVars, LaundryInv, GuessesCounted, OnlyFoundGuessed
    <3> QED
      BY <3>2, <3>3 DEF LaundryInv
  <2> QED
    BY <2>1, <2>2
<1> QED
  BY LaundryStart, <1>1, PTL DEF LaundrySpec

\* Unless something failed or the machine is shared, the repository, the lock and
\* the customer agree on the pin, for any number of lock-outs; a machine is locked
\* only for an active reservation the MachineApi can unlock, or for one that met
\* trouble, as a used one did whose device raised in unlock
\* (reservation_service.py:66-89, machine_api.py:27-40).
THEOREM PinsStayAgreed == LaundrySpec => []PinsAgree
<1>1. LaundryInv => PinsAgree
  BY DEF LaundryInv
<1> QED
  BY LaundryInvariant, <1>1, PTL

\* No pin outlives its guesses, whatever MaxFailedAttempts is and however the
\* machines are shared; a machine's counter is what calls that raised left on it
\* and the guesses at the reservation there is to claim (reservation_service.py:66-90).
THEOREM GuessesAreCounted == LaundrySpec => []GuessesCounted
<1>1. LaundryInv => GuessesCounted
  BY DEF LaundryInv
<1> QED
  BY LaundryInvariant, <1>1, PTL

-----------------------------------------------------------------------------
(***************************************************************************)
(* EventSourcing: an account is the fold of its events, so a command that  *)
(* looks at the account looks at its stream.                               *)
(***************************************************************************)
\* The events that callers write and commands make.
Events == {e \in [kind : Kinds, amount : Nat, at : Nat] : IsEvent(e)}

AccountStates == [balance : Int, status : {"Open", "Closed"}, events : Seq(Events)]

ApplyEvent == [p \in AccountStates \X Events |-> Applied(p[1], p[2])]

\* What the parameters make of the events.
LEMMA EventTypes ==
  /\ Amounts \subseteq Nat /\ \A a \in Amounts : a > 0
  /\ Times \subseteq Nat
  /\ \A t \in Times :
        /\ Event("AccountOpened", 0, t) \in Events
        /\ Event("AccountClosed", 0, t) \in Events
        /\ \A a \in Amounts : /\ Event("MoneyDeposited", a, t) \in Events
                              /\ Event("MoneyWithdrawn", a, t) \in Events
  /\ \A e \in Events : /\ Change(e) \in Int /\ e.at \in Nat
                       /\ ~IsTransaction(e) => Change(e) = 0
<1>1. /\ Amounts \subseteq Nat /\ \A a \in Amounts : a > 0
      /\ Times \subseteq Nat
  BY AccountAssumption DEF AccountAssumption
<1>2. ASSUME NEW t \in Times
      PROVE  /\ Event("AccountOpened", 0, t) \in Events
             /\ Event("AccountClosed", 0, t) \in Events
             /\ \A a \in Amounts : /\ Event("MoneyDeposited", a, t) \in Events
                                   /\ Event("MoneyWithdrawn", a, t) \in Events
  BY <1>1 DEF Events, Event, IsEvent, IsTransaction, Kinds
<1>3. ASSUME NEW e \in Events
      PROVE  /\ Change(e) \in Int /\ e.at \in Nat
             /\ ~IsTransaction(e) => Change(e) = 0
  <2>1. e \in [kind : Kinds, amount : Nat, at : Nat]
    BY DEF Events
  <2> QED
    BY <2>1 DEF Change, IsTransaction
<1> QED
  BY <1>1, <1>2, <1>3

\* Applying an event to an account.
LEMMA AppliedType ==
  ASSUME NEW a \in AccountStates, NEW e \in Events
  PROVE  /\ Applied(a, e) \in AccountStates /\ Applied(a, e).events = Append(a.events, e)
         /\ Applied(a, e).balance = a.balance + Change(e)
         /\ ApplyEvent[<<a, e>>] = Applied(a, e)
<1>1. /\ a.balance \in Int /\ a.status \in {"Open", "Closed"} /\ a.events \in Seq(Events)
      /\ Change(e) \in Int
  BY EventTypes DEF AccountStates
<1>2. a.balance + Change(e) \in Int /\ Append(a.events, e) \in Seq(Events)
  BY <1>1
<1>3. Applied(a, e).status \in {"Open", "Closed"}
  BY <1>1 DEF Applied
<1>4. Applied(a, e) \in AccountStates
  BY <1>2, <1>3 DEF Applied, AccountStates
<1>5. ApplyEvent[<<a, e>>] = Applied(a, e)
  BY DEF ApplyEvent
<1> QED
  BY <1>4, <1>5 DEF Applied

\* Applying is an operator of the fold lemmas; so are the others below.
LEMMA ApplyType == ApplyEvent \in Operators(AccountStates, Events) /\ NewAccount \in AccountStates
<1>1. ASSUME NEW p \in AccountStates \X Events
      PROVE  Applied(p[1], p[2]) \in AccountStates
  BY AppliedType
<1>2. ApplyEvent \in [AccountStates \X Events -> AccountStates]
  BY <1>1 DEF ApplyEvent
<1>3. NewAccount \in AccountStates
  BY DEF NewAccount, AccountStates
<1> QED
  BY <1>2, <1>3 DEF Operators

\* Rebuilding is the fold of the lemmas.
LEMMA RebuiltIsFold ==
  ASSUME NEW events \in Seq(Events)
  PROVE  Rebuilt(events) = FoldOf(ApplyEvent, NewAccount, events)
<1> DEFINE Loop(f) == f = [s \in SUBSET (DOMAIN events) |->
                              IF s = {} THEN NewAccount
                              ELSE Applied(f[s \ {Max(s)}], events[Max(s)])]
<1>1. Rebuilt(events) = (CHOOSE f : Loop(f))[DOMAIN events]
  BY DEF Rebuilt, FoldLeft, MapThenFoldSet
<1>2. /\ DOMAIN events = Places(events) /\ Len(events) \in Nat
      /\ \A i \in Places(events) : events[i] \in Events
  BY DEF Places
<1>3. ASSUME NEW s \in SUBSET Places(events), s # {}
      PROVE  Max(s) \in Places(events) /\ s \ {Max(s)} \in SUBSET Places(events)
  BY <1>2, <1>3, MaxOf DEF Places
<1>4. PICK g \in Tables(AccountStates, events) :
         /\ IsTable(g, ApplyEvent, NewAccount, events)
         /\ FoldOf(ApplyEvent, NewAccount, events) = g[Places(events)]
  BY ApplyType, FoldTable
<1>5. Loop(g)
  <2>1. ASSUME NEW s \in SUBSET Places(events), s # {}
        PROVE  ApplyEvent[<<g[s \ {Max(s)}], events[Max(s)]>>] = Applied(g[s \ {Max(s)}], events[Max(s)])
    <3>1. g[s \ {Max(s)}] \in AccountStates /\ events[Max(s)] \in Events
      BY <1>2, <1>3, <1>4, <2>1 DEF Tables
    <3> QED
      BY <3>1, AppliedType
  <2> QED
    BY <1>2, <1>4, <2>1 DEF IsTable
<1>6. ASSUME NEW f, Loop(f)
      PROVE  f = g
  <2>1. /\ f = [s \in SUBSET Places(events) |-> f[s]]
        /\ \A s \in SUBSET Places(events) :
              f[s] = IF s = {} THEN NewAccount ELSE Applied(f[s \ {Max(s)}], events[Max(s)])
    BY <1>2, <1>6
  <2> HIDE DEF Loop
  <2>2. f[{}] = NewAccount
    BY <2>1
  <2>3. ASSUME NEW s \in SUBSET Places(events), s # {}, f[s \ {Max(s)}] \in AccountStates
        PROVE  f[s] = ApplyEvent[<<f[s \ {Max(s)}], events[Max(s)]>>]
    <3>1. events[Max(s)] \in Events
      BY <1>2, <1>3, <2>3
    <3> QED
      BY <2>1, <2>3, <3>1, AppliedType
  <2>4. Follows(f, AccountStates, ApplyEvent, NewAccount, events)
    BY <2>1, <2>2, <2>3 DEF Follows
  <2> QED
    BY <1>4, <2>4, ApplyType, TableReached
<1> HIDE DEF Loop
<1>7. (CHOOSE f : Loop(f)) = g
  BY <1>5, <1>6
<1> QED
  BY <1>1, <1>2, <1>4, <1>7

\* And so is the sum of the events.
AddUp == [p \in Int \X Events |-> p[1] + Change(p[2])]

\* Summing up is an operator on numbers.
LEMMA AddUpType ==
  /\ AddUp \in Operators(Int, Events) /\ 0 \in Int
  /\ \A b \in Int, e \in Events : AddUp[<<b, e>>] = b + Change(e)
<1>1. \A p \in Int \X Events : p[1] + Change(p[2]) \in Int
  BY EventTypes
<1> QED
  BY <1>1 DEF AddUp, Operators

\* The sum is the fold of the lemmas.
LEMMA SummedIsFold ==
  ASSUME NEW events \in Seq(Events)
  PROVE  Summed(events) = FoldOf(AddUp, 0, events)
<1> DEFINE Loop(f) == f = [s \in SUBSET (DOMAIN events) |->
                              IF s = {} THEN 0
                              ELSE f[s \ {Max(s)}] + Change(events[Max(s)])]
<1>1. Summed(events) = (CHOOSE f : Loop(f))[DOMAIN events]
  BY DEF Summed, FoldLeft, MapThenFoldSet
<1>2. /\ DOMAIN events = Places(events) /\ Len(events) \in Nat
      /\ \A i \in Places(events) : events[i] \in Events
  BY DEF Places
<1>3. ASSUME NEW s \in SUBSET Places(events), s # {}
      PROVE  Max(s) \in Places(events) /\ s \ {Max(s)} \in SUBSET Places(events)
  BY <1>2, <1>3, MaxOf DEF Places
<1>4. PICK g \in Tables(Int, events) :
         /\ IsTable(g, AddUp, 0, events)
         /\ FoldOf(AddUp, 0, events) = g[Places(events)]
  <2>1. ASSUME NEW A, AddUp \in Operators(A, Events), 0 \in A
        PROVE  \E g \in Tables(A, events) :
                  IsTable(g, AddUp, 0, events) /\ FoldOf(AddUp, 0, events) = g[Places(events)]
    BY <2>1, FoldTable
  <2> QED
    BY <2>1, AddUpType
<1>5. Loop(g)
  <2>1. ASSUME NEW s \in SUBSET Places(events), s # {}
        PROVE  AddUp[<<g[s \ {Max(s)}], events[Max(s)]>>] = g[s \ {Max(s)}] + Change(events[Max(s)])
    <3>1. g[s \ {Max(s)}] \in Int /\ events[Max(s)] \in Events
      BY <1>2, <1>3, <1>4, <2>1 DEF Tables
    <3> QED
      BY <3>1, AddUpType
  <2> QED
    BY <1>2, <1>4, <2>1 DEF IsTable
<1>6. ASSUME NEW f, Loop(f)
      PROVE  f = g
  <2>1. /\ f = [s \in SUBSET Places(events) |-> f[s]]
        /\ \A s \in SUBSET Places(events) :
              f[s] = IF s = {} THEN 0 ELSE f[s \ {Max(s)}] + Change(events[Max(s)])
    BY <1>2, <1>6
  <2> HIDE DEF Loop
  <2>2. f[{}] = 0
    BY <2>1
  <2>3. ASSUME NEW s \in SUBSET Places(events), s # {}, f[s \ {Max(s)}] \in Int
        PROVE  f[s] = AddUp[<<f[s \ {Max(s)}], events[Max(s)]>>]
    <3>1. events[Max(s)] \in Events
      BY <1>2, <1>3, <2>3
    <3> QED
      BY <2>1, <2>3, <3>1, AddUpType
  <2>4. Follows(f, Int, AddUp, 0, events)
    BY <2>1, <2>2, <2>3 DEF Follows
  <2> QED
    BY <1>4, <2>4, AddUpType, TableReached
<1> HIDE DEF Loop
<1>7. (CHOOSE f : Loop(f)) = g
  BY <1>5, <1>6
<1> QED
  BY <1>1, <1>2, <1>4, <1>7

\* And the history at some times.
Transactions == [at : Nat, amount : Int, after : Int]
Histories == [running : Int, listed : Seq(Transactions)]

\* What a transaction adds to a history.
Line(h, e) == [at |-> e.at, amount |-> Change(e), after |-> h.running + Change(e)]

RecordEvent(times) == [p \in Histories \X Events |-> Recorded(p[1], p[2], times)]

\* Listing an event in a history.
LEMMA RecordedType ==
  ASSUME NEW times, NEW h \in Histories, NEW e \in Events
  PROVE  /\ Recorded(h, e, times) \in Histories
         /\ Recorded(h, e, times).running = h.running + Change(e)
         /\ ~IsTransaction(e) => Recorded(h, e, times) = h
         /\ IsTransaction(e) /\ e.at \in times =>
               Recorded(h, e, times).listed = Append(h.listed, Line(h, e))
         /\ e.at \notin times => Recorded(h, e, times).listed = h.listed
         /\ RecordEvent(times)[<<h, e>>] = Recorded(h, e, times)
<1>1. /\ h.running \in Int /\ h.listed \in Seq(Transactions) /\ Change(e) \in Int /\ e.at \in Nat
      /\ ~IsTransaction(e) => Change(e) = 0
  BY EventTypes DEF Histories
<1>2. Line(h, e) \in Transactions /\ h.running + Change(e) \in Int
  BY <1>1 DEF Transactions, Line
<1>3. Append(h.listed, Line(h, e)) \in Seq(Transactions)
  BY <1>1, <1>2
<1>4. CASE IsTransaction(e)
  <2>1. Recorded(h, e, times) =
          [running |-> h.running + Change(e),
           listed |-> IF e.at \in times THEN Append(h.listed, Line(h, e)) ELSE h.listed]
    BY <1>4 DEF Recorded, Line
  <2>2. Recorded(h, e, times) \in Histories
    BY <1>1, <1>2, <1>3, <2>1 DEF Histories
  <2> QED
    BY <1>4, <2>1, <2>2 DEF RecordEvent
<1>5. CASE ~IsTransaction(e)
  <2>1. Recorded(h, e, times) = h
    BY <1>5 DEF Recorded
  <2>2. h.running = h.running + Change(e)
    BY <1>1, <1>5
  <2> QED
    BY <1>5, <2>1, <2>2 DEF RecordEvent
<1> QED
  BY <1>4, <1>5

\* Listing is an operator on histories.
LEMMA RecordType ==
  ASSUME NEW times
  PROVE  RecordEvent(times) \in Operators(Histories, Events) /\ NoTransactions \in Histories
<1>1. ASSUME NEW p \in Histories \X Events
      PROVE  Recorded(p[1], p[2], times) \in Histories
  BY RecordedType
<1>2. RecordEvent(times) \in [Histories \X Events -> Histories]
  BY <1>1 DEF RecordEvent
<1>3. NoTransactions \in Histories
  BY DEF NoTransactions, Histories
<1> QED
  BY <1>2, <1>3 DEF Operators

\* A history is the fold of the lemmas.
LEMMA HistoryIsFold ==
  ASSUME NEW events \in Seq(Events), NEW times
  PROVE  History(events, times) = FoldOf(RecordEvent(times), NoTransactions, events)
<1> DEFINE Loop(f) == f = [s \in SUBSET (DOMAIN events) |->
                              IF s = {} THEN NoTransactions
                              ELSE Recorded(f[s \ {Max(s)}], events[Max(s)], times)]
<1>1. History(events, times) = (CHOOSE f : Loop(f))[DOMAIN events]
  BY DEF History, FoldLeft, MapThenFoldSet
<1>2. /\ DOMAIN events = Places(events) /\ Len(events) \in Nat
      /\ \A i \in Places(events) : events[i] \in Events
  BY DEF Places
<1>3. ASSUME NEW s \in SUBSET Places(events), s # {}
      PROVE  Max(s) \in Places(events) /\ s \ {Max(s)} \in SUBSET Places(events)
  BY <1>2, <1>3, MaxOf DEF Places
<1>4. PICK g \in Tables(Histories, events) :
         /\ IsTable(g, RecordEvent(times), NoTransactions, events)
         /\ FoldOf(RecordEvent(times), NoTransactions, events) = g[Places(events)]
  BY RecordType, FoldTable
<1>5. Loop(g)
  <2>1. ASSUME NEW s \in SUBSET Places(events), s # {}
        PROVE  RecordEvent(times)[<<g[s \ {Max(s)}], events[Max(s)]>>] = Recorded(g[s \ {Max(s)}], events[Max(s)], times)
    <3>1. g[s \ {Max(s)}] \in Histories /\ events[Max(s)] \in Events
      BY <1>2, <1>3, <1>4, <2>1 DEF Tables
    <3> QED
      BY <3>1, RecordedType
  <2> QED
    BY <1>2, <1>4, <2>1 DEF IsTable
<1>6. ASSUME NEW f, Loop(f)
      PROVE  f = g
  <2>1. /\ f = [s \in SUBSET Places(events) |-> f[s]]
        /\ \A s \in SUBSET Places(events) :
              f[s] = IF s = {} THEN NoTransactions ELSE Recorded(f[s \ {Max(s)}], events[Max(s)], times)
    BY <1>2, <1>6
  <2> HIDE DEF Loop
  <2>2. f[{}] = NoTransactions
    BY <2>1
  <2>3. ASSUME NEW s \in SUBSET Places(events), s # {}, f[s \ {Max(s)}] \in Histories
        PROVE  f[s] = RecordEvent(times)[<<f[s \ {Max(s)}], events[Max(s)]>>]
    <3>1. events[Max(s)] \in Events
      BY <1>2, <1>3, <2>3
    <3>2. RecordEvent(times)[<<f[s \ {Max(s)}], events[Max(s)]>>]
            = Recorded(f[s \ {Max(s)}], events[Max(s)], times)
      BY <2>3, <3>1, RecordedType
    <3> QED
      BY <2>1, <2>3, <3>2
  <2>4. Follows(f, Histories, RecordEvent(times), NoTransactions, events)
    BY <2>1, <2>2, <2>3 DEF Follows
  <2> QED
    BY <1>4, <2>4, RecordType, TableReached
<1> HIDE DEF Loop
<1>7. (CHOOSE f : Loop(f)) = g
  BY <1>5, <1>6
<1> QED
  BY <1>1, <1>2, <1>4, <1>7

\* What one more event does to the account rebuilt, to the sum and to a history.
LEMMA OneMoreEvent ==
  ASSUME NEW events \in Seq(Events), NEW e \in Events
  PROVE  /\ Rebuilt(Append(events, e)) = Applied(Rebuilt(events), e)
         /\ Summed(Append(events, e)) = Summed(events) + Change(e)
         /\ \A times : History(Append(events, e), times) = Recorded(History(events, times), e, times)
<1>1. Append(events, e) \in Seq(Events)
  OBVIOUS
<1>2. Rebuilt(Append(events, e)) = Applied(Rebuilt(events), e)
  <2>1. /\ FoldOf(ApplyEvent, NewAccount, events) \in AccountStates
        /\ FoldOf(ApplyEvent, NewAccount, Append(events, e))
             = ApplyEvent[<<FoldOf(ApplyEvent, NewAccount, events), e>>]
    BY ApplyType, FoldType, FoldAppend
  <2> QED
    BY <1>1, <2>1, RebuiltIsFold, AppliedType
<1>3. Summed(Append(events, e)) = Summed(events) + Change(e)
  <2>1. ASSUME NEW A, AddUp \in Operators(A, Events), 0 \in A
        PROVE  /\ FoldOf(AddUp, 0, events) \in A
               /\ FoldOf(AddUp, 0, Append(events, e)) = AddUp[<<FoldOf(AddUp, 0, events), e>>]
    BY <2>1, FoldType, FoldAppend
  <2>2. /\ FoldOf(AddUp, 0, events) \in Int
        /\ FoldOf(AddUp, 0, Append(events, e)) = AddUp[<<FoldOf(AddUp, 0, events), e>>]
    BY <2>1, AddUpType
  <2> QED
    BY <1>1, <2>2, SummedIsFold, AddUpType
<1>4. ASSUME NEW times
      PROVE  History(Append(events, e), times) = Recorded(History(events, times), e, times)
  <2>1. /\ FoldOf(RecordEvent(times), NoTransactions, events) \in Histories
        /\ FoldOf(RecordEvent(times), NoTransactions, Append(events, e))
             = RecordEvent(times)[<<FoldOf(RecordEvent(times), NoTransactions, events), e>>]
    BY RecordType, FoldType, FoldAppend
  <2>2. /\ History(events, times) = FoldOf(RecordEvent(times), NoTransactions, events)
        /\ History(Append(events, e), times) = FoldOf(RecordEvent(times), NoTransactions, Append(events, e))
    BY <1>1, HistoryIsFold
  <2>3. RecordEvent(times)[<<FoldOf(RecordEvent(times), NoTransactions, events), e>>]
          = Recorded(FoldOf(RecordEvent(times), NoTransactions, events), e, times)
    BY <2>1, RecordedType
  <2> QED
    BY <2>1, <2>2, <2>3
<1> QED
  BY <1>2, <1>3, <1>4

\* What the loops return for no events.
LEMMA NoEvents ==
  /\ Rebuilt(<<>>) = NewAccount /\ Summed(<<>>) = 0
  /\ \A times : History(<<>>, times) = NoTransactions
<1>1. <<>> \in Seq(Events)
  OBVIOUS
<1>2. Rebuilt(<<>>) = NewAccount
  BY <1>1, RebuiltIsFold, ApplyType, FoldEmpty
<1>3. Summed(<<>>) = 0
  <2>1. ASSUME NEW A, AddUp \in Operators(A, Events), 0 \in A
        PROVE  FoldOf(AddUp, 0, <<>>) = 0
    BY <2>1, FoldEmpty
  <2> QED
    BY <1>1, <2>1, AddUpType, SummedIsFold
<1>4. ASSUME NEW times PROVE History(<<>>, times) = NoTransactions
  <2>1. FoldOf(RecordEvent(times), NoTransactions, <<>>) = NoTransactions
    BY RecordType, FoldEmpty
  <2> QED
    BY <1>1, <2>1, HistoryIsFold
<1> QED
  BY <1>2, <1>3, <1>4

\* What the loops return is an account, a number, a history.
LEMMA FoldTypes ==
  ASSUME NEW events \in Seq(Events)
  PROVE  /\ Rebuilt(events) \in AccountStates /\ Summed(events) \in Int
         /\ \A times : History(events, times) \in Histories
<1>1. Rebuilt(events) \in AccountStates
  BY RebuiltIsFold, ApplyType, FoldType
<1>2. Summed(events) \in Int
  <2>1. ASSUME NEW A, AddUp \in Operators(A, Events), 0 \in A
        PROVE  FoldOf(AddUp, 0, events) \in A
    BY <2>1, FoldType
  <2>2. FoldOf(AddUp, 0, events) \in Int
    BY <2>1, AddUpType
  <2> QED
    BY <2>2, SummedIsFold
<1>3. ASSUME NEW times PROVE History(events, times) \in Histories
  <2>1. FoldOf(RecordEvent(times), NoTransactions, events) \in Histories
    BY RecordType, FoldType
  <2> QED
    BY <2>1, HistoryIsFold
<1> QED
  BY <1>1, <1>2, <1>3

\* What one more event does to a history.
LEMMA HistoryGrows ==
  ASSUME NEW events \in Seq(Events), NEW e \in Events, NEW times
  PROVE  /\ History(events, times).running \in Int
         /\ History(events, times).listed \in Seq(Transactions)
         /\ History(Append(events, e), times).running = History(events, times).running + Change(e)
         /\ ~IsTransaction(e) => History(Append(events, e), times) = History(events, times)
         /\ IsTransaction(e) /\ e.at \in times =>
               History(Append(events, e), times).listed
                 = Append(History(events, times).listed, Line(History(events, times), e))
         /\ e.at \notin times =>
               History(Append(events, e), times).listed = History(events, times).listed
<1>1. PICK h \in Histories : h = History(events, times)
  BY FoldTypes
<1>2. History(Append(events, e), times) = Recorded(h, e, times)
  BY <1>1, OneMoreEvent
<1>3. h.running \in Int /\ h.listed \in Seq(Transactions)
  BY <1>1 DEF Histories
<1>4. /\ Recorded(h, e, times).running = h.running + Change(e)
      /\ ~IsTransaction(e) => Recorded(h, e, times) = h
      /\ IsTransaction(e) /\ e.at \in times =>
            Recorded(h, e, times).listed = Append(h.listed, Line(h, e))
      /\ e.at \notin times => Recorded(h, e, times).listed = h.listed
  BY <1>1, RecordedType
<1> QED
  BY <1>1, <1>2, <1>3, <1>4

\* The running balance that a list of transactions ends with.
EndsWith(listed) == IF listed = <<>> THEN 0 ELSE Last(listed).after

\* The account rebuilt keeps its events, and its balance is their sum, which is
\* what the history of them all ends with.
RebuiltAgrees(events) ==
    /\ Rebuilt(events).events = events /\ Rebuilt(events).balance = Summed(events)
    /\ \A times : History(events, times).running = Summed(events)
    /\ Summed(events) = EndsWith(History(events, Nat).listed)

\* A list ends with the balance after what was listed last.
LEMMA EndsWithLast ==
  ASSUME NEW listed \in Seq(Transactions), NEW r \in Transactions
  PROVE  EndsWith(Append(listed, r)) = r.after
<1>1. /\ Len(Append(listed, r)) = Len(listed) + 1 /\ Len(listed) \in Nat
      /\ Append(listed, r)[Len(listed) + 1] = r /\ Append(listed, r) # <<>>
  OBVIOUS
<1> QED
  BY <1>1 DEF EndsWith, Last

\* By induction over the events.
LEMMA AccountsAgree == \A events \in Seq(Events) : RebuiltAgrees(events)
<1> DEFINE S == {events \in Seq(Events) : RebuiltAgrees(events)}
<1>1. <<>> \in S
  <2>1. RebuiltAgrees(<<>>)
    BY NoEvents DEF RebuiltAgrees, NewAccount, NoTransactions, EndsWith
  <2> QED
    BY <2>1
<1>2. ASSUME NEW events \in Seq(Events), NEW e \in Events, events \in S
      PROVE  Append(events, e) \in S
  <2> DEFINE longer == Append(events, e)
  <2>1. longer \in Seq(Events) /\ RebuiltAgrees(events)
    BY <1>2
  <2>2. /\ Rebuilt(longer) = Applied(Rebuilt(events), e) /\ Summed(longer) = Summed(events) + Change(e)
        /\ \A times : History(longer, times) = Recorded(History(events, times), e, times)
    BY OneMoreEvent
  <2>3. /\ Rebuilt(events) \in AccountStates /\ Summed(events) \in Int /\ Change(e) \in Int
        /\ ~IsTransaction(e) => Change(e) = 0
        /\ \A times : History(events, times) \in Histories
    BY FoldTypes, EventTypes
  <2> HIDE DEF longer
  <2>4. Rebuilt(longer).events = Append(events, e) /\ Rebuilt(longer).balance = Summed(longer)
    BY <2>1, <2>2, <2>3, AppliedType DEF RebuiltAgrees
  <2>5. ASSUME NEW times PROVE History(longer, times).running = Summed(longer)
    <3>1. History(longer, times).running = History(events, times).running + Change(e)
      BY HistoryGrows DEF longer
    <3> QED
      BY <2>1, <2>2, <3>1 DEF RebuiltAgrees
  <2>6. Summed(longer) = EndsWith(History(longer, Nat).listed)
    <3>1. CASE ~IsTransaction(e)
      <4>1. History(longer, Nat) = History(events, Nat)
        BY <3>1, HistoryGrows DEF longer
      <4>2. Summed(longer) = Summed(events)
        BY <2>2, <2>3, <3>1
      <4> QED
        BY <2>1, <4>1, <4>2 DEF RebuiltAgrees
    <3>2. CASE IsTransaction(e)
      <4> DEFINE r == Line(History(events, Nat), e)
      <4>1. e.at \in Nat /\ History(events, Nat).running \in Int /\ History(events, Nat).listed \in Seq(Transactions)
        BY <2>3, EventTypes DEF Histories
      <4>2. r \in Transactions
        BY <2>3, <4>1 DEF Transactions, Line
      <4>3. History(longer, Nat).listed = Append(History(events, Nat).listed, r)
        BY <3>2, <4>1, HistoryGrows DEF longer
      <4>4. r.after = Summed(longer)
        BY <2>1, <2>2 DEF RebuiltAgrees, Line
      <4> HIDE DEF r
      <4> QED
        BY <4>1, <4>2, <4>3, <4>4, EndsWithLast
    <3> QED
      BY <3>1, <3>2
  <2>7. RebuiltAgrees(longer)
    BY <2>4, <2>5, <2>6 DEF RebuiltAgrees, longer
  <2> QED
    BY <2>1, <2>7 DEF longer
<1> HIDE DEF S
<1>3. \A events \in Seq(Events) : events \in S
  BY <1>1, <1>2, SequenceInduction
<1> QED
  BY <1>3 DEF S

\* The places where balance_at may stop, for a sequence of events.
StopsAt(events, t) == {i \in DOMAIN events : IsAfter(events[i], t)} \cup {Len(events) + 1}

\* The times never go back.
NeverBack(events) == \A i \in 1..(Len(events) - 1) : events[i].at <= events[i + 1].at

\* Of events whose times never go back, those up to a time sum up to what the
\* history up to that time ends with.
AtATime(events) ==
    NeverBack(events) =>
        /\ \A i \in 1..Len(events) : events[i].at <= events[Len(events)].at
        /\ \A t \in Nat : Summed(UpTo(events, t)) = EndsWith(History(events, 0..t).listed)

\* A number of the set that none is under is its first.
LEMMA SmallestIs ==
  ASSUME NEW S \in SUBSET Nat, NEW m \in S, \A x \in S : m <= x
  PROVE  Min(S) = m
<1>1. Min(S) \in S /\ \A x \in S : Min(S) <= x
  BY MinOf
<1>2. Min(S) <= m /\ m <= Min(S) /\ Min(S) \in Nat /\ m \in Nat
  BY <1>1
<1> QED
  BY <1>2

\* An event after t hides what follows, and one up to t nothing.
LEMMA UpToOneMore ==
  ASSUME NEW events \in Seq(Events), NEW e \in Events, NEW t \in Nat
  PROVE  /\ e.at > t => UpTo(Append(events, e), t) = UpTo(events, t)
         /\ (\A i \in 1..Len(events) : events[i].at <= t) => UpTo(events, t) = events
<1> DEFINE n == Len(events)
           longer == Append(events, e)
<1>1. /\ n \in Nat /\ DOMAIN events = 1..n /\ DOMAIN longer = 1..(n + 1) /\ Len(longer) = n + 1
      /\ longer[n + 1] = e /\ longer \in Seq(Events)
      /\ \A i \in 1..n : longer[i] = events[i] /\ events[i] \in Events /\ events[i].at \in Nat
  BY EventTypes
<1>2. e.at \in Nat
  BY EventTypes
<1> HIDE DEF n, longer
<1>3. StopsAt(events, t) \in SUBSET Nat /\ StopsAt(events, t) \subseteq 1..(n + 1)
  BY <1>1 DEF StopsAt, n
<1> DEFINE m == Min(StopsAt(events, t))
<1>4. m \in StopsAt(events, t) /\ m \in 1..(n + 1) /\ \A x \in StopsAt(events, t) : m <= x
  <2>1. StopsAt(events, t) # {}
    BY DEF StopsAt
  <2> QED
    BY <1>3, <2>1, MinOf
<1>5. UpTo(events, t) = SubSeq(events, 1, m - 1)
  BY DEF UpTo, StopsAt
<1> HIDE DEF m
<1>6. ASSUME e.at > t
      PROVE  UpTo(longer, t) = UpTo(events, t)
  <2>1. StopsAt(longer, t) = StopsAt(events, t) \cup {n + 2}
    <3>1. ASSUME NEW i \in StopsAt(longer, t) PROVE i \in StopsAt(events, t) \cup {n + 2}
      <4>1. (i \in 1..(n + 1) /\ longer[i].at > t) \/ i = n + 2
        BY <1>1, <3>1 DEF StopsAt, IsAfter
      <4>2. CASE i \in 1..n
        BY <1>1, <4>1, <4>2 DEF StopsAt, IsAfter
      <4>3. CASE i = n + 1
        BY <4>3 DEF StopsAt, n
      <4> QED
        BY <1>1, <4>1, <4>2, <4>3
    <3>2. ASSUME NEW i \in StopsAt(events, t) PROVE i \in StopsAt(longer, t)
      <4>1. (i \in 1..n /\ events[i].at > t) \/ i = n + 1
        BY <1>1, <3>2 DEF StopsAt, IsAfter, n
      <4>2. i \in 1..(n + 1)
        BY <1>1, <4>1
      <4>3. longer[i].at > t
        BY <1>1, <1>6, <4>1
      <4> QED
        BY <1>1, <4>2, <4>3 DEF StopsAt, IsAfter
    <3>3. n + 2 \in StopsAt(longer, t)
      BY <1>1 DEF StopsAt
    <3> QED
      BY <3>1, <3>2, <3>3
  <2>2. Min(StopsAt(longer, t)) = m
    <3>1. StopsAt(longer, t) \in SUBSET Nat /\ m \in StopsAt(longer, t) /\ \A x \in StopsAt(longer, t) : m <= x
      BY <1>1, <1>3, <1>4, <2>1
    <3> QED
      BY <3>1, SmallestIs
  <2>3. UpTo(longer, t) = SubSeq(longer, 1, m - 1)
    BY <2>2 DEF UpTo, StopsAt
  <2>4. SubSeq(longer, 1, m - 1) = SubSeq(events, 1, m - 1)
    <3>1. m - 1 \in 0..n
      BY <1>1, <1>4
    <3> QED
      BY <1>1, <3>1 DEF longer, n
  <2> QED
    BY <1>5, <2>3, <2>4
<1>7. ASSUME \A i \in 1..n : events[i].at <= t
      PROVE  UpTo(events, t) = events
  <2>1. m = n + 1
    <3>1. ~ \E i \in 1..n : events[i].at > t
      BY <1>1, <1>7
    <3> QED
      BY <1>1, <1>4, <3>1 DEF StopsAt, IsAfter, n
  <2>2. SubSeq(events, 1, n) = events
    BY DEF n
  <2> QED
    BY <1>1, <1>5, <2>1, <2>2
<1> QED
  BY <1>6, <1>7 DEF n, longer

\* By induction over the events.
LEMMA TimesAgree == \A events \in Seq(Events) : AtATime(events)
<1> DEFINE S == {events \in Seq(Events) : AtATime(events)}
<1>1. <<>> \in S
  <2>1. \A t \in Nat : UpTo(<<>>, t) = <<>>
    <3>1. <<>> \in Seq(Events) /\ Len(<<>>) = 0
      OBVIOUS
    <3>2. ASSUME NEW none \in Seq(Events), Len(none) = 0, NEW t \in Nat
          PROVE  UpTo(none, t) = none
      <4>1. StopsAt(none, t) = {1}
        <5>1. DOMAIN none = {} /\ Len(none) + 1 = 1
          BY <3>2
        <5> QED
          BY <5>1 DEF StopsAt
      <4>2. Min(StopsAt(none, t)) = 1
        <5>1. /\ StopsAt(none, t) \in SUBSET Nat /\ 1 \in StopsAt(none, t)
              /\ \A x \in StopsAt(none, t) : 1 <= x
          BY <4>1
        <5> QED
          BY <5>1, SmallestIs
      <4>3. UpTo(none, t) = SubSeq(none, 1, 0)
        <5>1. UpTo(none, t) = SubSeq(none, 1, Min(StopsAt(none, t)) - 1)
          BY DEF UpTo, StopsAt
        <5> QED
          BY <4>2, <5>1
      <4> QED
        BY <3>2, <4>3
    <3> QED
      BY <3>1, <3>2
  <2>2. AtATime(<<>>)
    BY <2>1, NoEvents DEF AtATime, NoTransactions, EndsWith
  <2> QED
    BY <2>2
<1>2. ASSUME NEW events \in Seq(Events), NEW e \in Events, events \in S
      PROVE  Append(events, e) \in S
  <2> DEFINE n == Len(events)
             longer == Append(events, e)
  <2>1. AtATime(events)
    BY <1>2
  <2>2. /\ n \in Nat /\ longer \in Seq(Events) /\ Len(longer) = n + 1 /\ longer[n + 1] = e
        /\ e.at \in Nat /\ \A i \in 1..n : longer[i] = events[i] /\ events[i].at \in Nat
    BY EventTypes
  <2> HIDE DEF n, longer
  <2>3. ASSUME NeverBack(longer)
        PROVE  /\ NeverBack(events)
               /\ \A i \in 1..(n + 1) : longer[i].at <= e.at
               /\ \A i \in 1..n : events[i].at <= events[n].at /\ events[n].at <= e.at
    <3>1. \A i \in 1..n : longer[i].at <= longer[i + 1].at
      <4>1. Len(longer) - 1 = n
        BY <2>2
      <4>2. \A i \in 1..(Len(longer) - 1) : longer[i].at <= longer[i + 1].at
        BY <2>3, Zenon DEF NeverBack
      <4> QED
        BY <4>1, <4>2
    <3>2. \A i \in 1..(n - 1) : i \in 1..n /\ i + 1 \in 1..n
      BY <2>2
    <3>3. NeverBack(events)
      BY <2>2, <3>1, <3>2 DEF NeverBack, n
    <3>4. \A i \in 1..n : events[i].at <= events[n].at
      BY <2>1, <3>3 DEF AtATime, n
    <3>5. ASSUME NEW i \in 1..n PROVE events[n].at <= e.at /\ events[i].at <= e.at
      <4>1. n \in 1..n /\ longer[n] = events[n] /\ events[n].at \in Nat
        BY <2>2
      <4>2. events[n].at <= e.at
        BY <2>2, <3>1, <4>1
      <4> QED
        BY <2>2, <3>4, <4>1, <4>2
    <3>6. \A i \in 1..(n + 1) : i \in 1..n \/ i = n + 1
      BY <2>2
    <3> QED
      BY <2>2, <3>3, <3>4, <3>5, <3>6
  <2>4. ASSUME NeverBack(longer), NEW t \in Nat
        PROVE  Summed(UpTo(longer, t)) = EndsWith(History(longer, 0..t).listed)
    <3>1. Summed(UpTo(events, t)) = EndsWith(History(events, 0..t).listed)
      BY <2>1, <2>3, <2>4 DEF AtATime
    <3>2. CASE e.at > t
      <4>1. UpTo(longer, t) = UpTo(events, t)
        BY <3>2, UpToOneMore DEF longer
      <4>2. e.at \notin 0..t
        BY <2>2, <3>2
      <4>3. History(longer, 0..t).listed = History(events, 0..t).listed
        BY <4>2, HistoryGrows DEF longer
      <4> QED
        BY <3>1, <4>1, <4>3
    <3>3. CASE e.at <= t
      <4>1. /\ \A i \in 1..Len(events) : events[i].at <= t
            /\ \A i \in 1..Len(longer) : longer[i].at <= t
        <5>1. \A i \in 1..(n + 1) : longer[i].at <= e.at
          BY <2>3, <2>4
        <5>2. \A i \in 1..(n + 1) : longer[i].at \in Nat /\ longer[i].at <= t
          <6>1. \A i \in 1..(n + 1) : i \in 1..n \/ i = n + 1
            BY <2>2
          <6>2. \A i \in 1..(n + 1) : longer[i].at \in Nat
            BY <2>2, <6>1
          <6> QED
            BY <2>2, <3>3, <5>1, <6>2
        <5>3. \A i \in 1..n : i \in 1..(n + 1)
          BY <2>2
        <5> QED
          BY <2>2, <5>2, <5>3 DEF n
      <4>2. UpTo(events, t) = events /\ UpTo(longer, t) = longer
        BY <2>2, <4>1, UpToOneMore
      <4>3. Summed(longer) = Summed(events) + Change(e)
        BY OneMoreEvent DEF longer
      <4>4. CASE IsTransaction(e)
        <5> DEFINE r == Line(History(events, 0..t), e)
        <5>1. e.at \in 0..t
          BY <2>2, <3>3
        <5>2. /\ History(longer, 0..t).listed = Append(History(events, 0..t).listed, r)
              /\ History(events, 0..t).listed \in Seq(Transactions)
              /\ History(events, 0..t).running \in Int
          BY <4>4, <5>1, HistoryGrows DEF longer
        <5>3. r \in Transactions
          BY <2>2, <5>2, EventTypes DEF Transactions, Line
        <5>4. r.after = Summed(longer)
          <6>1. History(events, 0..t).running = Summed(events)
            BY AccountsAgree DEF RebuiltAgrees
          <6> QED
            BY <4>3, <6>1 DEF Line
        <5> HIDE DEF r
        <5> QED
          BY <4>2, <5>2, <5>3, <5>4, EndsWithLast
      <4>5. CASE ~IsTransaction(e)
        <5>1. Summed(events) \in Int /\ Change(e) = 0
          BY <4>5, FoldTypes, EventTypes
        <5>2. History(longer, 0..t) = History(events, 0..t)
          BY <4>5, HistoryGrows DEF longer
        <5> QED
          BY <3>1, <4>2, <4>3, <5>1, <5>2
      <4> QED
        BY <4>4, <4>5
    <3> QED
      BY <2>2, <3>2, <3>3
  <2>5. AtATime(longer)
    BY <2>2, <2>3, <2>4 DEF AtATime
  <2> QED
    BY <2>2, <2>5 DEF longer
<1> HIDE DEF S
<1>3. \A events \in Seq(Events) : events \in S
  BY <1>1, <1>2, SequenceInduction
<1> QED
  BY <1>3 DEF S

-----------------------------------------------------------------------------
\* Every account is the one rebuilt from its own events, which is why a command
\* that has read the whole stream decides on the stream; and what the streams
\* that never strayed are, sound at each of their events.
LedgerInv ==
    /\ store \in Seq(Events) /\ strayed \in BOOLEAN
    /\ accounts \in [Handlers -> AccountStates \cup {NoAccount}]
    /\ \A h \in Handlers : accounts[h] # NoAccount => accounts[h] = Rebuilt(accounts[h].events)
    /\ StreamIsSound

\* What StreamIsSound says of the first i events.
SoundAt(i) ==
    /\ Rebuilt(SubSeq(store, 1, i)).balance >= 0
    /\ Rebuilt(SubSeq(store, 1, i)).status = "Closed" =>
          Rebuilt(SubSeq(store, 1, i)).balance = 0 /\ i = Len(store)

\* A command of an open account.
LEMMA CommitKeeps ==
  ASSUME LedgerInv, NEW h \in Handlers, NEW e \in Events,
         accounts[h].status = "Open", Commit(h, e),
         accounts[h].balance >= 0 => accounts[h].balance + Change(e) >= 0,
         Applied(accounts[h], e).status = "Closed" => accounts[h].balance + Change(e) = 0
  PROVE  LedgerInv'
<1> DEFINE a == accounts[h]
<1>1. /\ a \in AccountStates /\ a # NoAccount /\ a = Rebuilt(a.events) /\ a.events \in Seq(Events)
      /\ a.balance \in Int /\ Change(e) \in Int
  BY EventTypes DEF LedgerInv, NoAccount, AccountStates
<1>2. /\ Applied(a, e) \in AccountStates /\ Applied(a, e).events = Append(a.events, e)
      /\ Applied(a, e).balance = a.balance + Change(e)
      /\ Applied(a, e) = Rebuilt(Append(a.events, e)) /\ Applied(a, e) # NoAccount
  <2>1. /\ Applied(a, e) \in AccountStates /\ Applied(a, e).events = Append(a.events, e)
        /\ Applied(a, e).balance = a.balance + Change(e)
    BY <1>1, AppliedType
  <2>2. Applied(a, e) = Rebuilt(Append(a.events, e))
    BY <1>1, OneMoreEvent
  <2> QED
    BY <2>1, <2>2 DEF AccountStates, NoAccount
<1>3. accounts' = [accounts EXCEPT ![h] = Applied(a, e)]
  BY DEF Commit
<1> HIDE DEF a
<1>4. /\ accounts' \in [Handlers -> AccountStates \cup {NoAccount}]
      /\ \A g \in Handlers : accounts'[g] # NoAccount => accounts'[g] = Rebuilt(accounts'[g].events)
  <2>1. accounts' \in [Handlers -> AccountStates \cup {NoAccount}]
    BY <1>2, <1>3 DEF LedgerInv
  <2>2. ASSUME NEW g \in Handlers, accounts'[g] # NoAccount
        PROVE  accounts'[g] = Rebuilt(accounts'[g].events)
    <3>1. CASE g = h
      BY <1>2, <1>3, <3>1 DEF LedgerInv
    <3>2. CASE g # h
      BY <1>3, <2>2, <3>2 DEF LedgerInv
    <3> QED
      BY <3>1, <3>2
  <2> QED
    BY <2>1, <2>2
<1>5. CASE UNCHANGED <<store, strayed>>
  BY <1>4, <1>5 DEF LedgerInv, StreamIsSound
<1>6. CASE store' = Append(store, e) /\ strayed' = (strayed \/ accounts[h].events # store)
  <2>1. store' \in Seq(Events) /\ strayed' \in BOOLEAN
    BY <1>6 DEF LedgerInv
  <2>2. StreamIsSound'
    <3> SUFFICES ASSUME ~strayed', NEW i \in DOMAIN store'
                 PROVE  SoundAt(i)'
      BY DEF StreamIsSound, SoundAt
    <3> DEFINE n == Len(store)
    <3>1. ~strayed /\ a.events = store /\ a = Rebuilt(store)
      BY <1>1, <1>6 DEF LedgerInv, a
    <3>2. /\ n \in Nat /\ DOMAIN store = 1..n /\ DOMAIN store' = 1..(n + 1) /\ Len(store') = n + 1
          /\ SubSeq(store', 1, n + 1) = store' /\ SubSeq(store, 1, n) = store
          /\ \A j \in 1..n : SubSeq(store', 1, j) = SubSeq(store, 1, j)
      BY <1>6 DEF LedgerInv
    <3>3. \A j \in 1..n : SoundAt(j)
      BY <3>1, <3>2 DEF LedgerInv, StreamIsSound, SoundAt
    <3>4. a.balance >= 0
      <4>1. CASE n = 0
        <5>1. store = <<>>
          BY <3>2, <4>1 DEF LedgerInv
        <5> QED
          BY <3>1, <5>1, NoEvents DEF NewAccount
      <4>2. CASE n # 0
        <5>1. n \in 1..n
          BY <3>2, <4>2
        <5> QED
          BY <3>1, <3>2, <3>3, <5>1 DEF SoundAt
      <4> QED
        BY <4>1, <4>2
    <3>5. CASE i = n + 1
      <4>1. Rebuilt(SubSeq(store', 1, i)) = Applied(a, e)
        BY <1>2, <1>6, <3>1, <3>2, <3>5
      <4> QED
        BY <1>1, <1>2, <3>2, <3>4, <3>5, <4>1 DEF SoundAt, a
    <3>6. CASE i \in 1..n
      <4>1. SoundAt(i) /\ SubSeq(store', 1, i) = SubSeq(store, 1, i)
        BY <3>2, <3>3, <3>6
      <4>2. Rebuilt(SubSeq(store, 1, i)).status # "Closed"
        <5>1. ASSUME Rebuilt(SubSeq(store, 1, i)).status = "Closed"
              PROVE  FALSE
          <6>1. i = n
            BY <4>1, <5>1 DEF SoundAt
          <6>2. a.status = "Closed"
            BY <3>1, <3>2, <5>1, <6>1
          <6> QED
            BY <6>2 DEF a
        <5> QED
          BY <5>1
      <4> QED
        BY <4>1, <4>2 DEF SoundAt
    <3> QED
      BY <3>2, <3>5, <3>6
  <2> QED
    BY <1>4, <2>1, <2>2 DEF LedgerInv
<1> QED
  BY <1>5, <1>6 DEF Commit

\* The inductive invariant of the accounts and their stream (account.py:40-89).
THEOREM LedgerInvariant == LedgerSpec => []LedgerInv
<1>1. LedgerInit => LedgerInv
  <2> SUFFICES ASSUME LedgerInit PROVE LedgerInv
    OBVIOUS
  <2>1. store \in Seq(Events) /\ DOMAIN store = {}
    BY DEF LedgerInit
  <2> QED
    BY <2>1 DEF LedgerInit, LedgerInv, StreamIsSound
<1>2. LedgerInv /\ [LedgerNext]_ledgerVars => LedgerInv'
  <2> SUFFICES ASSUME LedgerInv, [LedgerNext]_ledgerVars PROVE LedgerInv'
    OBVIOUS
  <2>1. ASSUME NEW t \in Times, OpenAccount(t)
        PROVE  LedgerInv'
    <3> DEFINE e == Event("AccountOpened", 0, t)
    <3>1. e \in Events /\ Change(e) = 0 /\ e.kind = "AccountOpened"
      BY <2>1, EventTypes DEF Event, Change
    <3>2. store' = <<e>> /\ store' = Append(<<>>, e) /\ UNCHANGED <<accounts, strayed>>
      BY <2>1 DEF OpenAccount
    <3> HIDE DEF e
    <3>3. store' \in Seq(Events) /\ DOMAIN store' = {1} /\ SubSeq(store', 1, 1) = store'
      <4>1. <<e>> \in Seq(Events) /\ Len(<<e>>) = 1 /\ DOMAIN <<e>> = 1..1
        BY <3>1
      <4>2. \A s \in Seq(Events) : SubSeq(s, 1, Len(s)) = s
        OBVIOUS
      <4>3. 1..1 = {1}
        OBVIOUS
      <4> QED
        BY <3>2, <4>1, <4>2, <4>3
    <3>4. Rebuilt(store') = Applied(NewAccount, e)
      <4>1. <<>> \in Seq(Events)
        OBVIOUS
      <4> QED
        BY <3>1, <3>2, <4>1, OneMoreEvent, NoEvents
    <3>5. Rebuilt(store').balance = 0 /\ Rebuilt(store').status = "Open"
      BY <3>1, <3>4 DEF Applied, NewAccount
    <3>6. StreamIsSound'
      <4>1. SoundAt(1)'
        <5>1. Rebuilt(SubSeq(store', 1, 1)) = Rebuilt(store')
          BY <3>3
        <5>2. /\ Rebuilt(SubSeq(store', 1, 1)).balance = 0
              /\ Rebuilt(SubSeq(store', 1, 1)).status = "Open"
          BY <3>5, <5>1
        <5> QED
          BY <5>2 DEF SoundAt
      <4> QED
        BY <3>3, <4>1 DEF StreamIsSound, SoundAt
    <3> QED
      BY <3>2, <3>3, <3>6 DEF LedgerInv
  <2>2. ASSUME NEW h \in Handlers, Rebuild(h)
        PROVE  LedgerInv'
    <3>1. Rebuilt(store) \in AccountStates /\ Rebuilt(store).events = store
      BY FoldTypes, AccountsAgree DEF LedgerInv, RebuiltAgrees
    <3>2. /\ accounts' \in [Handlers -> AccountStates \cup {NoAccount}]
          /\ \A g \in Handlers : accounts'[g] # NoAccount => accounts'[g] = Rebuilt(accounts'[g].events)
      BY <2>2, <3>1 DEF Rebuild, LedgerInv
    <3> QED
      BY <2>2, <3>2 DEF Rebuild, LedgerInv, StreamIsSound
  <2>3. ASSUME NEW h \in Handlers, NEW t \in Times, NEW amount \in Amounts, Deposit(h, amount, t)
        PROVE  LedgerInv'
    <3> DEFINE e == Event("MoneyDeposited", amount, t)
    <3>1. /\ e \in Events /\ Change(e) = amount /\ amount \in Nat
          /\ Applied(accounts[h], e).status = accounts[h].status
          /\ accounts[h].status = "Open" /\ Commit(h, e)
      BY <2>3, EventTypes DEF Event, Change, Applied, Deposit
    <3>2. accounts[h].balance \in Int
      BY <3>1 DEF LedgerInv, NoAccount, AccountStates
    <3> HIDE DEF e
    <3> QED
      BY <3>1, <3>2, CommitKeeps
  <2>4. ASSUME NEW h \in Handlers, NEW t \in Times, NEW amount \in Amounts, Withdraw(h, amount, t)
        PROVE  LedgerInv'
    <3> DEFINE e == Event("MoneyWithdrawn", amount, t)
    <3>1. /\ e \in Events /\ Change(e) = -amount /\ amount \in Nat
          /\ Applied(accounts[h], e).status = accounts[h].status /\ amount <= accounts[h].balance
          /\ accounts[h].status = "Open" /\ Commit(h, e)
      BY <2>4, EventTypes DEF Event, Change, Applied, Withdraw, Covers
    <3>2. accounts[h].balance \in Int
      BY <3>1 DEF LedgerInv, NoAccount, AccountStates
    <3> HIDE DEF e
    <3> QED
      BY <3>1, <3>2, CommitKeeps
  <2>5. ASSUME NEW h \in Handlers, NEW t \in Times, Close(h, t)
        PROVE  LedgerInv'
    <3> DEFINE e == Event("AccountClosed", 0, t)
    <3>1. /\ e \in Events /\ Change(e) = 0 /\ accounts[h].balance = 0
          /\ accounts[h].status = "Open" /\ Commit(h, e)
      BY <2>5, EventTypes DEF Event, Change, Close
    <3> HIDE DEF e
    <3> QED
      BY <3>1, CommitKeeps
  <2>6. CASE UNCHANGED ledgerVars
    BY <2>6 DEF ledgerVars, LedgerInv, StreamIsSound
  <2> QED
    BY <2>1, <2>2, <2>3, <2>4, <2>5, <2>6 DEF LedgerNext
<1> QED
  BY <1>1, <1>2, PTL DEF LedgerSpec

\* A stream whose writers had read all of it never overdraws and ends where it
\* closes, whatever its writers do and lose (account.py:54-89).
THEOREM StreamsStaySound == LedgerSpec => []StreamIsSound
<1>1. LedgerInv => StreamIsSound
  BY DEF LedgerInv
<1> QED
  BY <1>1, LedgerInvariant, PTL

\* The history, the balance and the balance at a time tell one story of every
\* account, by induction over the events they loop over (account.py:91-134).
THEOREM HistoriesStayTrue == LedgerSpec => []HistoryAgrees
<1>1. LedgerInv => HistoryAgrees
  <2> SUFFICES ASSUME LedgerInv, NEW a \in Loaded
               PROVE  LET history == TransactionHistory(a)
                          Until(t) == TransactionsInRange(a, 0, t)
                      IN  /\ history # <<>> => Last(history).after = a.balance
                          /\ NeverBack(a.events) =>
                                 \A t \in Times :
                                     BalanceAt(a, t) = IF Until(t) = <<>> THEN 0 ELSE Last(Until(t)).after
    BY DEF HistoryAgrees, NeverBack
  <2>1. a.events \in Seq(Events) /\ a = Rebuilt(a.events)
    BY DEF Loaded, LedgerInv, AccountStates
  <2>2. TransactionHistory(a) # <<>> => Last(TransactionHistory(a)).after = a.balance
    <3>1. RebuiltAgrees(a.events)
      BY <2>1, AccountsAgree
    <3> QED
      BY <2>1, <3>1 DEF RebuiltAgrees, EndsWith, TransactionHistory
  <2>3. ASSUME NeverBack(a.events), NEW t \in Times
        PROVE  BalanceAt(a, t) = EndsWith(TransactionsInRange(a, 0, t))
    BY <2>1, <2>3, TimesAgree, EventTypes DEF AtATime, BalanceAt, TransactionsInRange
  <2> QED
    BY <2>2, <2>3 DEF EndsWith
<1> QED
  BY <1>1, LedgerInvariant, PTL

-----------------------------------------------------------------------------
(***************************************************************************)
(* ExpenseReport: totals, and what removing an expense does to them.       *)
(***************************************************************************)
LEMMA ExpenseTypes ==
  \A item \in Expenses : item.amount \in Int /\ item.category \in Categories
  BY ReportAssumption DEF ExpenseItems

\* The total as the fold of the lemmas.
AddAmount == [p \in Int \X Expenses |-> p[1] + p[2].amount]

LEMMA AddAmountType ==
  /\ AddAmount \in Operators(Int, Expenses) /\ 0 \in Int
  /\ \A b \in Int, e \in Expenses : AddAmount[<<b, e>>] = b + e.amount
<1>1. \A p \in Int \X Expenses : p[1] + p[2].amount \in Int
  BY ExpenseTypes
<1> QED
  BY <1>1 DEF AddAmount, Operators

LEMMA TotalIsFold ==
  ASSUME NEW items \in Seq(Expenses)
  PROVE  TotalOf(items) = FoldOf(AddAmount, 0, items)
<1> DEFINE Loop(f) == f = [s \in SUBSET (DOMAIN items) |->
                              IF s = {} THEN 0
                              ELSE f[s \ {Max(s)}] + items[Max(s)].amount]
<1>1. TotalOf(items) = (CHOOSE f : Loop(f))[DOMAIN items]
  BY DEF TotalOf, FoldLeft, MapThenFoldSet
<1>2. /\ DOMAIN items = Places(items) /\ Len(items) \in Nat
      /\ \A i \in Places(items) : items[i] \in Expenses
  BY DEF Places
<1>3. ASSUME NEW s \in SUBSET Places(items), s # {}
      PROVE  Max(s) \in Places(items) /\ s \ {Max(s)} \in SUBSET Places(items)
  BY <1>2, <1>3, MaxOf DEF Places
<1>4. PICK g \in Tables(Int, items) :
         /\ IsTable(g, AddAmount, 0, items)
         /\ FoldOf(AddAmount, 0, items) = g[Places(items)]
  <2>1. ASSUME NEW A, AddAmount \in Operators(A, Expenses), 0 \in A
        PROVE  \E g \in Tables(A, items) :
                  IsTable(g, AddAmount, 0, items) /\ FoldOf(AddAmount, 0, items) = g[Places(items)]
    BY <2>1, FoldTable
  <2> QED
    BY <2>1, AddAmountType
<1>5. Loop(g)
  <2>1. ASSUME NEW s \in SUBSET Places(items), s # {}
        PROVE  AddAmount[<<g[s \ {Max(s)}], items[Max(s)]>>] = g[s \ {Max(s)}] + items[Max(s)].amount
    <3>1. g[s \ {Max(s)}] \in Int /\ items[Max(s)] \in Expenses
      BY <1>2, <1>3, <1>4, <2>1 DEF Tables
    <3> QED
      BY <3>1, AddAmountType
  <2> QED
    BY <1>2, <1>4, <2>1 DEF IsTable
<1>6. ASSUME NEW f, Loop(f)
      PROVE  f = g
  <2>1. /\ f = [s \in SUBSET Places(items) |-> f[s]]
        /\ \A s \in SUBSET Places(items) :
              f[s] = IF s = {} THEN 0 ELSE f[s \ {Max(s)}] + items[Max(s)].amount
    BY <1>2, <1>6
  <2> HIDE DEF Loop
  <2>2. f[{}] = 0
    BY <2>1
  <2>3. ASSUME NEW s \in SUBSET Places(items), s # {}, f[s \ {Max(s)}] \in Int
        PROVE  f[s] = AddAmount[<<f[s \ {Max(s)}], items[Max(s)]>>]
    <3>1. items[Max(s)] \in Expenses
      BY <1>2, <1>3, <2>3
    <3> QED
      BY <2>1, <2>3, <3>1, AddAmountType
  <2>4. Follows(f, Int, AddAmount, 0, items)
    BY <2>1, <2>2, <2>3 DEF Follows
  <2> QED
    BY <1>4, <2>4, AddAmountType, TableReached
<1> HIDE DEF Loop
<1>7. (CHOOSE f : Loop(f)) = g
  BY <1>5, <1>6
<1> QED
  BY <1>1, <1>2, <1>4, <1>7

\* A total is a number, nothing for no expenses, and grows by what is added.
LEMMA TotalGrows ==
  /\ TotalOf(<<>>) = 0
  /\ \A items \in Seq(Expenses) : TotalOf(items) \in Int
  /\ \A items \in Seq(Expenses), item \in Expenses :
        TotalOf(Append(items, item)) = TotalOf(items) + item.amount
<1>1. <<>> \in Seq(Expenses)
  OBVIOUS
<1>2. ASSUME NEW A, AddAmount \in Operators(A, Expenses), 0 \in A
      PROVE  /\ FoldOf(AddAmount, 0, <<>>) = 0
             /\ \A items \in Seq(Expenses) : FoldOf(AddAmount, 0, items) \in A
             /\ \A items \in Seq(Expenses), item \in Expenses :
                   FoldOf(AddAmount, 0, Append(items, item))
                     = AddAmount[<<FoldOf(AddAmount, 0, items), item>>]
  BY <1>2, FoldEmpty, FoldType, FoldAppend
<1>3. /\ FoldOf(AddAmount, 0, <<>>) = 0
      /\ \A items \in Seq(Expenses) : FoldOf(AddAmount, 0, items) \in Int
      /\ \A items \in Seq(Expenses), item \in Expenses :
            FoldOf(AddAmount, 0, Append(items, item)) = FoldOf(AddAmount, 0, items) + item.amount
  BY <1>2, AddAmountType
<1>4. \A items \in Seq(Expenses), item \in Expenses : Append(items, item) \in Seq(Expenses)
  OBVIOUS
<1> QED
  BY <1>1, <1>3, <1>4, TotalIsFold

\* Taking an expense out takes its amount off the total.
LEMMA TotalShrinks ==
  \A items \in Seq(Expenses) : \A k \in 1..Len(items) :
     TotalOf(RemoveAt(items, k)) = TotalOf(items) - items[k].amount
<1> DEFINE S == {items \in Seq(Expenses) : \A k \in 1..Len(items) :
                    TotalOf(RemoveAt(items, k)) = TotalOf(items) - items[k].amount}
<1>1. <<>> \in S
  OBVIOUS
<1>2. ASSUME NEW items \in Seq(Expenses), NEW e \in Expenses, items \in S
      PROVE  Append(items, e) \in S
  <2> DEFINE t == Append(items, e)
  <2>1. /\ t \in Seq(Expenses) /\ Len(t) = Len(items) + 1 /\ Len(items) \in Nat
        /\ t[Len(items) + 1] = e /\ \A j \in 1..Len(items) : t[j] = items[j] /\ items[j] \in Expenses
    OBVIOUS
  <2>2. /\ TotalOf(t) = TotalOf(items) + e.amount
        /\ TotalOf(items) \in Int /\ e.amount \in Int
    BY TotalGrows, ExpenseTypes
  <2>3. ASSUME NEW k \in 1..Len(items)
        PROVE  TotalOf(RemoveAt(t, k)) = TotalOf(t) - t[k].amount
    <3>1. RemoveAt(t, k) = Append(RemoveAt(items, k), e) /\ RemoveAt(items, k) \in Seq(Expenses)
      BY RemoveFromAppended, RemoveAtOne
    <3>2. TotalOf(RemoveAt(t, k)) = TotalOf(RemoveAt(items, k)) + e.amount
      BY <3>1, TotalGrows
    <3>3. TotalOf(RemoveAt(items, k)) = TotalOf(items) - items[k].amount /\ items[k].amount \in Int
      BY <1>2, <2>1, ExpenseTypes
    <3>4. t[k].amount = items[k].amount
      BY <2>1
    <3> HIDE DEF t
    <3> QED
      BY <2>2, <3>2, <3>3, <3>4
  <2>4. TotalOf(RemoveAt(t, Len(items) + 1)) = TotalOf(t) - t[Len(items) + 1].amount
    <3>1. RemoveAt(t, Len(items) + 1) = items
      BY RemoveFromAppended
    <3> HIDE DEF t
    <3> QED
      BY <2>1, <2>2, <3>1
  <2> HIDE DEF t
  <2>5. \A k \in 1..Len(t) : TotalOf(RemoveAt(t, k)) = TotalOf(t) - t[k].amount
    BY <2>1, <2>3, <2>4
  <2>6. t \in S
    BY <2>1, <2>5
  <2> QED
    BY <2>6 DEF t
<1> HIDE DEF S
<1>3. \A items \in Seq(Expenses) : items \in S
  BY <1>1, <1>2, SequenceInduction
<1> QED
  BY <1>3 DEF S

-----------------------------------------------------------------------------
\* What a report still holds of what was decided on: the same expenses at no
\* more places, for no more money.
StillHolds(items, decided) ==
    /\ IsPartOf(items, decided) /\ TotalOf(items) <= TotalOf(decided)

ReportInv ==
    /\ ReportTypeOK
    /\ \A i \in DOMAIN report.items : report.items[i].amount > 0
    /\ report.status # "Draft" => review.grown \/ TotalOf(report.items) <= ReportMaximum
    /\ report.status \in {"Approved", "Rejected"} => StillHolds(report.items, review.decided)
    /\ report.status = "Draft" => report.reason = NoReason
    /\ report.status = "Rejected" => report.reason # NoReason

LEMMA PartOfExpenses ==
  ASSUME NEW items \in Seq(Expenses), NEW P \in SUBSET DOMAIN items
  PROVE  IsFiniteSet(P) /\ Cardinality(P) \in Nat
<1>1. IsFiniteSet(1..Len(items)) /\ DOMAIN items = 1..Len(items)
  BY FS_Interval
<1> QED
  BY <1>1, FS_Subset, FS_CardinalityType

\* A part of a part, with one place taken out, is a part.
LEMMA PartShrinks ==
  ASSUME NEW items \in Seq(Expenses), NEW decided \in Seq(Expenses), NEW k \in 1..Len(items),
         IsPartOf(items, decided)
  PROVE  IsPartOf(RemoveAt(items, k), decided)
<1> DEFINE r == RemoveAt(items, k)
           n == Len(items)
<1>1. /\ r \in Seq(Expenses) /\ DOMAIN r = 1..(n - 1) /\ n \in Nat /\ DOMAIN items = 1..n
      /\ \A j \in 1..(n - 1) : Origin(j, k) \in DOMAIN items \ {k} /\ r[j] = items[Origin(j, k)]
  <2>1. r \in Seq(Expenses) /\ Removed(r, items, k)
    BY RemoveAtRemoved
  <2> HIDE DEF r
  <2> QED
    BY <2>1 DEF Removed
<1> HIDE DEF r
<1>2. ASSUME NEW x \in ToSet(r)
      PROVE  Cardinality({i \in DOMAIN r : r[i] = x})
               <= Cardinality({i \in DOMAIN decided : decided[i] = x})
  <2> DEFINE P == {i \in 1..n : items[i] = x}
             Q == {i \in DOMAIN r : r[i] = x}
             D == {i \in DOMAIN decided : decided[i] = x}
  <2>1. Q = {j \in 1..(n - 1) : Origin(j, k) \in P}
    BY <1>1
  <2>2. Cardinality(Q) = Cardinality(P \ {k})
    BY <1>1, <2>1, PlacesLeft
  <2>3. IsFiniteSet(P) /\ Cardinality(P) \in Nat /\ Cardinality(D) \in Nat /\ Cardinality(Q) \in Nat
    BY <1>1, PartOfExpenses
  <2>4. Cardinality(P \ {k}) <= Cardinality(P)
    BY <2>3, FS_Subset
  <2>5. x \in ToSet(items)
    <3>1. PICK j \in DOMAIN r : x = r[j]
      BY DEF ToSet
    <3> QED
      BY <1>1, <3>1 DEF ToSet
  <2>6. Cardinality(P) <= Cardinality(D)
    BY <1>1, <2>5 DEF IsPartOf
  <2> HIDE DEF P, Q, D
  <2>7. Cardinality(Q) <= Cardinality(D)
    BY <2>2, <2>3, <2>4, <2>6
  <2> QED
    BY <2>7 DEF Q, D
<1>3. IsPartOf(r, decided)
  BY <1>2 DEF IsPartOf
<1> QED
  BY <1>3 DEF r

LEMMA ReportStart ==
  ReportInit => ReportInv
<1> SUFFICES ASSUME ReportInit PROVE ReportInv
  OBVIOUS
<1>1. /\ report = [status |-> "Draft", items |-> <<>>, reason |-> NoReason]
      /\ review = [decided |-> <<>>, grown |-> FALSE]
  BY DEF ReportInit
<1>2. ReportTypeOK
  BY <1>1 DEF ReportTypeOK, Statuses, Reasons
<1>3. \A i \in DOMAIN report.items : report.items[i].amount > 0
  BY <1>1
<1> QED
  BY <1>1, <1>2, <1>3 DEF ReportInv

\* One more expense makes a report grow, and needs one that is not decided.
LEMMA AddKeepsReport ==
  ASSUME ReportInv, NEW item \in Expenses, AddExpense(item)
  PROVE  ReportInv'
<1>1. /\ report.items \in Seq(Expenses) /\ report.status \in Statuses /\ report.reason \in Reasons
      /\ review.decided \in Seq(Expenses)
      /\ \A i \in DOMAIN report.items : report.items[i].amount > 0
  BY DEF ReportInv, ReportTypeOK
<1>2. /\ report'.items = Append(report.items, item) /\ report'.status = report.status
      /\ report'.reason = report.reason /\ report' = [report EXCEPT !.items = Append(@, item)]
      /\ review'.grown = TRUE /\ review'.decided = review.decided
      /\ report.status \notin {"Approved", "Rejected"} /\ item.amount > 0
  BY DEF AddExpense, ReportInv, ReportTypeOK, IsFinalized
<1>3. ReportTypeOK'
  <2>1. report'.items \in Seq(Expenses)
    BY <1>1, <1>2
  <2>2. report' \in [status : Statuses, items : Seq(Expenses), reason : Reasons]
    BY <1>1, <1>2, <2>1 DEF ReportInv, ReportTypeOK
  <2>3. review' \in [decided : Seq(Expenses), grown : BOOLEAN]
    BY DEF AddExpense, ReportInv, ReportTypeOK
  <2> QED
    BY <2>2, <2>3 DEF ReportTypeOK
<1>4. \A i \in DOMAIN report'.items : report'.items[i].amount > 0
  BY <1>1, <1>2
<1> QED
  BY <1>1, <1>2, <1>3, <1>4 DEF ReportInv

\* A sequence t that is s without its k-th element: what RemoveAtOne says of RemoveAt.
LosesOne(t, s, k) ==
  /\ DOMAIN t = 1..(Len(s) - 1)
  /\ \A j \in 1..(Len(s) - 1) : Origin(j, k) \in DOMAIN s \ {k} /\ t[j] = s[Origin(j, k)]

LEMMA RemoveAtLosesOne ==
  ASSUME NEW S, NEW s \in Seq(S), NEW k \in 1..Len(s)
  PROVE  RemoveAt(s, k) \in Seq(S) /\ LosesOne(RemoveAt(s, k), s, k)
<1>1. RemoveAt(s, k) \in Seq(S) /\ DOMAIN RemoveAt(s, k) = 1..(Len(s) - 1)
  BY RemoveAtOne
<1>2. \A j \in 1..(Len(s) - 1) :
        Origin(j, k) \in DOMAIN s \ {k} /\ RemoveAt(s, k)[j] = s[Origin(j, k)]
  BY RemoveAtOne
<1> QED
  BY <1>1, <1>2 DEF LosesOne

\* One less leaves a part of what was there.
LEMMA RemoveKeepsReport ==
  ASSUME ReportInv, NEW item \in Expenses, RemoveExpense(item)
  PROVE  ReportInv'
<1>1. /\ report.items \in Seq(Expenses) /\ report.status \in Statuses /\ report.reason \in Reasons
      /\ review.decided \in Seq(Expenses)
      /\ \A i \in DOMAIN report.items : report.items[i].amount > 0
  BY DEF ReportInv, ReportTypeOK
<1>2. /\ report'.items = RemoveFirst(report.items, item) /\ report'.status = report.status
      /\ report'.reason = report.reason /\ report' = [report EXCEPT !.items = RemoveFirst(@, item)]
      /\ review' = review /\ Contains(report.items, item)
  BY DEF RemoveExpense, ReportInv, ReportTypeOK
<1>3. PICK k \in 1..Len(report.items) : report'.items = RemoveAt(report.items, k)
  BY <1>1, <1>2, RemoveFirstTakesOne
<1>4. /\ report'.items \in Seq(Expenses) /\ DOMAIN report'.items = 1..(Len(report.items) - 1)
      /\ \A j \in 1..(Len(report.items) - 1) :
            /\ Origin(j, k) \in DOMAIN report.items \ {k}
            /\ report'.items[j] = report.items[Origin(j, k)]
  <2>1. PICK items \in Seq(Expenses) : items = report.items
    BY <1>1
  <2>2. k \in 1..Len(items)
    BY <1>3, <2>1
  <2>3. RemoveAt(items, k) \in Seq(Expenses) /\ LosesOne(RemoveAt(items, k), items, k)
    BY <2>2, RemoveAtLosesOne, Zenon
  <2>4. RemoveAt(items, k) = report'.items
    BY <1>3, <2>1
  <2>5. report'.items \in Seq(Expenses) /\ LosesOne(report'.items, report.items, k)
    BY <2>1, <2>3, <2>4, Zenon
  <2> QED
    BY <2>5 DEF LosesOne
<1>5. ReportTypeOK'
  BY <1>1, <1>2, <1>4 DEF ReportInv, ReportTypeOK
<1>6. \A i \in DOMAIN report'.items : report'.items[i].amount > 0
  BY <1>1, <1>4
<1>7. TotalOf(report'.items) <= TotalOf(report.items) /\ TotalOf(report.items) \in Int
      /\ TotalOf(report'.items) \in Int
  <2>1. /\ TotalOf(report'.items) = TotalOf(report.items) - report.items[k].amount
        /\ report.items[k] \in Expenses /\ report.items[k].amount > 0
    BY <1>1, <1>3, TotalShrinks
  <2>2. report.items[k].amount \in Int /\ TotalOf(report.items) \in Int
    BY <1>1, <2>1, TotalGrows, ExpenseTypes
  <2> QED
    BY <2>1, <2>2
<1>8. report'.status # "Draft" => review'.grown \/ TotalOf(report'.items) <= ReportMaximum
  BY <1>2, <1>7 DEF ReportInv, ReportMaximum
<1>9. report'.status \in {"Approved", "Rejected"} => StillHolds(report'.items, review'.decided)
  <2> SUFFICES ASSUME report.status \in {"Approved", "Rejected"}
               PROVE  StillHolds(report'.items, review.decided)
    BY <1>2
  <2>1. StillHolds(report.items, review.decided)
    BY DEF ReportInv
  <2>2. IsPartOf(report'.items, review.decided)
    BY <1>1, <1>3, <2>1, PartShrinks DEF StillHolds
  <2>3. TotalOf(review.decided) \in Int
    BY <1>1, TotalGrows
  <2> QED
    BY <1>7, <2>1, <2>2, <2>3 DEF StillHolds
<1> QED
  BY <1>2, <1>5, <1>6, <1>8, <1>9 DEF ReportInv

\* A report can be submitted from any status, below the maximum.
LEMMA SubmitKeepsReport ==
  ASSUME ReportInv, SubmitReport
  PROVE  ReportInv'
<1>1. /\ report'.items = report.items /\ report'.status = "Pending" /\ report'.reason = report.reason
      /\ review'.decided = review.decided /\ TotalOf(report.items) <= ReportMaximum
  BY DEF SubmitReport, Submittable, ReportInv, ReportTypeOK
<1>2. ReportTypeOK'
  BY DEF SubmitReport, ReportInv, ReportTypeOK, Statuses
<1> QED
  BY <1>1, <1>2 DEF ReportInv

\* What is decided on is what the report holds.
LEMMA DecideKeepsReport ==
  ASSUME ReportInv, NEW status \in {"Approved", "Rejected"}, NEW reason \in Reasons,
         Decide(status, reason), status = "Rejected" => reason # NoReason
  PROVE  ReportInv'
<1>1. /\ report'.items = report.items /\ report'.status = status /\ report'.reason = reason
      /\ review'.decided = report.items /\ review'.grown = review.grown /\ report.status = "Pending"
      /\ report.items \in Seq(Expenses)
  BY DEF Decide, ReportInv, ReportTypeOK
<1>2. ReportTypeOK'
  BY <1>1 DEF Decide, ReportInv, ReportTypeOK, Statuses
<1>3. StillHolds(report.items, report.items)
  <2>1. TotalOf(report.items) \in Int
    BY <1>1, TotalGrows
  <2>2. ASSUME NEW x
        PROVE  Cardinality({i \in DOMAIN report.items : report.items[i] = x}) \in Nat
    BY <1>1, PartOfExpenses
  <2>3. IsPartOf(report.items, report.items)
    <3>1. ASSUME NEW x
          PROVE  Cardinality({i \in DOMAIN report.items : report.items[i] = x})
                   <= Cardinality({i \in DOMAIN report.items : report.items[i] = x})
      <4> DEFINE n == Cardinality({i \in DOMAIN report.items : report.items[i] = x})
      <4>1. n \in Nat
        BY <2>2
      <4> HIDE DEF n
      <4>2. n <= n
        BY <4>1
      <4> QED
        BY <4>2 DEF n
    <3> QED
      BY <3>1 DEF IsPartOf
  <2> QED
    BY <2>1, <2>3 DEF StillHolds
<1> QED
  BY <1>1, <1>2, <1>3 DEF ReportInv

LEMMA ReportStep ==
  ReportInv /\ [ReportNext]_reportVars => ReportInv'
<1> SUFFICES ASSUME ReportInv, [ReportNext]_reportVars PROVE ReportInv'
  OBVIOUS
<1>1. CASE \E item \in Expenses : AddExpense(item)
  BY <1>1, AddKeepsReport
<1>2. CASE \E item \in Expenses : RemoveExpense(item)
  BY <1>2, RemoveKeepsReport
<1>3. CASE SubmitReport
  BY <1>3, SubmitKeepsReport
<1>4. CASE ApproveReport
  <2>1. report.reason \in Reasons
    BY DEF ReportInv, ReportTypeOK
  <2> QED
    BY <1>4, <2>1, DecideKeepsReport DEF ApproveReport
<1>5. CASE RejectReport
  BY <1>5, DecideKeepsReport DEF RejectReport
<1>6. CASE ReopenReport
  <2>1. /\ report'.items = report.items /\ report'.status = "Draft" /\ report'.reason = NoReason
        /\ review' = review
    BY <1>6 DEF ReopenReport, ReportInv, ReportTypeOK
  <2>2. ReportTypeOK'
    BY <1>6 DEF ReopenReport, ReportInv, ReportTypeOK, Statuses, Reasons
  <2> QED
    BY <2>1, <2>2 DEF ReportInv
<1>7. CASE UNCHANGED reportVars
  BY <1>7 DEF ReportInv, ReportTypeOK, reportVars
<1> QED
  BY <1>1, <1>2, <1>3, <1>4, <1>5, <1>6, <1>7 DEF ReportNext

LEMMA ReportInvariant ==
  ReportSpec => []ReportInv
<1> QED
  BY ReportStart, ReportStep, PTL DEF ReportSpec

LEMMA ReviewHolds ==
  ReportInv => ReviewedAsDecided
<1> SUFFICES ASSUME ReportInv PROVE ReviewedAsDecided
  OBVIOUS
<1>1. /\ report.items \in Seq(Expenses) /\ review.decided \in Seq(Expenses)
      /\ TotalOf(report.items) \in Int /\ TotalOf(review.decided) \in Int
  BY TotalGrows DEF ReportInv, ReportTypeOK
<1>2. ASSUME report.status \in {"Approved", "Rejected"}, RequiresApproval(report.items)
      PROVE  RequiresApproval(review.decided)
  <2>1. IsPartOf(report.items, review.decided) /\ TotalOf(report.items) <= TotalOf(review.decided)
    BY <1>2 DEF ReportInv, StillHolds
  <2>2. CASE TotalOf(report.items) > ApprovalThreshold
    BY <1>1, <2>1, <2>2 DEF RequiresApproval, ApprovalThreshold
  <2>3. ASSUME NEW i \in DOMAIN report.items, IsOverLimit(report.items[i])
        PROVE  RequiresApproval(review.decided)
    <3> DEFINE x == report.items[i]
               P == {j \in DOMAIN report.items : report.items[j] = x}
               D == {j \in DOMAIN review.decided : review.decided[j] = x}
    <3>1. Cardinality(P) <= Cardinality(D)
      BY <2>1 DEF IsPartOf, ToSet
    <3>2. IsFiniteSet(P) /\ Cardinality(P) \in Nat /\ i \in P /\ Cardinality(D) \in Nat
      BY <1>1, PartOfExpenses
    <3>3. Cardinality(P) # 0
      BY <3>2, FS_EmptySet
    <3>4. D # {}
      BY <3>1, <3>2, <3>3, FS_EmptySet
    <3> QED
      BY <2>3, <3>4 DEF RequiresApproval
  <2> QED
    BY <1>2, <2>2, <2>3 DEF RequiresApproval
<1>3. report.status # "Draft" /\ TotalOf(report.items) > ReportMaximum => review.grown
  BY <1>1 DEF ReportInv, ReportMaximum
<1>4. report.status \in {"Approved", "Rejected"} => IsPartOf(report.items, review.decided)
  BY DEF ReportInv, StillHolds
<1> QED
  BY <1>2, <1>3, <1>4 DEF ReviewedAsDecided, ReportInv

\* A report in review is over the maximum only by what was added meanwhile, and
\* one that is decided never comes to hold, or to require, what was not decided
\* on, whatever is removed or submitted again (report.py:46-93).
THEOREM ReportsStayReviewed ==
  ReportSpec => []ReviewedAsDecided
<1> QED
  BY ReportInvariant, ReviewHolds, PTL

-----------------------------------------------------------------------------
(***************************************************************************)
(* The breaker counts correctly and implements FailFast for every          *)
(* threshold, timeout, depth of nesting and length of run.                 *)
(***************************************************************************)
\* Away from Closed the counter has reached the threshold, and stays there: any
\* failure trips again, so the circuit opened at the latest failure.
Tripped ==
    state # "Closed" => /\ failureCount >= FailureThreshold
                        /\ openedAt = lastFailure

\* The timeout was over when the probe began, and no failure came since.
ProbeRested == state = "HalfOpen" => time - openedAt >= ResetTimeout

BreakerInv ==
    /\ TypeOK
    /\ CountsConsecutive
    /\ ProbeInFlight
    /\ Tripped
    /\ ProbeRested
    /\ failureCount <= run

LEMMA InitBreakerInv == Init => BreakerInv
  BY BreakerAssumption DEF Init, BreakerInv, TypeOK, CountsConsecutive, ProbeInFlight,
     Tripped, ProbeRested, BreakerState, NotYet

LEMMA NextBreakerInv == BreakerInv /\ [Next]_vars => BreakerInv'
<1> SUFFICES ASSUME BreakerInv, [Next]_vars PROVE BreakerInv'
  OBVIOUS
<1> USE BreakerAssumption DEF BreakerInv, TypeOK, CountsConsecutive, ProbeInFlight,
        Tripped, ProbeRested, BreakerState, NotYet
<1>1. CASE Enter
  BY <1>1 DEF Enter, Elapsed
<1>2. CASE Succeed
  BY <1>2 DEF Succeed, FailuresCleared
<1>3. CASE Fail
  <2>1. CASE state = "HalfOpen"
    BY <1>3, <2>1 DEF Fail, Trips, TripTime
  <2>2. CASE state # "HalfOpen"
    BY <1>3, <2>2 DEF Fail, Trips, TripTime
  <2> QED
    BY <2>1, <2>2
<1>4. CASE Advance
  BY <1>4 DEF Advance
<1>5. CASE UNCHANGED vars
  BY <1>5 DEF vars
<1> QED
  BY <1>1, <1>2, <1>3, <1>4, <1>5 DEF Next

\* The inductive invariant of the breaker.
THEOREM BreakerInvariant == Spec => []BreakerInv
  BY InitBreakerInv, NextBreakerInv, PTL DEF Spec

\* Types, and no opening time in the future.
THEOREM BreakerTypes == Spec => []TypeOK
<1>1. BreakerInv => TypeOK
  BY DEF BreakerInv
<1> QED
  BY <1>1, BreakerInvariant, PTL

\* The circuit is closed exactly below the threshold of consecutive failures,
\* whatever the nesting of calls (breaker.py:58-72).
THEOREM CountIsTrue == Spec => []CountsConsecutive
<1>1. BreakerInv => CountsConsecutive
  BY DEF BreakerInv
<1> QED
  BY <1>1, BreakerInvariant, PTL

\* A half-open circuit is always being probed (breaker.py:46, 60, 64).
THEOREM ProbeDecides == Spec => []ProbeInFlight
<1>1. BreakerInv => ProbeInFlight
  BY DEF BreakerInv
<1> QED
  BY <1>1, BreakerInvariant, PTL

LEMMA StepRefines == BreakerInv /\ [Next]_vars => [Contract!Next]_(Contract!vars)
<1> SUFFICES ASSUME BreakerInv, [Next]_vars PROVE [Contract!Next]_(Contract!vars)
  OBVIOUS
<1> USE BreakerAssumption DEF BreakerInv, TypeOK
<1>1. CASE Enter
  <2>1. run < FailureThreshold \/ time - lastFailure >= ResetTimeout
    BY <1>1 DEF Enter, Elapsed, CountsConsecutive, Tripped, ProbeRested,
       BreakerState
  <2>2. Contract!Invoke
    BY <1>1, <2>1 DEF Enter, Contract!Invoke
  <2> QED
    BY <2>2 DEF Contract!Next
<1>2. CASE Succeed
  BY <1>2 DEF Succeed, Contract!Succeed, Contract!Next
<1>3. CASE Fail
  BY <1>3 DEF Fail, Contract!Fail, Contract!Next
<1>4. CASE Advance
  BY <1>4 DEF Advance, Contract!Advance, Contract!Next
<1>5. CASE UNCHANGED vars
  BY <1>5 DEF vars, Contract!vars
<1> QED
  BY <1>1, <1>2, <1>3, <1>4, <1>5 DEF Next

\* Every breaker keeps the fail-fast promise: no operation is invoked at the
\* threshold before the timeout has passed since the latest failure.
THEOREM BreakerFailsFast == Spec => ImplementsFailFast
<1>1. Init => Contract!Init
  BY DEF Init, Contract!Init, NotYet
<1> QED
  BY <1>1, BreakerInvariant, StepRefines, PTL DEF Spec, ImplementsFailFast, Contract!Spec

\* With one call at a time the circuit is never open around a running operation.
Admitted == calls > 0 => state # "Open"

LEMMA AdmittedStays ==
  ASSUME MaxDepth = 1, BreakerInv, Admitted, [Next]_vars PROVE Admitted'
<1> USE BreakerAssumption DEF BreakerInv, TypeOK, Admitted
<1>1. CASE Enter
  BY <1>1 DEF Enter
<1>2. CASE Succeed
  BY <1>2 DEF Succeed
<1>3. CASE Fail
  BY <1>3 DEF Fail
<1>4. CASE Advance \/ UNCHANGED vars
  BY <1>4 DEF Advance, vars
<1> QED
  BY <1>1, <1>2, <1>3, <1>4 DEF Next

LEMMA RestStep ==
  ASSUME BreakerInv, Admitted, [Next]_vars
  PROVE  [state = "Open" /\ state' # "Open" => time - openedAt >= ResetTimeout]_vars
<1>1. CASE Enter
  BY <1>1 DEF Enter, Elapsed
<1>2. CASE Succeed \/ Fail
  BY <1>2 DEF Succeed, Fail, Admitted
<1>3. CASE Advance \/ UNCHANGED vars
  BY <1>3 DEF Advance, vars
<1> QED
  BY <1>1, <1>2, <1>3 DEF Next

\* With operations that do not call the breaker back, an open circuit rests for
\* the whole timeout (breaker.py:43-48).
THEOREM SequentialRests ==
  ASSUME MaxDepth = 1 PROVE Spec => OpenUntilTimeout
<1>1. Init => Admitted
  BY DEF Init, Admitted
<1>2. BreakerInv /\ Admitted /\ [Next]_vars => Admitted'
  BY AdmittedStays
<1>3. BreakerInv /\ Admitted /\ [Next]_vars
        => [state = "Open" /\ state' # "Open" => time - openedAt >= ResetTimeout]_vars
  BY RestStep
<1> QED
  BY <1>1, <1>2, <1>3, BreakerInvariant, PTL DEF Spec, OpenUntilTimeout

-----------------------------------------------------------------------------
(* VideoClub. Stock as a count over the rentals; the cause of a flag and   *)
(* the effect of a sweep together, since a return looks at both.           *)

\* The places of the open rentals of a title.
Out(t) == {k \in DOMAIN rentals : rentals[k].title = t}

ClubInv ==
    /\ ClubTypeOK /\ StockConserved
    /\ sweptOn <= today
    /\ FlagHasCause /\ SweptAreBlocked

\* The rentals and the titles they hold on to.
RentalsTyped ==
    /\ rentals \in Seq(Rental)
    /\ \A k \in DOMAIN rentals :
         rentals[k].user \in DOMAIN users /\ rentals[k].title \in DOMAIN titles

LEMMA OutFinite ==
  ASSUME ClubTypeOK, NEW t
  PROVE  /\ Out(t) \in SUBSET (1..Len(rentals)) /\ DOMAIN rentals = 1..Len(rentals)
         /\ Len(rentals) \in Nat /\ IsFiniteSet(Out(t)) /\ Cardinality(Out(t)) \in Nat
<1>1. /\ Out(t) \in SUBSET (1..Len(rentals)) /\ DOMAIN rentals = 1..Len(rentals)
      /\ Len(rentals) \in Nat
  BY DEF ClubTypeOK, Out
<1>2. IsFiniteSet(1..Len(rentals))
  BY <1>1, FS_Interval
<1>3. IsFiniteSet(Out(t))
  BY <1>1, <1>2, FS_Subset
<1> QED
  BY <1>1, <1>3, FS_CardinalityType

LEMMA ClubStart == ClubInit => ClubInv
<1> SUFFICES ASSUME ClubInit PROVE ClubInv
  OBVIOUS
<1>1. ClubTypeOK
  BY ClubAssumption DEF ClubInit, ClubTypeOK, User, Title, Rental, NotSwept, NoTitle
<1>2. StockConserved /\ FlagHasCause /\ SweptAreBlocked
  BY DEF ClubInit, StockConserved, FlagHasCause, SweptAreBlocked, NotSwept
<1>3. sweptOn <= today
  BY DEF ClubInit, NotSwept
<1> QED
  BY <1>1, <1>2, <1>3 DEF ClubInv

-----------------------------------------------------------------------------
(* The two steps that change the rentals.                                  *)

\* A new rental stands behind the others.
LEMMA Rented ==
  ASSUME ClubTypeOK, NEW u \in DOMAIN users, NEW n \in Names, Rent(u, n)
  PROVE  /\ catalog[n] \in DOMAIN titles
         /\ RentalsTyped'
         /\ DOMAIN rentals' = DOMAIN rentals \cup {Len(rentals) + 1}
         /\ \A k \in DOMAIN rentals : rentals'[k] = rentals[k]
         /\ rentals'[Len(rentals) + 1].title = catalog[n]
         /\ rentals'[Len(rentals) + 1].user = u
         /\ ~(today' > rentals'[Len(rentals) + 1].due)
<1> DEFINE r == [user |-> u, title |-> catalog[n], due |-> today + RentalPeriodDays]
<1>1. catalog[n] \in DOMAIN titles
  BY DEF ClubTypeOK, Rent, NoTitle
<1>2. /\ DOMAIN users = 1..Len(users) /\ Len(users) \in 0..MaxUsers
      /\ DOMAIN titles = 1..Len(titles) /\ Len(titles) \in 0..MaxTitles
      /\ DOMAIN rentals = 1..Len(rentals) /\ Len(rentals) \in Nat /\ today \in Nat
  BY DEF ClubTypeOK
<1>3. r \in Rental
  BY <1>1, <1>2, ClubAssumption DEF Rental
<1>4. rentals \in Seq(Rental) /\ rentals' = Append(rentals, r)
  BY DEF ClubTypeOK, Rent
<1>5. r.user = u /\ r.title = catalog[n] /\ r.due = today + RentalPeriodDays
  OBVIOUS
<1> HIDE DEF r
<1>6. /\ rentals' \in Seq(Rental) /\ DOMAIN rentals' = DOMAIN rentals \cup {Len(rentals) + 1}
      /\ \A k \in DOMAIN rentals : rentals'[k] = rentals[k]
      /\ rentals'[Len(rentals) + 1] = r
  BY <1>2, <1>3, <1>4
<1>7. users' = users /\ today' = today /\ DOMAIN titles' = DOMAIN titles
  BY DEF Rent, ClubTypeOK
<1>8. RentalsTyped'
  BY <1>1, <1>5, <1>6, <1>7 DEF RentalsTyped, ClubTypeOK
<1>9. ~(today' > r.due)
  BY <1>2, <1>5, <1>7, ClubAssumption
<1> QED
  BY <1>1, <1>5, <1>6, <1>8, <1>9

\* The rental a user returns is one of his, and the others stay.
LEMMA Returned ==
  ASSUME ClubTypeOK, NEW u \in DOMAIN users, NEW n \in Names, RentalsOf(u, n) # {},
         TakeBack(Min(RentalsOf(u, n)))
  PROVE  \E k \in DOMAIN rentals :
           /\ k = Min(RentalsOf(u, n)) /\ k \in 1..Len(rentals)
           /\ rentals[k].user = u
           /\ rentals' \in Seq(Rental) /\ Removed(rentals', rentals, k)
           /\ titles' = [titles EXCEPT ![rentals[k].title].available = @ + 1]
           /\ today' = today /\ sweptOn' = sweptOn /\ catalog' = catalog
<1>1. RentalsOf(u, n) \in SUBSET Nat /\ RentalsOf(u, n) \subseteq ActiveRentals(u)
  BY DEF RentalsOf, ActiveRentals, ClubTypeOK
<1>2. PICK k \in ActiveRentals(u) : k = Min(RentalsOf(u, n))
  BY <1>1, MinOf
<1>3. k \in DOMAIN rentals /\ rentals[k].user = u /\ rentals \in Seq(Rental)
  BY <1>2 DEF ActiveRentals, ClubTypeOK
<1>4. k \in 1..Len(rentals) /\ rentals' = RemoveAt(rentals, k)
  BY <1>2, <1>3 DEF TakeBack
<1>5. rentals' \in Seq(Rental) /\ Removed(rentals', rentals, k)
  BY <1>3, <1>4, RemoveAtRemoved
<1> QED
  BY <1>2, <1>3, <1>4, <1>5 DEF TakeBack, ReturnedTo

-----------------------------------------------------------------------------
(* Stock.                                                                  *)

LEMMA OutRented ==
  ASSUME ClubTypeOK, NEW u \in DOMAIN users, NEW n \in Names, Rent(u, n), NEW t
  PROVE  Cardinality(Out(t)') = IF t = catalog[n] THEN Cardinality(Out(t)) + 1
                                ELSE Cardinality(Out(t))
<1>1. /\ DOMAIN rentals' = DOMAIN rentals \cup {Len(rentals) + 1}
      /\ \A k \in DOMAIN rentals : rentals'[k] = rentals[k]
      /\ rentals'[Len(rentals) + 1].title = catalog[n]
  BY Rented
<1>2. /\ IsFiniteSet(Out(t)) /\ Len(rentals) + 1 \notin Out(t)
      /\ Len(rentals) + 1 \notin DOMAIN rentals
  BY OutFinite
<1>3. CASE t = catalog[n]
  <2>1. Out(t)' = Out(t) \cup {Len(rentals) + 1}
    BY <1>1, <1>3 DEF Out
  <2> QED
    BY <1>2, <1>3, <2>1, FS_AddElement
<1>4. CASE t # catalog[n]
  <2>1. Out(t)' = Out(t)
    BY <1>1, <1>4 DEF Out
  <2> QED
    BY <1>4, <2>1
<1> QED
  BY <1>3, <1>4

LEMMA OutReturned ==
  ASSUME ClubTypeOK, NEW k \in 1..Len(rentals), Removed(rentals', rentals, k), NEW t
  PROVE  Cardinality(Out(t)') = IF t = rentals[k].title THEN Cardinality(Out(t)) - 1
                                ELSE Cardinality(Out(t))
<1>1. /\ Out(t) \in SUBSET (1..Len(rentals)) /\ DOMAIN rentals = 1..Len(rentals)
      /\ Len(rentals) \in Nat /\ IsFiniteSet(Out(t))
  BY OutFinite
<1>2. Out(t)' = {j \in 1..(Len(rentals) - 1) : Origin(j, k) \in Out(t)}
  BY DEF Out, Removed
<1>3. Cardinality(Out(t)') = Cardinality(Out(t) \ {k})
  BY <1>1, <1>2, PlacesLeft
<1>4. k \in Out(t) <=> t = rentals[k].title
  BY <1>1 DEF Out
<1> QED
  BY <1>1, <1>3, <1>4, FS_RemoveElement

\* A title with a rental out has room for the copy that comes back.
LEMMA RoomForReturn ==
  ASSUME ClubTypeOK, StockConserved, NEW k \in DOMAIN rentals
  PROVE  titles[rentals[k].title].available < titles[rentals[k].title].total
<1> DEFINE t == rentals[k].title
<1>1. t \in DOMAIN titles /\ titles[t] \in Title
  BY DEF ClubTypeOK
<1>2. Cardinality(Out(t)) \in Nat /\ IsFiniteSet(Out(t)) /\ k \in Out(t)
  BY OutFinite DEF Out
<1>3. Cardinality(Out(t)) # 0
  BY <1>2, FS_EmptySet
<1>4. titles[t].total - titles[t].available = Cardinality(Out(t))
  BY <1>1 DEF StockConserved, Out
<1>5. titles[t].total \in Int /\ titles[t].available \in Int
  BY <1>1 DEF Title
<1> HIDE DEF t
<1>6. titles[t].available < titles[t].total
  BY <1>2, <1>3, <1>4, <1>5
<1> QED
  BY <1>6 DEF t

StockOK ==
    /\ titles \in Seq(Title) /\ Len(titles) \in 0..MaxTitles
    /\ catalog \in [Names -> {NoTitle} \cup DOMAIN titles]
    /\ StockConserved

\* One title changes, and the others stay.
LEMMA TitleChanged ==
  ASSUME ClubTypeOK, NEW t \in DOMAIN titles, NEW new \in Title,
         titles' = [titles EXCEPT ![t] = new], catalog' = catalog
  PROVE  /\ titles' \in Seq(Title) /\ Len(titles') \in 0..MaxTitles
         /\ catalog' \in [Names -> {NoTitle} \cup DOMAIN titles']
         /\ DOMAIN titles' = DOMAIN titles /\ titles'[t] = new
         /\ \A s \in DOMAIN titles \ {t} : titles'[s] = titles[s]
<1>1. titles \in Seq(Title) /\ titles[t] \in Title
  BY DEF ClubTypeOK
<1>5. /\ titles' \in Seq(Title) /\ Len(titles') = Len(titles) /\ DOMAIN titles' = DOMAIN titles
      /\ titles'[t] = new /\ \A s \in DOMAIN titles \ {t} : titles'[s] = titles[s]
  BY <1>1
<1> QED
  BY <1>5 DEF ClubTypeOK

\* The counts of a title with one more or one less on the shelf.
LEMMA Shelved ==
  ASSUME NEW old \in Title, NEW a \in 0..MaxCopies
  PROVE  /\ [old EXCEPT !.available = a] \in Title
         /\ [old EXCEPT !.available = a].total = old.total
         /\ [old EXCEPT !.available = a].available = a
  BY DEF Title

Stocked(old, b, a) == [old EXCEPT !.total = b, !.available = a]

LEMMA Donated ==
  ASSUME NEW old \in Title, NEW b \in 0..MaxCopies, NEW a \in 0..MaxCopies
  PROVE  /\ Stocked(old, b, a) \in Title
         /\ Stocked(old, b, a).total = b /\ Stocked(old, b, a).available = a
  BY DEF Title, Stocked

\* A step changes the rentals of one title by d, and the copies off its shelf too.
Balance(t, new, d) ==
    /\ titles' = [titles EXCEPT ![t] = new] /\ catalog' = catalog
    /\ new.total - new.available = titles[t].total - titles[t].available + d
    /\ \A s : Cardinality(Out(s)') = IF s = t THEN Cardinality(Out(s)) + d ELSE Cardinality(Out(s))

LEMMA Balanced ==
  ASSUME ClubTypeOK, StockConserved, NEW t \in DOMAIN titles, NEW new \in Title, NEW d \in Int,
         Balance(t, new, d)
  PROVE  StockOK'
<1>1. /\ titles' \in Seq(Title) /\ Len(titles') \in 0..MaxTitles
      /\ catalog' \in [Names -> {NoTitle} \cup DOMAIN titles']
      /\ DOMAIN titles' = DOMAIN titles /\ titles'[t] = new
      /\ \A s \in DOMAIN titles \ {t} : titles'[s] = titles[s]
  BY TitleChanged DEF Balance
<1>2. \A s \in DOMAIN titles : titles[s].total - titles[s].available = Cardinality(Out(s))
  BY DEF StockConserved, Out
<1>3. ASSUME NEW s \in DOMAIN titles'
      PROVE  titles'[s].total - titles'[s].available = Cardinality(Out(s)')
  <2>1. CASE s = t
    BY <1>1, <1>2, <2>1 DEF Balance
  <2>2. CASE s # t
    BY <1>1, <1>2, <1>3, <2>2 DEF Balance
  <2> QED
    BY <2>1, <2>2
<1> QED
  BY <1>1, <1>3 DEF StockOK, StockConserved, Out

LEMMA StockAdded ==
  ASSUME ClubTypeOK, StockConserved, NEW n \in Names, NEW copies \in 0..MaxCopies,
         AddTitle(n, copies)
  PROVE  StockOK'
<1> DEFINE new == [name |-> n, total |-> copies, available |-> copies]
<1>0. /\ titles \in Seq(Title) /\ DOMAIN titles = 1..Len(titles) /\ Len(titles) \in 0..MaxTitles
      /\ Len(titles) \in Nat /\ catalog \in [Names -> {NoTitle} \cup DOMAIN titles]
  BY ClubAssumption DEF ClubTypeOK
<1>1. new \in Title /\ new.total = copies /\ new.available = copies
  BY DEF Title
<1>2. /\ titles' = Append(titles, new) /\ rentals' = rentals
      /\ catalog' = [catalog EXCEPT ![n] = Len(titles) + 1] /\ Len(titles) < MaxTitles
  BY DEF AddTitle
<1> HIDE DEF new
<1>3. /\ titles' \in Seq(Title) /\ Len(titles') = Len(titles) + 1
      /\ DOMAIN titles' = DOMAIN titles \cup {Len(titles) + 1}
      /\ titles'[Len(titles) + 1] = new
      /\ \A t \in DOMAIN titles : titles'[t] = titles[t]
  BY <1>0, <1>1, <1>2
<1>4. Len(titles') \in 0..MaxTitles /\ catalog' \in [Names -> {NoTitle} \cup DOMAIN titles']
  BY <1>0, <1>2, <1>3, ClubAssumption
<1>5. Out(Len(titles) + 1) = {} /\ \A t : Out(t)' = Out(t)
  BY <1>0, <1>2 DEF ClubTypeOK, Out
<1>6. Cardinality(Out(Len(titles) + 1)) = 0
  BY <1>5, FS_EmptySet
<1>7. \A t \in DOMAIN titles : titles[t].total - titles[t].available = Cardinality(Out(t))
  BY DEF StockConserved, Out
<1>8. ASSUME NEW t \in DOMAIN titles'
      PROVE  titles'[t].total - titles'[t].available = Cardinality(Out(t)')
  <2>1. CASE t = Len(titles) + 1
    BY <1>1, <1>3, <1>5, <1>6, <2>1
  <2>2. CASE t \in DOMAIN titles
    BY <1>3, <1>5, <1>7, <2>2
  <2> QED
    BY <1>3, <2>1, <2>2
<1> QED
  BY <1>3, <1>4, <1>8 DEF StockOK, StockConserved, Out

LEMMA StockDonated ==
  ASSUME ClubTypeOK, StockConserved, NEW n \in Names, DonateCopy(n)
  PROVE  StockOK'
<1>1. PICK t \in DOMAIN titles : t = catalog[n]
  BY DEF DonateCopy, ClubTypeOK, NoTitle
<1>2. titles[t] \in Title
  BY DEF ClubTypeOK
<1>3. /\ titles[t].total + 1 \in 0..MaxCopies /\ titles[t].available \in 0..MaxCopies
      /\ titles[t].total \in Int /\ titles[t].available \in Int
  BY <1>1, <1>2, ClubAssumption DEF DonateCopy, Title
<1>4. titles[t].available + 1 \in 0..MaxCopies
  <2>1. titles[t].available <= titles[t].total
    <3>1. titles[t].total - titles[t].available = Cardinality(Out(t))
      BY DEF StockConserved, Out
    <3> QED
      BY <1>3, <3>1, OutFinite
  <2> QED
    BY <1>3, <2>1, ClubAssumption
<1>4a. /\ Stocked(titles[t], titles[t].total + 1, titles[t].available + 1) \in Title
      /\ Stocked(titles[t], titles[t].total + 1, titles[t].available + 1).total = titles[t].total + 1
      /\ Stocked(titles[t], titles[t].total + 1, titles[t].available + 1).available
           = titles[t].available + 1
  <2> DEFINE old == titles[t] b == titles[t].total + 1 a == titles[t].available + 1
  <2>1. old \in Title /\ b \in 0..MaxCopies /\ a \in 0..MaxCopies
    BY <1>2, <1>3, <1>4
  <2> HIDE DEF old, a, b
  <2>2. Stocked(old, b, a) \in Title /\ Stocked(old, b, a).total = b /\ Stocked(old, b, a).available = a
    BY <2>1, Donated
  <2> QED
    BY <2>2 DEF old, a, b
<1>5. PICK new \in Title : /\ new = Stocked(titles[t], titles[t].total + 1, titles[t].available + 1)
                           /\ new.total = titles[t].total + 1
                           /\ new.available = titles[t].available + 1
  BY <1>4a
<1>6. titles' = [titles EXCEPT ![t] = new]
  BY <1>1, <1>2, <1>5 DEF DonateCopy, ClubTypeOK, Stocked
<1>7. catalog' = catalog /\ \A s : Out(s)' = Out(s)
  BY DEF DonateCopy, Out
<1>8. \A s : Cardinality(Out(s)') = IF s = t THEN Cardinality(Out(s)) + 0 ELSE Cardinality(Out(s))
  BY <1>7, OutFinite
<1>9. new.total - new.available = titles[t].total - titles[t].available + 0
  BY <1>3, <1>5
<1>10. Balance(t, new, 0)
  BY <1>6, <1>7, <1>8, <1>9 DEF Balance
<1> QED
  BY <1>10, Balanced

LEMMA StockRented ==
  ASSUME ClubTypeOK, StockConserved, NEW u \in DOMAIN users, NEW n \in Names, Rent(u, n)
  PROVE  StockOK'
<1>1. PICK t \in DOMAIN titles : t = catalog[n]
  BY Rented
<1>2. titles[t] \in Title
  BY DEF ClubTypeOK
<1>3. /\ titles[t].available - 1 \in 0..MaxCopies
      /\ titles[t].total \in Int /\ titles[t].available \in Int
  BY <1>1, <1>2, ClubAssumption DEF Rent, Title
<1>5. PICK new \in Title : /\ new = [titles[t] EXCEPT !.available = titles[t].available - 1]
                           /\ new.total = titles[t].total
                           /\ new.available = titles[t].available - 1
  BY <1>2, <1>3, Shelved
<1>6. titles' = [titles EXCEPT ![t] = new] /\ catalog' = catalog
  BY <1>1, <1>5 DEF Rent
<1>7. \A s : Cardinality(Out(s)') = IF s = t THEN Cardinality(Out(s)) + 1 ELSE Cardinality(Out(s))
  BY <1>1, OutRented
<1>8. new.total - new.available = titles[t].total - titles[t].available + 1
  BY <1>3, <1>5
<1>9. Balance(t, new, 1)
  BY <1>6, <1>7, <1>8 DEF Balance
<1> QED
  BY <1>9, Balanced

LEMMA StockReturned ==
  ASSUME ClubTypeOK, StockConserved, NEW u \in DOMAIN users, NEW n \in Names,
         RentalsOf(u, n) # {}, TakeBack(Min(RentalsOf(u, n)))
  PROVE  StockOK'
<1>0. PICK k \in DOMAIN rentals :
        /\ k \in 1..Len(rentals) /\ Removed(rentals', rentals, k)
        /\ titles' = [titles EXCEPT ![rentals[k].title].available = @ + 1] /\ catalog' = catalog
  BY Returned
<1>1. PICK t \in DOMAIN titles : t = rentals[k].title
  BY DEF ClubTypeOK
<1>2. titles[t] \in Title
  BY DEF ClubTypeOK
<1>3. titles[t].available < titles[t].total
  BY <1>1, RoomForReturn
<1>4. /\ titles[t].available + 1 \in 0..MaxCopies
      /\ titles[t].total \in Int /\ titles[t].available \in Int
  BY <1>2, <1>3, ClubAssumption DEF Title
<1>5. PICK new \in Title : /\ new = [titles[t] EXCEPT !.available = titles[t].available + 1]
                           /\ new.total = titles[t].total
                           /\ new.available = titles[t].available + 1
  BY <1>2, <1>4, Shelved
<1>6. titles' = [titles EXCEPT ![t] = new]
  BY <1>0, <1>1, <1>5
<1>7. \A s : Cardinality(Out(s)') = IF s = t THEN Cardinality(Out(s)) - 1 ELSE Cardinality(Out(s))
  BY <1>0, <1>1, OutReturned
<1>8. \A s : Cardinality(Out(s)') = IF s = t THEN Cardinality(Out(s)) + (-1) ELSE Cardinality(Out(s))
  BY <1>7, OutFinite
<1>9. new.total - new.available = titles[t].total - titles[t].available + (-1)
  BY <1>4, <1>5
<1>10. Balance(t, new, -1)
  BY <1>0, <1>6, <1>8, <1>9 DEF Balance
<1> QED
  BY <1>10, Balanced

LEMMA StockStep == ClubTypeOK /\ StockConserved /\ [ClubNext]_clubVars => StockOK'
<1> SUFFICES ASSUME ClubTypeOK, StockConserved, [ClubNext]_clubVars PROVE StockOK'
  OBVIOUS
<1>1. CASE UNCHANGED <<titles, catalog, rentals>>
  BY <1>1 DEF StockOK, StockConserved, ClubTypeOK
<1>2. CASE \E n \in Names, copies \in 0..MaxCopies : AddTitle(n, copies)
  BY <1>2, StockAdded
<1>3. CASE \E n \in Names : DonateCopy(n)
  BY <1>3, StockDonated
<1>4. CASE \E n \in Names, u \in DOMAIN users : Rent(u, n)
  BY <1>4, StockRented
<1>5. ASSUME NEW u \in DOMAIN users, NEW n \in Names, ReturnOnTime(u, n) \/ ReturnLate(u, n)
      PROVE  StockOK'
  BY <1>5, StockReturned DEF ReturnOnTime, ReturnLate
<1> QED
  BY <1>1, <1>2, <1>3, <1>4, <1>5 DEF ClubNext, clubVars, Register, MarkOverdueRentals, NextDay
-----------------------------------------------------------------------------
(* Users and their flags.                                                  *)

UsersOK ==
    /\ users \in Seq(User) /\ Len(users) \in 0..MaxUsers
    /\ unsent \in SUBSET DOMAIN users

FlagsOK == UsersOK /\ RentalsTyped /\ FlagHasCause /\ SweptAreBlocked

\* What a return does to the users, given the place k of the rental.
Flagged(u, k) ==
    /\ users' \in Seq(User) /\ Len(users') = Len(users) /\ DOMAIN users' = DOMAIN users
    /\ \A v \in DOMAIN users \ {u} : users'[v] = users[v]
    /\ \/ /\ users'[u].overdue <=> (users[u].overdue /\ ~Clears(u, k))
          /\ unsent' = IF Clears(u, k) THEN unsent \ {u} ELSE unsent
       \/ /\ users'[u].overdue <=> users[u].overdue
          /\ unsent' = unsent \cup {u}

LEMMA UserChanged ==
  ASSUME ClubTypeOK, NEW u \in DOMAIN users, NEW new \in User, users' = [users EXCEPT ![u] = new]
  PROVE  /\ users' \in Seq(User) /\ Len(users') = Len(users) /\ DOMAIN users' = DOMAIN users
         /\ users'[u] = new /\ \A v \in DOMAIN users \ {u} : users'[v] = users[v]
  BY DEF ClubTypeOK

\* Points neither run below zero nor, within the bound, above it.
LEMMA PointsTyped ==
  ASSUME NEW p \in 0..MaxPriorityPoints
  PROVE  /\ Deducted(p) \in 0..MaxPriorityPoints
         /\ p + OnTimeReturnAward <= MaxPriorityPoints => p + OnTimeReturnAward \in 0..MaxPriorityPoints
  BY ClubAssumption DEF Deducted

LEMMA ReturnFlagged ==
  ASSUME ClubTypeOK, NEW u \in DOMAIN users, NEW n \in Names, ReturnOnTime(u, n) \/ ReturnLate(u, n)
  PROVE  Flagged(u, Min(RentalsOf(u, n)))
<1> DEFINE k == Min(RentalsOf(u, n))
<1>0. users[u] \in User
  BY DEF ClubTypeOK
<1>1. users[u].points \in 0..MaxPriorityPoints /\ users[u].overdue \in BOOLEAN
  BY <1>0 DEF User
<1>2. Deducted(users[u].points) \in 0..MaxPriorityPoints
  BY <1>1, PointsTyped
<1>3. CASE /\ users' = [users EXCEPT ![u] = [points |-> @.points + OnTimeReturnAward,
                                             overdue |-> @.overdue /\ ~Clears(u, k)]]
           /\ users[u].points + OnTimeReturnAward <= MaxPriorityPoints
           /\ unsent' = IF Clears(u, k) THEN unsent \ {u} ELSE unsent
  <2> DEFINE new == [points |-> users[u].points + OnTimeReturnAward,
                     overdue |-> users[u].overdue /\ ~Clears(u, k)]
  <2>1. users[u].points + OnTimeReturnAward \in 0..MaxPriorityPoints
    BY <1>1, <1>3, PointsTyped
  <2>2. new \in User /\ (new.overdue <=> (users[u].overdue /\ ~Clears(u, k)))
    BY <2>1 DEF User, Clears
  <2>3. users' = [users EXCEPT ![u] = new]
    BY <1>3
  <2> HIDE DEF new
  <2> QED
    BY <1>3, <2>2, <2>3, UserChanged DEF Flagged
<1>4. CASE /\ users' = [users EXCEPT ![u] = [points |-> Deducted(@.points),
                                             overdue |-> @.overdue /\ ~Clears(u, k)]]
           /\ unsent' = IF Clears(u, k) THEN unsent \ {u} ELSE unsent
  <2> DEFINE new == [points |-> Deducted(users[u].points),
                     overdue |-> users[u].overdue /\ ~Clears(u, k)]
  <2>2. new \in User /\ (new.overdue <=> (users[u].overdue /\ ~Clears(u, k)))
    BY <1>2 DEF User, Clears
  <2>3. users' = [users EXCEPT ![u] = new]
    BY <1>4
  <2> HIDE DEF new
  <2> QED
    BY <1>4, <2>2, <2>3, UserChanged DEF Flagged
<1>5. CASE /\ users' = [users EXCEPT ![u].points = Deducted(@)]
           /\ unsent' = unsent \cup {u}
  <2> DEFINE new == [users[u] EXCEPT !.points = Deducted(users[u].points)]
  <2>2. new \in User /\ (new.overdue <=> users[u].overdue)
    BY <1>0, <1>2 DEF User
  <2>3. users' = [users EXCEPT ![u] = new]
    BY <1>5
  <2> HIDE DEF new
  <2> QED
    BY <1>5, <2>2, <2>3, UserChanged DEF Flagged
<1> QED
  BY <1>3, <1>4, <1>5 DEF ReturnOnTime, ReturnLate

\* A return leaves the flags of all with a late rental out, and of no one else.
LEMMA FlagsReturned ==
  ASSUME ClubTypeOK, FlagHasCause, SweptAreBlocked, DOMAIN titles' = DOMAIN titles,
         NEW u \in DOMAIN users, NEW n \in Names, ReturnOnTime(u, n) \/ ReturnLate(u, n)
  PROVE  FlagsOK'
<1>1. PICK k \in DOMAIN rentals :
        /\ k = Min(RentalsOf(u, n)) /\ k \in 1..Len(rentals) /\ rentals[k].user = u
        /\ rentals' \in Seq(Rental) /\ Removed(rentals', rentals, k)
        /\ today' = today /\ sweptOn' = sweptOn
  BY Returned DEF ReturnOnTime, ReturnLate
<1>2. /\ \A j \in DOMAIN rentals \ {k} : \E i \in DOMAIN rentals' : rentals'[i] = rentals[j]
      /\ \A i \in DOMAIN rentals' : \E j \in DOMAIN rentals \ {k} : rentals'[i] = rentals[j]
  BY <1>1 DEF Removed
<1>3. Flagged(u, k)
  BY <1>1, ReturnFlagged
<1>4. RentalsTyped'
  BY <1>1, <1>2, <1>3 DEF RentalsTyped, Flagged, ClubTypeOK
<1>5. UsersOK'
  BY <1>3 DEF UsersOK, Flagged, ClubTypeOK
<1>6. ASSUME NEW v \in DOMAIN users', users'[v].overdue, v \notin unsent'
      PROVE  \E i \in DOMAIN rentals' : rentals'[i].user = v /\ today' > rentals'[i].due
  <2>1. v \in DOMAIN users
    BY <1>3, <1>6 DEF Flagged
  <2>2. CASE v = u
    <3>1. ~Clears(u, k)
      BY <1>3, <1>6, <2>2 DEF Flagged
    <3>2. PICK j \in DOMAIN rentals \ {k} : rentals[j].user = u /\ today > rentals[j].due
      BY <3>1 DEF Clears, ActiveRentals, IsLate
    <3> QED
      BY <1>1, <1>2, <2>2, <3>2
  <2>3. CASE v # u
    <3>1. users[v].overdue /\ v \notin unsent
      BY <1>3, <1>6, <2>1, <2>3 DEF Flagged
    <3>2. PICK j \in DOMAIN rentals : rentals[j].user = v /\ today > rentals[j].due
      BY <2>1, <3>1 DEF FlagHasCause, ActiveRentals, IsLate
    <3> QED
      BY <1>1, <1>2, <2>3, <3>2
  <2> QED
    BY <2>2, <2>3
<1>7. ASSUME sweptOn' = today', NEW i \in DOMAIN rentals', today' > rentals'[i].due
      PROVE  users'[rentals'[i].user].overdue
  <2>1. PICK j \in DOMAIN rentals \ {k} : rentals'[i] = rentals[j]
    BY <1>2
  <2>2. users[rentals[j].user].overdue /\ rentals[j].user \in DOMAIN users
    BY <1>1, <1>7, <2>1 DEF SweptAreBlocked, IsLate, ClubTypeOK
  <2>3. CASE rentals[j].user = u
    <3>1. ~Clears(u, k)
      BY <1>1, <1>7, <2>1, <2>3 DEF Clears, ActiveRentals, IsLate
    <3> QED
      BY <1>3, <2>1, <2>2, <2>3, <3>1 DEF Flagged
  <2>4. CASE rentals[j].user # u
    BY <1>3, <2>1, <2>2, <2>4 DEF Flagged
  <2> QED
    BY <2>3, <2>4
<1> QED
  BY <1>4, <1>5, <1>6, <1>7 DEF FlagsOK, FlagHasCause, SweptAreBlocked, ActiveRentals, IsLate

LEMMA FlagsRented ==
  ASSUME ClubTypeOK, FlagHasCause, SweptAreBlocked,
         NEW u \in DOMAIN users, NEW n \in Names, Rent(u, n)
  PROVE  FlagsOK'
<1>1. /\ RentalsTyped' /\ DOMAIN rentals' = DOMAIN rentals \cup {Len(rentals) + 1}
      /\ \A k \in DOMAIN rentals : rentals'[k] = rentals[k]
      /\ ~(today' > rentals'[Len(rentals) + 1].due)
  BY Rented
<1>2. users' = users /\ today' = today /\ sweptOn' = sweptOn /\ unsent' = unsent
  BY DEF Rent
<1>3. UsersOK'
  BY <1>2 DEF UsersOK, ClubTypeOK
<1>4. FlagHasCause'
  BY <1>1, <1>2 DEF FlagHasCause, ActiveRentals, IsLate
<1>5. SweptAreBlocked'
  BY <1>1, <1>2 DEF SweptAreBlocked, IsLate
<1> QED
  BY <1>1, <1>3, <1>4, <1>5 DEF FlagsOK

LEMMA FlagsRegistered ==
  ASSUME ClubTypeOK, FlagHasCause, SweptAreBlocked, Register
  PROVE  FlagsOK'
<1> DEFINE new == [points |-> 0, overdue |-> FALSE]
<1>1. new \in User /\ ~new.overdue
  BY ClubAssumption DEF User
<1>2. users' = Append(users, new) /\ Len(users) < MaxUsers
  BY DEF Register
<1> HIDE DEF new
<1>3. /\ users' \in Seq(User) /\ Len(users') \in 0..MaxUsers
      /\ DOMAIN users' = DOMAIN users \cup {Len(users) + 1}
      /\ users'[Len(users) + 1] = new /\ \A v \in DOMAIN users : users'[v] = users[v]
  BY <1>1, <1>2, ClubAssumption DEF ClubTypeOK
<1>4. /\ titles' = titles /\ rentals' = rentals /\ today' = today
      /\ sweptOn' = sweptOn /\ unsent' = unsent
  BY DEF Register
<1>5. UsersOK' /\ RentalsTyped'
  BY <1>3, <1>4 DEF UsersOK, RentalsTyped, ClubTypeOK
<1>6. FlagHasCause'
  BY <1>1, <1>3, <1>4 DEF FlagHasCause, ActiveRentals, IsLate
<1>7. SweptAreBlocked'
  BY <1>3, <1>4 DEF SweptAreBlocked, IsLate, ClubTypeOK
<1> QED
  BY <1>5, <1>6, <1>7 DEF FlagsOK

LEMMA FlagsSwept ==
  ASSUME ClubTypeOK, FlagHasCause, MarkOverdueRentals
  PROVE  FlagsOK'
<1> DEFINE Late(v) == \E k \in DOMAIN rentals : rentals[k].user = v /\ IsLate(rentals[k])
           new(v) == IF Late(v) THEN [users[v] EXCEPT !.overdue = TRUE] ELSE users[v]
<1>1. /\ titles' = titles /\ rentals' = rentals /\ today' = today
      /\ sweptOn' = today /\ unsent' = unsent
      /\ users' = [v \in DOMAIN users |-> new(v)]
  BY DEF MarkOverdueRentals, ActiveRentals
<1>2. \A v \in DOMAIN users : /\ new(v) \in User
                              /\ new(v).overdue <=> (users[v].overdue \/ Late(v))
  <2>1. ASSUME NEW v \in DOMAIN users PROVE users[v] \in User
    BY DEF ClubTypeOK
  <2> HIDE DEF Late
  <2> QED
    BY <2>1 DEF User
<1> HIDE DEF Late, new
<1>3. /\ users' \in Seq(User) /\ Len(users') = Len(users) /\ DOMAIN users' = DOMAIN users
      /\ \A v \in DOMAIN users : users'[v] = new(v)
  <2>1. DOMAIN users = 1..Len(users) /\ Len(users) \in Nat
    BY DEF ClubTypeOK
  <2>2. users' \in [1..Len(users) -> User] /\ \A v \in DOMAIN users : users'[v] = new(v)
    BY <1>1, <1>2, <2>1
  <2>3. users' \in Seq(User) /\ DOMAIN users' = 1..Len(users)
    BY <2>1, <2>2
  <2>4. Len(users') = Len(users)
    BY <2>1, <2>3
  <2> QED
    BY <2>1, <2>2, <2>3, <2>4
<1>4. UsersOK' /\ RentalsTyped'
  BY <1>1, <1>3 DEF UsersOK, RentalsTyped, ClubTypeOK
<1>5. FlagHasCause'
  BY <1>1, <1>2, <1>3 DEF FlagHasCause, ActiveRentals, IsLate, Late
<1>6. SweptAreBlocked'
  BY <1>1, <1>2, <1>3 DEF SweptAreBlocked, IsLate, Late, ClubTypeOK
<1> QED
  BY <1>4, <1>5, <1>6 DEF FlagsOK

LEMMA FlagsNextDay ==
  ASSUME ClubTypeOK, FlagHasCause, sweptOn <= today, NextDay
  PROVE  FlagsOK'
<1>1. /\ users' = users /\ titles' = titles /\ rentals' = rentals /\ today' = today + 1
      /\ sweptOn' = sweptOn /\ unsent' = unsent
  BY DEF NextDay
<1>2. today \in Int /\ sweptOn \in Int
  BY DEF ClubTypeOK, NotSwept
<1>3. \A k \in DOMAIN rentals : rentals[k].due \in Int
  <2>1. \A k \in DOMAIN rentals : rentals[k] \in Rental
    BY DEF ClubTypeOK
  <2> QED
    BY <2>1 DEF Rental
<1>4. FlagHasCause'
  BY <1>1, <1>2, <1>3 DEF FlagHasCause, ActiveRentals, IsLate
<1>5. SweptAreBlocked'
  BY <1>1, <1>2 DEF SweptAreBlocked
<1>6. UsersOK' /\ RentalsTyped'
  BY <1>1 DEF UsersOK, RentalsTyped, ClubTypeOK
<1> QED
  BY <1>4, <1>5, <1>6 DEF FlagsOK

LEMMA FlagsStep == ClubInv /\ StockOK' /\ [ClubNext]_clubVars => FlagsOK'
<1> SUFFICES ASSUME ClubInv, StockOK', [ClubNext]_clubVars PROVE FlagsOK'
  OBVIOUS
<1>0. ClubTypeOK /\ FlagHasCause /\ SweptAreBlocked /\ sweptOn <= today
  BY DEF ClubInv
<1>1. CASE UNCHANGED <<users, rentals, today, sweptOn, unsent>> /\ DOMAIN titles \subseteq DOMAIN titles'
  <2>1. UsersOK' /\ RentalsTyped'
    BY <1>0, <1>1 DEF UsersOK, RentalsTyped, ClubTypeOK
  <2>2. FlagHasCause' /\ SweptAreBlocked'
    BY <1>0, <1>1 DEF FlagHasCause, SweptAreBlocked, ActiveRentals, IsLate
  <2> QED
    BY <2>1, <2>2 DEF FlagsOK
<1>2. ASSUME NEW n \in Names, NEW copies \in 0..MaxCopies, AddTitle(n, copies) PROVE FlagsOK'
  <2>1. UNCHANGED <<users, rentals, today, sweptOn, unsent>>
    BY <1>2 DEF AddTitle
  <2>2. DOMAIN titles \subseteq DOMAIN titles'
    BY <1>0, <1>2 DEF AddTitle, ClubTypeOK
  <2> QED
    BY <1>1, <2>1, <2>2
<1>3. ASSUME NEW n \in Names, DonateCopy(n) PROVE FlagsOK'
  <2>1. UNCHANGED <<users, rentals, today, sweptOn, unsent>>
    BY <1>3 DEF DonateCopy
  <2>2. DOMAIN titles \subseteq DOMAIN titles'
    BY <1>0, <1>3 DEF DonateCopy, ClubTypeOK
  <2> QED
    BY <1>1, <2>1, <2>2
<1>4. ASSUME NEW u \in DOMAIN users, NEW n \in Names, ReturnOnTime(u, n) \/ ReturnLate(u, n)
      PROVE  FlagsOK'
  <2>1. DOMAIN titles' = DOMAIN titles
    BY <1>0, <1>4, Returned DEF ReturnOnTime, ReturnLate, ClubTypeOK
  <2> QED
    BY <1>0, <1>4, <2>1, FlagsReturned
<1>5. CASE \E u \in DOMAIN users, n \in Names : Rent(u, n)
  BY <1>0, <1>5, FlagsRented
<1>6. CASE Register
  BY <1>0, <1>6, FlagsRegistered
<1>7. CASE MarkOverdueRentals
  BY <1>0, <1>7, FlagsSwept
<1>8. CASE NextDay
  BY <1>0, <1>8, FlagsNextDay
<1>9. CASE UNCHANGED clubVars
  BY <1>1, <1>9 DEF clubVars
<1> QED
  BY <1>2, <1>3, <1>4, <1>5, <1>6, <1>7, <1>8, <1>9 DEF ClubNext

\* The day, and the day of the last sweep.
LEMMA DaysStep ==
  ASSUME ClubTypeOK, sweptOn <= today, [ClubNext]_clubVars
  PROVE  /\ today' \in 0..MaxDay /\ sweptOn' \in {NotSwept} \cup 0..MaxDay
         /\ sweptOn' <= today'
<1>0. today \in 0..MaxDay /\ sweptOn \in {NotSwept} \cup 0..MaxDay /\ MaxDay \in Nat
  BY ClubAssumption DEF ClubTypeOK
<1>1. \/ today' = today /\ sweptOn' = sweptOn
      \/ today' = today /\ sweptOn' = today
      \/ today' = today + 1 /\ sweptOn' = sweptOn /\ today < MaxDay
  BY DEF ClubNext, clubVars, Register, AddTitle, DonateCopy, Rent, ReturnOnTime, ReturnLate, TakeBack,
         MarkOverdueRentals, NextDay
<1> QED
  BY <1>0, <1>1 DEF NotSwept

-----------------------------------------------------------------------------
LEMMA ClubStep == ClubInv /\ [ClubNext]_clubVars => ClubInv'
<1> SUFFICES ASSUME ClubInv, [ClubNext]_clubVars PROVE ClubInv'
  OBVIOUS
<1>1. StockOK'
  BY StockStep DEF ClubInv
<1>2. FlagsOK'
  BY <1>1, FlagsStep
<1>3. /\ today' \in 0..MaxDay /\ sweptOn' \in {NotSwept} \cup 0..MaxDay /\ sweptOn' <= today'
  BY DaysStep DEF ClubInv
<1>4. ClubTypeOK'
  BY <1>1, <1>2, <1>3 DEF ClubTypeOK, StockOK, FlagsOK, UsersOK, RentalsTyped
<1> QED
  BY <1>1, <1>2, <1>3, <1>4 DEF ClubInv, StockOK, FlagsOK

LEMMA ClubInvariant == ClubSpec => []ClubInv
  BY ClubStart, ClubStep, PTL DEF ClubSpec

\* Users, titles, rentals and days keep their types and bounds; points never run
\* below zero.
THEOREM ClubTypes == ClubSpec => []ClubTypeOK
<1>1. ClubInv => ClubTypeOK
  BY DEF ClubInv
<1> QED
  BY <1>1, ClubInvariant, PTL

\* The copies off the shelf of a title are those of its open rentals, however
\* often its name is taken over (video_club.py:67-69, 77-78, 93-94).
THEOREM StockIsConserved == ClubSpec => []StockConserved
<1>1. ClubInv => StockConserved
  BY DEF ClubInv
<1> QED
  BY <1>1, ClubInvariant, PTL

\* A flag has a late rental behind it, or an alert that failed
\* (video_club.py:96-103).
THEOREM FlagsHaveCause == ClubSpec => []FlagHasCause
<1>1. ClubInv => FlagHasCause
  BY DEF ClubInv
<1> QED
  BY <1>1, ClubInvariant, PTL

\* Whoever has a late rental out on a day that was swept is blocked
\* (video_club.py:102-109).
THEOREM SweptStayBlocked == ClubSpec => []SweptAreBlocked
<1>1. ClubInv => SweptAreBlocked
  BY DEF ClubInv
<1> QED
  BY <1>1, ClubInvariant, PTL
=============================================================================
