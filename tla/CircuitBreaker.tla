--------------------------- MODULE CircuitBreaker ----------------------------
(***************************************************************************)
(* Breaker.execute of circuit-breaker. The operation it runs may call      *)
(* execute on the same breaker, so calls are in progress one inside the    *)
(* other; each holds nothing but its place on the stack, and the stack is  *)
(* a number. Time may pass while an operation runs.                        *)
(*                                                                         *)
(* A call the open circuit refuses changes nothing and is no step: what an *)
(* enclosing operation makes of the refusal is its own success or failure. *)
(***************************************************************************)
EXTENDS Integers

CONSTANTS
    FailureThreshold,
    ResetTimeout,
    MaxDepth,       \* bound: calls in progress at once
    MaxRun,         \* bound: failures in a row
    MaxTime          \* bound: time

ASSUME BreakerAssumption ==
    /\ FailureThreshold \in Nat \ {0}
    /\ ResetTimeout \in Nat \ {0}
    /\ MaxDepth \in Nat /\ MaxRun \in Nat /\ MaxTime \in Nat

VARIABLES
    state, failureCount, openedAt,
    calls, time,
    run, lastFailure    \* history: the true failures in a row, and the latest

vars == <<state, failureCount, openedAt, calls, time, run, lastFailure>>

NotYet == -1
BreakerState == {"Closed", "Open", "HalfOpen"}

-----------------------------------------------------------------------------
\* Variant: the timeout is over one unit early.
ElapsedEarly == time - openedAt + 1 >= ResetTimeout

\* The reset timeout has passed since the circuit opened.
Elapsed == time - openedAt >= ResetTimeout

\* Variant: a failed probe is counted like any other failure.
TripsAtThreshold == state # "HalfOpen" /\ failureCount + 1 >= FailureThreshold

\* A failure now trips the circuit.
Trips == state = "HalfOpen" \/ failureCount + 1 >= FailureThreshold

\* The opening time a trip records.
TripTime == time

\* Variant: a success closes the circuit and keeps the count.
FailuresKept == failureCount

\* The count a success leaves.
FailuresCleared == 0

Init ==
    /\ state = "Closed" /\ failureCount = 0 /\ openedAt = NotYet
    /\ calls = 0 /\ time = 0
    /\ run = 0 /\ lastFailure = NotYet

\* execute up to the call of the operation.
Enter ==
    /\ calls < MaxDepth
    /\ state = "Open" => Elapsed
    /\ state' = IF state = "Open" THEN "HalfOpen" ELSE state
    /\ calls' = calls + 1
    /\ UNCHANGED <<failureCount, openedAt, time, run, lastFailure>>

\* The innermost operation returns: _on_success.
Succeed ==
    /\ calls > 0
    /\ calls' = calls - 1
    /\ state' = "Closed"
    /\ failureCount' = FailuresCleared
    /\ run' = 0
    /\ UNCHANGED <<openedAt, time, lastFailure>>

\* The innermost operation raises: _on_failure.
Fail ==
    /\ calls > 0 /\ run < MaxRun
    /\ calls' = calls - 1
    /\ failureCount' = IF state = "HalfOpen" THEN failureCount ELSE failureCount + 1
    /\ IF Trips
       THEN state' = "Open" /\ openedAt' = TripTime
       ELSE UNCHANGED <<state, openedAt>>
    /\ run' = run + 1
    /\ lastFailure' = time
    /\ UNCHANGED time

Advance ==
    /\ time < MaxTime
    /\ time' = time + 1
    /\ UNCHANGED <<state, failureCount, openedAt, calls, run, lastFailure>>

Next == Enter \/ Succeed \/ Fail \/ Advance

Spec == Init /\ [][Next]_vars

-----------------------------------------------------------------------------
\* Types; the circuit never opened in the future (breaker.py:31-34).
TypeOK ==
    /\ state \in BreakerState
    /\ failureCount \in 0..MaxRun
    /\ openedAt \in Nat \cup {NotYet} /\ openedAt <= time
    /\ calls \in 0..MaxDepth
    /\ time \in 0..MaxTime
    /\ run \in 0..MaxRun
    /\ lastFailure \in Nat \cup {NotYet} /\ lastFailure <= time

\* The circuit is closed exactly while the latest outcomes hold fewer failures
\* in a row than the threshold, and then the counter is that number, however
\* calls nest (breaker.py:58-72).
CountsConsecutive ==
    /\ state = "Closed" <=> run < FailureThreshold
    /\ state = "Closed" => failureCount = run

\* A half-open circuit always has a call in progress that will decide it: no
\* outcome leaves it half open with nobody probing (breaker.py:46, 60, 64).
ProbeInFlight == state = "HalfOpen" => calls > 0

\* The breaker keeps the promise of FailFast: it never invokes an operation at
\* the threshold before the timeout has passed since the latest failure, even
\* one that ended inside another call (breaker.py:42-56).
Contract == INSTANCE FailFast
ImplementsFailFast == Contract!Spec

\* What a breaker that counts and waits leaves out: an open circuit is left
\* only through the timeout and a probe (SCENARIOS.md, domain rules).
OpenUntilTimeout ==
    [][state = "Open" /\ state' # "Open" => time - openedAt >= ResetTimeout]_vars
=============================================================================
