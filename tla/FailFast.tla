------------------------------ MODULE FailFast -------------------------------
(***************************************************************************)
(* What a circuit breaker promises its callers, with no circuit in it: an  *)
(* operation is invoked only while the latest outcomes hold fewer failures *)
(* in a row than the threshold, or once the reset timeout has passed since *)
(* the latest failure.                                                     *)
(***************************************************************************)
EXTENDS Integers

CONSTANTS FailureThreshold, ResetTimeout

VARIABLES
    calls,          \* operations in progress, one inside the other
    run,            \* failures since the last success
    lastFailure,    \* when the latest of them happened
    time

vars == <<calls, run, lastFailure, time>>

Init ==
    /\ calls = 0 /\ run = 0 /\ time = 0
    /\ lastFailure = -1

Invoke ==
    /\ run < FailureThreshold \/ time - lastFailure >= ResetTimeout
    /\ calls' = calls + 1
    /\ UNCHANGED <<run, lastFailure, time>>

Succeed ==
    /\ calls > 0
    /\ calls' = calls - 1
    /\ run' = 0
    /\ UNCHANGED <<lastFailure, time>>

Fail ==
    /\ calls > 0
    /\ calls' = calls - 1
    /\ run' = run + 1
    /\ lastFailure' = time
    /\ UNCHANGED time

Advance ==
    /\ time' = time + 1
    /\ UNCHANGED <<calls, run, lastFailure>>

Next == Invoke \/ Succeed \/ Fail \/ Advance

Spec == Init /\ [][Next]_vars
=============================================================================
