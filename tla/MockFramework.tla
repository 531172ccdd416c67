--------------------------- MODULE MockFramework ----------------------------
(***************************************************************************)
(* A mock: the calls it records, the answers it was told to give, and what *)
(* can be verified afterwards. A call is [method, args]; a stub holds how  *)
(* many calls there had been when it was set up.                           *)
(***************************************************************************)
EXTENDS Integers, SequencesExt

CONSTANTS Methods, Arguments, Results, NoResult,    \* NoResult: no stub matches
          MaxCalls, MaxStubs                        \* bounds
VARIABLES mock, answers

ASSUME MockAssumption == NoResult \notin Results /\ MaxCalls \in Nat /\ MaxStubs \in Nat

mockVars == <<mock, answers>>

Calls == [method : Methods, args : Arguments]
Stubs == [args : Arguments, result : Results, since : Nat]

\* The stubs of a method, in the order they were set up.
StubsOf(method) == mock.stubs[method]

\* Variant: any stub of the method matches.
MatchingMethod(call) == DOMAIN StubsOf(call.method)

Matching(call) == {i \in DOMAIN StubsOf(call.method) : StubsOf(call.method)[i].args = call.args}

\* The first stub that matches answers; a later one for the same call is never
\* reached.
Answer(call) ==
    IF Matching(call) = {} THEN NoResult ELSE StubsOf(call.method)[Min(Matching(call))].result

\* Where the calls of a method are among all that were recorded.
CallsOf(method) == {i \in DOMAIN mock.calls : mock.calls[i].method = method}
WasCalled(method) == \E i \in DOMAIN mock.calls : mock.calls[i].method = method
WasCalledWith(call) ==
    CallsOf(call.method) # {} /\ \E i \in CallsOf(call.method) : mock.calls[i].args = call.args
WasCalledTimes(method, n) == Cardinality(CallsOf(method)) = n

-----------------------------------------------------------------------------
MockInit ==
    /\ mock = [calls |-> <<>>, stubs |-> [m \in Methods |-> <<>>]]
    /\ answers = <<>>

\* when(mock).method(*args).then_return(result).
ThenReturn(call, result) ==
    /\ Len(StubsOf(call.method)) < MaxStubs                     \* bound
    /\ mock' = [mock EXCEPT !.stubs[call.method] = Append(@,
        [args |-> call.args, result |-> result, since |-> Len(mock.calls)])]
    /\ UNCHANGED answers

MethodProxy(call) ==
    /\ Len(mock.calls) < MaxCalls                               \* bound
    /\ mock' = [mock EXCEPT !.calls = Append(@, call)]
    /\ answers' = Append(answers, Answer(call))

MockNext == \E call \in Calls : MethodProxy(call) \/ \E result \in Results : ThenReturn(call, result)

MockSpec == MockInit /\ [][MockNext]_mockVars

-----------------------------------------------------------------------------
MockTypeOK ==
    /\ mock \in [calls : Seq(Calls), stubs : [Methods -> Seq(Stubs)]]
    /\ answers \in Seq(Results \cup {NoResult}) /\ Len(answers) = Len(mock.calls)

\* What the stubs there were when the call recorded at i was made say of it.
ResultsFor(i) ==
    LET call == mock.calls[i]
        stubs == StubsOf(call.method)
    IN  {stubs[k].result : k \in {j \in DOMAIN stubs : stubs[j].args = call.args /\ stubs[j].since < i}}

\* A call was answered by a stub set up for its very arguments before it, and
\* by none only when there was none; so with the configured value once there is
\* just one, whatever was called and stubbed around it. Which of several answers
\* is not said here: the scenarios and the code differ. And the ways to verify
\* agree about every call (mock.py:25-59, 86-109).
AnswersStand ==
    /\ \A i \in DOMAIN answers :
          \/ answers[i] \in ResultsFor(i)
          \/ answers[i] = NoResult /\ ResultsFor(i) = {}
    /\ \A m \in Methods :
          /\ WasCalled(m) <=> ~WasCalledTimes(m, 0)
          /\ WasCalled(m) <=> \E args \in Arguments : WasCalledWith([method |-> m, args |-> args])
=============================================================================
