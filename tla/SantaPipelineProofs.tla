------------------------- MODULE SantaPipelineProofs -------------------------
(***************************************************************************)
(* Proofs about SantaPipeline, for every set of presents and workers, every*)
(* capacity and any number of calls.                                       *)
(***************************************************************************)
EXTENDS SantaPipeline, TLAPS

Stopped(t) == pc[t] \in {"off", "exited"}

Earlier(s) == CASE s = "make" -> {}
                [] s = "wrap" -> Makers
                [] s = "load" -> Makers \cup Wrappers
                [] OTHER      -> Makers \cup Wrappers \cup Loaders

\* Which threads can be running in each call: none between calls, the main
\* thread in a sequential one, the stages not yet joined in a concurrent one.
Phase ==
    /\ call = "none" => stage = "make" /\ \A t \in Threads : Stopped(t)
    /\ call = "sequential" => /\ pc[Main] \in {"take", "work", "put"}
                              /\ \A t \in Workers : Stopped(t)
    /\ call = "concurrent" => /\ pc[Main] = "off"
                              /\ \A t \in Earlier(stage) : pc[t] = "exited"

\* The lock's holder is exactly the thread that is in the sleigh, and only the
\* threads that use the sleigh ask for it.
SleighHeld == \A t \in Threads : /\ InSleigh(t) <=> sleigh = t
                                 /\ pc[t] \in {"acquire", "release"} => UsesSleigh(t)

CoreInv == TypeOK /\ Phase /\ SleighHeld

-----------------------------------------------------------------------------
\* The tables of the stages are total, and their fields are those they name.
LEMMA Tables ==
    /\ \A s \in Stages : /\ Source[s] \in Queues /\ Sink[s] \in Queues
                         /\ Sink[s] # "feed" /\ Source[s] # Sink[s]
                         /\ Before[s] \in States /\ After[s] \in States
                         /\ Following[s] \in Stages
    /\ \A q \in Bounded : q \in Queues /\ q # "feed" /\ Capacity[q] \in Nat \ {0}
    /\ "feed" \in Queues /\ "make" \in Stages
  BY SantaAssumption DEF Stages, Source, Sink, Before, After, Following, Queues,
     States, Bounded, Capacity

\* Every thread works for the stage its set is named for.
LEMMA Posts ==
    /\ StageOf(Main) = stage
    /\ \A t \in Makers : StageOf(t) = "make"
    /\ \A t \in Wrappers : StageOf(t) = "wrap"
    /\ \A t \in Loaders : StageOf(t) = "load"
    /\ StageOf(Deliverer) = "deliver"
    /\ stage \in Stages => \A t \in Threads : StageOf(t) \in Stages
  BY SantaAssumption DEF StageOf, Stages, Threads, Workers

LEMMA CoreInit == Init => CoreInv
  BY SantaAssumption, Tables DEF Init, CoreInv, TypeOK, Phase, SleighHeld, UsesSleigh, Stopped,
     InSleigh, Queues, States, Stages, Bounded, Capacity, Threads, Workers

-----------------------------------------------------------------------------
\* What a call puts into its feed leaves the other queues alone.
LEMMA FeedStep ==
  ASSUME TypeOK, NEW b \in Seq(Presents), NEW v \in BOOLEAN,
         queue' = [queue EXCEPT !["feed"] = b],
         completed' = [completed EXCEPT !["feed"] = v]
  PROVE  /\ queue' \in [Queues -> Seq(Presents)]
         /\ \A q \in Bounded : Len(queue'[q]) <= Capacity[q]
         /\ completed' \in [Queues -> BOOLEAN]
  BY Tables DEF TypeOK

\* No thread holds anything or waits for the sleigh once it has stopped.
LEMMA StoppedEmpty ==
  ASSUME TypeOK, NEW t \in Threads, Stopped(t)
  PROVE  hand[t] = Nothing /\ ~InSleigh(t)
  BY DEF TypeOK, Stopped, InSleigh

\* Type correctness and the capacities, one step.
LEMMA TypeStep == CoreInv /\ [Next]_vars => TypeOK'
<1> SUFFICES ASSUME CoreInv, [Next]_vars PROVE TypeOK'
  OBVIOUS
<1> USE SantaAssumption, Tables DEF TypeOK
<1>0. TypeOK /\ Phase
  BY DEF CoreInv
<1>1. ASSUME NEW t \in Threads, Take(t) PROVE TypeOK'
  <2> DEFINE q == Source[StageOf(t)]
  <2>1. q \in Queues
    BY <1>0, Posts
  <2>2. Head(queue[q]) \in Presents /\ Tail(queue[q]) \in Seq(Presents)
    BY <1>0, <1>1, <2>1 DEF Take
  <2>3. Len(Tail(queue[q])) <= Len(queue[q])
    BY <1>0, <1>1, <2>1 DEF Take
  <2> QED
    BY <1>0, <1>1, <2>1, <2>2, <2>3 DEF Take, Remaining
<1>2. ASSUME NEW t \in Threads, Quit(t) PROVE TypeOK'
  BY <1>0, <1>2 DEF Quit
<1>3. ASSUME NEW t \in Threads, AcquireSleigh(t) PROVE TypeOK'
  BY <1>0, <1>3 DEF AcquireSleigh
<1>4. ASSUME NEW t \in Threads, Work(t) PROVE TypeOK'
  BY <1>0, <1>4, Posts DEF Work
<1>5. ASSUME NEW t \in Threads, Crash(t) PROVE TypeOK'
  BY <1>0, <1>5 DEF Crash
<1>6. ASSUME NEW t \in Threads, Put(t) PROVE TypeOK'
  <2> DEFINE q == Sink[StageOf(t)]
  <2>1. q \in Queues
    BY <1>0, Posts
  <2>2. hand[t] \in Presents
    BY <1>0, <1>6 DEF Put
  <2>3. /\ Append(queue[q], hand[t]) \in Seq(Presents)
        /\ Len(Append(queue[q], hand[t])) = Len(queue[q]) + 1
    BY <1>0, <2>1, <2>2
  <2>4. q \in Bounded => Len(queue[q]) + 1 <= Capacity[q]
    <3>1. Len(queue[q]) \in Nat
      BY <1>0, <2>1
    <3> QED
      BY <1>6, <3>1 DEF Put, HasRoom
  <2> QED
    BY <1>0, <1>6, <2>1, <2>2, <2>3, <2>4 DEF Put, Entered, AfterPut
<1>7. ASSUME NEW t \in Threads, Drop(t) PROVE TypeOK'
  BY <1>0, <1>7 DEF Drop, AfterPut
<1>8. ASSUME NEW t \in Threads, ReleaseSleigh(t) PROVE TypeOK'
  BY <1>0, <1>8 DEF ReleaseSleigh
<1>9. ASSUME NEW b \in Batches, StartConcurrent(b) PROVE TypeOK'
  <2>1. \A t \in Threads : hand[t] = Nothing
    BY <1>0, <1>9, StoppedEmpty DEF StartConcurrent, Phase
  <2>2. b \in Seq(Presents) /\ given \o b \in Seq(Presents)
    BY <1>0
  <2>3. calls' \in 0..MaxCalls
    BY <1>0, <1>9 DEF StartConcurrent
  <2> QED
    BY <1>0, <1>9, <2>1, <2>2, <2>3, FeedStep DEF StartConcurrent
<1>10. ASSUME NEW b \in Batches, StartSequential(b) PROVE TypeOK'
  <2>1. Main \in Threads /\ hand[Main] = Nothing
    BY <1>0, <1>10, StoppedEmpty DEF StartSequential, Phase, Threads
  <2>2. b \in Seq(Presents) /\ given \o b \in Seq(Presents)
    BY <1>0
  <2>3. calls' \in 0..MaxCalls
    BY <1>0, <1>10 DEF StartSequential
  <2>4. /\ queue' \in [Queues -> Seq(Presents)]
        /\ \A q \in Bounded : Len(queue'[q]) <= Capacity[q]
        /\ completed' \in [Queues -> BOOLEAN]
    BY <1>0, <1>10, <2>2, FeedStep DEF StartSequential
  <2>5. \A t \in Threads :
          hand'[t] = Nothing <=> pc'[t] \notin {"acquire", "work", "put"}
    BY <1>0, <1>10, <2>1 DEF StartSequential
  <2> QED
    BY <1>0, <1>10, <2>1, <2>2, <2>3, <2>4, <2>5 DEF StartSequential
<1>11. ASSUME FinishStage
       PROVE  /\ stage' \in Stages /\ call' \in {"none", "concurrent", "sequential"}
              /\ queue' \in [Queues -> Seq(Presents)]
              /\ \A q \in Bounded : Len(queue'[q]) <= Capacity[q]
              /\ completed' \in [Queues -> BOOLEAN]
  <2>1. stage' \in Stages /\ call' \in {"none", "concurrent", "sequential"}
    BY <1>0, <1>11 DEF FinishStage
  <2>2. CASE stage = "deliver"
    <3>1. <<>> \in Seq(Presents)
      OBVIOUS
    <3> QED
      BY <1>0, <1>11, <2>1, <2>2, <3>1, FeedStep DEF FinishStage
  <2>3. CASE stage # "deliver"
    <3>1. queue' = queue /\ completed' = [completed EXCEPT ![Sink[stage]] = TRUE]
      BY <1>11, <2>3 DEF FinishStage, CompletedAfter
    <3> QED
      BY <1>0, <2>1, <3>1
  <2> QED
    BY <2>2, <2>3
<1>12. CASE JoinStage
  BY <1>0, <1>11, <1>12 DEF JoinStage
<1>13. CASE EndLoop
  BY <1>0, <1>11, <1>13 DEF EndLoop
<1>14. CASE Raise
  <2>1. <<>> \in Seq(Presents)
    OBVIOUS
  <2> QED
    BY <1>0, <1>14, <2>1, FeedStep DEF Raise
<1>15. CASE UNCHANGED vars
  BY <1>0, <1>15 DEF vars
<1> QED
  BY <1>1, <1>2, <1>3, <1>4, <1>5, <1>6, <1>7, <1>8, <1>9, <1>10, <1>11, <1>12,
     <1>13, <1>14, <1>15 DEF Next, Loop, Control

-----------------------------------------------------------------------------
\* A worker step moves one running thread and leaves the call alone; the main
\* thread keeps clear of the sleigh.
LEMMA LoopMoves ==
  ASSUME TypeOK, NEW t \in Threads, Loop(t)
  PROVE  /\ pc[t] \in {"take", "acquire", "work", "put", "release"}
         /\ pc' \in [Threads -> {"off", "take", "acquire", "work", "put", "release", "exited"}]
         /\ \A u \in Threads \ {t} : pc'[u] = pc[u]
         /\ UNCHANGED <<call, stage>>
         /\ t = Main /\ pc[t] \in {"take", "work", "put"} =>
              pc'[t] \in {"take", "work", "put"}
<1>1. ~UsesSleigh(Main)
  BY SantaAssumption DEF UsesSleigh, Workers
<1>2. Main \notin Workers
  BY SantaAssumption
<1> QED
  BY <1>1, <1>2 DEF TypeOK, Loop, Take, Quit, AcquireSleigh, Work, Crash, Put, Drop,
     ReleaseSleigh, AfterPut

\* The stages behind a joined one stay joined.
LEMMA EarlierStages ==
  ASSUME stage \in Stages, stage # "deliver"
  PROVE  Earlier(Following[stage]) = Earlier(stage) \cup Members(stage)
  BY DEF Earlier, Following, Members, Stages

LEMMA PhaseStep == CoreInv /\ [Next]_vars => Phase'
<1> SUFFICES ASSUME CoreInv, [Next]_vars PROVE Phase'
  OBVIOUS
<1>0. TypeOK /\ Phase
  BY DEF CoreInv
<1>a. Main \in Threads /\ Threads = Workers \cup {Main} /\ Main \notin Workers
  BY SantaAssumption DEF Threads
<1>b. Earlier(stage) \subseteq Workers
  BY DEF Earlier, Workers
<1>1. ASSUME NEW t \in Threads, Loop(t) PROVE Phase'
  <2>1. call # "none"
    BY <1>0, <1>1, LoopMoves DEF Phase, Stopped
  <2>2. CASE call = "sequential"
    <3>1. t = Main
      BY <1>0, <1>1, <1>a, <2>2, LoopMoves DEF Phase, Stopped
    <3> QED
      BY <1>0, <1>1, <1>a, <2>2, <3>1, LoopMoves DEF Phase, Stopped
  <2>3. CASE call = "concurrent"
    <3>1. t # Main /\ t \notin Earlier(stage)
      BY <1>0, <1>1, <2>3, LoopMoves DEF Phase
    <3>2. call' = "concurrent" /\ pc'[Main] = "off"
      BY <1>0, <1>1, <1>a, <2>3, <3>1, LoopMoves DEF Phase
    <3>3. \A u \in Earlier(stage) : pc'[u] = "exited"
      BY <1>0, <1>1, <1>a, <1>b, <2>3, <3>1, LoopMoves DEF Phase
    <3>4. Earlier(stage)' = Earlier(stage)
      BY <1>0, <1>1, LoopMoves DEF Earlier
    <3> QED
      BY <3>2, <3>3, <3>4 DEF Phase
  <2> QED
    BY <1>0, <2>1, <2>2, <2>3 DEF TypeOK
<1>2. ASSUME NEW b \in Batches, StartConcurrent(b) PROVE Phase'
  BY <1>0, <1>2, <1>a DEF StartConcurrent, Phase, Earlier
<1>3. ASSUME NEW b \in Batches, StartSequential(b) PROVE Phase'
  <2>1. \A t \in Workers : Stopped(t)'
    BY <1>0, <1>3, <1>a DEF StartSequential, Phase, Stopped, TypeOK
  <2> QED
    BY <1>0, <1>3, <1>a, <2>1 DEF StartSequential, Phase, TypeOK
<1>4. CASE JoinStage
  <2>1. CASE stage = "deliver"
    <3>1. \A t \in Workers : pc[t] = "exited"
      BY <1>0, <1>4, <2>1 DEF JoinStage, Joined, Members, Phase, Earlier, Workers
    <3> QED
      BY <1>0, <1>4, <1>a, <2>1, <3>1 DEF JoinStage, FinishStage, Phase, Following, Stopped
  <2>2. CASE stage # "deliver"
    <3>1. call' = "concurrent" /\ pc' = pc /\ stage' = Following[stage]
      BY <1>4, <2>2 DEF JoinStage, FinishStage
    <3>2. \A t \in Earlier(stage) \cup Members(stage) : pc[t] = "exited"
      BY <1>0, <1>4 DEF JoinStage, Joined, Phase
    <3>3. Earlier(stage)' = Earlier(stage) \cup Members(stage)
      BY <1>0, <2>2, <3>1, EarlierStages DEF TypeOK, Earlier
    <3> QED
      BY <1>0, <1>4, <3>1, <3>2, <3>3 DEF Phase, JoinStage
  <2> QED
    BY <2>1, <2>2
<1>5. CASE EndLoop
  <2>1. \A t \in Workers : Stopped(t)'
    BY <1>0, <1>5, <1>a DEF EndLoop, Phase, Stopped, TypeOK
  <2>2. pc'[Main] = IF stage = "deliver" THEN "off" ELSE "take"
    BY <1>0, <1>5, <1>a DEF EndLoop, TypeOK
  <2>3. stage = "deliver" => call' = "none" /\ stage' = "make"
    BY <1>5 DEF EndLoop, FinishStage, Following
  <2>4. stage # "deliver" => call' = "sequential"
    BY <1>5 DEF EndLoop, FinishStage
  <2> QED
    BY <1>a, <2>1, <2>2, <2>3, <2>4 DEF Phase, Stopped
<1>6. CASE Raise
  <2>1. \A t \in Threads : Stopped(t)'
    BY <1>0, <1>6, <1>a DEF Raise, Phase, Stopped, TypeOK
  <2> QED
    BY <1>6, <2>1 DEF Raise, Phase
<1>7. CASE UNCHANGED vars
  BY <1>0, <1>7 DEF vars, Phase, Stopped, Earlier
<1> QED
  BY <1>1, <1>2, <1>3, <1>4, <1>5, <1>6, <1>7 DEF Next, Control

-----------------------------------------------------------------------------
LEMMA SleighStep == CoreInv /\ [Next]_vars => SleighHeld'
<1> SUFFICES ASSUME CoreInv, [Next]_vars PROVE SleighHeld'
  OBVIOUS
<1>0. TypeOK /\ Phase /\ SleighHeld
  BY DEF CoreInv
<1>a. Main \in Threads /\ ~UsesSleigh(Main)
  BY SantaAssumption DEF Threads, Workers, UsesSleigh
<1>b. \A t \in Threads : InSleigh(t) <=> UsesSleigh(t) /\ pc[t] \in {"work", "put", "release"}
  BY DEF InSleigh, UsesSleigh
<1>c. \A t \in Threads : InSleigh(t)' <=> UsesSleigh(t) /\ pc'[t] \in {"work", "put", "release"}
  BY DEF InSleigh, UsesSleigh
<1> USE <1>0, <1>b, <1>c DEF SleighHeld, TypeOK
<1>1. ASSUME NEW t \in Threads, Take(t) PROVE SleighHeld'
  BY <1>1 DEF Take
<1>2. ASSUME NEW t \in Threads, Quit(t) PROVE SleighHeld'
  BY <1>2 DEF Quit
<1>3. ASSUME NEW t \in Threads, AcquireSleigh(t) PROVE SleighHeld'
  <2>1. UsesSleigh(t) /\ \A u \in Threads : ~InSleigh(u)
    BY <1>3, SantaAssumption DEF AcquireSleigh
  <2> QED
    BY <1>3, <2>1 DEF AcquireSleigh
<1>4. ASSUME NEW t \in Threads, Work(t) PROVE SleighHeld'
  BY <1>4 DEF Work
<1>5. ASSUME NEW t \in Threads, Crash(t) PROVE SleighHeld'
  BY <1>5, SantaAssumption DEF Crash
<1>6. ASSUME NEW t \in Threads, Put(t) PROVE SleighHeld'
  BY <1>6 DEF Put, AfterPut
<1>7. ASSUME NEW t \in Threads, Drop(t) PROVE SleighHeld'
  BY <1>7 DEF Drop, AfterPut
<1>8. ASSUME NEW t \in Threads, ReleaseSleigh(t) PROVE SleighHeld'
  BY <1>8, SantaAssumption DEF ReleaseSleigh
<1>9. ASSUME NEW b \in Batches, StartConcurrent(b) PROVE SleighHeld'
  <2>1. \A t \in Threads : ~InSleigh(t) /\ ~InSleigh(t)'
    BY <1>9 DEF StartConcurrent, Phase, Stopped
  <2> QED
    BY <1>9, <2>1 DEF StartConcurrent
<1>10. ASSUME NEW b \in Batches, StartSequential(b) PROVE SleighHeld'
  BY <1>10, <1>a DEF StartSequential
<1>11. CASE JoinStage
  BY <1>11 DEF JoinStage
<1>12. CASE EndLoop
  BY <1>12, <1>a DEF EndLoop
<1>13. CASE Raise
  BY <1>13, <1>a DEF Raise
<1>14. CASE UNCHANGED vars
  BY <1>14 DEF vars
<1> QED
  BY <1>1, <1>2, <1>3, <1>4, <1>5, <1>6, <1>7, <1>8, <1>9, <1>10, <1>11, <1>12,
     <1>13, <1>14 DEF Next, Loop, Control

\* The threads that can run, the types and the sleigh's holder, always.
THEOREM CoreInvariant == Spec => []CoreInv
<1>1. Init => CoreInv
  BY CoreInit
<1>2. CoreInv /\ [Next]_vars => CoreInv'
  BY TypeStep, PhaseStep, SleighStep DEF CoreInv
<1> QED
  BY <1>1, <1>2, PTL DEF Spec

\* Every variable keeps its type and no bounded queue outgrows its capacity,
\* however many workers put into it.
THEOREM TypeCorrect == Spec => []TypeOK
<1>1. CoreInv => TypeOK
  BY DEF CoreInv
<1> QED
  BY <1>1, CoreInvariant, PTL

\* Loading and delivering never overlap, nor do two loaders: the sleigh lock is
\* held by exactly the thread inside (Pipeline._load_worker, _deliver_worker).
THEOREM SleighIsExclusive == Spec => []SleighExclusion
<1>1. CoreInv => SleighExclusion
  BY DEF CoreInv, SleighHeld, SleighExclusion
<1> QED
  BY <1>1, CoreInvariant, PTL

-----------------------------------------------------------------------------
(* Where the presents are.                                                 *)

Elements(s) == {s[i] : i \in 1..Len(s)}
Distinct(s) == \A i, j \in 1..Len(s) : s[i] = s[j] => i = j

\* A present out of the feed on which make() was not called yet.
Fresh(t) == hand[t] # Nothing /\ ~Past(t)

\* The call's list names no present twice, and a taken present has left it.
FeedDistinct ==
    /\ Distinct(queue["feed"])
    /\ \A t \in Threads : Fresh(t) => hand[t] \notin Held("feed")
    /\ \A t, u \in Threads : Fresh(t) /\ Fresh(u) /\ hand[t] = hand[u] => t = u

Places == StatesMatch /\ NoDuplicate /\ FeedDistinct

\* What a get takes away from a queue without repetitions.
LEMMA TailDistinct ==
  ASSUME NEW S, NEW s \in Seq(S), s # <<>>, Distinct(s)
  PROVE  /\ Distinct(Tail(s))
         /\ Head(s) \in Elements(s)
         /\ Elements(Tail(s)) = Elements(s) \ {Head(s)}
<1>1. Len(s) \in Nat \ {0} /\ Len(Tail(s)) = Len(s) - 1
  OBVIOUS
<1>2. \A i \in 1..Len(Tail(s)) : i + 1 \in 2..Len(s) /\ Tail(s)[i] = s[i + 1]
  BY <1>1
<1>3. Head(s) = s[1] /\ 1 \in 1..Len(s)
  BY <1>1
<1>4. Distinct(Tail(s))
  BY <1>1, <1>2 DEF Distinct
<1>5. \A x \in Elements(Tail(s)) : x \in Elements(s) \ {Head(s)}
  BY <1>1, <1>2, <1>3 DEF Distinct, Elements
<1>6. \A x \in Elements(s) \ {Head(s)} : x \in Elements(Tail(s))
  <2> SUFFICES ASSUME NEW j \in 1..Len(s), s[j] # Head(s) PROVE s[j] \in Elements(Tail(s))
    BY DEF Elements
  <2>1. j - 1 \in 1..Len(Tail(s)) /\ Tail(s)[j - 1] = s[j]
    BY <1>1, <1>2, <1>3
  <2> QED
    BY <2>1 DEF Elements
<1> QED
  BY <1>3, <1>4, <1>5, <1>6 DEF Elements

\* What a put adds to one.
LEMMA AppendDistinct ==
  ASSUME NEW S, NEW s \in Seq(S), NEW e \in S
  PROVE  /\ Elements(Append(s, e)) = Elements(s) \cup {e}
         /\ Distinct(s) /\ e \notin Elements(s) => Distinct(Append(s, e))
<1>1. /\ Len(s) \in Nat /\ Len(Append(s, e)) = Len(s) + 1
      /\ \A i \in 1..Len(s) : Append(s, e)[i] = s[i]
      /\ Append(s, e)[Len(s) + 1] = e
  OBVIOUS
<1>2. \A i \in 1..Len(Append(s, e)) : i \in 1..Len(s) \/ i = Len(s) + 1
  BY <1>1
<1>3. \A i \in 1..Len(s) : i \in 1..Len(Append(s, e))
  BY <1>1
<1>4. Len(s) + 1 \in 1..Len(Append(s, e))
  BY <1>1
<1>5. Elements(Append(s, e)) = Elements(s) \cup {e}
  BY <1>1, <1>2, <1>3, <1>4 DEF Elements
<1>6. ASSUME Distinct(s), e \notin Elements(s) PROVE Distinct(Append(s, e))
  BY <1>1, <1>2, <1>6 DEF Distinct, Elements
<1> QED
  BY <1>5, <1>6

\* Which state each place of the line stands for.
LEMMA PlaceTables ==
    /\ Lines \subseteq Queues /\ "feed" \notin Lines /\ "unmade" \notin Lines
    /\ Queues = Lines \cup {"feed"}
    /\ \A s \in Stages : Sink[s] \in Lines /\ After[s] = Sink[s] /\ Before[s] # After[s]
    /\ \A s \in Stages : s # "make" => Source[s] \in Lines /\ Before[s] = Source[s]
    /\ Source["make"] = "feed" /\ Before["make"] = "unmade"
  BY DEF Lines, Bounded, Queues, Stages, Sink, After, Source, Before

\* A worker step leaves the other threads where they are.
LEMMA LoopOthers ==
  ASSUME TypeOK, NEW t \in Threads, Loop(t)
  PROVE  /\ \A u \in Threads : StageOf(u)' = StageOf(u)
         /\ \A u \in Threads \ {t} : /\ hand'[u] = hand[u] /\ pc'[u] = pc[u]
                                     /\ Past(u)' = Past(u) /\ Fresh(u)' = Fresh(u)
<1>1. \A u \in Threads : StageOf(u)' = StageOf(u)
  BY LoopMoves DEF StageOf
<1>2. \A u \in Threads \ {t} : hand'[u] = hand[u] /\ pc'[u] = pc[u]
  BY LoopMoves DEF TypeOK, Loop, Take, Quit, AcquireSleigh, Work, Crash, Put, Drop,
     ReleaseSleigh
<1>3. \A u \in Threads \ {t} : Past(u)' = Past(u)
  BY <1>1, <1>2 DEF Past
<1> QED
  BY <1>1, <1>2, <1>3 DEF Fresh

LEMMA TakePlaces ==
  ASSUME TypeOK, Places, NEW t \in Threads, Take(t)
  PROVE  Places'
<1>0. StageOf(t) \in Stages /\ Loop(t)
  BY Posts DEF TypeOK, Loop
<1>a. PICK q \in Queues : q = Source[StageOf(t)]
  BY <1>0, Tables
<1>b. queue[q] \in Seq(Presents) /\ queue[q] # <<>>
  BY <1>a DEF TypeOK, Take
<1>c. PICK p \in Presents : p = Head(queue[q])
  BY <1>b
<1>1. /\ q = Source[StageOf(t)] /\ p = Head(queue[q])
      /\ queue[q] \in Seq(Presents) /\ queue[q] # <<>>
  BY <1>a, <1>b, <1>c
<1>2. Distinct(queue[q])
  BY <1>0, <1>1, PlaceTables DEF Places, NoDuplicate, FeedDistinct, Distinct
<1>3. /\ p \in Held(q)
      /\ Held(q)' = Held(q) \ {p}
      /\ Distinct(queue'[q])
  <2>1. queue'[q] = Tail(queue[q])
    BY <1>1 DEF TypeOK, Take, Remaining
  <2>2. /\ p \in Elements(queue[q])
        /\ Elements(Tail(queue[q])) = Elements(queue[q]) \ {p}
        /\ Distinct(Tail(queue[q]))
    BY <1>1, <1>2, TailDistinct
  <2>3. Held(q) = Elements(queue[q]) /\ Held(q)' = Elements(queue'[q])
    BY DEF Held, Elements
  <2> QED
    BY <2>1, <2>2, <2>3
<1>4. \A r \in Queues \ {q} : queue'[r] = queue[r] /\ Held(r)' = Held(r)
  BY <1>1 DEF TypeOK, Take, Held
<1>5. /\ state' = state /\ hand[t] = Nothing /\ hand'[t] = p
      /\ pc'[t] \in {"acquire", "work"} /\ p # Nothing
  BY <1>1, SantaAssumption DEF TypeOK, Take
<1>6. CASE StageOf(t) = "make"
  <2>1. q = "feed"
    BY <1>1, <1>6, PlaceTables
  <2>2. pc'[t] = "work"
    BY <1>6, Posts DEF Take, TypeOK, UsesSleigh
  <2>3. Fresh(t)' /\ ~Past(t)' /\ ~Past(t)
    BY <1>0, <1>5, <1>6, <2>2, LoopOthers DEF Past, Fresh
  <2>4. \A r \in Lines : queue'[r] = queue[r] /\ Held(r)' = Held(r)
    BY <1>4, <2>1, PlaceTables
  <2>5. \A u \in Threads : Past(u)' => u # t /\ Past(u) /\ hand'[u] = hand[u] /\ pc'[u] = pc[u]
    BY <1>0, <2>3, LoopOthers
  <2>6. StatesMatch'
    BY <1>0, <1>5, <2>4, <2>5, LoopOthers DEF StatesMatch, Places
  <2>7. NoDuplicate'
    BY <2>4, <2>5 DEF NoDuplicate, Places
  <2>8. FeedDistinct'
    <3>1. \A u \in Threads \ {t} : Fresh(u)' => hand'[u] \notin Held(q) /\ Fresh(u)
      BY <1>0, <2>1, LoopOthers DEF Places, FeedDistinct
    <3>2. \A u \in Threads : Fresh(u)' => hand'[u] \notin Held("feed")'
      BY <1>3, <1>5, <2>1, <3>1
    <3>3. \A u, v \in Threads : Fresh(u)' /\ Fresh(v)' /\ hand'[u] = hand'[v] => u = v
      BY <1>0, <1>3, <1>5, <3>1, LoopOthers DEF Places, FeedDistinct
    <3> QED
      BY <1>3, <2>1, <3>2, <3>3 DEF FeedDistinct
  <2> QED
    BY <2>6, <2>7, <2>8 DEF Places
<1>7. CASE StageOf(t) # "make"
  <2>1. q \in Lines /\ Before[StageOf(t)] = q /\ q # "feed"
    BY <1>0, <1>1, <1>7, PlaceTables
  <2>2. state[p] = q
    BY <1>3, <2>1 DEF Places, StatesMatch
  <2>3. Past(t)' /\ ~Fresh(t)'
    BY <1>0, <1>5, <1>7, LoopOthers DEF Past, Fresh
  <2>4. \A r \in Lines : Held(r)' \subseteq Held(r) /\ p \notin Held(r)'
    BY <1>3, <1>4, <2>1, PlaceTables DEF Places, NoDuplicate
  <2>5. \A u \in Threads \ {t} : Past(u)' => Past(u) /\ hand'[u] # p
    BY <1>0, <1>3, <2>1, LoopOthers DEF Places, NoDuplicate
  <2>6. StatesMatch'
    BY <1>0, <1>5, <2>1, <2>2, <2>4, <2>5, LoopOthers DEF StatesMatch, Places
  <2>7. NoDuplicate'
    <3>1. \A r \in Lines : Distinct(queue'[r])
      BY <1>3, <1>4, PlaceTables DEF Places, NoDuplicate, Distinct
    <3>2. \A r, v \in Lines : r # v => Held(r)' \cap Held(v)' = {}
      BY <2>4 DEF Places, NoDuplicate
    <3>3. \A u \in Threads, r \in Lines : Past(u)' => hand'[u] \notin Held(r)'
      BY <1>0, <1>5, <2>4, <2>5, LoopOthers DEF Places, NoDuplicate
    <3>4. \A u, v \in Threads : Past(u)' /\ Past(v)' /\ hand'[u] = hand'[v] => u = v
      BY <1>0, <1>5, <2>5, LoopOthers DEF Places, NoDuplicate
    <3> QED
      BY <3>1, <3>2, <3>3, <3>4 DEF NoDuplicate, Distinct
  <2>8. FeedDistinct'
    <3>1. Held("feed")' = Held("feed") /\ queue'["feed"] = queue["feed"]
      BY <1>4, <2>1, PlaceTables
    <3>2. \A u \in Threads : Fresh(u)' => u # t /\ Fresh(u) /\ hand'[u] = hand[u]
      BY <1>0, <2>3, LoopOthers
    <3> QED
      BY <3>1, <3>2 DEF Places, FeedDistinct
  <2> QED
    BY <2>6, <2>7, <2>8 DEF Places
<1> QED
  BY <1>6, <1>7

\* A thread that neither moves nor changes a present may empty its hand.
LEMMA LeavePlaces ==
  ASSUME TypeOK, Places, NEW t \in Threads, Loop(t), UNCHANGED <<state, queue>>,
         \/ hand'[t] = Nothing
         \/ /\ hand'[t] = hand[t] /\ Past(t)' = Past(t)
            /\ pc'[t] = "put" <=> pc[t] = "put"
  PROVE  Places'
<1>1. \A u \in Threads : StageOf(u)' = StageOf(u)
  BY LoopOthers
<1>2. \A u \in Threads : Past(u)' => /\ Past(u) /\ hand'[u] = hand[u]
                                     /\ pc'[u] = "put" <=> pc[u] = "put"
  BY LoopOthers DEF Past
<1>3. \A u \in Threads : Fresh(u)' => Fresh(u) /\ hand'[u] = hand[u]
  BY LoopOthers DEF Fresh
<1>4. \A q \in Queues : Held(q)' = Held(q)
  BY DEF Held
<1>5. StatesMatch'
  BY <1>1, <1>2, <1>4, PlaceTables DEF Places, StatesMatch
<1>6. NoDuplicate'
  BY <1>2, <1>4, PlaceTables DEF Places, NoDuplicate
<1>7. FeedDistinct'
  BY <1>3, <1>4, PlaceTables DEF Places, FeedDistinct
<1> QED
  BY <1>5, <1>6, <1>7 DEF Places

LEMMA WorkPlaces ==
  ASSUME TypeOK, SleighHeld, Places, NEW t \in Threads, Work(t)
  PROVE  Places'
<1>0. StageOf(t) \in Stages /\ Loop(t) /\ StageOf(t)' = StageOf(t)
  BY Posts, LoopOthers DEF TypeOK, Loop
<1>1. PICK p \in Presents : p = hand[t]
  BY DEF TypeOK, Work
<1>2. /\ state[p] = Before[StageOf(t)]
      /\ state'[p] = After[StageOf(t)]
      /\ \A r \in Presents \ {p} : state'[r] = state[r]
      /\ queue' = queue /\ hand' = hand /\ pc[t] = "work" /\ pc'[t] = "put"
  BY <1>1 DEF TypeOK, Work, Fits
<1>3. hand[t] # Nothing /\ Past(t)' /\ ~Fresh(t)'
  BY <1>0, <1>1, <1>2, SantaAssumption DEF Past, Fresh
<1>4. \A q \in Lines : p \notin Held(q)
  <2>1. CASE StageOf(t) = "make"
    BY <1>2, <2>1, PlaceTables DEF Places, StatesMatch
  <2>2. CASE StageOf(t) # "make"
    BY <1>1, <1>3, <2>2 DEF Places, NoDuplicate, Past
  <2> QED
    BY <2>1, <2>2
<1>5. \A u \in Threads \ {t} : Past(u) => hand[u] # p
  <2> SUFFICES ASSUME NEW u \in Threads \ {t}, Past(u), hand[u] = p PROVE FALSE
    OBVIOUS
  <2>1. StageOf(u) \in Stages
    BY Posts DEF TypeOK
  <2>2. CASE StageOf(t) = "make"
    <3>1. state[p] = "unmade"
      BY <1>2, <2>2, PlaceTables
    <3>2. state[p] # "unmade"
      <4>1. CASE pc[u] = "put"
        BY <2>1, <4>1, PlaceTables DEF Places, StatesMatch
      <4>2. CASE pc[u] # "put"
        <5>1. pc[u] \in {"acquire", "work"}
          BY <4>2 DEF TypeOK, Past
        <5>2. StageOf(u) # "make"
          <6>1. pc[u] = "work" => StageOf(u) # "make"
            BY DEF Past
          <6>2. pc[u] = "acquire" => StageOf(u) # "make"
            BY Posts DEF SleighHeld, UsesSleigh
          <6> QED
            BY <5>1, <6>1, <6>2
        <5> QED
          BY <2>1, <4>2, <5>2, PlaceTables DEF Places, StatesMatch
      <4> QED
        BY <4>1, <4>2
    <3> QED
      BY <3>1, <3>2
  <2>3. CASE StageOf(t) # "make"
    BY <1>1, <1>3, <2>3 DEF Places, NoDuplicate, Past
  <2> QED
    BY <2>2, <2>3
<1>6. \A u \in Threads \ {t} : Past(u)' => Past(u) /\ hand'[u] # p /\ hand'[u] \in Presents
  BY <1>0, <1>5, LoopOthers DEF TypeOK, Past
<1>7. \A q \in Queues : Held(q)' = Held(q) /\ Held(q) \subseteq Presents
  BY <1>2 DEF Held, TypeOK
<1>8. StatesMatch'
  <2>1. \A q \in Lines : \A r \in Held(q)' : state'[r] = q
    BY <1>2, <1>4, <1>7, PlaceTables DEF Places, StatesMatch
  <2>2. \A u \in Threads \ {t} : Past(u)' =>
          state'[hand'[u]] = IF pc'[u] = "put" THEN After[StageOf(u)'] ELSE Before[StageOf(u)']
    BY <1>0, <1>2, <1>6, LoopOthers DEF Places, StatesMatch
  <2>3. state'[hand'[t]] = After[StageOf(t)']
    BY <1>0, <1>1, <1>2
  <2> QED
    BY <1>2, <2>1, <2>2, <2>3 DEF StatesMatch
<1>9. NoDuplicate'
  BY <1>1, <1>2, <1>4, <1>6, <1>7, PlaceTables DEF Places, NoDuplicate
<1>10. FeedDistinct'
  <2>1. \A u \in Threads : Fresh(u)' => Fresh(u) /\ hand'[u] = hand[u]
    BY <1>0, <1>3, LoopOthers
  <2> QED
    BY <1>2, <1>7, <2>1, PlaceTables DEF Places, FeedDistinct
<1> QED
  BY <1>8, <1>9, <1>10 DEF Places

LEMMA PutPlaces ==
  ASSUME TypeOK, Places, NEW t \in Threads, Put(t)
  PROVE  Places'
<1>0. StageOf(t) \in Stages /\ Loop(t) /\ StageOf(t)' = StageOf(t)
  BY Posts, LoopOthers DEF TypeOK, Loop
<1>1. PICK p \in Presents : p = hand[t]
  BY DEF TypeOK, Put
<1>2. PICK q \in Lines : q = Sink[StageOf(t)]
  BY <1>0, PlaceTables
<1>3. /\ pc[t] = "put" /\ state' = state /\ queue[q] \in Seq(Presents)
      /\ queue'[q] = Append(queue[q], p) /\ hand'[t] = Nothing
      /\ \A r \in Queues \ {q} : queue'[r] = queue[r] /\ Held(r)' = Held(r)
  BY <1>1, <1>2, PlaceTables DEF TypeOK, Put, Entered, Held
<1>4. Past(t) /\ ~Past(t)' /\ ~Fresh(t)'
  BY <1>1, <1>3, SantaAssumption DEF Past, Fresh
<1>5. state[p] = q
  BY <1>0, <1>1, <1>2, <1>3, <1>4, PlaceTables DEF Places, StatesMatch
<1>6. \A r \in Lines : p \notin Held(r)
  BY <1>1, <1>4 DEF Places, NoDuplicate
<1>7. Held(q)' = Held(q) \cup {p} /\ Distinct(queue'[q])
  <2>1. Held(q) = Elements(queue[q]) /\ Held(q)' = Elements(queue'[q])
    BY DEF Held, Elements
  <2>2. Distinct(queue[q])
    BY DEF Places, NoDuplicate, Distinct
  <2> QED
    BY <1>3, <1>6, <2>1, <2>2, AppendDistinct
<1>8. \A u \in Threads : Past(u)' => u # t /\ Past(u) /\ hand'[u] = hand[u] /\ pc'[u] = pc[u]
                                     /\ StageOf(u)' = StageOf(u) /\ hand[u] # p
  BY <1>0, <1>1, <1>4, LoopOthers DEF Places, NoDuplicate
<1>9. StatesMatch'
  BY <1>3, <1>5, <1>7, <1>8, PlaceTables DEF Places, StatesMatch
<1>10. NoDuplicate'
  <2>1. \A r \in Lines : Distinct(queue'[r])
    BY <1>3, <1>7, PlaceTables DEF Places, NoDuplicate, Distinct
  <2>2. \A r, v \in Lines : r # v => Held(r)' \cap Held(v)' = {}
    BY <1>3, <1>6, <1>7, PlaceTables DEF Places, NoDuplicate
  <2>3. \A u \in Threads, r \in Lines : Past(u)' => hand'[u] \notin Held(r)'
    BY <1>3, <1>7, <1>8, PlaceTables DEF Places, NoDuplicate
  <2>4. \A u, v \in Threads : Past(u)' /\ Past(v)' /\ hand'[u] = hand'[v] => u = v
    BY <1>8 DEF Places, NoDuplicate
  <2> QED
    BY <2>1, <2>2, <2>3, <2>4 DEF NoDuplicate, Distinct
<1>11. FeedDistinct'
  <2>1. \A u \in Threads : Fresh(u)' => Fresh(u) /\ hand'[u] = hand[u]
    BY <1>0, <1>4, LoopOthers
  <2> QED
    BY <1>3, <2>1, PlaceTables DEF Places, FeedDistinct
<1> QED
  BY <1>9, <1>10, <1>11 DEF Places

\* Between calls every hand is empty; a call's start and end touch the feed only.
LEMMA FeedPlaces ==
  ASSUME TypeOK, Places, \A t \in Threads : hand'[t] = Nothing, state' = state,
         NEW b \in Seq(Presents), Distinct(b), queue' = [queue EXCEPT !["feed"] = b]
  PROVE  Places'
<1>1. \A q \in Lines : queue'[q] = queue[q] /\ Held(q)' = Held(q)
  BY PlaceTables DEF TypeOK, Held
<1>2. \A t \in Threads : ~Past(t)' /\ ~Fresh(t)'
  BY DEF Past, Fresh
<1>3. queue'["feed"] = b
  BY PlaceTables DEF TypeOK
<1>4. StatesMatch'
  BY <1>1, <1>2 DEF Places, StatesMatch
<1>5. NoDuplicate'
  BY <1>1, <1>2 DEF Places, NoDuplicate
<1>6. FeedDistinct'
  BY <1>2, <1>3 DEF FeedDistinct
<1> QED
  BY <1>4, <1>5, <1>6 DEF Places

\* The main thread moves on to the next stage with its hand empty.
LEMMA StagePlaces ==
  ASSUME TypeOK, Places, hand[Main] = Nothing, UNCHANGED <<state, queue, hand>>,
         \A t \in Threads \ {Main} : pc'[t] = pc[t]
  PROVE  Places'
<1>1. \A t \in Threads \ {Main} : StageOf(t)' = StageOf(t)
  BY DEF StageOf
<1>2. \A t \in Threads : Past(t)' => t # Main /\ Past(t)
  BY <1>1 DEF Past
<1>3. \A t \in Threads : Fresh(t)' => Fresh(t)
  BY <1>1 DEF Past, Fresh
<1>4. \A q \in Queues : Held(q)' = Held(q)
  BY DEF Held
<1>5. StatesMatch'
  BY <1>1, <1>2, <1>4, PlaceTables DEF Places, StatesMatch
<1>6. NoDuplicate'
  BY <1>2, <1>4, PlaceTables DEF Places, NoDuplicate
<1>7. FeedDistinct'
  BY <1>3, <1>4, PlaceTables DEF Places, FeedDistinct
<1> QED
  BY <1>5, <1>6, <1>7 DEF Places

LEMMA PlacesStep == CoreInv /\ Places /\ [Next]_vars => Places'
<1> SUFFICES ASSUME CoreInv, Places, [Next]_vars PROVE Places'
  OBVIOUS
<1>0. TypeOK /\ Phase /\ SleighHeld
  BY DEF CoreInv
<1>a. TypeOK' /\ Phase'
  BY TypeStep, PhaseStep
<1>b. ASSUME NEW t \in Threads, Loop(t) PROVE Places'
  <2>1. CASE Take(t)
    BY <1>0, <2>1, TakePlaces
  <2>2. CASE Quit(t)
    BY <1>0, <1>b, <2>2, LeavePlaces DEF Quit, TypeOK
  <2>3. CASE AcquireSleigh(t)
    <3>1. StageOf(t) # "make"
      BY <1>0, <2>3, Posts DEF AcquireSleigh, SleighHeld, UsesSleigh
    <3>2. Past(t)' = Past(t)
      BY <1>0, <1>b, <2>3, <3>1, LoopOthers DEF Past, AcquireSleigh, TypeOK
    <3> QED
      BY <1>0, <1>b, <2>3, <3>2, LeavePlaces DEF AcquireSleigh, TypeOK
  <2>4. CASE Work(t)
    BY <1>0, <2>4, WorkPlaces
  <2>5. CASE Crash(t)
    BY <1>0, <1>b, <2>5, LeavePlaces DEF Crash, TypeOK
  <2>6. CASE Put(t)
    BY <1>0, <2>6, PutPlaces
  <2>7. CASE Drop(t)
    BY <1>0, <1>b, <2>7, LeavePlaces DEF Drop, TypeOK
  <2>8. CASE ReleaseSleigh(t)
    BY <1>0, <1>b, <2>8, LeavePlaces DEF ReleaseSleigh, TypeOK
  <2> QED
    BY <1>b, <2>1, <2>2, <2>3, <2>4, <2>5, <2>6, <2>7, <2>8 DEF Loop
<1>c. <<>> \in Seq(Presents) /\ Distinct(<<>>)
  BY DEF Distinct
<1>d. call' = "none" => \A t \in Threads : hand'[t] = Nothing
  BY <1>a DEF Phase, Stopped, TypeOK
<1>1. ASSUME NEW b \in Batches, StartConcurrent(b) \/ StartSequential(b) PROVE Places'
  <2>1. b \in Seq(Presents) /\ Distinct(b)
    BY SantaAssumption DEF Distinct
  <2>2. \A t \in Threads : hand'[t] = Nothing
    BY <1>0, <1>1, StoppedEmpty DEF StartConcurrent, StartSequential, Phase
  <2> QED
    BY <1>0, <1>1, <2>1, <2>2, FeedPlaces DEF StartConcurrent, StartSequential
<1>2. CASE JoinStage
  <2>1. CASE stage = "deliver"
    BY <1>0, <1>2, <1>c, <1>d, <2>1, FeedPlaces DEF JoinStage, FinishStage
  <2>2. CASE stage # "deliver"
    <3>1. hand[Main] = Nothing
      BY <1>0, <1>2 DEF JoinStage, Phase, TypeOK, Threads
    <3> QED
      BY <1>0, <1>2, <2>2, <3>1, StagePlaces DEF JoinStage, FinishStage
  <2> QED
    BY <2>1, <2>2
<1>3. CASE EndLoop
  <2>1. CASE stage = "deliver"
    BY <1>0, <1>3, <1>c, <1>d, <2>1, FeedPlaces DEF EndLoop, FinishStage
  <2>2. CASE stage # "deliver"
    <3>1. hand[Main] = Nothing /\ \A t \in Threads \ {Main} : pc'[t] = pc[t]
      BY <1>0, <1>3 DEF EndLoop, TypeOK, Threads
    <3> QED
      BY <1>0, <1>3, <2>2, <3>1, StagePlaces DEF EndLoop, FinishStage
  <2> QED
    BY <2>1, <2>2
<1>4. CASE Raise
  BY <1>0, <1>4, <1>c, <1>d, FeedPlaces DEF Raise
<1>5. CASE UNCHANGED vars
  BY <1>5 DEF vars, Places, StatesMatch, NoDuplicate, FeedDistinct, Past, Fresh, Held, StageOf
<1> QED
  BY <1>b, <1>1, <1>2, <1>3, <1>4, <1>5 DEF Next, Control

THEOREM PlacesInvariant == Spec => [](CoreInv /\ Places)
<1>1. Init => CoreInv /\ Places
  BY CoreInit, PlaceTables DEF Init, Places, StatesMatch, NoDuplicate, FeedDistinct,
     Distinct, Past, Fresh, Held
<1>2. CoreInv /\ Places /\ [Next]_vars => (CoreInv /\ Places)'
  BY TypeStep, PhaseStep, SleighStep, PlacesStep DEF CoreInv
<1> QED
  BY <1>1, <1>2, PTL DEF Spec

\* A present in a queue or a hand is in the state that place expects, so that
\* wrap(), load() and deliver() never raise in a worker (Present, Pipeline).
THEOREM PresentsMatch == Spec => []StatesMatch
<1>1. CoreInv /\ Places => StatesMatch
  BY DEF Places
<1> QED
  BY <1>1, PlacesInvariant, PTL

\* No present is in two places at once, whatever the calls and the batches.
THEOREM PresentsNotDuplicated == Spec => []NoDuplicate
<1>1. CoreInv /\ Places => NoDuplicate
  BY DEF Places
<1> QED
  BY <1>1, PlacesInvariant, PTL

-----------------------------------------------------------------------------
(* A first call loses nothing.                                             *)

\* The stages the current call has left behind.
Over == CASE stage = "make" -> {}
          [] stage = "wrap" -> {"make"}
          [] stage = "load" -> {"make", "wrap"}
          [] OTHER          -> {"make", "wrap", "load"}

\* A stage without a worker would be joined at once, its presents stranded.
Staffed == Makers # {} /\ Wrappers # {} /\ Loaders # {}

Untouched ==
    /\ call = "none" /\ given = <<>>
    /\ \A t \in Threads : pc[t] = "off"
    /\ \A p \in Presents : state[p] = "unmade"
    /\ \A q \in Queues : queue[q] = <<>> /\ ~completed[q]

\* make() finds every present of the call unmade.
FreshUnmade ==
    /\ \A p \in Held("feed") : state[p] = "unmade"
    /\ \A t \in Threads : Fresh(t) => state[hand[t]] = "unmade"

\* No queue is completed before the stage that fills it is over.
OnlyOverCompleted == \A q \in Queues : completed[q] => q = "feed" \/ \E s \in Over : q = Sink[s]

\* A stage that is over, and a worker that left, have left nothing behind.
Drained ==
    /\ \A s \in Over : queue[Source[s]] = <<>>
    /\ \A t \in Workers : pc[t] = "exited" =>
         completed[Source[StageOf(t)]] /\ queue[Source[StageOf(t)]] = <<>>

Accounted ==
    \A i \in 1..Len(given) : \/ \E q \in Queues : given[i] \in Held(q)
                             \/ \E t \in Threads : hand[t] = given[i]

Progress == FreshUnmade /\ OnlyOverCompleted /\ Drained /\ Accounted

FirstCall ==
    /\ calls = 0 => Untouched
    /\ calls = 1 /\ call # "none" => Progress
    /\ calls = 1 /\ call = "none" => AllDelivered

\* What a stage that is over consumed, an earlier one produced.
LEMMA OverTables ==
  ASSUME stage \in Stages
  PROVE  /\ Over \subseteq Stages /\ stage \notin Over
         /\ \A s \in Over : Source[s] = "feed" \/ \E r \in Over : Source[s] = Sink[r]
         /\ \A s, r \in Stages : Sink[s] = Sink[r] => s = r
         /\ stage # "deliver" => Over \cup {stage} = CASE stage = "make" -> {"make"}
                                                       [] stage = "wrap" -> {"make", "wrap"}
                                                       [] OTHER -> {"make", "wrap", "load"}
         /\ stage = "deliver" => Over = {"make", "wrap", "load"}
  BY DEF Over, Stages, Source, Sink

\* A thread that can move belongs to a stage that is not over, and its output
\* queue is open.
LEMMA RunningOpen ==
  ASSUME CoreInv, OnlyOverCompleted, NEW t \in Threads, ~Stopped(t)
  PROVE  /\ StageOf(t) \in Stages /\ StageOf(t) \notin Over
         /\ ~completed[Sink[StageOf(t)]]
         /\ \A s \in Over : Source[s] # Sink[StageOf(t)]
<1>0. TypeOK /\ Phase
  BY DEF CoreInv
<1>1. stage \in Stages /\ StageOf(t) \in Stages
  BY <1>0, Posts DEF TypeOK
<1>2. StageOf(t) \notin Over
  <2>1. CASE call = "sequential"
    <3>1. t = Main
      BY <1>0, <2>1 DEF Phase, Threads
    <3> QED
      BY <1>1, <3>1, Posts, OverTables
  <2>2. CASE call = "concurrent"
    <3>1. t # Main /\ t \notin Earlier(stage)
      BY <1>0, <2>2 DEF Phase, Stopped
    <3> QED
      BY <1>1, <3>1 DEF Over, Earlier, StageOf, Stages, Threads, Workers
  <2> QED
    BY <1>0, <2>1, <2>2 DEF Phase, TypeOK
<1>3. \A s \in Over : Sink[StageOf(t)] # Sink[s]
  BY <1>1, <1>2, OverTables
<1>4. Sink[StageOf(t)] # "feed" /\ Sink[StageOf(t)] \in Queues
  BY <1>1, Tables
<1> QED
  BY <1>1, <1>2, <1>3, <1>4, OverTables DEF OnlyOverCompleted

\* In a first call no method of Present raises and no put is dropped.
LEMMA NoneLost ==
  ASSUME CoreInv, Places, Progress, NEW t \in Threads
  PROVE  ~Crash(t) /\ ~Drop(t) /\ ~Raise
<1>0. TypeOK /\ Phase
  BY DEF CoreInv
<1>1. ASSUME NEW u \in Threads, pc[u] = "work" PROVE Fits(u)
  <2>1. hand[u] # Nothing /\ StageOf(u) \in Stages
    BY <1>0, <1>1, Posts DEF TypeOK
  <2>2. CASE Past(u)
    BY <1>1, <2>2 DEF Places, StatesMatch, Fits
  <2>3. CASE ~Past(u)
    BY <1>1, <2>1, <2>3, PlaceTables DEF Past, Fresh, Progress, FreshUnmade, Fits
  <2> QED
    BY <2>2, <2>3
<1>2. pc[t] = "put" => ~completed[Sink[StageOf(t)]]
  BY RunningOpen DEF Progress, Stopped
<1>3. Main \in Threads
  BY DEF Threads
<1> QED
  BY <1>1, <1>2, <1>3 DEF Crash, Drop, Raise

LEMMA FreshStep ==
  ASSUME CoreInv, Places, Progress, NEW t \in Threads, Loop(t)
  PROVE  FreshUnmade'
<1>0. TypeOK /\ SleighHeld /\ StageOf(t) \in Stages /\ StageOf(t)' = StageOf(t)
  BY Posts, LoopOthers DEF CoreInv, TypeOK
<1>1. \A u \in Threads \ {t} : Fresh(u)' => Fresh(u) /\ hand'[u] = hand[u]
  BY <1>0, LoopOthers
<1> USE DEF Progress, FreshUnmade
<1>2. CASE Take(t)
  <2>1. state' = state /\ Held("feed")' \subseteq Held("feed")
    <3>1. CASE Source[StageOf(t)] = "feed"
      <4>1. queue["feed"] \in Seq(Presents) /\ queue["feed"] # <<>> /\ queue'["feed"] = Tail(queue["feed"])
        BY <1>0, <1>2, <3>1, Tables DEF Take, Remaining, TypeOK
      <4>2. Elements(Tail(queue["feed"])) \subseteq Elements(queue["feed"])
        BY <4>1, TailDistinct DEF Places, FeedDistinct
      <4> QED
        BY <1>2, <4>1, <4>2 DEF Take, Held, Elements
    <3>2. CASE Source[StageOf(t)] # "feed"
      BY <1>0, <1>2, <3>2, Tables DEF Take, TypeOK, Held
    <3> QED
      BY <3>1, <3>2
  <2>2. Fresh(t)' => hand'[t] \in Held("feed")
    <3> SUFFICES ASSUME Fresh(t)' PROVE hand'[t] \in Held("feed")
      OBVIOUS
    <3>1. StageOf(t) = "make" /\ Source["make"] = "feed"
      BY <1>0, PlaceTables DEF Fresh, Past
    <3>2. queue["feed"] \in Seq(Presents) /\ queue["feed"] # <<>> /\ hand'[t] = Head(queue["feed"])
      BY <1>0, <1>2, <3>1, Tables DEF Take, TypeOK
    <3> QED
      BY <3>2, TailDistinct DEF Held, Elements, Places, FeedDistinct
  <2> QED
    BY <1>1, <2>1, <2>2
<1>3. CASE Work(t)
  <2>1. /\ hand[t] \in Presents /\ state[hand[t]] = Before[StageOf(t)] /\ pc[t] = "work"
        /\ pc'[t] = "put" /\ hand' = hand /\ queue' = queue
        /\ \A p \in Presents \ {hand[t]} : state'[p] = state[p]
    BY <1>0, <1>3 DEF TypeOK, Work, Fits
  <2>2. ~Fresh(t)'
    BY <2>1 DEF Fresh, Past
  <2>3. /\ hand[t] \notin Held("feed")
        /\ \A u \in Threads \ {t} : Fresh(u) => hand[u] # hand[t]
    <3>1. CASE StageOf(t) = "make"
      <4>1. Fresh(t)
        BY <2>1, <3>1, SantaAssumption DEF Fresh, Past
      <4> QED
        BY <4>1 DEF Places, FeedDistinct
    <3>2. CASE StageOf(t) # "make"
      <4>1. state[hand[t]] # "unmade"
        BY <1>0, <2>1, <3>2, PlaceTables
      <4> QED
        BY <4>1
    <3> QED
      BY <3>1, <3>2
  <2>4. Held("feed")' = Held("feed") /\ Held("feed") \subseteq Presents
    BY <1>0, <2>1, Tables DEF Held, TypeOK
  <2>5. \A u \in Threads : Fresh(u) => hand[u] \in Presents
    BY <1>0 DEF TypeOK, Fresh
  <2> QED
    BY <1>1, <2>1, <2>2, <2>3, <2>4, <2>5
<1>4. CASE Put(t)
  <2>1. hand'[t] = Nothing /\ state' = state /\ queue'["feed"] = queue["feed"]
    BY <1>0, <1>4, Tables DEF TypeOK, Put
  <2>2. ~Fresh(t)'
    BY <2>1 DEF Fresh
  <2> QED
    BY <1>1, <2>1, <2>2 DEF Held
<1>5. CASE Quit(t) \/ AcquireSleigh(t) \/ ReleaseSleigh(t)
  <2>1. hand' = hand /\ state' = state /\ queue' = queue
    BY <1>5 DEF Quit, AcquireSleigh, ReleaseSleigh
  <2>2. AcquireSleigh(t) => StageOf(t) # "make"
    BY <1>0, Posts DEF AcquireSleigh, SleighHeld, UsesSleigh
  <2>3. ~Fresh(t)'
    BY <1>0, <1>5, <2>1, <2>2 DEF Quit, AcquireSleigh, ReleaseSleigh, Fresh, Past, TypeOK
  <2> QED
    BY <1>1, <2>1, <2>3 DEF Held
<1> QED
  BY <1>2, <1>3, <1>4, <1>5, NoneLost DEF Loop

LEMMA DrainedStep ==
  ASSUME CoreInv, Places, Progress, NEW t \in Threads, Loop(t)
  PROVE  OnlyOverCompleted' /\ Drained'
<1>0. /\ TypeOK /\ StageOf(t) \in Stages /\ Over' = Over
      /\ \A u \in Threads : StageOf(u)' = StageOf(u)
  BY Posts, LoopMoves, LoopOthers DEF CoreInv, TypeOK, Over
<1>1. completed' = completed /\ ~Stopped(t)
  BY <1>0, LoopMoves, NoneLost DEF Loop, Take, Quit, AcquireSleigh, Work, Put, ReleaseSleigh, Stopped
<1>2. OnlyOverCompleted'
  BY <1>0, <1>1 DEF Progress, OnlyOverCompleted
<1>3. ASSUME NEW q \in Queues, queue[q] = <<>>, q # Sink[StageOf(t)]
      PROVE  queue'[q] = <<>>
  <2>1. CASE Take(t)
    BY <1>0, <1>3, <2>1, Tables DEF Take, TypeOK
  <2>2. CASE Put(t)
    BY <1>0, <1>3, <2>2, Tables DEF Put, TypeOK
  <2> QED
    BY <1>3, <2>1, <2>2, NoneLost DEF Loop, Quit, AcquireSleigh, Work, ReleaseSleigh
<1>4. /\ ~completed[Sink[StageOf(t)]]
      /\ \A s \in Over : Source[s] # Sink[StageOf(t)] /\ s \in Stages
  BY <1>0, <1>1, RunningOpen, OverTables DEF Progress, TypeOK
<1>5. \A s \in Over : queue'[Source[s]] = <<>>
  BY <1>3, <1>4, Tables DEF Progress, Drained
<1>6. ASSUME NEW u \in Workers, pc'[u] = "exited"
      PROVE  completed[Source[StageOf(u)]] /\ queue[Source[StageOf(u)]] = <<>>
  <2>1. CASE u = t
    BY <1>0, <1>6, <2>1, NoneLost DEF Loop, Take, Quit, AcquireSleigh, Work, Put, AfterPut,
       ReleaseSleigh, TypeOK
  <2>2. CASE u # t
    <3>1. u \in Threads /\ pc[u] = "exited"
      BY <1>0, <1>6, <2>2, LoopMoves DEF Threads
    <3> QED
      BY <3>1 DEF Progress, Drained
  <2> QED
    BY <2>1, <2>2
<1>7. ASSUME NEW u \in Workers, pc'[u] = "exited"
      PROVE  queue'[Source[StageOf(u)]] = <<>>
  <2>1. StageOf(u) \in Stages
    BY <1>0, Posts DEF TypeOK, Threads
  <2> QED
    BY <1>3, <1>4, <1>6, <1>7, <2>1, Tables
<1>8. Drained'
  <2>1. \A u \in Workers : StageOf(u)' = StageOf(u)
    BY <1>0 DEF Threads
  <2> QED
    BY <1>0, <1>1, <1>5, <1>6, <1>7, <2>1 DEF Drained
<1> QED
  BY <1>2, <1>8

LEMMA AccountedStep ==
  ASSUME CoreInv, Places, Progress, NEW t \in Threads, Loop(t)
  PROVE  Accounted'
<1>0. TypeOK /\ StageOf(t) \in Stages
  BY Posts DEF CoreInv, TypeOK
<1>1. given' = given /\ \A u \in Threads \ {t} : hand'[u] = hand[u]
  BY <1>0, LoopOthers DEF Loop, Take, Quit, AcquireSleigh, Work, Crash, Put, Drop, ReleaseSleigh
<1>2. \A i \in 1..Len(given) : given[i] \in Presents /\ given[i] # Nothing
  BY <1>0, SantaAssumption DEF TypeOK
<1> SUFFICES ASSUME NEW i \in 1..Len(given)
             PROVE  \/ \E q \in Queues : given[i] \in Held(q)'
                    \/ \E u \in Threads : hand'[u] = given[i]
  BY <1>1 DEF Accounted
<1>3. \/ \E q \in Queues : given[i] \in Held(q)
      \/ \E u \in Threads : hand[u] = given[i]
  BY DEF Progress, Accounted
<1>4. CASE Take(t)
  <2>1. PICK q \in Queues : q = Source[StageOf(t)]
    BY <1>0, Tables
  <2>2. /\ queue[q] \in Seq(Presents) /\ queue[q] # <<>> /\ Distinct(queue[q])
        /\ queue'[q] = Tail(queue[q]) /\ hand'[t] = Head(queue[q]) /\ hand[t] = Nothing
        /\ \A r \in Queues \ {q} : queue'[r] = queue[r]
    <3>1. Distinct(queue[q])
      BY PlaceTables DEF Places, NoDuplicate, FeedDistinct, Distinct
    <3>2. queue \in [Queues -> Seq(Presents)] /\ hand[t] = Nothing
      BY <1>0, <1>4 DEF Take, TypeOK
    <3>3. hand'[t] = Head(queue[q])
      BY <1>0, <1>4, <2>1 DEF Take, TypeOK
    <3> QED
      BY <1>4, <2>1, <3>1, <3>2, <3>3 DEF Take, Remaining
  <2>3. Held(q) \subseteq Held(q)' \cup {hand'[t]}
    <3>1. Elements(Tail(queue[q])) = Elements(queue[q]) \ {Head(queue[q])}
      BY <2>2, TailDistinct
    <3>2. Held(q) = Elements(queue[q]) /\ Held(q)' = Elements(queue'[q])
      BY DEF Held, Elements
    <3> QED
      BY <2>2, <3>1, <3>2
  <2>4. \A r \in Queues \ {q} : Held(r)' = Held(r)
    BY <2>2 DEF Held
  <2> QED
    BY <1>1, <1>2, <1>3, <2>2, <2>3, <2>4
<1>5. CASE Put(t)
  <2>1. PICK q \in Queues : q = Sink[StageOf(t)]
    BY <1>0, Tables
  <2>2. /\ queue[q] \in Seq(Presents) /\ hand[t] \in Presents
        /\ queue'[q] = Append(queue[q], hand[t])
        /\ \A r \in Queues \ {q} : queue'[r] = queue[r]
    BY <1>0, <1>5, <2>1 DEF Put, Entered, TypeOK
  <2>3. Held(q)' = Held(q) \cup {hand[t]}
    <3>1. Elements(Append(queue[q], hand[t])) = Elements(queue[q]) \cup {hand[t]}
      BY <2>2, AppendDistinct
    <3>2. Held(q) = Elements(queue[q]) /\ Held(q)' = Elements(queue'[q])
      BY DEF Held, Elements
    <3> QED
      BY <2>2, <3>1, <3>2
  <2>4. \A r \in Queues \ {q} : Held(r)' = Held(r)
    BY <2>2 DEF Held
  <2> QED
    BY <1>1, <1>3, <2>1, <2>3, <2>4
<1>6. CASE Quit(t) \/ AcquireSleigh(t) \/ Work(t) \/ ReleaseSleigh(t)
  <2>1. hand' = hand /\ queue' = queue
    BY <1>6 DEF Quit, AcquireSleigh, Work, ReleaseSleigh
  <2> QED
    BY <1>3, <2>1 DEF Held
<1> QED
  BY <1>4, <1>5, <1>6, NoneLost DEF Loop

\* The first call starts with every present of its list in the feed.
LEMMA StartStep ==
  ASSUME CoreInv, Untouched, NEW b \in Batches, StartConcurrent(b) \/ StartSequential(b)
  PROVE  Progress'
<1>0. TypeOK /\ b \in Seq(Presents) /\ "feed" \in Queues
  BY SantaAssumption, Tables DEF CoreInv
<1>1. /\ stage' = "make" /\ given' = b /\ state' = state /\ hand' = hand
      /\ queue' = [queue EXCEPT !["feed"] = b]
      /\ completed' = [completed EXCEPT !["feed"] = TRUE]
  BY <1>0 DEF StartConcurrent, StartSequential, Untouched
<1>2. Over' = {}
  BY <1>1 DEF Over
<1>3. \A t \in Threads : hand[t] = Nothing
  BY <1>0 DEF Untouched, TypeOK
<1>4. \A t \in Workers : pc'[t] # "exited"
  BY <1>0 DEF StartConcurrent, StartSequential, Untouched, TypeOK, Threads
<1>5. FreshUnmade'
  <2>1. Held("feed")' \subseteq Presents
    BY <1>0, <1>1 DEF Held, TypeOK
  <2> QED
    BY <1>1, <1>3, <2>1 DEF FreshUnmade, Fresh, Untouched
<1>6. OnlyOverCompleted'
  BY <1>0, <1>1, <1>2 DEF OnlyOverCompleted, Untouched, TypeOK
<1>7. Drained'
  BY <1>2, <1>4 DEF Drained
<1>8. Accounted'
  BY <1>0, <1>1 DEF Accounted, Held, TypeOK
<1> QED
  BY <1>5, <1>6, <1>7, <1>8 DEF Progress

\* The stage the main thread joins, or ends, has emptied its source.
LEMMA StageDrained ==
  ASSUME CoreInv, Progress, Staffed, JoinStage \/ EndLoop
  PROVE  queue[Source[stage]] = <<>>
<1>1. CASE JoinStage
  <2>1. stage \in Stages
    BY DEF CoreInv, TypeOK
  <2>2. PICK t \in Members(stage) : pc[t] = "exited"
    BY <1>1, <2>1 DEF JoinStage, Joined, Members, Staffed
  <2>3. t \in Workers /\ StageOf(t) = stage
    BY <2>1, SantaAssumption DEF Members, StageOf, Workers, Stages
  <2> QED
    BY <2>2, <2>3 DEF Progress, Drained
<1>2. CASE EndLoop
  BY <1>2 DEF EndLoop
<1> QED
  BY <1>1, <1>2

\* The end of a stage that is not the last one.
LEMMA NextStageStep ==
  ASSUME CoreInv, Progress, Staffed, JoinStage \/ EndLoop, stage # "deliver"
  PROVE  Progress'
<1>0. TypeOK /\ Phase /\ stage \in Stages
  BY DEF CoreInv, TypeOK
<1>1. /\ stage' = Following[stage] /\ UNCHANGED <<state, queue, hand, given>>
      /\ completed' = [completed EXCEPT ![Sink[stage]] = TRUE]
      /\ hand[Main] = Nothing
      /\ \A t \in Threads \ {Main} : pc'[t] = pc[t]
  BY <1>0 DEF JoinStage, EndLoop, FinishStage, CompletedAfter, Phase, TypeOK, Threads
<1>2. \A t \in Threads \ {Main} : StageOf(t)' = StageOf(t)
  BY DEF StageOf
<1>3. Over' = Over \cup {stage}
  BY <1>0, <1>1, OverTables DEF Over, Following, Stages
<1>4. FreshUnmade'
  <2>1. \A t \in Threads : Fresh(t)' => Fresh(t)
    BY <1>1, <1>2 DEF Fresh, Past
  <2> QED
    BY <1>1, <2>1 DEF Progress, FreshUnmade, Held
<1>5. OnlyOverCompleted'
  <2>1. \A q \in Queues : completed'[q] => completed[q] \/ q = Sink[stage]
    BY <1>0, <1>1, Tables DEF TypeOK
  <2> QED
    BY <1>3, <2>1 DEF Progress, OnlyOverCompleted
<1>6. Drained'
  <2>1. \A q \in Queues : completed[q] => completed'[q]
    BY <1>0, <1>1, Tables DEF TypeOK
  <2>2. \A t \in Workers : /\ t \in Threads \ {Main} /\ Source[StageOf(t)] \in Queues
                           /\ StageOf(t)' = StageOf(t)
    BY <1>0, <1>2, SantaAssumption, Posts, Tables DEF Threads
  <2>3. queue[Source[stage]] = <<>>
    BY StageDrained
  <2> QED
    BY <1>1, <1>3, <2>1, <2>2, <2>3 DEF Progress, Drained
<1>7. Accounted'
  BY <1>1 DEF Progress, Accounted, Held
<1> QED
  BY <1>4, <1>5, <1>6, <1>7 DEF Progress

\* The end of the last stage: with every other place empty, the presents of the
\* call can only be in the delivered list.
LEMMA LastStageStep ==
  ASSUME CoreInv, Progress, Staffed, JoinStage \/ EndLoop, stage = "deliver"
  PROVE  AllDelivered'
<1>0. TypeOK /\ Phase /\ stage \in Stages
  BY DEF CoreInv, TypeOK
<1>1. \A q \in Queues \ {"delivered"} : queue[q] = <<>>
  <2>1. Over = {"make", "wrap", "load"}
    BY <1>0, OverTables
  <2>2. queue[Source[stage]] = <<>>
    BY StageDrained
  <2> QED
    BY <2>1, <2>2 DEF Progress, Drained, Source, Queues
<1>2. \A t \in Threads : hand[t] = Nothing
  <2>1. CASE JoinStage
    <3>1. \A t \in Workers : pc[t] = "exited"
      BY <1>0, <2>1 DEF JoinStage, Joined, Members, Phase, Earlier, Workers
    <3>2. pc[Main] = "off"
      BY <1>0, <2>1 DEF JoinStage, Phase
    <3> QED
      BY <1>0, <3>1, <3>2 DEF Threads, TypeOK
  <2>2. CASE EndLoop
    <3>1. pc[Main] = "take" /\ \A t \in Workers : Stopped(t)
      BY <1>0, <2>2 DEF EndLoop, Phase
    <3> QED
      BY <1>0, <3>1 DEF Threads, TypeOK, Stopped
  <2> QED
    BY <2>1, <2>2
<1>3. \A i \in 1..Len(given) : given[i] \in Presents /\ given[i] # Nothing
  BY <1>0, SantaAssumption DEF TypeOK
<1>4. \A i \in 1..Len(given) : given[i] \in Held("delivered")
  BY <1>1, <1>2, <1>3 DEF Progress, Accounted, Held
<1>5. given' = given /\ Held("delivered")' = Held("delivered")
  BY <1>0 DEF JoinStage, EndLoop, FinishStage, Held, TypeOK, Queues
<1> QED
  BY <1>4, <1>5 DEF AllDelivered

LEMMA FirstCallStep == Staffed /\ CoreInv /\ Places /\ FirstCall /\ [Next]_vars => FirstCall'
<1> SUFFICES ASSUME Staffed, CoreInv, Places, FirstCall, [Next]_vars PROVE FirstCall'
  OBVIOUS
<1>0. TypeOK /\ Phase /\ calls \in Nat
  BY SantaAssumption DEF CoreInv, TypeOK
<1>1. ASSUME NEW t \in Threads, Loop(t) PROVE FirstCall'
  <2>1. call # "none" /\ call' = call /\ calls' = calls
    BY <1>0, <1>1, LoopMoves
       DEF Phase, Stopped, Loop, Take, Quit, AcquireSleigh, Work, Crash, Put, Drop, ReleaseSleigh
  <2>2. calls = 1 => Progress'
    BY <1>1, <2>1, FreshStep, DrainedStep, AccountedStep DEF FirstCall, Progress
  <2> QED
    BY <2>1, <2>2 DEF FirstCall, Untouched
<1>2. ASSUME NEW b \in Batches, StartConcurrent(b) \/ StartSequential(b) PROVE FirstCall'
  <2>1. calls' = calls + 1 /\ call' # "none"
    BY <1>2 DEF StartConcurrent, StartSequential
  <2>2. calls = 0 => Progress'
    BY <1>2, StartStep DEF FirstCall
  <2> QED
    BY <1>0, <2>1, <2>2 DEF FirstCall
<1>3. CASE JoinStage \/ EndLoop
  <2>1. call # "none" /\ calls' = calls
    BY <1>3 DEF JoinStage, EndLoop
  <2>2. calls = 1 => IF stage = "deliver" THEN AllDelivered' ELSE Progress'
    BY <1>3, <2>1, NextStageStep, LastStageStep DEF FirstCall
  <2>3. call' = "none" <=> stage = "deliver"
    BY <1>3 DEF JoinStage, EndLoop, FinishStage
  <2> QED
    BY <2>1, <2>2, <2>3 DEF FirstCall, Untouched
<1>4. CASE Raise
  <2>1. call # "none" /\ calls' = calls
    BY <1>4 DEF Raise
  <2>2. calls # 1 /\ calls # 0
    BY <1>4, <2>1, NoneLost DEF FirstCall, Untouched, Threads
  <2> QED
    BY <2>1, <2>2 DEF FirstCall
<1>5. CASE UNCHANGED vars
  BY <1>5 DEF vars, FirstCall, Untouched, Progress, FreshUnmade, OnlyOverCompleted, Drained,
     Accounted, AllDelivered, Fresh, Past, Held, StageOf, Over
<1> QED
  BY <1>1, <1>2, <1>3, <1>4, <1>5 DEF Next, Control

THEOREM FirstCallInvariant ==
  ASSUME Staffed
  PROVE  Spec => [](CoreInv /\ Places /\ FirstCall)
<1>1. Init => CoreInv /\ Places /\ FirstCall
  <2>1. Init => CoreInv /\ Places
    BY CoreInit, PlaceTables DEF Init, Places, StatesMatch, NoDuplicate, FeedDistinct,
       Distinct, Past, Fresh, Held
  <2>2. Init => FirstCall
    BY DEF Init, FirstCall, Untouched
  <2> QED
    BY <2>1, <2>2
<1>2. CoreInv /\ Places /\ FirstCall /\ [Next]_vars => (CoreInv /\ Places /\ FirstCall)'
  BY TypeStep, PhaseStep, SleighStep, PlacesStep, FirstCallStep DEF CoreInv
<1> QED
  BY <1>1, <1>2, PTL DEF Spec

\* However the workers interleave, and however small the queues, a first call
\* that returns has delivered every present it was given
\* (Pipeline.process_concurrently, process_sequentially).
THEOREM FirstCallDelivers == ASSUME Staffed PROVE Spec => [](calls <= 1 => AllDelivered)
<1>1. CoreInv /\ FirstCall => (calls <= 1 => AllDelivered)
  BY SantaAssumption DEF CoreInv, TypeOK, FirstCall, Untouched, AllDelivered
<1> QED
  BY <1>1, FirstCallInvariant, PTL

\* A pipeline that is used once loses nothing.
THEOREM OneCallDelivers == ASSUME Staffed, MaxCalls = 1 PROVE Spec => []AllDelivered
<1>1. CoreInv => calls <= 1
  BY DEF CoreInv, TypeOK
<1>2. Spec => []CoreInv
  BY CoreInvariant
<1> QED
  BY <1>1, <1>2, FirstCallDelivers, PTL

-----------------------------------------------------------------------------
(* The pipeline implements the line of presents.                           *)

LEMMA LineInit == Init => Line!Init
  BY DEF Init, Line!Init, Queues

\* A method of Present advances it; a put into the delivered list records it;
\* every other step changes neither.
LEMMA LineStep == CoreInv /\ Places /\ [Next]_vars => [Line!Next]_(Line!vars)
<1> SUFFICES ASSUME CoreInv, Places, [Next]_vars PROVE [Line!Next]_(Line!vars)
  OBVIOUS
<1>0. TypeOK
  BY DEF CoreInv
<1>a. "delivered" \in Queues /\ "delivered" # "feed"
  BY DEF Queues
<1>b. \A s \in Stages : /\ Source[s] # "delivered"
                        /\ Before[s] \in DOMAIN Line!Successor
                        /\ Line!Successor[Before[s]] = After[s]
  BY DEF Stages, Source, Before, After, Line!Successor
<1>1. ASSUME NEW t \in Threads, Loop(t) PROVE [Line!Next]_(Line!vars)
  <2>0. StageOf(t) \in Stages
    BY <1>0, Posts DEF TypeOK
  <2>1. CASE Take(t)
    <3>1. queue'["delivered"] = queue["delivered"] /\ state' = state
      BY <1>0, <1>a, <1>b, <2>0, <2>1 DEF Take, TypeOK
    <3> QED
      BY <3>1 DEF Line!vars
  <2>2. CASE Work(t)
    <3>1. hand[t] \in Presents /\ state[hand[t]] = Before[StageOf(t)]
      BY <1>0, <2>2 DEF TypeOK, Work, Fits
    <3>2. Line!Advance(hand[t])
      BY <1>b, <2>0, <2>2, <3>1 DEF Work, Line!Advance
    <3> QED
      BY <3>1, <3>2 DEF Line!Next
  <2>3. CASE Put(t) /\ Sink[StageOf(t)] = "delivered"
    <3>1. hand[t] \in Presents /\ pc[t] = "put" /\ Past(t)
      BY <1>0, <2>3, SantaAssumption DEF TypeOK, Put, Past
    <3>2. state[hand[t]] = "delivered"
      BY <2>0, <2>3, <3>1, PlaceTables DEF Places, StatesMatch
    <3>3. hand[t] \notin Line!Recorded
      BY <3>1 DEF Places, NoDuplicate, Lines, Held, Line!Recorded
    <3>4. queue'["delivered"] = Append(queue["delivered"], hand[t]) /\ state' = state
      BY <1>0, <1>a, <2>3 DEF Put, Entered, TypeOK
    <3> QED
      BY <3>1, <3>2, <3>3, <3>4 DEF Line!Next, Line!Record
  <2>4. CASE Put(t) /\ Sink[StageOf(t)] # "delivered"
    <3>1. queue'["delivered"] = queue["delivered"] /\ state' = state
      BY <1>0, <1>a, <2>4 DEF Put, TypeOK
    <3> QED
      BY <3>1 DEF Line!vars
  <2>5. CASE Quit(t) \/ AcquireSleigh(t) \/ Crash(t) \/ Drop(t) \/ ReleaseSleigh(t)
    BY <2>5 DEF Quit, AcquireSleigh, Crash, Drop, ReleaseSleigh, Line!vars
  <2> QED
    BY <1>1, <2>1, <2>2, <2>3, <2>4, <2>5 DEF Loop
<1>2. ASSUME state' = state, \/ queue' = queue
                             \/ \E b : queue' = [queue EXCEPT !["feed"] = b]
      PROVE  [Line!Next]_(Line!vars)
  BY <1>0, <1>2, <1>a DEF Line!vars, TypeOK
<1>3. ASSUME NEW b \in Batches, StartConcurrent(b) \/ StartSequential(b)
      PROVE  [Line!Next]_(Line!vars)
  BY <1>2, <1>3 DEF StartConcurrent, StartSequential
<1>4. CASE Control
  BY <1>2, <1>4 DEF Control, JoinStage, EndLoop, FinishStage, Raise
<1>5. CASE UNCHANGED vars
  BY <1>5 DEF vars, Line!vars
<1> QED
  BY <1>1, <1>3, <1>4, <1>5 DEF Next

\* Every behaviour of the pipeline is one of the abstract line of presents.
THEOREM PipelineImplementsLine == Spec => ImplementsLine
<1>1. Init => Line!Init
  BY LineInit
<1>2. CoreInv /\ Places /\ [Next]_vars => [Line!Next]_(Line!vars)
  BY LineStep
<1> QED
  BY <1>1, <1>2, PlacesInvariant, PTL DEF Spec, ImplementsLine, Line!Spec
=============================================================================
