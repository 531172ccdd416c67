---------------------------- MODULE SantaPipeline ----------------------------
(***************************************************************************)
(* The present pipeline of multi-threaded-santa (python): four stages of   *)
(* worker threads, Make -> Wrap -> Load -> Deliver, joined by bounded      *)
(* queues.  Loading and delivering exclude each other by the sleigh lock;  *)
(* the main thread joins the stages in order and completes the queue       *)
(* behind each.  The main thread can also run all four stages itself       *)
(* (process_sequentially), on the same queues.                             *)
(*                                                                         *)
(* One step is one call that another thread can observe: a dequeue, the    *)
(* lock, the change of a present's state, an enqueue, a release, a join.   *)
(***************************************************************************)
EXTENDS Naturals, Sequences

CONSTANTS
    Presents,           \* the presents in play
    Makers,             \* the threads of each stage; delivery has exactly one
    Wrappers,
    Loaders,
    Deliverer,
    Main,               \* the thread that calls the pipeline
    Nobody,             \* the holder of a free sleigh lock
    Nothing,            \* what an empty-handed thread holds
    MadeCapacity,
    WrappedCapacity,
    LoadedCapacity,
    Batches,            \* the lists of presents a call may be given
    Modes,              \* the calls a client makes: concurrent, sequential
    MaxCalls            \* bound: calls made on one pipeline

Workers == Makers \cup Wrappers \cup Loaders \cup {Deliverer}
Threads == Workers \cup {Main}

\* A list names no present twice: the model does not split the check and the
\* assignment inside Present.make, which only two threads making one present
\* could tell apart.
ASSUME SantaAssumption ==
    /\ Makers \cap Wrappers = {} /\ Makers \cap Loaders = {}
    /\ Wrappers \cap Loaders = {}
    /\ Deliverer \notin Makers \cup Wrappers \cup Loaders
    /\ Main \notin Workers
    /\ Nobody \notin Threads
    /\ Nothing \notin Presents
    /\ MadeCapacity \in Nat \ {0}
    /\ WrappedCapacity \in Nat \ {0}
    /\ LoadedCapacity \in Nat \ {0}
    /\ \A b \in Batches : /\ b \in Seq(Presents)
                          /\ \A i, j \in 1..Len(b) : b[i] = b[j] => i = j
    /\ Modes \subseteq {"concurrent", "sequential"}
    /\ MaxCalls \in Nat

-----------------------------------------------------------------------------
Stages == {"make", "wrap", "load", "deliver"}
States == {"unmade", "made", "wrapped", "loaded", "delivered"}
Queues == {"feed", "made", "wrapped", "loaded", "delivered"}

\* What a stage consumes, what it produces, and the state of a present before
\* and after its method (make, wrap, load, deliver).
Source == [make |-> "feed",   wrap |-> "made",    load |-> "wrapped", deliver |-> "loaded"]
Before == [make |-> "unmade", wrap |-> "made",    load |-> "wrapped", deliver |-> "loaded"]
After  == [make |-> "made",   wrap |-> "wrapped", load |-> "loaded",  deliver |-> "delivered"]
Following == [make |-> "wrap", wrap |-> "load", load |-> "deliver", deliver |-> "make"]

\* Variant: makers feed the loaders.
SinkMiswired == [make |-> "wrapped", wrap |-> "wrapped", load |-> "loaded", deliver |-> "delivered"]

Sink == [make |-> "made", wrap |-> "wrapped", load |-> "loaded", deliver |-> "delivered"]

Bounded == {"made", "wrapped", "loaded"}
Capacity == [made |-> MadeCapacity, wrapped |-> WrappedCapacity, loaded |-> LoadedCapacity]

VARIABLES
    state,      \* the lifecycle state of each present
    queue,      \* the feed, the three bounded queues and the delivered list
    completed,  \* whether complete() was called on a queue
    sleigh,     \* the thread that holds the sleigh lock
    pc,         \* where each thread is
    hand,       \* the present each thread holds between a dequeue and an enqueue
    call,       \* the call the main thread is in
    stage,      \* the stage it is joining, or running
    calls,      \* calls made so far
    given       \* history: the presents given to the calls, in order

vars == <<state, queue, completed, sleigh, pc, hand, call, stage, calls, given>>

StageOf(t) == CASE t = Main      -> stage
                [] t \in Makers   -> "make"
                [] t \in Wrappers -> "wrap"
                [] t \in Loaders  -> "load"
                [] OTHER          -> "deliver"

Members(s) == CASE s = "make" -> Makers
                [] s = "wrap" -> Wrappers
                [] s = "load" -> Loaders
                [] OTHER      -> {Deliverer}

\* Variant: the lock excludes loaders from each other only.
UsesSleighToLoad(t) == t \in Loaders

\* Only worker threads take the sleigh lock; process_sequentially does not.
UsesSleigh(t) == t \in Loaders \cup {Deliverer}

\* Variant: room for one present more than the capacity.
HasRoomInclusive(q) == q \in Bounded => Len(queue[q]) <= Capacity[q]

\* The delivered list and the feed, made to measure, are never full.
HasRoom(q) == q \in Bounded => Len(queue[q]) < Capacity[q]

\* Variant: a get that leaves the item.
RemainingPeeked(q) == queue[q]

\* The queue after a get, and after a put.
Remaining(q) == Tail(queue[q])
Entered(q, p) == Append(queue[q], p)

\* Variant: the methods of Present do not look at its state.
FitsAlways(t) == TRUE

\* The guard of make, wrap, load and deliver.
Fits(t) == state[hand[t]] = Before[StageOf(t)]

\* Variant: the sleigh lock is never released.
AfterPutHolding(t) == "take"

\* Leaving the "with sleigh_lock" block, for those who entered it.
AfterPut(t) == IF UsesSleigh(t) THEN "release" ELSE "take"

\* Variant: one thread of the stage is enough.
JoinedOne(s) == \E t \in Members(s) : pc[t] = "exited"

Joined(s) == \A t \in Members(s) : pc[t] = "exited"

\* complete() on the output queue of a stage.
CompletedAfter(s) == [completed EXCEPT ![Sink[s]] = TRUE]

Init ==
    /\ state = [p \in Presents |-> "unmade"]
    /\ queue = [q \in Queues |-> <<>>]
    /\ completed = [q \in Queues |-> FALSE]
    /\ sleigh = Nobody
    /\ pc = [t \in Threads |-> "off"]
    /\ hand = [t \in Threads |-> Nothing]
    /\ call = "none" /\ stage = "make" /\ calls = 0 /\ given = <<>>

-----------------------------------------------------------------------------
(* The worker loop, one iteration per present.                             *)

\* queue.get succeeds.
Take(t) ==
    LET q == Source[StageOf(t)] IN
    /\ pc[t] = "take"
    /\ queue[q] # <<>>
    /\ hand' = [hand EXCEPT ![t] = Head(queue[q])]
    /\ queue' = [queue EXCEPT ![q] = Remaining(q)]
    /\ pc' = [pc EXCEPT ![t] = IF UsesSleigh(t) THEN "acquire" ELSE "work"]
    /\ UNCHANGED <<state, completed, sleigh, call, stage, calls, given>>

\* queue.get times out on a queue that is completed and empty: the loop ends.
\* The flag is never cleared, so the reads of the flag and then of the queue
\* are one step at the second.
Quit(t) ==
    LET q == Source[StageOf(t)] IN
    /\ t \in Workers
    /\ pc[t] = "take"
    /\ completed[q]
    /\ queue[q] = <<>>
    /\ pc' = [pc EXCEPT ![t] = "exited"]
    /\ UNCHANGED <<state, queue, completed, sleigh, hand, call, stage, calls, given>>

AcquireSleigh(t) ==
    /\ pc[t] = "acquire"
    /\ sleigh = Nobody
    /\ sleigh' = t
    /\ pc' = [pc EXCEPT ![t] = "work"]
    /\ UNCHANGED <<state, queue, completed, hand, call, stage, calls, given>>

\* make(), wrap(), load() or deliver() on a present in the state it expects.
Work(t) ==
    /\ pc[t] = "work"
    /\ Fits(t)
    /\ state' = [state EXCEPT ![hand[t]] = After[StageOf(t)]]
    /\ pc' = [pc EXCEPT ![t] = "put"]
    /\ UNCHANGED <<queue, completed, sleigh, hand, call, stage, calls, given>>

\* The same call on a present in another state raises.  The exception ends a
\* worker thread, releasing the sleigh on the way; nobody is told.
Crash(t) ==
    /\ t \in Workers
    /\ pc[t] = "work"
    /\ ~Fits(t)
    /\ pc' = [pc EXCEPT ![t] = "exited"]
    /\ hand' = [hand EXCEPT ![t] = Nothing]
    /\ sleigh' = IF sleigh = t THEN Nobody ELSE sleigh
    /\ UNCHANGED <<state, queue, completed, call, stage, calls, given>>

\* enqueue on an open queue blocks while the queue is full.
Put(t) ==
    LET q == Sink[StageOf(t)] IN
    /\ pc[t] = "put"
    /\ ~completed[q]
    /\ HasRoom(q)
    /\ queue' = [queue EXCEPT ![q] = Entered(q, hand[t])]
    /\ hand' = [hand EXCEPT ![t] = Nothing]
    /\ pc' = [pc EXCEPT ![t] = AfterPut(t)]
    /\ UNCHANGED <<state, completed, sleigh, call, stage, calls, given>>

\* enqueue on a completed queue returns False, and no worker looks at it.
Drop(t) ==
    /\ pc[t] = "put"
    /\ completed[Sink[StageOf(t)]]
    /\ hand' = [hand EXCEPT ![t] = Nothing]
    /\ pc' = [pc EXCEPT ![t] = AfterPut(t)]
    /\ UNCHANGED <<state, queue, completed, sleigh, call, stage, calls, given>>

ReleaseSleigh(t) ==
    /\ pc[t] = "release"
    /\ sleigh' = Nobody
    /\ pc' = [pc EXCEPT ![t] = "take"]
    /\ UNCHANGED <<state, queue, completed, hand, call, stage, calls, given>>

-----------------------------------------------------------------------------
(* The main thread.                                                        *)

\* process_concurrently fills a feed queue of its own, completes it and starts
\* every worker.
StartConcurrent(batch) ==
    /\ call = "none" /\ "concurrent" \in Modes
    /\ calls < MaxCalls
    /\ calls' = calls + 1
    /\ given' = given \o batch
    /\ call' = "concurrent"
    /\ stage' = "make"
    /\ queue' = [queue EXCEPT !["feed"] = batch]
    /\ completed' = [completed EXCEPT !["feed"] = TRUE]
    /\ pc' = [t \in Threads |-> IF t = Main THEN "off" ELSE "take"]
    /\ UNCHANGED <<state, sleigh, hand>>

\* process_sequentially: the main thread is the one worker of every stage.
StartSequential(batch) ==
    /\ call = "none" /\ "sequential" \in Modes
    /\ calls < MaxCalls
    /\ calls' = calls + 1
    /\ given' = given \o batch
    /\ call' = "sequential"
    /\ stage' = "make"
    /\ queue' = [queue EXCEPT !["feed"] = batch]
    /\ completed' = [completed EXCEPT !["feed"] = TRUE]
    /\ pc' = [pc EXCEPT ![Main] = "take"]
    /\ UNCHANGED <<state, sleigh, hand>>

\* The current stage is over: its output queue is completed, and after the
\* last stage the call returns, and its local feed with it.
FinishStage ==
    /\ stage' = Following[stage]
    /\ IF stage = "deliver"
       THEN /\ call' = "none"
            /\ queue' = [queue EXCEPT !["feed"] = <<>>]
            /\ completed' = [completed EXCEPT !["feed"] = FALSE]
       ELSE /\ completed' = CompletedAfter(stage)
            /\ UNCHANGED <<queue, call>>

\* Every thread of the stage has been joined.
JoinStage ==
    /\ call = "concurrent"
    /\ Joined(stage)
    /\ FinishStage
    /\ UNCHANGED <<state, sleigh, pc, hand, calls, given>>

\* The sequential loop of a stage has drained its queue.
EndLoop ==
    /\ call = "sequential"
    /\ pc[Main] = "take"
    /\ completed[Source[stage]]
    /\ queue[Source[stage]] = <<>>
    /\ pc' = [pc EXCEPT ![Main] = IF stage = "deliver" THEN "off" ELSE "take"]
    /\ FinishStage
    /\ UNCHANGED <<state, sleigh, hand, calls, given>>

\* An exception inside process_sequentially reaches its caller, and leaves the
\* queues as they are.
Raise ==
    /\ call = "sequential"
    /\ pc[Main] = "work"
    /\ ~Fits(Main)
    /\ pc' = [pc EXCEPT ![Main] = "off"]
    /\ hand' = [hand EXCEPT ![Main] = Nothing]
    /\ call' = "none"
    /\ stage' = "make"
    /\ queue' = [queue EXCEPT !["feed"] = <<>>]
    /\ completed' = [completed EXCEPT !["feed"] = FALSE]
    /\ UNCHANGED <<state, sleigh, calls, given>>

-----------------------------------------------------------------------------
Loop(t) == \/ Take(t) \/ Quit(t) \/ AcquireSleigh(t) \/ Work(t) \/ Crash(t)
           \/ Put(t) \/ Drop(t) \/ ReleaseSleigh(t)

Control == JoinStage \/ EndLoop \/ Raise

Next ==
    \/ \E t \in Threads : Loop(t)
    \/ \E b \in Batches : StartConcurrent(b) \/ StartSequential(b)
    \/ Control

Spec == Init /\ [][Next]_vars

\* The operating system runs every thread that can run: a thread is never
\* passed over for ever.  Nothing makes the client call again.
Fairness == WF_vars(Control) /\ \A t \in Threads : WF_vars(Loop(t))
FairSpec == Spec /\ Fairness

-----------------------------------------------------------------------------
\* Types, and the capacities of the bounded queues.
TypeOK ==
    /\ state \in [Presents -> States]
    /\ queue \in [Queues -> Seq(Presents)]
    /\ \A q \in Bounded : Len(queue[q]) <= Capacity[q]
    /\ completed \in [Queues -> BOOLEAN]
    /\ sleigh \in Threads \cup {Nobody}
    /\ pc \in [Threads -> {"off", "take", "acquire", "work", "put", "release", "exited"}]
    /\ hand \in [Threads -> Presents \cup {Nothing}]
    /\ \A t \in Threads : hand[t] = Nothing <=> pc[t] \notin {"acquire", "work", "put"}
    /\ call \in {"none", "concurrent", "sequential"}
    /\ stage \in Stages
    /\ calls \in 0..MaxCalls
    /\ given \in Seq(Presents)

Held(q) == {queue[q][i] : i \in 1..Len(queue[q])}

\* The presents that entered the line: past make(), in a queue or in a hand.
Lines == Bounded \cup {"delivered"}
Past(t) == hand[t] # Nothing /\ ~(StageOf(t) = "make" /\ pc[t] = "work")

\* A present in a queue or in a hand is in the state that place expects: in
\* queue q it is in state q, in a hand it is in the state before the stage's
\* method until that method ran, and in the state after it from then on.
\* This is why wrap(), load() and deliver() never raise, whatever the calls.
StatesMatch ==
    /\ \A q \in Lines : \A p \in Held(q) : state[p] = q
    /\ \A t \in Threads : Past(t) =>
         state[hand[t]] = IF pc[t] = "put" THEN After[StageOf(t)] ELSE Before[StageOf(t)]

\* No present past make() is in two places at once, so none is loaded or
\* delivered twice, even when calls are repeated and share presents.
NoDuplicate ==
    /\ \A q \in Lines : \A i, j \in 1..Len(queue[q]) : queue[q][i] = queue[q][j] => i = j
    /\ \A q, r \in Lines : q # r => Held(q) \cap Held(r) = {}
    /\ \A t \in Threads, q \in Lines : Past(t) => hand[t] \notin Held(q)
    /\ \A t, u \in Threads : Past(t) /\ Past(u) /\ hand[t] = hand[u] => t = u

\* A worker is in the sleigh while it loads or delivers.
InSleigh(t) == t \in Loaders \cup {Deliverer} /\ pc[t] \in {"work", "put", "release"}

\* "Only one delivery at a time; loading pauses during delivery."
SleighExclusion == \A t, u \in Threads : InSleigh(t) /\ InSleigh(u) => t = u

\* A call that returned normally delivered every present it was given.
AllDelivered ==
    call = "none" => \A i \in 1..Len(given) : given[i] \in Held("delivered")

\* A call returns: no interleaving leaves the threads waiting on each other.
Returns == call # "none" ~> call = "none"

\* The pipeline implements the abstract line of presents.
Line == INSTANCE PresentLine WITH delivered <- queue["delivered"]
ImplementsLine == Line!Spec
=============================================================================
