# TLA+ models of the tddbuddy reference katas

The repository holds over seventy katas, each written in Python, TypeScript and C#.
They share no code and call no common service: every kata is a system of its own, and
this project treats each as a component. The models are translated from the Python
implementations (`src/<kata>/python/src`). Most katas are pure functions of their
input; about thirty keep state between calls, and one runs threads. The models begin
with those whose state is hard to keep right.

To parse a module run `tlasany M.tla`, to check a run `tlc -config X.cfg MCM.tla`
with the module and configuration of the table under *Runs*, to check the proofs
`tlapm M.tla` with a module of the table under *Proofs*.

## Inventory

### Components with a model

| component | state it keeps | operations | collaborators | what is hard | what makes it correct |
|---|---|---|---|---|---|
| multi-threaded-santa | four queues with a completion flag, a lock, a delivered list, the state of every present | `process_concurrently`, `process_sequentially`, four worker loops | threads of the operating system, `BoundedQueue` | interleavings, a lock held over a blocking put, flags that are never reset | a present passes the stages in order and once; loading and delivering exclude each other; a call returns with everything delivered |
| library-management | copies with a status, open loans, a queue of reservations a title | add, remove, check out, return, reserve, expire | clock, notifier | copies removed while out or kept back; a sweep that changes the queues it walks | a copy is lent once; only the head is told, and finds a copy; queues are served in order |
| circuit-breaker | state, failure count, opening time | `execute` | an operation that may call the breaker again, clock | state read before the operation and written after it | operations are not invoked at the threshold before the timeout |
| rate-limiter | a window and a count a key | `request` | clock | windows that start at requests; boundaries | at most twice the limit in any window's length; the wait told is exact |
| memory-cache | an ordered dictionary with times | put, get, contains, evict_expired | clock | expired entries that still take room, an order rebuilt from its middle | the latest value, never an expired one; a live key is lost only after enough others were used |
| laundry-reservation | reservations, a failure count a machine, the MachineApi's registrations, the machines' locks | create, claim, lock, unlock | mail, SMS, pin generator, selector, devices | notices and devices that raise and locks that are refused in the middle of a call | repository, lock and customer agree on the pin; a pin survives few guesses |
| video-club-rental | users, titles under a name, rentals, an overdue flag | register, add, donate, rent, return, sweep | notifier, clock | objects that were replaced and are still held; alerts that raise | stock is conserved; the flag has a cause and is not lost |
| event-sourcing | a stream of events, accounts rebuilt from it | open, rebuild, deposit, withdraw, close, history, balance at a time | the callers who keep the stream | stale accounts, lost events, timestamps out of order | a stream whose writers had read it is never overdrawn; every view of it tells one story |
| zombie-survivor | survivors, members, the level and end of the game | add, wound, equip, discard, kill, unlock, through the game and directly | callers who hold the survivors | a level computed at some changes and not at others, wounds and kills the game is not told of | the level is that of the best living member but for what the game does not look at; the game ends when nobody lives |
| parking-lot | free spots, active tickets | entry, exit | drivers with any ticket they ever got, clock | tickets compared by value, hour boundaries | spots are conserved; stays are billed the fewest hours |
| snake-game | the snake, its direction, food, score, state | turn, tick | a food spawner | several turns between two ticks, a board that fills up | the snake is one path that never crosses itself; food lies where it is not |
| expense-report | expenses, a status, a reason | add, remove, submit, approve, reject, reopen | policy | `submit` and `remove_expense` never look at the status | a decided report holds nothing that was not decided on |
| shopping-cart | lines of product and quantity | add, remove, update, total | discount policies | lines merged by SKU, groups half full | each SKU asked for once; free units follow paid ones |
| supermarket-pricing | scans by SKU, deals | scan, scan by weight, total | pricing rules | deals that compete for a SKU, or pair it with itself | each unit is sold once, but for those |
| heavy-metal-bake-sale | stock | total of an order, change | callers who pay | stock is taken before payment | what left the stock is owed or paid |
| robot-factory | an order | configure, cost, purchase | suppliers | a supplier found again by name, one who refuses what he quoted, a purchase that stops halfway | what is bought is what was costed, and cheapest |
| clam-card | rides, charges of two zones | travel, complete | callers who hold journeys | journeys that overlap or are completed twice | each zone is charged up to its cap |
| blog-web-app | users, posts, comments, tags | create, edit, delete, tag, list | users | ids after deletions, ties in listings | ids are never given twice, the views agree |
| csv-query | rows and columns | select, where, order_by, limit | the table | numbers, texts and nan in one column | filters and sorting agree and keep the order |
| linked-list | a chain and a count | append, prepend, insert, remove, search | | a count kept apart | the chain is the sequence built |
| weather-station | readings, thresholds | record, statistics | | alerts one at a time, statistics over all; a comparison that raises after the reading is kept | they agree on what was passed |
| roll-your-own-mock-framework | calls, stubs | call, when, verify | tests | several stubs for one call, set up between calls | an answer is one set up for that call |
| calc-refactor | display, pending operator, remembered operand, flags | sixteen keys | | repeated equals, an error in the middle of a key | the flags are one mode; *Error* is shown in error |
| mars-rover | position, heading, obstacle | a string of commands | obstacles | edges, a stop in the middle of a string | a drive is undone by its opposites |
| tennis-score | points, games, sets, what was just won | a point, the score | | counters reset by one another | wins are taken at once and announced |
| tic-tac-toe | a board | place, outcome | | two lines at once | the last move wins |
| jelly-vs-tower | healths, towers | a round | a random source | the target changes within a round | the front falls first |
| maze-walker | visited cells, a queue, predecessors | find a path | | cells met by two ways | the path is a shortest one |
| poker-hands | a hand | evaluate, compare | | ties by groups of ranks | hands are in one order |

### Components with state and no model

bank-account, social-network, bingo, fluent-calc, url-shortener, todo-list,
character-copy and gilded-rose keep some state. Most are a list or a map whose
operations read or write one entry; those worth a model are in the plan.

### Pure components

These compute a result from their arguments and keep nothing: game-of-life, kata-potter,
roman-numerals, change-maker, bowling-game, balanced-brackets, tennis-refactoring,
bank-ocr, markdown-parser, string-transformer, string-calculator, url-parts,
code-breaker, pagination, password, timesheet-calc, text-justification, word-wrap,
greeting, numbers-to-words, ip-validator, metric-converter, end-of-line-trim,
anagram-detector, rock-paper-scissors, diamond, conways-sequence, age-calculator,
time-zone-converter, last-sunday, prime-factors, fizz-buzz-whiz, 100-doors, leap-year,
recipe-calculator and roll-your-own-test-framework. `docs` holds text only.

## Conventions of the models

A call that raises before it changes anything changes nothing: it is a step that is not
enabled. A call that raises in the middle is an action with the changes made so far.
Where the callers can hold an object the component no longer knows (a replaced `User`, a
paid ticket, an account behind its stream), the model lets them. A variable marked
*history* is in no class of the code: it records what a property needs to speak of the
past, and no guard reads it. A definition commented *Variant* is the mistake that the
definition below it avoids; no action uses it.

Counters and queues that the code never bounds are bounded by constants marked
*bound* in their modules, in guards that stop the model and not the code. A state in
which a bound, or the last day, stops everything is not a deadlock of the program, so
most configurations say `CHECK_DEADLOCK FALSE`; so does a pipeline whose calls have all
returned. `CacheLru`, which always has a lookup to make, checks for deadlock.

## Modules

**SantaPipeline** has one program counter a thread. A step is one call that another
thread can observe: `Take` is `queue.get`, `AcquireSleigh` and `ReleaseSleigh` are the
two ends of `with self._sleigh_lock`, `Work` the present's own method and `Crash` the
same raising, `Put` and `Drop` `enqueue` on an open and on a completed queue, `Quit` the
end of the iterator. The main thread starts a call with `StartConcurrent` or
`StartSequential`, goes through the stages with `JoinStage` or `EndLoop`, and leaves an
exception with `Raise`. **PresentLine** is what the pipeline promises, without threads or
queues: a present moves through its states in order and is recorded as delivered once,
after it was delivered. A list that names one present twice is excluded by the
assumption, because the model takes the check and the assignment inside `make` as one
step.

**Library** has a set of copies and a queue a title, a status a copy and the open loans in
order. `check_out` is two actions, `CheckOutReserved` for the told head of the queue and
`CheckOutAvailable`, which the code allows only while no copy of the title is reserved;
`ExpireReservations` is the whole sweep with its notifications: of the titles with an
expired reservation it reaches all, or, where the notifier may raise (`NotifierRaises`),
any, and the last one reached may not have passed its copy on.

**CircuitBreaker** counts the calls in progress, since an operation may call `execute`
again. `Enter` is `execute` up to the operation, `Succeed` and `Fail` what follows.
**FailFast** is a breaker without a circuit: an operation is invoked only below the
threshold, or when the timeout has passed since the latest failure.

**RateLimiter** is `request` as `OpenWindow`, `CountRequest` and `Reject`, with the times
of the allowed requests and of the promises as history.

**MemoryCache** keeps the dictionary's order as a relation: for each cached key the keys
ahead of it. **LruMap** is a map without a size that remembers every put and may miss a
live key only after `Capacity` others were used.

**LaundryReservation** is both services and what they call. Where a notifier may raise, or a
device refuse or raise, the action has a disjunct for it that keeps what was done before.
A device that raises may have locked or unlocked its machine or not: `LockRaises` and
`UnlockRaises` choose. The histories are who met trouble (`troubled`), and what a call
that raised left on a counter (`carried`).

**VideoClub** keeps every `User` and `Title` ever made, since rentals and callers hold on to
objects that a later one has replaced in the dictionaries.

**EventSourcing** has the stream as saved and an account for each caller. A command applies
its event and the caller saves or loses it. The folds are those of the code.

**ZombieSurvivor** has survivors that exist before and without the game, as in the code.
`WoundSurvivor` and `KillZombie` are the game's methods, with the checks for the end and
the level they call; `ReceiveWound` and `KillZombieAlone` are the survivor's own, which
anyone may call and which check nothing. What the game then does not see is history:
`above` and `below` that its level may be too low or too high since it last looked,
`unaided` who left Blue without it, `unnoticed` a death it was not told of.

**ParkingLot** has the free spots, the active tickets and every ticket ever issued, any of
which may be handed in.

**SnakeGame** has a turn and three kinds of tick.

**ExpenseReport** has every method of `Report`; the history is what was last decided on.

**TennisMatch**, **TicTacToe** and **JellyTower** have a point, a move and a round as their
one action. A round's outcomes are a set, since the damage is drawn.

A stub of **MockFramework** remembers how many calls there had been, so that a property can
say which stubs a call found.

**MockFramework**, **Calculator** and **MarsRover** have `when` and calls; one action a kind
of key; a whole command string as one action, its outcome a fold over the commands.
The history `trip` is the rover that a string was given to, and the string.
**Games** is these six, the snake and the survivors side by side: `GamesEndRightly` is what
the games have in common, `ToldIsKept` what the three devices have.

The smaller katas have a module each, with one variable for the object and often a
second for what its callers remember of it.

- **ShoppingCart**, **Checkout**: the carts, each discount policy and pricing rule as an
  operator, and the totals computed from the state. What the constructors accept is the
  assumption on the constants.
- **BakeSale**, **RobotFactory**, **ClamCard**: a sale, a purchase or a journey as one
  action, with its refusals as guards. A purchase that meets a supplier without the part, or
  one who refuses what he quoted, keeps the parts bought so far.
- **Charges** is these five and the car park side by side, and `ChargedRightly` what they
  have in common.
- **Blog**, **CsvQuery**, **LinkedList**, **WeatherStation**: the data and its views. A
  cell of a table is a number, `NaN` or a text, with its rank among texts, and a sort that
  meets a `NaN` may leave its rows in any order (`Shuffled`); a reading of the station may
  be `NotANumber`, and `Record` then keeps it and loses its alerts, as the code does; a node of a list is a
  number, and `content` is the sequence the calls should have built.
- **MazeWalker** begins a search with `FindPath` and takes one cell off the queue per
  step, so that the invariant of the search is visible; **PokerHands** makes one hand of a
  deck with `Deal`.
- **Views** is these six side by side: `ViewsAgree` is what the four that keep data have in
  common, `SearchesAreExact` what the two that search have. **Sorting** is Python's `sorted`
  and its comprehension with a condition. A sorted list has, in each place, the element
  behind as many as come before it; a filtered one is what is left of its places in
  ascending order. Neither sorts one element at a time, so both can be reasoned about
  without an induction over how a list was made.

**MCAggregates** composes the objects that have one caller or more and no threads, which do
not interact: a behaviour chooses one and drives it. All twenty-four are extended, so that
TLC evaluates their assumptions as the proofs use them. One run asks all their questions,
and the conjuncts of `GamesEndRightly`, `ChargedRightly`, `ViewsAgree`, `ToldIsKept` and
`SearchesAreExact` are the properties of those modules. **MCSantaPipeline** instantiates
the pipeline; the library, the cache, the breaker, the video club and the calculator are
run as they are.

## Runs

| run | module, configuration | bounds | what it shows |
|---|---|---|---|
| SantaConcurrent | MCSantaPipeline | 3 presents, 2 makers, 1 wrapper, 2 loaders, loaded queue of 2, others of 1 | under fair threads one call returns under every interleaving and delivers everything (`Returns`, `AllDelivered`) |
| SantaReuse | MCSantaPipeline | two calls of either kind that share a present | no present is duplicated or in a wrong state, loading and delivering exclude each other, `PresentLine` is implemented |
| SantaSleighWedge | MCSantaPipeline | as SantaConcurrent, loaded queue of 1 | *violated*: a loader waits for room with the sleigh in hand, the deliverer for the sleigh with a present in hand |
| SantaSecondCall | MCSantaPipeline | two concurrent calls with room for all | *violated*: the second call returns normally without its presents, since the queues stay completed |
| LibraryTitle | Library | 1 title, 3 copies, 3 members, 3 days, expiry after 1, a notifier that may raise | loans, notices and queues agree, also when copies are removed at any time |
| LibraryRefused | Library | 1 title, 3 copies, 2 members | *violated*: a copy that stays reserved for nobody makes `check_out` refuse an available one |
| BreakerNested | CircuitBreaker | threshold 3, timeout 2, 3 calls inside each other, 6 failures, 6 units of time | the count is true, a half-open circuit is being probed, `FailFast` is implemented |
| BreakerReentrant | CircuitBreaker | threshold 1, 2 calls | *violated*: the success of an outer call closes the circuit an inner call has just opened |
| CacheLru | MemoryCache | 4 keys, 2 values, capacity 3, ttl 2 | eviction follows use, `LruMap` is implemented |
| VideoClubRentals | VideoClub | 2 users, 2 titles of one name, 2 copies, 4 days | stock and flags |
| CalculatorError | Calculator | digits 0 and 2, numbers up to 22 | *violated*: an operator key that folds a division by zero leaves 0 on the display of a calculator in error |
| Aggregates | MCAggregates | 2 customers, 2 machines, 2 reservations; 2 callers, 4 events; 2 survivors; 3 spots, 2 plates, 3 tickets (all under the same two names); a board of 3 by 3; a limiter of 2 keys, limit 2, window 2, 5 units of time; the smaller objects as defined in MCAggregates | pins, streams, levels, spots, snakes and windows, charges, views, games, answers and searches, each from all orders of calls |

### Why the bounds are enough

Each bound is set so that the case a property fears occurs. Santa: three presents in a
loaded queue of two let a loader wait for room while another holds the sleigh, two
makers race for one present, and two overlapping batches meet completed queues. Library:
three copies allow one out, one kept back and one available, and three members a queue
whose second waits; three days let a reservation expire and the next one after it.
Breaker: three levels and a threshold of three let every mixture of failures inside and
outside trip and reset it. Limiter: two windows of two requests and half a third. Cache:
one key more than fits, and time for every entry to expire. Laundry: a lock-out for the
second time, a machine shared by two reservations, and one that a device left locked for a
used reservation while the next is made. Ledger: open, deposit, withdraw
and one more by either caller, and timestamps that go back. Zombies: every level (begun
after 1, 2 and 3 kills), death before and after joining and unknown to the game, kills the
game is told of and not in every order, one capacity skill. Parking: a motorcycle in each kind of spot,
a ticket of a former stay. Snake: nine cells let it close on itself and fill the board.
Charges: one SKU sold under two policies, two deals over one SKU and a deal of a SKU with
itself, two products of one code, suppliers of one name and of two, six rides over caps that are reached with the third. Views:
two posts with times that tie, 9 and 10 in the order of numbers and against that of
texts, a nan among texts and numbers, readings of which a temperature or a humidity is no
number, four nodes. Mock: a call stubbed twice, before, between and after calls. Games: points to deuce and back, sets to 7 games, all boards of
tic-tac-toe, jellies of each color before towers of different levels. Searches: every
wall in a maze of nine cells, all 2002 hands of fourteen cards that hold every rank of
hand.

### Symmetry

Names of workers of one stage are told apart only by being different, and are permuted. So
are the two machines of the laundry, and the two names that stand for its customers, the
callers of the ledger, the survivors, the plates and the limited keys: a behaviour of
Aggregates drives one object, so they may be the same. Runs with a liveness property, and
the runs of the library, the cache and the video club, use no symmetry.

### Fairness

`Returns` is checked under weak fairness of every thread and of the main thread's
control: an operating system that does not starve a thread for ever, which is all that
`threading` gives. Nothing is assumed of the client, who may never call again, and nothing
of the order in which waiting threads get a queue or the lock. All other properties are
about safety and need no fairness.

## What the violations say

Each is a disagreement between the code and its documents, with the line quoted in
`PROJECT.json`: the pipeline's walkthrough promises no deadlock, its scenarios that all
presents are delivered when it completes, the library's scenarios that an available copy
can be checked out, the breaker's that it leaves the open state only through the
timeout and a probe, and the calculator's that its display reads *Error* in the error
state. What the code does promise instead is in passing runs: the pipeline
never duplicates or misorders a present, the library finds a copy for whoever it told,
and the breaker keeps `FailFast` although a circuit may close early, because the count
that the outer success clears is also what `FailFast` counts. The calculator shows no
error where there is none, and takes no key but clear until it is cleared.

### Documents that disagree without a run of their own

In these the code does not do what a line of a document says, or one line admits a case
that another denies. The passing runs include the case, and their properties are stated of
what the code does.

- Zombies, `SCENARIOS.md:28`: the game level "equals the highest level among living
  survivors". It stays when its best member dies, when an experienced one joins, and when a
  member kills a zombie by himself (`game.py:34-40, 56-73`). `LevelIsHighest` says in which
  direction each of these puts it off, and that nothing else does. By `:26` the game ends
  when all are dead, but the last wound may be one it was not told of
  (`survivor.py:66-70`), and by `:30` Yellow gives an action, but not to who reaches it by
  his own `kill_zombie`: `GoesOnWithLiving` and `WithinMeans` have these as their cases.
- Supermarket, `SCENARIOS.md:26`: "Scanning order does not affect the total". Of two
  products of one SKU the first scanned prices both (`checkout.py:51-53`). `SoldOnce`
  speaks of the product first scanned. By `:25` a combination deal applies once a pair; one of
  a SKU with itself takes every unit for two, and so charges each pair of units twice
  (`checkout.py:33-40`). `DealsAreMade` names such deals as the only ones that take a unit
  twice. Units scanned of a product priced by weight are charged nothing.
- Mock, `SCENARIOS.md:21`: calls after `thenReturn` "return the configured value". A call
  stubbed again keeps its first answer (`mock.py:97-99`). `AnswersStand` says that an
  answer was configured for the call and before it, and which one when there is one; of
  several it says nothing, so that either reading satisfies it.
- Weather, `SCENARIOS.md:25`: rejected readings "leave the station unchanged". A temperature
  that is no number is kept and then makes `record` raise (`station.py:44, 73`), and the
  statistics raise from then on. `AlertsMatchStatistics` holds of what can still be had.
- Laundry, `SCENARIOS.md:32, 35`: a successful claim unlocks the machine and resets the
  counter. A device that raises in `unlock` leaves the reservation used, registered and
  perhaps locked in, and the counter as it was (`reservation_service.py:67-70`). `PinsAgree`
  and `GuessesCounted` say that nothing worse happens and to whom.
- Snake, `SCENARIOS.md:27`: "The snake cannot reverse direction". Two turns between two
  ticks reverse it (`snake.py:43`); one of a single cell goes on backwards, a longer one
  runs into itself, its tail included, and the game is over (`game.py:55, 79-80`).
  `BodyIsPath` holds in both.
- CSV, `SCENARIOS.md:24-25`: numbers are compared and sorted as numbers. `float()` takes "nan"
  for one, which no comparison but `!=` accepts, and a sort that meets it leaves its rows
  in no order (`query.py:7-26, 59-65`). `FiltersKeepOrder` speaks of the order of sorts that
  met none.
- Clam card: the scenarios speak of daily caps, and its `Card` knows no day and never resets
  one.

## Proofs

TLC checks the instances above; the proofs show the same definitions for every value of
the constants, from the assumptions named in each module (disjoint sets of threads,
positive capacities, timeouts and limits, finitely many keys) and nothing else. They are
in `SantaPipelineProofs`, `LibraryProofs` (the library and the cache), `ServiceProofs`
(limiter, laundry, ledger, report, breaker, video club), `ChargeProofs` (the car park and the
five other parts of `ChargedRightly`), `GameProofs` (the games and the devices), `ViewProofs`
(what keeps data and what searches) and `AggregateProofs` (the twenty-four of MCAggregates
together).

| theorem | for every | the argument |
|---|---|---|
| `TypeCorrect`, `SleighIsExclusive` | number of workers, presents, calls and capacities | `CoreInv` is inductive: types, the phase of a call (which threads may be running in it, which stages were joined) and that the lock's holder is exactly the thread in the sleigh; exclusion alone is not inductive, since a release must be known to be the holder's |
| `PresentsMatch`, `PresentsNotDuplicated` | as above | `Places`: state by place, no two places, and no present twice in the feed or in the hands that have just taken one. The last part is not asked for by the runs and is what `make` needs |
| `PipelineImplementsLine` | as above | by `Places` every step maps to an `Advance`, a `Record` or a stutter |
| `FirstCallDelivers`, `OneCallDelivers` | presents, capacities and workers, at least one in every stage (`Staffed`) | `FirstCall`: in the first call a present of it is in a queue or in a hand (`Accounted`), no queue is completed before the stage that fills it is over, and a stage that is over has left nothing behind (`Drained`). SantaSecondCall shows that none of it holds for the second call, where the queues begin completed |
| `CopiesLentOnce`, `OnlyHeadTold`, `ToldFindsCopy` | catalog, members, days | loans against statuses and queues first (`LibInv`); the third theorem adds that a lent copy still belongs to its title, which holds only while nothing was removed (`HeldInv`) |
| `QueuesServedInOrder` | as above | an action property: only the head is ever told (`LibInv`), so whoever a sweep or a check-out takes from a queue was at its front; that a sweep may tell the next one changes no name |
| `CountIsTrue`, `ProbeDecides`, `BreakerFailsFast` | threshold, timeout, depth of calls | away from Closed the counter stays at the threshold, so any failure trips again and the circuit opened at the latest failure (`Tripped`); a probe began after the timeout and no failure came since (`ProbeRested`) |
| `SequentialRests` | threshold, timeout, one call at a time | with depth one the circuit is never open around a running operation (`Admitted`), which BreakerReentrant refutes for depth two |
| `BurstIsBounded`, `OnlySpendersRejected`, `RetryTold` | keys, limit, window | `KeyInv` splits the history of a key into the current window, at most a limit's worth just before it, and what is a whole window older |
| `CapacityHolds`, `OrderIsUse`, `CacheIsLruMap` | finite set of keys, capacity, ttl | at an eviction every other cached key was used since the evicted one, and so now is the new key: `Capacity` of them |
| `ClubTypes`, `StockIsConserved`, `FlagsHaveCause`, `SweptStayBlocked` | names, users, copies, periods, awards | stock as a count over the rentals, which `SequenceLemmas` carries over the removal of one; the cause of a flag and the effect of a sweep together, as a return looks at both |
| `PinsStayAgreed`, `GuessesAreCounted` | customers, machines, pins, limit of failures | `LaundryInv`: a lock is for a reservation of its machine (`LockedFor`); who shares a machine is in trouble (`SharedTroubled`), and so is whose device raised; the count of a machine is what a call that raised left and the guesses at the reservation found there (`CounterExact`), and nobody guessed at another (`OnlyFoundGuessed`) |
| `StreamsStaySound`, `HistoriesStayTrue` | callers, amounts, times, streams of any length | an account is the one rebuilt from its own events (`LedgerInv`), so a command that has read the stream decides on the stream; the three views by induction over the stream |
| `SpotsStayConserved`, `StaysBilledExactly` | plates, spots, hour, tickets | those inside are finitely many, however many plates there are; a spot taken or freed changes the vehicles under one type of spot by one (`LotInv`) |
| `CartsStayCharged` | products, policies, prices, quantities | one line of each SKU asked for (`HoldsAsAsked`) is kept by a merge, a removal and a new quantity; the units paid for among the first n, counted one by one, are those of the whole groups and what is left of the last (`UnitsCounted`) |
| `UnitsStaySold` | products, rules, lists of deals, scans | the deals taken so far use no more than was scanned, of a SKU paired with itself no more than twice that (`Fits`), and leave no pair behind (`UsedUp`), by induction over the list; each rule against the count of its units |
| `GoodsStayCharged` | inventory, orders of any length, payments | an order's prices, summed over its places, are its products' prices times how often each occurs, by induction over the order (`OrderIsWorth`) |
| `RobotsStayCosted` | part types, options, markets | the parts bought are a first part of those that can be (`FactoryInv`, `PurchasableParts`), none below the least quote; the supplier found by a name that nobody shares is the one that quoted, so that only his refusal stops the purchase (`BoughtWhole`); a sum of least terms is the least sum (`SumAtMost`), and the order of configuration does not matter to it (`SumReindexed`) |
| `RidesStayCapped` | network, journeys, rides | the next fare takes a zone's charge from the capped price of m rides to that of m + 1 (`FareToCap`) |
| `ChargesStayRight` | all of these | the six side by side |
| `ReportsStayReviewed` | expenses of any category and amount | amounts are positive, so what is left of a decided report never totals more than what was decided on (`StillHolds`); totals of a list with one place removed by induction over the list |
| `SnakeIsPath`, `FoodStaysFree`, `SnakeWinsWhenFull` | board of any size | a moved or grown snake is a new head before old cells (`Advanced`, `Grown`), and a head that does not collide keeps the path (`PathKept`); every food eaten is one cell more, and the free cells run out exactly when the food has nowhere to go |
| `GameLevelIsHighest`, `SurvivorsWithinMeans`, `GameGoesOn` | survivors, wounds, actions, equipment, thresholds | `ZombieInv`: the level of the game was the best living member's when it last looked, and what has passed it since is in `above`, what fell below it in `below`; the actions won are one for who left Blue with the game looking; after a death it was told of a game has a living member or `unnoticed` |
| `BoardsStayFair`, `WinsStayTaken` | moves; points, games and sets of any length | a line that is made contains the square just marked, so two lines of one player share it (`BoardInv`); a lead that wins is never left standing, so there is at most one to take (`MatchInv`) |
| `JelliesFallInOrder`, `GamesStayRight` | arenas of any towers and jellies | `InOrder` over every outcome of a round, by induction over the towers; the second theorem is all five games side by side |
| `AnswersStayGiven` | methods, arguments, results | `MockInv`: a stub remembers how many calls there were, and one set up now (`LaterStub`) is for none of the past ones |
| `FlagsStayOneMode` | digits, lengths of an entry | `CalcInv`: the flags of a mode exclude those of the others, and what each mode remembers is there |
| `DrivesStayUndone`, `ToldStaysKept` | grid, obstacles, commands | a move and its opposite cancel because the cell a rover left is free, and modulo the width there is one way back (`OneUndone`); a stopped rover stays stopped, so a drive that was not understood to its end was stopped (`BlockedStays`). The second theorem is the three devices side by side |
| `AlertsStayTrue` | readings, thresholds | `WeatherInv`: the alerts raised are those of some reading, and unless a recording failed half-way of all; where the values can be compared a threshold is passed by a reading exactly if the extreme passes it (`AlertIsPassed`), and what is no number never gets into humidity or wind (`ValidReadings`); the sum lies between the extremes times the count, each reading adding one term |
| `ChainStaysSequence` | values, lengths | `ListInv`: the nodes walked to are exactly those kept, each once, and the i-th holds the i-th item. An insertion behind a node, one at the end and a removal each shift the walk from one place on |
| `ListingsStayAgreed` | users, tags, texts, times, posts, comments | `BlogInv`: what is listed is what is kept, and ids below the next one name one post and one comment of it; the rank of a post in a listing is the number of posts before it, which no later post can precede |
| `FiltersStayInOrder` | tables, columns, filters | `QueryInv`: rows are distinct and, unless the last sort met a nan, in the order last asked for, since keys without one are in one order (`BeforeIsOrder`); ranks of a strict total order are a bijection (`SortedBy`), so a filter keeps what is before what, and on a column of one kind "less" is an initial segment |
| `PathsStayShortest` | mazes of any size and walls | `MazeInv`: visited cells have the distance they were found at, the queue holds one distance and then the next, and nothing nearer is left; the walk back from the end loses one of distance with each step |
| `HandsStayOrdered` | decks, hands | the places of the signature are a permutation that lists groups by size, so that five cards group in seven ways, each told by its number of pairs; the comparison is that of the first difference of two lists of six |
| `ViewsStayAgreed`, `SearchesStayExact` | all of these | the four, and the two, side by side |
| `TypesStayOK` | all the constants of the twenty-four | a behaviour of MCAggregates is, for each object, a behaviour of that object alone (`OwnSpecs`): a step of one is a stutter of the others. The type invariant of each is a conjunct of its own inductive invariant |

`SequenceLemmas` states what is left of a sequence with one place removed, how a count
over its places changes, and what a fold is. The library's fold is defined by a
function on the sets of places of a sequence; `FoldOf` is the same with the operator as a
function, a set of pairs, which the provers can quantify over. `FoldAppend` and
`FoldPrepend` take one step of a fold, and `SequenceInduction` shows that a set of
sequences that is closed under one more element holds them all: so loops over lists
(`Rebuilt`, `Summed`, `TotalOf`, `RoundOutcomes`, `Execute`) are reasoned about although the
prover's induction theorems cannot be used.

A sum over a set takes its elements in an order nobody fixes. `SumOver` is a table of the
sums over all subsets, each that over one element less, whichever the definition picks;
`SumMore` shows that it may as well be any other, by induction over the subsets
(`SubsetInduction`). From it come that a sum is linear (`SumPlus`), grows with its terms
(`SumAtMost`), changes by what one term does (`SumChanged`) and does not depend on names
(`SumReindexed`). The prover knows nothing of a quotient: `DivMod` says that the division
with a rest is the only one.

Two of these proofs did not go through at first, and rightly: a bulk price may be above the
price of one unit, and no constructor asks a price to be above zero. The bound on a line in
`ChargedAsAsked` is therefore the higher of the two prices, and it, like the bound on a
checkout's total in `SoldOnce`, is stated of prices that are not negative.

Values that are no numbers are constants outside `Int` (`NaNAssumption`,
`StationAssumption`), so the theorems about queries and readings hold with and without
them.

Only model-checked: `Returns`, liveness under fairness, which is out of the prover's reach.
(`AllDelivered` after the first call is false: SantaSecondCall.)

## What the models leave out

Texts, formatting and money except where a property counts it. In the modelled systems:
the pool check and cookie arithmetic of the pipeline, and two threads that race inside
`Present.make` on the same object; fines and the member register of the library; slots
and device registration of the laundry; prices, loyalty points, wishlists and the age and
admin checks of the video club; owner and summary of an account; history texts of the
zombie game, skills without effect, and a PlusOneAction the caller unlocks himself; rates
of the car park; the summary of an expense report; prices that do not divide into whole
cents; the parsers of CSV text, of bake-sale orders and of hands in shorthand; times of
readings and the wording of alerts; the log of a round; keys that are not on the
calculator, and quotients that a float no longer holds exactly; infinite readings; hands
that hold a card twice. `PROJECT.json` lists every component, modelled or not, with its reason,
and the hazards with the properties that would catch them.

The TypeScript and C# versions are not modelled: they follow the Python ones, and where
a document of theirs is quoted it is one that the Python walkthrough refers to.

## Plan

Done, in this order: the pipeline and its abstract line; library; breaker and FailFast;
limiter; cache and LruMap; laundry; video club; ledger, survivors, car park and snake;
the smaller objects; proofs of all of these.

Next, most important first:

1. `LinkedList` as a refinement of a module of sequences, and `MazeWalker` under
   fairness: a search that is driven ends.
2. **BankAccount**, **UrlShortener**, **TodoList**, **SocialNetwork** and the calculator
   with undo and redo.
3. The pure algorithms (change, potter baskets, bowling, roman numerals) as operators over
   bounded inputs against a reference definition.
