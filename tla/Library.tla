------------------------------- MODULE Library -------------------------------
(***************************************************************************)
(* The library aggregate of library-management: copies of titles, loans,   *)
(* the reservation queue of each title and the sweep that expires them.    *)
(*                                                                         *)
(* A call that raises changes nothing and is a step that is not enabled.   *)
(* Fines are a function of two dates that nothing reads back: they, the    *)
(* due date and the member register are left out.                          *)
(***************************************************************************)
EXTENDS Integers, SequencesExt

CONSTANTS
    Isbns,
    Members,
    ReservationExpiryDays,
    NotifierRaises,     \* whether Notifier.send may raise
    MaxCopies,          \* bound: copies ever added
    MaxWaiting,         \* bound: reservations waiting for one title
    MaxDay              \* bound: days that pass

ASSUME LibraryAssumption ==
    /\ ReservationExpiryDays \in Nat /\ NotifierRaises \in BOOLEAN
    /\ MaxCopies \in Nat /\ MaxWaiting \in Nat /\ MaxDay \in Nat

VARIABLES
    shelf,      \* the copies of each title in the catalog; numbered as created
    status,     \* the status of each copy ever created, in the catalog or not
    loans,      \* the open loans, oldest first
    queue,      \* the reservations of each title, oldest first
    today

vars == <<shelf, status, loans, queue, today>>

Never == -1
Statuses == {"Available", "CheckedOut", "Reserved"}
Loan == [member : Members, isbn : Isbns, copy : 1..MaxCopies]
Reservation == [member : Members, notified : 0..MaxDay \cup {Never}]

-----------------------------------------------------------------------------
\* The copies of a title in a status.
InStatus(i, s) == {c \in shelf[i] : status[c] = s}

InCatalog(i) == shelf[i] # {}

\* The loan a member returns: his oldest of the title.
OpenLoans(m, i) == {k \in DOMAIN loans : loans[k].member = m /\ loans[k].isbn = i}

Expired(r) == r.notified # Never /\ today - r.notified > ReservationExpiryDays

\* The head of a queue, notified today.
NotifyHead(q) == IF q = <<>> THEN q ELSE [q EXCEPT ![1].notified = today]

\* Variant: the last in the queue is the one told.
ReturnNotifiesLast(q) == IF q = <<>> THEN q ELSE [q EXCEPT ![Len(q)].notified = today]

\* What a return does to the queue.
ReturnNotifies(q) == NotifyHead(q)

\* Variant: the reservation that was collected stays.
CollectedKept(q) == q

\* The queue once its head has collected the copy.
Collected(q) == Tail(q)

\* Variant: a member's reservation jumps the queue.
JoinedFirst(q, m) == <<[member |-> m, notified |-> Never]>> \o q

Joined(q, m) == Append(q, [member |-> m, notified |-> Never])

\* Variant: a copy that is out can be lent.
LendableAnyway(i) == {c \in shelf[i] : status[c] # "Reserved"}

\* The copies that someone without a reservation may be given.
Lendable(i) == InStatus(i, "Available")

-----------------------------------------------------------------------------
Init ==
    /\ shelf = [i \in Isbns |-> {}]
    /\ status = <<>>
    /\ loans = <<>>
    /\ queue = [i \in Isbns |-> <<>>]
    /\ today = 0

\* add_book, of a new title or a known one, and add_copy_of.
AddCopy(i) ==
    /\ Len(status) < MaxCopies
    /\ status' = Append(status, "Available")
    /\ shelf' = [shelf EXCEPT ![i] = @ \cup {Len(status) + 1}]
    /\ UNCHANGED <<loans, queue, today>>

\* An available copy if there is one, or else the first, whatever its status.
\* The last copy takes the title with it.
RemoveCopy(i) ==
    /\ InCatalog(i)
    /\ LET idle == InStatus(i, "Available")
           target == Min(IF idle # {} THEN idle ELSE shelf[i])
       IN  shelf' = [shelf EXCEPT ![i] = @ \ {target}]
    /\ UNCHANGED <<status, loans, queue, today>>

Lend(m, i, c) ==
    /\ status' = [status EXCEPT ![c] = "CheckedOut"]
    /\ loans' = Append(loans, [member |-> m, isbn |-> i, copy |-> c])

MayCollect(m, i) ==
    /\ InStatus(i, "Reserved") # {}
    /\ queue[i] # <<>>
    /\ queue[i][1].member = m

\* While a copy is reserved nobody but the head of the queue is served.
MayBorrow(i) ==
    /\ InStatus(i, "Reserved") = {}
    /\ Lendable(i) # {}

CheckOutReserved(m, i) ==
    /\ MayCollect(m, i)
    /\ queue' = [queue EXCEPT ![i] = Collected(@)]
    /\ Lend(m, i, Min(InStatus(i, "Reserved")))
    /\ UNCHANGED <<shelf, today>>

CheckOutAvailable(m, i) ==
    /\ MayBorrow(i)
    /\ Lend(m, i, Min(Lendable(i)))
    /\ UNCHANGED <<shelf, queue, today>>

ReturnCopy(m, i) ==
    /\ OpenLoans(m, i) # {}
    /\ LET k == Min(OpenLoans(m, i))
           c == loans[k].copy
       IN  /\ loans' = RemoveAt(loans, k)
           /\ status' = [status EXCEPT ![c] =
                            IF queue[i] = <<>> THEN "Available" ELSE "Reserved"]
    /\ queue' = [queue EXCEPT ![i] = ReturnNotifies(@)]
    /\ UNCHANGED <<shelf, today>>

\* Anyone may reserve a title of the catalog, available or not.
Reserve(m, i) ==
    /\ InCatalog(i)
    /\ Len(queue[i]) < MaxWaiting
    /\ queue' = [queue EXCEPT ![i] = Joined(@, m)]
    /\ UNCHANGED <<shelf, status, loans, today>>

\* Only the head of a queue was ever notified (OnlyHeadNotified), so a title
\* has at most one expired reservation, its head.
Lapsed(i) == queue[i] # <<>> /\ Expired(queue[i][1])
Holding(i) == InStatus(i, "Reserved") # {}

\* The copies that expired reservations, the last of their title, give back.
Released(passed) ==
    {Min(InStatus(i, "Reserved")) : i \in {j \in passed : Holding(j) /\ Len(queue[j]) = 1}}

\* The sweep: an expired reservation goes, and its reserved copy passes to the
\* next in the queue, or is available again. The notifier may raise: it is
\* called after the one, and before and within the other. `reached` are the
\* titles that lost a reservation, `passed` those whose copy passed on; a sweep
\* that finishes reaches all and passes all. In a return nothing is left to do
\* when it raises.
ExpireReservations(reached, passed) ==
    /\ reached # {} /\ \A i \in reached : Lapsed(i)
    /\ passed \subseteq reached /\ \A i, j \in reached \ passed : i = j
    /\ ~NotifierRaises => passed = {i \in Isbns : Lapsed(i)}
    /\ queue' = [i \in Isbns |->
                   IF i \notin reached THEN queue[i]
                   ELSE IF i \in passed /\ Holding(i) THEN NotifyHead(Tail(queue[i]))
                   ELSE Tail(queue[i])]
    /\ status' = [c \in DOMAIN status |->
                    IF c \in Released(passed) THEN "Available" ELSE status[c]]
    /\ UNCHANGED <<shelf, loans, today>>

NextDay ==
    /\ today < MaxDay
    /\ today' = today + 1
    /\ UNCHANGED <<shelf, status, loans, queue>>

Next ==
    \/ \E i \in Isbns :
         \/ AddCopy(i)
         \/ RemoveCopy(i)
         \/ \E m \in Members :
              CheckOutReserved(m, i) \/ CheckOutAvailable(m, i) \/ ReturnCopy(m, i) \/ Reserve(m, i)
    \/ \E reached, passed \in SUBSET Isbns : ExpireReservations(reached, passed)
    \/ NextDay

Spec == Init /\ [][Next]_vars

-----------------------------------------------------------------------------
TypeOK ==
    /\ Len(status) \in 0..MaxCopies
    /\ status \in Seq(Statuses)
    /\ shelf \in [Isbns -> SUBSET (1..Len(status))]
    /\ loans \in Seq(Loan)
    /\ queue \in [Isbns -> Seq(Reservation)]
    /\ today \in 0..MaxDay

\* A copy is checked out exactly while one open loan, and no other, holds it:
\* also for copies removed from the catalog while they were out.
LoansMatch ==
    /\ \A k \in DOMAIN loans : status[loans[k].copy] = "CheckedOut"
    /\ \A c \in DOMAIN status :
         status[c] = "CheckedOut" => \E k \in DOMAIN loans : loans[k].copy = c
    /\ \A j, k \in DOMAIN loans : loans[j].copy = loans[k].copy => j = k

\* Only the first in a queue has been told that a copy waits.
OnlyHeadNotified ==
    \A i \in Isbns : \A k \in DOMAIN queue[i] : queue[i][k].notified # Never => k = 1

\* No copy was ever taken out of the catalog.
NothingRemoved == \A c \in DOMAIN status : \E i \in Isbns : c \in shelf[i]

\* While nothing was removed from the catalog, whoever was told that a copy
\* waits finds one on the shelf, until he collects it or the sweep expires him.
NotifiedFindsCopy ==
    NothingRemoved =>
        \A i \in Isbns : queue[i] # <<>> /\ queue[i][1].notified # Never => Holding(i)

\* A queue is served in its order: a step lets one more in at its end, or one
\* out at its front.
Waiting(i) == [k \in DOMAIN queue[i] |-> queue[i][k].member]
ServedInOrder ==
    [][\A i \in Isbns :
         \/ Waiting(i)' = Waiting(i)
         \/ queue[i] # <<>> /\ Waiting(i)' = Tail(Waiting(i))
         \/ \E m \in Members : Waiting(i)' = Append(Waiting(i), m)]_vars

\* An available copy of a title nobody waits for can be checked out by anyone.
AvailableCanBeBorrowed ==
    \A i \in Isbns : InStatus(i, "Available") # {} /\ queue[i] = <<>> => MayBorrow(i)
=============================================================================
