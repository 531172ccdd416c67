---------------------------- MODULE LibraryProofs ----------------------------
(***************************************************************************)
(* Proofs about Library, for every catalog, any members, any length of the *)
(* queues and any number of days; and about MemoryCache, for any keys,     *)
(* capacity and time to live.                                              *)
(***************************************************************************)
EXTENDS Library, MemoryCache, SequenceLemmas

\* Every loan is of a copy that was created.
LoansCreated == \A k \in DOMAIN loans : loans[k].copy \in DOMAIN status

LibInv == TypeOK /\ LoansCreated /\ LoansMatch /\ OnlyHeadNotified

\* The copies of a title in a status are numbers, and exist.
LEMMA CopiesTyped ==
  ASSUME TypeOK, NEW i \in Isbns
  PROVE  /\ DOMAIN status = 1..Len(status) /\ Len(status) \in Nat /\ DOMAIN status \subseteq Nat
         /\ shelf[i] \subseteq DOMAIN status
         /\ \A x \in Statuses : /\ InStatus(i, x) \in SUBSET Nat
                                /\ InStatus(i, x) \subseteq shelf[i]
                                /\ \A c \in InStatus(i, x) : status[c] = x
  BY DEF TypeOK, InStatus

LEMMA LibInit == Init => LibInv
  BY LibraryAssumption DEF Init, LibInv, TypeOK, LoansCreated, LoansMatch,
     OnlyHeadNotified, Statuses, Loan, Reservation

\* Lending a copy that is not out keeps the loans and the statuses in step.
LEMMA LendKeeps ==
  ASSUME LibInv, NEW m \in Members, NEW i \in Isbns, NEW c \in DOMAIN status,
         status[c] # "CheckedOut", Lend(m, i, c)
  PROVE  /\ status' \in Seq(Statuses) /\ Len(status') = Len(status) /\ loans' \in Seq(Loan)
         /\ LoansCreated' /\ LoansMatch'
<1>1. /\ status \in Seq(Statuses) /\ loans \in Seq(Loan) /\ Len(status) \in 0..MaxCopies
      /\ DOMAIN status = 1..Len(status) /\ DOMAIN loans = 1..Len(loans)
      /\ Len(status) \in Nat /\ Len(loans) \in Nat
  BY LibraryAssumption DEF LibInv, TypeOK
<1>2. /\ status' \in Seq(Statuses) /\ Len(status') = Len(status)
      /\ DOMAIN status' = DOMAIN status /\ status'[c] = "CheckedOut"
      /\ \A d \in DOMAIN status \ {c} : status'[d] = status[d]
  BY <1>1 DEF Lend, Statuses
<1>3. [member |-> m, isbn |-> i, copy |-> c] \in Loan
  BY <1>1, LibraryAssumption DEF Loan
<1>4. /\ loans' \in Seq(Loan) /\ DOMAIN loans' = DOMAIN loans \cup {Len(loans) + 1}
      /\ \A k \in DOMAIN loans : loans'[k] = loans[k]
      /\ loans'[Len(loans) + 1].copy = c
  BY <1>1, <1>3 DEF Lend
<1>5. \A k \in DOMAIN loans : loans[k].copy # c
  BY DEF LibInv, LoansMatch
<1>6. LoansCreated'
  BY <1>2, <1>4 DEF LibInv, LoansCreated
<1>7. \A k \in DOMAIN loans' : status'[loans'[k].copy] = "CheckedOut"
  BY <1>2, <1>4, <1>5 DEF LibInv, LoansMatch, LoansCreated
<1>8. ASSUME NEW d \in DOMAIN status', status'[d] = "CheckedOut"
      PROVE  \E k \in DOMAIN loans' : loans'[k].copy = d
  <2>1. CASE d = c
    BY <1>4, <2>1
  <2>2. CASE d # c
    BY <1>2, <1>4, <1>8, <2>2 DEF LibInv, LoansMatch
  <2> QED
    BY <2>1, <2>2
<1>9. \A j, k \in DOMAIN loans' : loans'[j].copy = loans'[k].copy => j = k
  BY <1>4, <1>5 DEF LibInv, LoansMatch
<1> QED
  BY <1>2, <1>4, <1>6, <1>7, <1>8, <1>9 DEF LoansMatch

\* A return closes one loan and frees its copy.
LEMMA ReturnKeeps ==
  ASSUME LibInv, NEW m \in Members, NEW i \in Isbns, ReturnCopy(m, i)
  PROVE  /\ status' \in Seq(Statuses) /\ Len(status') = Len(status) /\ loans' \in Seq(Loan)
         /\ LoansCreated' /\ LoansMatch'
<1>1. /\ status \in Seq(Statuses) /\ loans \in Seq(Loan)
      /\ DOMAIN status = 1..Len(status) /\ DOMAIN loans = 1..Len(loans)
      /\ Len(status) \in Nat /\ Len(loans) \in Nat
  BY LibraryAssumption DEF LibInv, TypeOK
<1>2. PICK k \in DOMAIN loans : k = Min(OpenLoans(m, i))
  <2>1. OpenLoans(m, i) \in SUBSET Nat /\ OpenLoans(m, i) # {}
    BY <1>1 DEF OpenLoans, ReturnCopy
  <2>2. Min(OpenLoans(m, i)) \in OpenLoans(m, i)
    BY <2>1, MinOf
  <2> QED
    BY <2>2 DEF OpenLoans
<1>3. PICK c \in DOMAIN status : c = loans[k].copy
  BY <1>2 DEF LibInv, LoansCreated
<1>4. loans' = RemoveAt(loans, k)
  BY <1>2 DEF ReturnCopy
<1>5. PICK x \in {"Available", "Reserved"} : status' = [status EXCEPT ![c] = x]
  <2>1. status' = [status EXCEPT ![c] = IF queue[i] = <<>> THEN "Available" ELSE "Reserved"]
    BY <1>2, <1>3 DEF ReturnCopy
  <2> QED
    BY <2>1
<1>6. /\ status' \in Seq(Statuses) /\ Len(status') = Len(status)
      /\ DOMAIN status' = DOMAIN status /\ status'[c] # "CheckedOut"
      /\ \A d \in DOMAIN status \ {c} : status'[d] = status[d]
  BY <1>1, <1>5 DEF Statuses
<1>7. k \in 1..Len(loans)
  BY <1>1, <1>2
<1>8. /\ loans' \in Seq(Loan)
      /\ \A j \in DOMAIN loans' : /\ Origin(j, k) \in DOMAIN loans \ {k}
                                  /\ loans'[j] = loans[Origin(j, k)]
      /\ \A j \in DOMAIN loans \ {k} : \E n \in DOMAIN loans' : loans'[n] = loans[j]
      /\ DOMAIN loans' \subseteq Nat
  <2>0. loans \in Seq(Loan) /\ k \in 1..Len(loans)
    BY <1>1, <1>7
  <2>1. loans' \in Seq(Loan) /\ Removed(loans', loans, k)
    BY <1>4, <2>0, RemoveAtRemoved
  <2>2. DOMAIN loans' = 1..(Len(loans) - 1) /\ DOMAIN loans' \subseteq Nat
    BY <1>1, <2>1 DEF Removed
  <2>3. \A j \in DOMAIN loans' : Origin(j, k) \in DOMAIN loans \ {k} /\ loans'[j] = loans[Origin(j, k)]
    BY <2>1, <2>2 DEF Removed
  <2>4. \A j \in DOMAIN loans \ {k} : \E n \in DOMAIN loans' : loans'[n] = loans[j]
    BY <2>1, <2>2 DEF Removed
  <2> QED
    BY <2>1, <2>2, <2>3, <2>4
<1>9. \A j \in DOMAIN loans \ {k} : loans[j].copy \in DOMAIN status \ {c}
  BY <1>2, <1>3 DEF LibInv, LoansMatch, LoansCreated
<1>10. LoansCreated'
  BY <1>6, <1>8, <1>9 DEF LoansCreated
<1>11. \A j \in DOMAIN loans' : status'[loans'[j].copy] = "CheckedOut"
  BY <1>6, <1>8, <1>9 DEF LibInv, LoansMatch
<1>12. \A d \in DOMAIN status' : status'[d] = "CheckedOut" =>
         \E j \in DOMAIN loans' : loans'[j].copy = d
  BY <1>2, <1>3, <1>6, <1>8 DEF LibInv, LoansMatch
<1>13. ASSUME NEW j \in DOMAIN loans', NEW n \in DOMAIN loans',
              loans'[j].copy = loans'[n].copy
       PROVE  j = n
  <2>1. Origin(j, k) = Origin(n, k)
    BY <1>8, <1>13 DEF LibInv, LoansMatch
  <2>2. j \in Nat /\ n \in Nat /\ k \in Nat
    BY <1>7, <1>8
  <2> QED
    BY <2>1, <2>2, OriginInjective
<1> QED
  BY <1>6, <1>8, <1>10, <1>11, <1>12, <1>13 DEF LoansMatch

-----------------------------------------------------------------------------
(* The queues.                                                             *)

QueuesOK == queue \in [Isbns -> Seq(Reservation)] /\ OnlyHeadNotified

\* Every queue a step leaves behind is the old one, that one with its head
\* notified, one without its head (perhaps with the next notified), or one with
\* a newcomer that was not notified.
LEMMA QueueTail ==
  ASSUME NEW q \in Seq(Reservation), q # <<>>,
         \A k \in DOMAIN q : q[k].notified # Never => k = 1
  PROVE  /\ Tail(q) \in Seq(Reservation)
         /\ \A k \in DOMAIN Tail(q) : Tail(q)[k].notified = Never
<1>1. /\ Len(q) \in Nat \ {0} /\ DOMAIN q = 1..Len(q) /\ Tail(q) \in Seq(Reservation)
      /\ DOMAIN Tail(q) = 1..(Len(q) - 1)
      /\ \A k \in 1..(Len(q) - 1) : Tail(q)[k] = q[k + 1] /\ k + 1 \in 1..Len(q) /\ k + 1 # 1
  OBVIOUS
<1> QED
  BY <1>1

LEMMA QueueNotified ==
  ASSUME NEW q \in Seq(Reservation), today \in 0..MaxDay,
         \A k \in DOMAIN q : q[k].notified # Never => k = 1
  PROVE  /\ NotifyHead(q) \in Seq(Reservation)
         /\ \A k \in DOMAIN NotifyHead(q) : NotifyHead(q)[k].notified # Never => k = 1
         /\ DOMAIN NotifyHead(q) = DOMAIN q
<1>1. CASE q = <<>>
  BY <1>1 DEF NotifyHead
<1>2. CASE q # <<>>
  <2>1. Len(q) \in Nat \ {0} /\ DOMAIN q = 1..Len(q) /\ q[1] \in Reservation
    BY <1>2
  <2>2. [q[1] EXCEPT !.notified = today] \in Reservation
    BY <2>1 DEF Reservation
  <2>3. NotifyHead(q) = [q EXCEPT ![1] = [q[1] EXCEPT !.notified = today]]
    BY <1>2 DEF NotifyHead
  <2>4. NotifyHead(q) \in Seq(Reservation) /\ DOMAIN NotifyHead(q) = DOMAIN q
    BY <2>1, <2>2, <2>3
  <2>5. \A k \in DOMAIN q \ {1} : NotifyHead(q)[k] = q[k]
    BY <2>1, <2>3
  <2> QED
    BY <2>4, <2>5
<1> QED
  BY <1>1, <1>2

LEMMA QueuesStep == LibInv /\ [Next]_vars => QueuesOK'
<1> SUFFICES ASSUME LibInv, [Next]_vars PROVE QueuesOK'
  OBVIOUS
<1> USE DEF QueuesOK, OnlyHeadNotified
<1>0. /\ queue \in [Isbns -> Seq(Reservation)] /\ today \in 0..MaxDay
      /\ \A i \in Isbns : \A k \in DOMAIN queue[i] : queue[i][k].notified # Never => k = 1
  BY DEF LibInv, TypeOK
<1>1. CASE UNCHANGED queue
  BY <1>0, <1>1
<1>2. ASSUME NEW m \in Members, NEW i \in Isbns, CheckOutReserved(m, i) PROVE QueuesOK'
  <2>1. queue' = [queue EXCEPT ![i] = Tail(queue[i])] /\ queue[i] # <<>>
    BY <1>2 DEF CheckOutReserved, Collected, MayCollect
  <2>2. /\ Tail(queue[i]) \in Seq(Reservation)
        /\ \A k \in DOMAIN Tail(queue[i]) : Tail(queue[i])[k].notified = Never
    BY <1>0, <2>1, QueueTail
  <2> QED
    BY <1>0, <2>1, <2>2
<1>3. ASSUME NEW m \in Members, NEW i \in Isbns, ReturnCopy(m, i) PROVE QueuesOK'
  <2>1. queue' = [queue EXCEPT ![i] = NotifyHead(queue[i])]
    BY <1>3 DEF ReturnCopy, ReturnNotifies
  <2>2. /\ NotifyHead(queue[i]) \in Seq(Reservation)
        /\ \A k \in DOMAIN NotifyHead(queue[i]) :
             NotifyHead(queue[i])[k].notified # Never => k = 1
    BY <1>0, QueueNotified
  <2> QED
    BY <1>0, <2>1, <2>2
<1>4. ASSUME NEW m \in Members, NEW i \in Isbns, Reserve(m, i) PROVE QueuesOK'
  <2> DEFINE r == [member |-> m, notified |-> Never]
  <2>1. queue' = [queue EXCEPT ![i] = Append(queue[i], r)] /\ queue[i] \in Seq(Reservation)
    BY <1>0, <1>4 DEF Reserve, Joined
  <2>2. r \in Reservation
    BY DEF Reservation
  <2>3. /\ Append(queue[i], r) \in Seq(Reservation)
        /\ \A k \in DOMAIN Append(queue[i], r) :
             Append(queue[i], r)[k].notified # Never => k = 1
    <3> DEFINE q == queue[i]
    <3>1. /\ Len(q) \in Nat /\ DOMAIN Append(q, r) = 1..(Len(q) + 1)
          /\ \A k \in 1..Len(q) : Append(q, r)[k] = q[k]
          /\ Append(q, r)[Len(q) + 1] = r /\ Append(q, r) \in Seq(Reservation)
          /\ DOMAIN q = 1..Len(q)
      BY <2>1, <2>2
    <3>2. ASSUME NEW k \in 1..(Len(q) + 1), Append(q, r)[k].notified # Never PROVE k = 1
      <4>1. r.notified = Never
        OBVIOUS
      <4>2. k \in 1..Len(q)
        BY <3>1, <3>2, <4>1
      <4> QED
        BY <1>0, <3>1, <3>2, <4>2
    <3> QED
      BY <3>1, <3>2
  <2> HIDE DEF r
  <2> QED
    BY <1>0, <2>1, <2>3
<1>5. ASSUME NEW reached \in SUBSET Isbns, NEW passed \in SUBSET Isbns,
             ExpireReservations(reached, passed)
      PROVE  QueuesOK'
  <2>1. ASSUME NEW i \in Isbns
        PROVE  /\ queue'[i] \in Seq(Reservation)
               /\ \A k \in DOMAIN queue'[i] : queue'[i][k].notified # Never => k = 1
    <3>1. CASE i \notin reached
      BY <1>0, <1>5, <3>1 DEF ExpireReservations
    <3>2. CASE i \in reached
      <4>1. /\ Tail(queue[i]) \in Seq(Reservation)
            /\ \A k \in DOMAIN Tail(queue[i]) : Tail(queue[i])[k].notified = Never
        BY <1>0, <1>5, <3>2, QueueTail DEF ExpireReservations, Lapsed
      <4>2. CASE i \in passed /\ Holding(i)
        BY <1>0, <1>5, <3>2, <4>1, <4>2, QueueNotified DEF ExpireReservations
      <4>3. CASE ~(i \in passed /\ Holding(i))
        BY <1>5, <3>2, <4>1, <4>3 DEF ExpireReservations
      <4> QED
        BY <4>2, <4>3
    <3> QED
      BY <3>1, <3>2
  <2> QED
    BY <1>5, <2>1 DEF ExpireReservations
<1> QED
  BY <1>1, <1>2, <1>3, <1>4, <1>5
     DEF Next, vars, AddCopy, RemoveCopy, CheckOutAvailable, NextDay

-----------------------------------------------------------------------------
(* The copies and the loans.                                               *)

CopiesOK ==
    /\ Len(status) \in 0..MaxCopies /\ status \in Seq(Statuses)
    /\ shelf \in [Isbns -> SUBSET (1..Len(status))]
    /\ loans \in Seq(Loan)
    /\ LoansCreated /\ LoansMatch

\* What the sweep puts back on the shelf was reserved.
LEMMA ReleasedReserved ==
  ASSUME TypeOK
  PROVE  \A passed \in SUBSET Isbns : \A c \in Released(passed) :
            c \in DOMAIN status /\ status[c] = "Reserved"
<1> SUFFICES ASSUME NEW i \in Isbns, Holding(i)
             PROVE  LET c == Min(InStatus(i, "Reserved"))
                    IN  c \in DOMAIN status /\ status[c] = "Reserved"
  BY DEF Released
<1>1. Min(InStatus(i, "Reserved")) \in InStatus(i, "Reserved")
  BY CopiesTyped, MinOf DEF Holding, Statuses
<1> QED
  BY <1>1, CopiesTyped DEF Statuses

LEMMA CopiesStep == LibInv /\ [Next]_vars => CopiesOK'
<1> SUFFICES ASSUME LibInv, [Next]_vars PROVE CopiesOK'
  OBVIOUS
<1>0. TypeOK /\ CopiesOK
  BY DEF LibInv, TypeOK, CopiesOK
<1>a. /\ Len(status) \in Nat /\ DOMAIN status = 1..Len(status)
      /\ Len(loans) \in Nat /\ DOMAIN loans = 1..Len(loans)
  BY <1>0 DEF CopiesOK
<1>1. CASE UNCHANGED <<shelf, status, loans>>
  BY <1>0, <1>1 DEF CopiesOK, LoansCreated, LoansMatch
<1>2. ASSUME NEW i \in Isbns, AddCopy(i) PROVE CopiesOK'
  <2>1. /\ status' \in Seq(Statuses) /\ Len(status') = Len(status) + 1
        /\ Len(status') \in 0..MaxCopies /\ DOMAIN status' = DOMAIN status \cup {Len(status) + 1}
        /\ \A c \in DOMAIN status : status'[c] = status[c]
        /\ status'[Len(status) + 1] = "Available"
    BY <1>0, <1>2, <1>a, LibraryAssumption DEF AddCopy, CopiesOK, Statuses
  <2>2. shelf' \in [Isbns -> SUBSET (1..Len(status'))]
    BY <1>0, <1>2, <1>a, <2>1 DEF AddCopy, CopiesOK
  <2>3. loans' = loans
    BY <1>2 DEF AddCopy
  <2>4. LoansCreated'
    BY <1>0, <2>1, <2>3 DEF CopiesOK, LoansCreated
  <2>5. LoansMatch'
    BY <1>0, <2>1, <2>3 DEF CopiesOK, LoansCreated, LoansMatch
  <2> QED
    BY <1>0, <2>1, <2>2, <2>3, <2>4, <2>5 DEF CopiesOK
<1>3. ASSUME NEW i \in Isbns, RemoveCopy(i) PROVE CopiesOK'
  <2>1. shelf' \in [Isbns -> SUBSET (1..Len(status))] /\ UNCHANGED <<status, loans>>
    BY <1>0, <1>3 DEF RemoveCopy, CopiesOK
  <2> QED
    BY <1>0, <2>1 DEF CopiesOK, LoansCreated, LoansMatch
<1>4. ASSUME NEW m \in Members, NEW i \in Isbns,
             NEW x \in Statuses \ {"CheckedOut"}, InStatus(i, x) # {},
             Lend(m, i, Min(InStatus(i, x))), shelf' = shelf
      PROVE  CopiesOK'
  <2>1. Min(InStatus(i, x)) \in InStatus(i, x)
    BY <1>0, <1>4, CopiesTyped, MinOf
  <2>2. Min(InStatus(i, x)) \in DOMAIN status /\ status[Min(InStatus(i, x))] # "CheckedOut"
    BY <1>0, <2>1, CopiesTyped
  <2> HIDE DEF Min
  <2>3. /\ status' \in Seq(Statuses) /\ Len(status') = Len(status) /\ loans' \in Seq(Loan)
        /\ LoansCreated' /\ LoansMatch'
    BY <1>4, <2>2, LendKeeps
  <2> QED
    BY <1>0, <1>4, <2>3 DEF CopiesOK
<1>5. ASSUME NEW m \in Members, NEW i \in Isbns, CheckOutReserved(m, i) PROVE CopiesOK'
  BY <1>4, <1>5 DEF CheckOutReserved, MayCollect, Statuses
<1>6. ASSUME NEW m \in Members, NEW i \in Isbns, CheckOutAvailable(m, i) PROVE CopiesOK'
  BY <1>4, <1>6 DEF CheckOutAvailable, MayBorrow, Lendable, Statuses
<1>7. ASSUME NEW m \in Members, NEW i \in Isbns, ReturnCopy(m, i) PROVE CopiesOK'
  <2>1. shelf' = shelf
    BY <1>7 DEF ReturnCopy
  <2> QED
    BY <1>0, <1>7, <2>1, ReturnKeeps DEF CopiesOK
<1>8. ASSUME NEW reached \in SUBSET Isbns, NEW passed \in SUBSET Isbns,
             ExpireReservations(reached, passed)
      PROVE  CopiesOK'
  <2>1. /\ shelf' = shelf /\ loans' = loans
        /\ status' = [c \in 1..Len(status) |-> IF c \in Released(passed) THEN "Available" ELSE status[c]]
    BY <1>8, <1>a DEF ExpireReservations
  <2>2. /\ status' \in Seq(Statuses) /\ Len(status') = Len(status) /\ DOMAIN status' = DOMAIN status
    BY <1>0, <1>a, <2>1 DEF CopiesOK, Statuses
  <2>3. \A c \in DOMAIN status : status'[c] = "CheckedOut" <=> status[c] = "CheckedOut"
    BY <1>0, <1>a, <2>1, ReleasedReserved
  <2>4. LoansCreated' /\ LoansMatch'
    BY <1>0, <2>1, <2>2, <2>3 DEF CopiesOK, LoansCreated, LoansMatch
  <2> QED
    BY <1>0, <2>1, <2>2, <2>4 DEF CopiesOK
<1> QED
  BY <1>1, <1>2, <1>3, <1>5, <1>6, <1>7, <1>8 DEF Next, vars, Reserve, NextDay

LEMMA TodayStep == LibInv /\ [Next]_vars => today' \in 0..MaxDay
  BY LibraryAssumption DEF LibInv, TypeOK, Next, vars, AddCopy, RemoveCopy, CheckOutReserved,
     CheckOutAvailable, ReturnCopy, Reserve, ExpireReservations, NextDay

THEOREM LibraryInvariant == Spec => []LibInv
<1>1. Init => LibInv
  BY LibInit
<1>2. LibInv /\ [Next]_vars => LibInv'
  BY QueuesStep, CopiesStep, TodayStep DEF LibInv, TypeOK, CopiesOK, QueuesOK
<1> QED
  BY <1>1, <1>2, PTL DEF Spec

\* Every variable keeps its type, whatever the librarian removes.
THEOREM LibraryTypes == Spec => []TypeOK
<1>1. LibInv => TypeOK
  BY DEF LibInv
<1> QED
  BY <1>1, LibraryInvariant, PTL

\* No copy is ever lent twice, and none is out without a loan (Library.check_out,
\* return_copy, remove_copy, expire_reservations).
THEOREM CopiesLentOnce == Spec => []LoansMatch
<1>1. LibInv => LoansMatch
  BY DEF LibInv
<1> QED
  BY <1>1, LibraryInvariant, PTL

\* Only the head of a queue is ever told, so the sweep meets at most one expired
\* reservation of a title (Library.return_copy, expire_reservations).
THEOREM OnlyHeadTold == Spec => []OnlyHeadNotified
<1>1. LibInv => OnlyHeadNotified
  BY DEF LibInv
<1> QED
  BY <1>1, LibraryInvariant, PTL

-----------------------------------------------------------------------------
(* Where nothing is removed, whoever was told finds a copy.                *)

\* No copy stands under two titles, and a lent copy still belongs to its title.
DisjointShelves == \A i, j \in Isbns : i # j => shelf[i] \cap shelf[j] = {}
ShelvesOK ==
    /\ \A i, j \in Isbns : i # j => shelf[i] \cap shelf[j] = {}
    /\ \A k \in DOMAIN loans : loans[k].copy \in shelf[loans[k].isbn]

ToldHold ==
    \A i \in Isbns : queue[i] # <<>> /\ queue[i][1].notified # Never => Holding(i)

HeldInv == LibInv /\ DisjointShelves /\ (NothingRemoved => ShelvesOK /\ ToldHold)

\* The step is not one that removes a copy.
NoRemoval == \A i \in Isbns : ~RemoveCopy(i)

\* A change to a copy of one title leaves the reserved copies of the others.
LEMMA OtherTitles ==
  ASSUME TypeOK, ShelvesOK, NEW i \in Isbns, NEW j \in Isbns, i # j, NEW c \in shelf[i],
         shelf' = shelf, \A d \in DOMAIN status \ {c} : status'[d] = status[d]
  PROVE  Holding(j)' = Holding(j)
<1>1. \A d \in shelf[j] : d \in DOMAIN status \ {c}
  BY CopiesTyped DEF ShelvesOK
<1> QED
  BY <1>1 DEF Holding, InStatus

LEMMA ShelvesStep == LibInv /\ ShelvesOK /\ NoRemoval /\ [Next]_vars => ShelvesOK'
<1> SUFFICES ASSUME LibInv, ShelvesOK, NoRemoval, [Next]_vars PROVE ShelvesOK'
  OBVIOUS
<1>0. TypeOK /\ LibInv' /\ Len(loans) \in Nat /\ DOMAIN loans = 1..Len(loans)
  BY QueuesStep, CopiesStep, TodayStep DEF LibInv, TypeOK, CopiesOK, QueuesOK
<1>1. ASSUME NEW i \in Isbns, AddCopy(i) PROVE ShelvesOK'
  <2>1. \A j \in Isbns : Len(status) + 1 \notin shelf[j]
    BY <1>0, CopiesTyped
  <2>2. /\ loans' = loans
        /\ shelf' = [shelf EXCEPT ![i] = @ \cup {Len(status) + 1}]
    BY <1>1 DEF AddCopy
  <2>3. \A k \in DOMAIN loans : loans[k].isbn \in Isbns
    <3>1. \A k \in DOMAIN loans : loans[k] \in Loan
      BY <1>0 DEF TypeOK
    <3> QED
      BY <3>1 DEF Loan
  <2>4. /\ shelf'[i] = shelf[i] \cup {Len(status) + 1}
        /\ \A j \in Isbns \ {i} : shelf'[j] = shelf[j]
    BY <1>0, <2>2 DEF TypeOK
  <2> QED
    BY <2>1, <2>2, <2>3, <2>4 DEF ShelvesOK
<1>2. ASSUME NEW m \in Members, NEW i \in Isbns, NEW x \in Statuses, InStatus(i, x) # {},
             Lend(m, i, Min(InStatus(i, x))), shelf' = shelf
      PROVE  ShelvesOK'
  <2>1. Min(InStatus(i, x)) \in shelf[i]
    BY <1>0, <1>2, CopiesTyped, MinOf
  <2>2. \A k \in DOMAIN loans' : \/ k \in DOMAIN loans /\ loans'[k] = loans[k]
                                 \/ /\ loans'[k].isbn = i
                                    /\ loans'[k].copy = Min(InStatus(i, x))
    <3>1. loans \in Seq(Loan) /\ loans' = Append(loans, [member |-> m, isbn |-> i,
                                                        copy |-> Min(InStatus(i, x))])
      BY <1>0, <1>2 DEF Lend, TypeOK
    <3> QED
      BY <1>0, <3>1
  <2>3. \A k \in DOMAIN loans' : loans'[k].copy \in shelf[loans'[k].isbn]
    BY <2>1, <2>2 DEF ShelvesOK
  <2> QED
    BY <1>2, <2>3 DEF ShelvesOK
<1>3. ASSUME NEW m \in Members, NEW i \in Isbns, CheckOutReserved(m, i) PROVE ShelvesOK'
  BY <1>2, <1>3 DEF CheckOutReserved, MayCollect, Statuses
<1>4. ASSUME NEW m \in Members, NEW i \in Isbns, CheckOutAvailable(m, i) PROVE ShelvesOK'
  BY <1>2, <1>4 DEF CheckOutAvailable, MayBorrow, Lendable, Statuses
<1>5. ASSUME NEW m \in Members, NEW i \in Isbns, ReturnCopy(m, i) PROVE ShelvesOK'
  <2>1. PICK k \in 1..Len(loans) : loans' = RemoveAt(loans, k)
    <3>1. OpenLoans(m, i) \in SUBSET Nat /\ OpenLoans(m, i) # {}
      BY <1>0, <1>5 DEF OpenLoans, ReturnCopy
    <3>2. Min(OpenLoans(m, i)) \in 1..Len(loans)
      BY <1>0, <3>1, MinOf DEF OpenLoans
    <3> QED
      BY <1>5, <3>2 DEF ReturnCopy
  <2>2. \A n \in DOMAIN loans' : \E j \in DOMAIN loans : loans'[n] = loans[j]
    <3>1. loans \in Seq(Loan)
      BY <1>0 DEF TypeOK
    <3>2. Removed(loans', loans, k)
      BY <2>1, <3>1, RemoveAtRemoved
    <3> QED
      BY <3>2 DEF Removed
  <2> QED
    BY <1>5, <2>2 DEF ShelvesOK, ReturnCopy
<1>6. CASE UNCHANGED <<shelf, loans>>
  BY <1>6 DEF ShelvesOK
<1> QED
  BY <1>1, <1>3, <1>4, <1>5, <1>6
     DEF Next, vars, NoRemoval, Reserve, ExpireReservations, NextDay

LEMMA NotifiedStep == LibInv /\ ShelvesOK /\ ToldHold /\ NoRemoval /\ [Next]_vars => ToldHold'
<1> SUFFICES ASSUME LibInv, ShelvesOK, ToldHold, NoRemoval, [Next]_vars,
                    NEW i \in Isbns, queue'[i] # <<>>, queue'[i][1].notified # Never
             PROVE  Holding(i)'
  BY DEF ToldHold
<1>0. /\ TypeOK /\ ShelvesOK /\ LibInv /\ ToldHold
      /\ \A j \in Isbns : queue[j] \in Seq(Reservation)
      /\ \A j \in Isbns : \A k \in DOMAIN queue[j] : queue[j][k].notified # Never => k = 1
      /\ Len(status) \in Nat /\ DOMAIN status = 1..Len(status)
  BY DEF LibInv, TypeOK, OnlyHeadNotified
<1>a. queue'[i] = queue[i] => Holding(i)
  BY <1>0 DEF ToldHold
<1>b. Tail(queue[i]) # <<>> /\ queue[i] # <<>> => Tail(queue[i])[1].notified = Never
  <2>1. ASSUME Tail(queue[i]) # <<>>, queue[i] # <<>> PROVE Tail(queue[i])[1].notified = Never
    <3>1. 1 \in DOMAIN Tail(queue[i])
      BY <1>0, <2>1
    <3> QED
      BY <1>0, <2>1, <3>1, QueueTail
  <2> QED
    BY <2>1
<1>c. ASSUME Holding(i), shelf' = shelf,
             \A c \in InStatus(i, "Reserved") : status'[c] = status[c]
      PROVE  Holding(i)'
  BY <1>c DEF Holding, InStatus
<1>d. \A j \in Isbns, x \in Statuses :
        InStatus(j, x) # {} => Min(InStatus(j, x)) \in InStatus(j, x)
  BY <1>0, CopiesTyped, MinOf
<1>e. \A j \in Isbns, x \in Statuses : \A c \in InStatus(j, x) :
        c \in shelf[j] /\ c \in DOMAIN status /\ status[c] = x
  BY <1>0, CopiesTyped
<1>1. ASSUME NEW j \in Isbns, AddCopy(j) PROVE Holding(i)'
  <2>1. Holding(i) /\ \A d \in DOMAIN status : status'[d] = status[d]
    BY <1>0, <1>1, <1>a DEF AddCopy, TypeOK
  <2>2. shelf[i] \subseteq shelf'[i]
    BY <1>0, <1>1 DEF AddCopy, TypeOK
  <2> QED
    BY <1>e, <2>1, <2>2 DEF Holding, InStatus, Statuses
<1>2. ASSUME NEW m \in Members, NEW j \in Isbns, CheckOutReserved(m, j) PROVE Holding(i)'
  <2>1. queue'[j] = Tail(queue[j]) /\ queue[j] # <<>>
    BY <1>0, <1>2 DEF CheckOutReserved, MayCollect, Collected, TypeOK
  <2>2. i # j
    BY <1>b, <2>1
  <2>3. queue'[i] = queue[i]
    BY <1>0, <1>2, <2>2 DEF CheckOutReserved, TypeOK
  <2>4. Min(InStatus(j, "Reserved")) \in shelf[j]
    BY <1>2, <1>d, <1>e DEF CheckOutReserved, MayCollect, Statuses
  <2>5. /\ shelf' = shelf
        /\ \A d \in DOMAIN status \ {Min(InStatus(j, "Reserved"))} : status'[d] = status[d]
    BY <1>0, <1>2 DEF CheckOutReserved, Lend, TypeOK
  <2>6. Holding(i)' = Holding(i)
    BY <1>0, <2>2, <2>4, <2>5, OtherTitles
  <2> QED
    BY <1>a, <2>3, <2>6
<1>3. ASSUME NEW m \in Members, NEW j \in Isbns, CheckOutAvailable(m, j) PROVE Holding(i)'
  <2>1. Holding(i) /\ ~Holding(j)
    BY <1>3, <1>a DEF CheckOutAvailable, MayBorrow, Holding
  <2>2. Min(InStatus(j, "Available")) \in shelf[j]
    BY <1>3, <1>d, <1>e DEF CheckOutAvailable, MayBorrow, Lendable, Statuses
  <2>3. /\ shelf' = shelf
        /\ \A d \in DOMAIN status \ {Min(InStatus(j, "Available"))} : status'[d] = status[d]
    BY <1>0, <1>3 DEF CheckOutAvailable, Lendable, Lend, TypeOK
  <2>4. Holding(i)' = Holding(i)
    BY <1>0, <2>1, <2>2, <2>3, OtherTitles
  <2> QED
    BY <2>1, <2>4
<1>4. ASSUME NEW m \in Members, NEW j \in Isbns, ReturnCopy(m, j) PROVE Holding(i)'
  <2>1. PICK k \in DOMAIN loans : k = Min(OpenLoans(m, j)) /\ loans[k].isbn = j
    <3>1. OpenLoans(m, j) \in SUBSET Nat /\ OpenLoans(m, j) # {}
      BY <1>0, <1>4 DEF OpenLoans, ReturnCopy, TypeOK
    <3>2. Min(OpenLoans(m, j)) \in OpenLoans(m, j)
      BY <3>1, MinOf
    <3> QED
      BY <3>2 DEF OpenLoans
  <2>2. PICK c \in shelf[j] : c = loans[k].copy
    BY <1>0, <2>1 DEF ShelvesOK
  <2>3. c \in DOMAIN status
    BY <1>0, CopiesTyped
  <2>4. /\ shelf' = shelf /\ queue' = [queue EXCEPT ![j] = NotifyHead(queue[j])]
        /\ status' = [status EXCEPT ![c] = IF queue[j] = <<>> THEN "Available" ELSE "Reserved"]
    BY <1>4, <2>1, <2>2 DEF ReturnCopy, ReturnNotifies
  <2>5. \A d \in DOMAIN status \ {c} : status'[d] = status[d]
    BY <1>0, <2>4 DEF TypeOK
  <2>6. CASE i = j
    <3>1. queue[j] # <<>>
      BY <1>0, <2>4, <2>6 DEF NotifyHead, TypeOK
    <3>2. status'[c] = "Reserved" /\ c \in shelf'[i]
      BY <1>0, <2>2, <2>3, <2>4, <2>6, <3>1 DEF TypeOK
    <3> QED
      BY <3>2 DEF Holding, InStatus
  <2>7. CASE i # j
    <3>1. queue'[i] = queue[i]
      BY <1>0, <2>4, <2>7 DEF TypeOK
    <3>2. Holding(i)' = Holding(i)
      BY <1>0, <2>2, <2>4, <2>5, <2>7, OtherTitles
    <3> QED
      BY <1>a, <3>1, <3>2
  <2> QED
    BY <2>6, <2>7
<1>5. ASSUME NEW m \in Members, NEW j \in Isbns, Reserve(m, j) PROVE Holding(i)'
  <2>1. queue' = [queue EXCEPT ![j] = Append(queue[j], [member |-> m, notified |-> Never])]
    BY <1>5 DEF Reserve, Joined
  <2>2. Holding(i)
    <3>1. CASE i # j
      BY <1>0, <1>a, <2>1, <3>1 DEF TypeOK
    <3>2. CASE i = j
      <4>1. queue'[i] = Append(queue[i], [member |-> m, notified |-> Never])
        BY <1>0, <2>1, <3>2 DEF TypeOK
      <4>2. CASE queue[i] = <<>>
        BY <4>1, <4>2
      <4>3. CASE queue[i] # <<>>
        <5>1. queue'[i][1] = queue[i][1]
          BY <1>0, <4>1, <4>3
        <5> QED
          BY <1>0, <4>3, <5>1 DEF ToldHold
      <4> QED
        BY <4>2, <4>3
    <3> QED
      BY <3>1, <3>2
  <2> QED
    BY <1>5, <1>c, <2>2 DEF Reserve
<1>6. ASSUME NEW reached \in SUBSET Isbns, NEW passed \in SUBSET Isbns,
             ExpireReservations(reached, passed)
      PROVE  Holding(i)'
  <2>1. Holding(i) /\ ~(i \in passed /\ Len(queue[i]) = 1)
    <3>1. CASE i \notin reached
      BY <1>6, <1>a, <3>1 DEF ExpireReservations
    <3>2. CASE i \in reached /\ ~(i \in passed /\ Holding(i))
      <4>1. queue'[i] = Tail(queue[i]) /\ queue[i] # <<>>
        BY <1>6, <3>2 DEF ExpireReservations, Lapsed
      <4> QED
        BY <1>b, <4>1
    <3>3. CASE i \in passed /\ Holding(i)
      <4>1. queue'[i] = NotifyHead(Tail(queue[i])) /\ queue[i] # <<>>
        BY <1>6, <3>3 DEF ExpireReservations, Lapsed
      <4>2. Tail(queue[i]) # <<>>
        BY <4>1 DEF NotifyHead
      <4>3. Len(queue[i]) # 1
        BY <1>0, <4>1, <4>2
      <4> QED
        BY <3>3, <4>3
    <3> QED
      BY <1>6, <3>1, <3>2, <3>3 DEF ExpireReservations
  <2>2. \A c \in InStatus(i, "Reserved") : c \notin Released(passed)
    <3>1. SUFFICES ASSUME NEW j \in passed, Holding(j), Len(queue[j]) = 1
                   PROVE  Min(InStatus(j, "Reserved")) \notin InStatus(i, "Reserved")
      BY DEF Released
    <3>2. i # j
      BY <2>1, <3>1
    <3>3. Min(InStatus(j, "Reserved")) \in shelf[j]
      BY <1>d, <1>e, <3>1 DEF Holding, Statuses
    <3> QED
      BY <1>0, <1>e, <3>2, <3>3 DEF ShelvesOK, Statuses
  <2>3. \A c \in InStatus(i, "Reserved") : status'[c] = status[c]
    BY <1>6, <1>e, <2>2 DEF ExpireReservations, Statuses
  <2> QED
    BY <1>6, <1>c, <2>1, <2>3 DEF ExpireReservations
<1>7. CASE UNCHANGED <<shelf, status, queue>>
  BY <1>7, <1>a DEF Holding, InStatus
<1> QED
  BY <1>1, <1>2, <1>3, <1>4, <1>5, <1>6, <1>7 DEF Next, vars, NoRemoval, NextDay

\* Titles never share a copy, and what was never removed before a step that
\* leaves the catalog whole was whole before it.
LEMMA CatalogStep ==
  ASSUME LibInv, DisjointShelves, [Next]_vars
  PROVE  /\ DisjointShelves'
         /\ NothingRemoved' => NothingRemoved /\ NoRemoval
<1>0. /\ TypeOK /\ Len(status) \in Nat /\ DOMAIN status = 1..Len(status)
      /\ \A j \in Isbns : shelf[j] \subseteq DOMAIN status
  BY CopiesTyped DEF LibInv, TypeOK
<1>1. ASSUME NEW i \in Isbns, AddCopy(i)
      PROVE  DisjointShelves' /\ (NothingRemoved' => NothingRemoved)
  <2>1. /\ shelf'[i] = shelf[i] \cup {Len(status) + 1}
        /\ \A j \in Isbns \ {i} : shelf'[j] = shelf[j]
        /\ DOMAIN status' = DOMAIN status \cup {Len(status) + 1}
    BY <1>0, <1>1 DEF AddCopy, TypeOK
  <2>2. \A d \in DOMAIN status : d # Len(status) + 1
    BY <1>0
  <2> QED
    BY <1>0, <2>1, <2>2 DEF DisjointShelves, NothingRemoved
<1>2. ASSUME NEW i \in Isbns, RemoveCopy(i)
      PROVE  DisjointShelves' /\ ~NothingRemoved'
  <2>1. PICK c \in shelf[i] : shelf' = [shelf EXCEPT ![i] = @ \ {c}]
    <3>1. /\ InStatus(i, "Available") \in SUBSET Nat
          /\ InStatus(i, "Available") \subseteq shelf[i]
          /\ shelf[i] \in SUBSET Nat
      BY <1>0, CopiesTyped DEF Statuses
    <3>2. shelf[i] # {}
      BY <1>2 DEF RemoveCopy, InCatalog
    <3>3. Min(IF InStatus(i, "Available") # {} THEN InStatus(i, "Available") ELSE shelf[i])
            \in shelf[i]
      BY <3>1, <3>2, MinOf
    <3> QED
      BY <1>2, <3>3 DEF RemoveCopy
  <2>2. /\ shelf'[i] = shelf[i] \ {c} /\ \A j \in Isbns \ {i} : shelf'[j] = shelf[j]
        /\ status' = status /\ c \in DOMAIN status
    BY <1>0, <1>2, <2>1 DEF RemoveCopy, TypeOK
  <2> QED
    BY <2>2 DEF DisjointShelves, NothingRemoved
<1>3. ASSUME shelf' = shelf, DOMAIN status' = DOMAIN status
      PROVE  DisjointShelves' /\ (NothingRemoved' => NothingRemoved)
  BY <1>3 DEF DisjointShelves, NothingRemoved
<1>4. \/ \E i \in Isbns : AddCopy(i) \/ RemoveCopy(i)
      \/ shelf' = shelf /\ DOMAIN status' = DOMAIN status
  BY <1>0 DEF TypeOK, Next, vars, Lend, CheckOutReserved, CheckOutAvailable, ReturnCopy,
     Reserve, ExpireReservations, NextDay
<1> QED
  BY <1>1, <1>2, <1>3, <1>4 DEF NoRemoval

\* While nothing was removed from the catalog, a member told that a copy waits
\* finds one reserved on the shelf, until he collects it or the sweep expires
\* him (Library.return_copy, check_out, expire_reservations).
THEOREM ToldFindsCopy == Spec => []NotifiedFindsCopy
<1>1. Init => HeldInv
  BY LibInit DEF Init, HeldInv, DisjointShelves, ShelvesOK, ToldHold
<1>2. HeldInv /\ [Next]_vars => HeldInv'
  <2> SUFFICES ASSUME HeldInv, [Next]_vars PROVE HeldInv'
    OBVIOUS
  <2>1. LibInv'
    BY QueuesStep, CopiesStep, TodayStep DEF HeldInv, LibInv, TypeOK, CopiesOK, QueuesOK
  <2>2. DisjointShelves' /\ (NothingRemoved' => NothingRemoved /\ NoRemoval)
    BY CatalogStep DEF HeldInv
  <2>3. NothingRemoved' => ShelvesOK' /\ ToldHold'
    BY <2>2, ShelvesStep, NotifiedStep DEF HeldInv
  <2> QED
    BY <2>1, <2>2, <2>3 DEF HeldInv
<1>3. HeldInv => NotifiedFindsCopy
  BY DEF HeldInv, ToldHold, NotifiedFindsCopy
<1> QED
  BY <1>1, <1>2, <1>3, PTL DEF Spec

-----------------------------------------------------------------------------
(* The order of a queue.                                                   *)

Names(q) == [k \in DOMAIN q |-> q[k].member]

LEMMA NamesOf ==
  ASSUME NEW q \in Seq(Reservation)
  PROVE  /\ Names(q) \in Seq(Members) /\ Len(Names(q)) = Len(q)
         /\ \A k \in 1..Len(q) : Names(q)[k] = q[k].member
<1>1. Len(q) \in Nat /\ DOMAIN q = 1..Len(q) /\ \A k \in 1..Len(q) : q[k] \in Reservation
  OBVIOUS
<1>2. Names(q) = [k \in 1..Len(q) |-> q[k].member]
  BY <1>1 DEF Names
<1>3. \A k \in 1..Len(q) : q[k].member \in Members
  BY <1>1 DEF Reservation
<1> QED
  BY <1>1, <1>2, <1>3

\* Notifying tells someone in the queue and moves nobody.
LEMMA NamesNotified ==
  ASSUME NEW q \in Seq(Reservation), today \in 0..MaxDay
  PROVE  NotifyHead(q) \in Seq(Reservation) /\ Names(NotifyHead(q)) = Names(q)
<1>1. CASE q = <<>>
  BY <1>1 DEF NotifyHead
<1>2. CASE q # <<>>
  <2>1. Len(q) \in Nat \ {0} /\ DOMAIN q = 1..Len(q) /\ q[1] \in Reservation
    BY <1>2
  <2>2. /\ [q[1] EXCEPT !.notified = today] \in Reservation
        /\ [q[1] EXCEPT !.notified = today].member = q[1].member
    BY <2>1 DEF Reservation
  <2>3. NotifyHead(q) = [q EXCEPT ![1] = [q[1] EXCEPT !.notified = today]]
    BY <1>2 DEF NotifyHead
  <2>4. /\ NotifyHead(q) \in Seq(Reservation) /\ DOMAIN NotifyHead(q) = DOMAIN q
        /\ \A k \in DOMAIN q : NotifyHead(q)[k].member = q[k].member
    BY <2>1, <2>2, <2>3
  <2> QED
    BY <2>4 DEF Names
<1> QED
  BY <1>1, <1>2

LEMMA NamesTail ==
  ASSUME NEW q \in Seq(Reservation), q # <<>>
  PROVE  Tail(q) \in Seq(Reservation) /\ Names(Tail(q)) = Tail(Names(q))
<1>1. /\ Tail(q) \in Seq(Reservation) /\ Len(q) \in Nat \ {0} /\ Len(Tail(q)) = Len(q) - 1
      /\ \A k \in 1..(Len(q) - 1) : Tail(q)[k] = q[k + 1] /\ k + 1 \in 1..Len(q)
  OBVIOUS
<1>2. Names(q) \in Seq(Members) /\ Len(Names(q)) = Len(q) /\ Names(q) # <<>>
  BY <1>1, NamesOf
<1>3. /\ Tail(Names(q)) \in Seq(Members) /\ Len(Tail(Names(q))) = Len(q) - 1
      /\ \A k \in 1..(Len(q) - 1) : Tail(Names(q))[k] = Names(q)[k + 1]
  BY <1>1, <1>2
<1>4. /\ Names(Tail(q)) \in Seq(Members) /\ Len(Names(Tail(q))) = Len(q) - 1
      /\ \A k \in 1..(Len(q) - 1) : Names(Tail(q))[k] = q[k + 1].member
  BY <1>1, NamesOf
<1>5. \A k \in 1..(Len(q) - 1) : Names(Tail(q))[k] = Tail(Names(q))[k]
  BY <1>1, <1>3, <1>4, NamesOf
<1> QED
  BY <1>1, <1>3, <1>4, <1>5, SeqEqual

LEMMA NamesJoined ==
  ASSUME NEW q \in Seq(Reservation), NEW m \in Members
  PROVE  Names(Joined(q, m)) = Append(Names(q), m)
<1> DEFINE r == [member |-> m, notified |-> Never]
<1>1. r \in Reservation /\ r.member = m
  BY DEF Reservation
<1> HIDE DEF r
<1>2. /\ Append(q, r) \in Seq(Reservation) /\ Len(q) \in Nat /\ Len(Append(q, r)) = Len(q) + 1
      /\ \A k \in 1..(Len(q) + 1) : Append(q, r)[k] = IF k = Len(q) + 1 THEN r ELSE q[k]
  BY <1>1
<1>3. Names(q) \in Seq(Members) /\ Len(Names(q)) = Len(q)
  BY NamesOf
<1>4. /\ Append(Names(q), m) \in Seq(Members) /\ Len(Append(Names(q), m)) = Len(q) + 1
      /\ \A k \in 1..(Len(q) + 1) :
           Append(Names(q), m)[k] = IF k = Len(q) + 1 THEN m ELSE Names(q)[k]
  BY <1>3
<1>5. /\ Names(Append(q, r)) \in Seq(Members) /\ Len(Names(Append(q, r))) = Len(q) + 1
      /\ \A k \in 1..(Len(q) + 1) : Names(Append(q, r))[k] = Append(q, r)[k].member
  BY <1>2, NamesOf
<1>6. \A k \in 1..(Len(q) + 1) : Names(Append(q, r))[k] = Append(Names(q), m)[k]
  <2> TAKE k \in 1..(Len(q) + 1)
  <2>1. CASE k = Len(q) + 1
    BY <1>1, <1>2, <1>4, <1>5, <2>1
  <2>2. CASE k # Len(q) + 1
    <3>1. k \in 1..Len(q)
      BY <1>2, <2>2
    <3> QED
      BY <1>2, <1>4, <1>5, <2>2, <3>1, NamesOf
  <2> QED
    BY <2>1, <2>2
<1>7. Joined(q, m) = Append(q, r)
  BY DEF Joined, r
<1> QED
  BY <1>4, <1>5, <1>6, <1>7, SeqEqual

ServedStep(i) ==
    \/ Waiting(i)' = Waiting(i)
    \/ queue[i] # <<>> /\ Waiting(i)' = Tail(Waiting(i))
    \/ \E m \in Members : Waiting(i)' = Append(Waiting(i), m)

LEMMA OrderStep == TypeOK /\ [Next]_vars => \A i \in Isbns : ServedStep(i)
<1> SUFFICES ASSUME TypeOK, [Next]_vars, NEW i \in Isbns PROVE ServedStep(i)
  OBVIOUS
<1>0. queue \in [Isbns -> Seq(Reservation)] /\ queue[i] \in Seq(Reservation) /\ today \in 0..MaxDay
  BY DEF TypeOK
<1>a. Waiting(i) = Names(queue[i]) /\ Waiting(i)' = Names(queue'[i])
  BY DEF Waiting, Names
<1>1. CASE queue'[i] = queue[i]
  BY <1>1, <1>a DEF ServedStep
<1>2. ASSUME NEW m \in Members, CheckOutReserved(m, i) PROVE ServedStep(i)
  <2>1. queue'[i] = Tail(queue[i]) /\ queue[i] # <<>>
    BY <1>0, <1>2 DEF CheckOutReserved, Collected, MayCollect
  <2> QED
    BY <1>0, <1>a, <2>1, NamesTail DEF ServedStep
<1>3. ASSUME NEW m \in Members, ReturnCopy(m, i) PROVE ServedStep(i)
  <2>1. queue'[i] = NotifyHead(queue[i])
    BY <1>0, <1>3 DEF ReturnCopy, ReturnNotifies
  <2> QED
    BY <1>0, <1>a, <2>1, NamesNotified DEF ServedStep
<1>4. ASSUME NEW m \in Members, Reserve(m, i) PROVE ServedStep(i)
  <2>1. queue'[i] = Joined(queue[i], m)
    BY <1>0, <1>4 DEF Reserve
  <2> QED
    BY <1>0, <1>a, <2>1, NamesJoined DEF ServedStep
<1>5. ASSUME NEW m \in Members, NEW j \in Isbns \ {i},
             CheckOutReserved(m, j) \/ ReturnCopy(m, j) \/ Reserve(m, j)
      PROVE  queue'[i] = queue[i]
  BY <1>0, <1>5 DEF CheckOutReserved, ReturnCopy, Reserve
<1>6. ASSUME NEW reached \in SUBSET Isbns, NEW passed \in SUBSET Isbns,
             ExpireReservations(reached, passed)
      PROVE  ServedStep(i)
  <2>1. CASE i \notin reached
    BY <1>1, <1>6, <2>1 DEF ExpireReservations
  <2>2. CASE i \in reached
    <3>1. /\ queue[i] # <<>>
          /\ queue'[i] = Tail(queue[i]) \/ queue'[i] = NotifyHead(Tail(queue[i]))
      BY <1>6, <2>2 DEF ExpireReservations, Lapsed
    <3>2. Names(queue'[i]) = Tail(Names(queue[i]))
      BY <1>0, <3>1, NamesTail, NamesNotified
    <3> QED
      BY <1>a, <3>1, <3>2 DEF ServedStep
  <2> QED
    BY <2>1, <2>2
<1> QED
  BY <1>1, <1>2, <1>3, <1>4, <1>5, <1>6
     DEF Next, vars, AddCopy, RemoveCopy, CheckOutAvailable, NextDay

\* A queue is served in its order, whoever reserves, collects, returns or lets
\* a reservation expire (Library.reserve, check_out, return_copy,
\* expire_reservations).
THEOREM QueuesServedInOrder == Spec => ServedInOrder
<1>1. TypeOK /\ [Next]_vars =>
        [\A i \in Isbns :
           \/ Waiting(i)' = Waiting(i)
           \/ queue[i] # <<>> /\ Waiting(i)' = Tail(Waiting(i))
           \/ \E m \in Members : Waiting(i)' = Append(Waiting(i), m)]_vars
  BY OrderStep DEF ServedStep
<1> QED
  BY <1>1, LibraryTypes, PTL DEF Spec, ServedInOrder

-----------------------------------------------------------------------------
(* MemoryCache implements LruMap for every capacity, ttl and finite set of *)
(* keys. The heart of it: at an eviction every other cached key was used   *)
(* since the evicted one, and so, now, is the new key: Capacity of them.   *)

\* An entry of the dictionary is the latest put of its key.
Agrees == \A k \in Cached : entries[k] = latest[k]

\* What is ahead of a cached key is cached.
AheadCached == \A k \in Keys : ahead[k] \subseteq Cached

\* A key that is not cached may be missed.
Retains == \A k \in Keys \ Cached : Contract!MayMiss(k)

IInv == CacheTypeOK /\ Agrees /\ AheadCached /\ RecencyIsUse /\ Retains

USE CacheAssumption

\* The instance of LruMap brings a Cardinality of its own: the same one.
LEMMA SameCardinality == \A S : Contract!Cardinality(S) = Cardinality(S)
  BY Zenon DEF Contract!Cardinality, Cardinality

-----------------------------------------------------------------------------
\* A key that may be missed still may once another key is used, and later.
LEMMA MissStays ==
  ASSUME CacheTypeOK, NEW k \in Keys, Contract!MayMiss(k),
         latest'[k] = latest[k], since[k] \subseteq since'[k], since'[k] \subseteq Keys,
         now' >= now, now' \in Int
  PROVE  Contract!MayMiss(k)'
<1>1. Cardinality(since[k]) <= Cardinality(since'[k])
      /\ Cardinality(since[k]) \in Nat /\ Cardinality(since'[k]) \in Nat
  <2>1. IsFiniteSet(since'[k]) /\ IsFiniteSet(since[k])
    BY FS_Subset
  <2> QED
    BY <2>1, FS_Subset, FS_CardinalityType
<1>2. CASE Cardinality(since[k]) >= Capacity
  BY <1>1, <1>2, SameCardinality DEF Contract!MayMiss
<1>3. CASE ~Contract!Live(k)
  BY <1>3 DEF Contract!MayMiss, Contract!Live, CacheTypeOK, Entry
<1> QED
  BY <1>2, <1>3, SameCardinality DEF Contract!MayMiss

\* A set of keys with one exchanged for another keeps its size.
LEMMA Exchange ==
  ASSUME NEW S \in SUBSET Keys, NEW x \in S, NEW y \in Keys \ S
  PROVE  Cardinality((S \ {x}) \cup {y}) = Cardinality(S)
<1>1. IsFiniteSet(S) /\ IsFiniteSet(S \ {x})
  BY FS_Subset
<1>2. Cardinality(S \ {x}) = Cardinality(S) - 1 /\ Cardinality(S) \in Nat
  BY <1>1, FS_RemoveElement, FS_CardinalityType
<1>3. Cardinality((S \ {x}) \cup {y}) = Cardinality(S \ {x}) + 1
  BY <1>1, FS_AddElement
<1> QED
  BY <1>2, <1>3

LEMMA CachedFinite == IsFiniteSet(Cached) /\ Cardinality(Cached) \in Nat
<1>1. Cached \subseteq Keys
  BY DEF Cached
<1> QED
  BY <1>1, FS_Subset, FS_CardinalityType

LEMMA InitIInv == CacheInit => IInv
<1> SUFFICES ASSUME CacheInit PROVE IInv
  OBVIOUS
<1>1. Cached = {} /\ Cardinality(Cached) = 0
  BY FS_EmptySet DEF CacheInit, Cached
<1> QED
  BY <1>1 DEF CacheInit, IInv, CacheTypeOK, Agrees, AheadCached, RecencyIsUse, Retains,
     Contract!MayMiss, Contract!Live

-----------------------------------------------------------------------------
\* Storing k after evicting some keys, none of them k and none too recent.
LEMMA StoreKeeps ==
  ASSUME IInv, NEW k \in Keys, NEW v \in Values, NEW gone \in SUBSET Cached,
         k \notin gone, Store(k, v, gone),
         Cardinality((Cached \ gone) \cup {k}) <= Capacity,
         \A j \in gone : Cardinality(since[j] \cup {k}) >= Capacity
  PROVE  IInv'
<1>1. /\ entries' = [j \in Keys |-> IF j = k THEN [value |-> v, at |-> now]
                                    ELSE IF j \in gone THEN None ELSE entries[j]]
      /\ ahead' = MovedToFront(k, gone)
      /\ latest' = [latest EXCEPT ![k] = [value |-> v, at |-> now]]
      /\ since' = [j \in Keys |-> IF j = k THEN {} ELSE since[j] \cup {k}]
      /\ answer' = None /\ now' = now
  BY DEF Store, Use
<1>2. now \in Nat /\ [value |-> v, at |-> now] \in Entry
      /\ [value |-> v, at |-> now] # None
  BY DEF IInv, CacheTypeOK, Entry
<1>3. Cached' = (Cached \ gone) \cup {k}
  BY <1>1, <1>2 DEF Cached
<1>4. CacheTypeOK'
  BY <1>1, <1>2, <1>3 DEF IInv, CacheTypeOK, MovedToFront, Cached
<1>5. Agrees'
  BY <1>1, <1>3 DEF IInv, CacheTypeOK, Agrees, Cached
<1>6. AheadCached'
  BY <1>1, <1>3 DEF IInv, AheadCached, MovedToFront, Cached
<1>7. RecencyIsUse'
  BY <1>1, <1>3 DEF IInv, RecencyIsUse, MovedToFront, Cached
<1>8. Retains'
  <2> SUFFICES ASSUME NEW j \in Keys, j \notin Cached' PROVE Contract!MayMiss(j)'
    BY DEF Retains
  <2>1. j # k /\ since'[j] = since[j] \cup {k} /\ latest'[j] = latest[j]
        /\ since'[j] \subseteq Keys /\ CacheTypeOK /\ now' >= now /\ now' \in Int
    BY <1>1, <1>2, <1>3 DEF IInv, CacheTypeOK
  <2>2. CASE j \in gone
    BY <2>1, <2>2, SameCardinality DEF Contract!MayMiss
  <2>3. CASE j \notin gone
    <3>1. Contract!MayMiss(j)
      BY <1>3, <2>3 DEF IInv, Retains
    <3> QED
      BY <2>1, <3>1, MissStays
  <2> QED
    BY <2>2, <2>3
<1> QED
  BY <1>4, <1>5, <1>6, <1>7, <1>8 DEF IInv

LEMMA PutKeeps ==
  ASSUME IInv, NEW k \in Keys, NEW v \in Values,
         PutReplacing(k, v) \/ PutEvicting(k, v) \/ PutFree(k, v)
  PROVE  IInv'
<1>1. CASE PutReplacing(k, v)
  <2>1. (Cached \ {}) \cup {k} = Cached
    BY <1>1 DEF PutReplacing
  <2>2. Cardinality((Cached \ {}) \cup {k}) <= Capacity
    BY <2>1 DEF IInv, CacheTypeOK
  <2>3. Store(k, v, {})
    BY <1>1 DEF PutReplacing
  <2> QED
    BY <2>2, <2>3, StoreKeeps
<1>2. CASE PutFree(k, v)
  <2>1. Cardinality((Cached \ {}) \cup {k}) = Cardinality(Cached) + 1
    <3>1. (Cached \ {}) \cup {k} = Cached \cup {k} /\ k \notin Cached
      BY <1>2 DEF PutFree
    <3> QED
      BY <3>1, CachedFinite, FS_AddElement
  <2>2. Cardinality((Cached \ {}) \cup {k}) <= Capacity
    BY <1>2, <2>1, CachedFinite DEF PutFree, Full
  <2> QED
    BY <1>2, <2>2, StoreKeeps DEF PutFree
<1>3. CASE PutEvicting(k, v)
  <2>1. PICK lru \in Cached : IsLru(lru) /\ Store(k, v, {lru})
    BY <1>3 DEF PutEvicting
  <2>2. k \notin Cached /\ Cardinality(Cached) = Capacity
    BY <1>3, CachedFinite DEF PutEvicting, Full, IInv, CacheTypeOK
  <2>3. Cached \in SUBSET Keys /\ k \in Keys \ Cached
    BY <2>2 DEF Cached
  <2>4. Cardinality((Cached \ {lru}) \cup {k}) = Capacity
    BY <2>2, <2>3, Exchange
  <2>5. (Cached \ {lru}) \cup {k} \subseteq since[lru] \cup {k}
    BY <2>1 DEF IsLru, IInv, RecencyIsUse
  <2>6. Cardinality(since[lru] \cup {k}) >= Capacity
    <3>1. since[lru] \cup {k} \subseteq Keys
      BY <2>3 DEF IInv, CacheTypeOK
    <3>2. IsFiniteSet(since[lru] \cup {k})
      BY <3>1, FS_Subset
    <3> QED
      BY <2>4, <2>5, <3>2, FS_Subset, FS_CardinalityType
  <2>7. /\ {lru} \in SUBSET Cached /\ k \notin {lru}
        /\ Cardinality((Cached \ {lru}) \cup {k}) <= Capacity
        /\ \A j \in {lru} : Cardinality(since[j] \cup {k}) >= Capacity
        /\ Store(k, v, {lru})
    BY <2>1, <2>2, <2>4, <2>6
  <2> QED
    BY <2>7, StoreKeeps
<1> QED
  BY <1>1, <1>2, <1>3

LEMMA HitKeeps ==
  ASSUME IInv, NEW k \in Keys, GetHit(k)
  PROVE  IInv'
<1>1. /\ entries' = entries /\ latest' = latest /\ now' = now
      /\ ahead' = MovedToFront(k, {})
      /\ since' = [j \in Keys |-> IF j = k THEN {} ELSE since[j] \cup {k}]
      /\ answer' = entries[k].value /\ k \in Cached
  BY DEF GetHit, Use
<1>2. Cached' = Cached
  BY <1>1 DEF Cached
<1>3. entries[k] \in Entry
  BY <1>1 DEF IInv, CacheTypeOK, Cached
<1>4. CacheTypeOK'
  BY <1>1, <1>2, <1>3 DEF IInv, CacheTypeOK, MovedToFront, Entry, Cached
<1>5. Agrees' /\ AheadCached'
  BY <1>1, <1>2 DEF IInv, Agrees, AheadCached, MovedToFront
<1>6. RecencyIsUse'
  BY <1>1, <1>2 DEF IInv, RecencyIsUse, MovedToFront, Cached
<1>7. Retains'
  <2> SUFFICES ASSUME NEW j \in Keys, j \notin Cached PROVE Contract!MayMiss(j)'
    BY <1>2 DEF Retains
  <2>1. Contract!MayMiss(j)
    BY DEF IInv, Retains
  <2>2. CacheTypeOK /\ latest'[j] = latest[j] /\ since[j] \subseteq since'[j]
        /\ since'[j] \subseteq Keys /\ now' >= now /\ now' \in Int
    BY <1>1 DEF IInv, CacheTypeOK
  <2> QED
    BY <2>1, <2>2, MissStays
<1> QED
  BY <1>4, <1>5, <1>6, <1>7 DEF IInv

\* Removing expired entries from the dictionary.
LEMMA RemoveKeeps ==
  ASSUME IInv, NEW stale \in SUBSET Cached, \A k \in stale : IsExpired(k),
         entries' = [k \in Keys |-> IF k \in stale THEN None ELSE entries[k]],
         ahead' = Rest(stale), answer' = None, UNCHANGED <<now, latest, since>>
  PROVE  IInv'
<1>1. Cached' = Cached \ stale
  BY DEF Cached
<1>2. Cardinality(Cached') <= Cardinality(Cached) /\ Cardinality(Cached') \in Nat
  BY <1>1, CachedFinite, FS_Subset, FS_CardinalityType
<1>3. CacheTypeOK'
  BY <1>2, CachedFinite DEF IInv, CacheTypeOK, Rest
<1>4. Agrees' /\ AheadCached' /\ RecencyIsUse'
  BY <1>1 DEF IInv, Agrees, AheadCached, RecencyIsUse, Rest, Cached
<1>5. Retains'
  <2> SUFFICES ASSUME NEW j \in Keys, j \notin Cached' PROVE Contract!MayMiss(j)'
    BY DEF Retains
  <2>1. Contract!MayMiss(j)
    BY <1>1 DEF IInv, Retains, Agrees, Contract!MayMiss, Contract!Live, IsExpired,
       CacheTypeOK, Entry, Cached
  <2> QED
    BY <2>1 DEF Contract!MayMiss, Contract!Live
<1> QED
  BY <1>3, <1>4, <1>5 DEF IInv

\* Steps that leave the dictionary and its history alone.
LEMMA IdleKeeps ==
  ASSUME IInv, UNCHANGED <<entries, ahead, latest, since>>,
         answer' \in Values \cup {None} \cup BOOLEAN, now' \in 0..MaxNow, now' >= now
  PROVE  IInv'
<1>1. Cached' = Cached
  BY DEF Cached
<1>2. CacheTypeOK' /\ Agrees' /\ AheadCached' /\ RecencyIsUse'
  BY <1>1 DEF IInv, CacheTypeOK, Agrees, AheadCached, RecencyIsUse, Entry
<1>3. Retains'
  <2> SUFFICES ASSUME NEW j \in Keys, j \notin Cached PROVE Contract!MayMiss(j)'
    BY <1>1 DEF Retains
  <2>1. Contract!MayMiss(j)
    BY DEF IInv, Retains
  <2>2. CacheTypeOK /\ latest'[j] = latest[j] /\ since[j] \subseteq since'[j]
        /\ since'[j] \subseteq Keys /\ now' >= now /\ now' \in Int
    BY DEF IInv, CacheTypeOK
  <2> QED
    BY <2>1, <2>2, MissStays
<1> QED
  BY <1>2, <1>3 DEF IInv

LEMMA NextIInv == IInv /\ [CacheNext]_cacheVars => IInv'
<1> SUFFICES ASSUME IInv, [CacheNext]_cacheVars PROVE IInv'
  OBVIOUS
<1>1. now \in 0..MaxNow /\ answer \in Values \cup {None} \cup BOOLEAN
      /\ entries \in [Keys -> Entry \cup {None}]
  BY DEF IInv, CacheTypeOK
<1>2. ASSUME NEW k \in Keys, NEW v \in Values,
             PutReplacing(k, v) \/ PutEvicting(k, v) \/ PutFree(k, v)
      PROVE  IInv'
  BY <1>2, PutKeeps
<1>3. ASSUME NEW k \in Keys, GetHit(k) PROVE IInv'
  BY <1>3, HitKeeps
<1>4. ASSUME NEW k \in Keys, GetExpired(k) PROVE IInv'
  <2>1. {k} \in SUBSET Cached /\ \A j \in {k} : IsExpired(j)
    BY <1>4 DEF GetExpired
  <2>2. entries' = [j \in Keys |-> IF j \in {k} THEN None ELSE entries[j]]
    BY <1>1, <1>4 DEF GetExpired
  <2> QED
    BY <1>4, <2>1, <2>2, RemoveKeeps DEF GetExpired
<1>5. ASSUME NEW k \in Keys, GetAbsent(k) PROVE IInv'
  BY <1>1, <1>5, IdleKeeps DEF GetAbsent
<1>6. ASSUME NEW k \in Keys, ContainsKey(k) PROVE IInv'
  <2>1. answer' \in Values \cup {None} \cup BOOLEAN
    BY <1>6, Zenon DEF ContainsKey
  <2> QED
    BY <1>1, <1>6, <2>1, IdleKeeps DEF ContainsKey
<1>7. CASE EvictExpired
  BY <1>7, RemoveKeeps DEF EvictExpired
<1>8. CASE Tick
  BY <1>1, <1>8, IdleKeeps DEF Tick
<1>9. CASE UNCHANGED cacheVars
  BY <1>1, <1>9, IdleKeeps DEF cacheVars
<1> QED
  BY <1>2, <1>3, <1>4, <1>5, <1>6, <1>7, <1>8, <1>9 DEF CacheNext

\* The inductive invariant of the cache.
THEOREM CacheInvariant == CacheSpec => []IInv
  BY InitIInv, NextIInv, PTL DEF CacheSpec

\* Types, and never more entries than the capacity (cache.py:46-50).
THEOREM CapacityHolds == CacheSpec => []CacheTypeOK
<1>1. IInv => CacheTypeOK
  BY DEF IInv
<1> QED
  BY <1>1, CacheInvariant, PTL

\* The dictionary's order is the order of last use (cache.py:42, 53, 62).
THEOREM OrderIsUse == CacheSpec => []RecencyIsUse
<1>1. IInv => RecencyIsUse
  BY DEF IInv
<1> QED
  BY <1>1, CacheInvariant, PTL

-----------------------------------------------------------------------------
LEMMA StepRefines == IInv /\ [CacheNext]_cacheVars => [Contract!Next]_(Contract!vars)
<1> SUFFICES ASSUME IInv, [CacheNext]_cacheVars PROVE [Contract!Next]_(Contract!vars)
  OBVIOUS
<1>1. \A k \in Cached : /\ latest[k] = entries[k] /\ entries[k] \in Entry
                        /\ Contract!Live(k) <=> ~IsExpired(k)
  BY DEF IInv, Agrees, CacheTypeOK, Cached, Contract!Live, IsExpired, Entry
<1>2. \A k \in Keys \ Cached : Contract!MayMiss(k)
  BY DEF IInv, Retains
<1>3. ASSUME NEW k \in Keys, NEW v \in Values,
             PutReplacing(k, v) \/ PutEvicting(k, v) \/ PutFree(k, v)
      PROVE  Contract!Next
  <2>1. Contract!Put(k, v)
    BY <1>3 DEF PutReplacing, PutEvicting, PutFree, Store, Use, Contract!Put, Contract!Use
  <2> QED
    BY <2>1 DEF Contract!Next
<1>4. ASSUME NEW k \in Keys, GetHit(k) PROVE Contract!Next
  <2>1. Contract!Hit(k)
    BY <1>1, <1>4 DEF GetHit, Use, Contract!Hit, Contract!Use
  <2> QED
    BY <2>1 DEF Contract!Next
<1>5. ASSUME NEW k \in Keys, GetExpired(k) \/ GetAbsent(k) PROVE Contract!Next
  <2>1. Contract!MayMiss(k)
    BY <1>1, <1>2, <1>5 DEF GetExpired, GetAbsent, Contract!MayMiss
  <2>2. Contract!Miss(k)
    BY <1>5, <2>1 DEF GetExpired, GetAbsent, Contract!Miss
  <2> QED
    BY <2>2 DEF Contract!Next
<1>6. ASSUME NEW k \in Keys, ContainsKey(k) PROVE Contract!Next
  <2>1. CASE k \in Cached /\ ~IsExpired(k)
    <3>1. answer' = TRUE /\ UNCHANGED <<latest, since, now>>
      BY <1>6, <2>1, Zenon DEF ContainsKey
    <3>2. Contract!Live(k)
      BY <1>1, <2>1
    <3>3. Contract!Contains(k)
      BY <3>1, <3>2, Zenon DEF Contract!Contains
    <3> QED
      BY <3>3, Zenon DEF Contract!Next
  <2>2. CASE ~(k \in Cached /\ ~IsExpired(k))
    <3>1. answer' = FALSE /\ UNCHANGED <<latest, since, now>>
      BY <1>6, <2>2, Zenon DEF ContainsKey
    <3>2. Contract!MayMiss(k)
      BY <1>1, <1>2, <2>2 DEF Contract!MayMiss
    <3>3. Contract!Contains(k)
      BY <3>1, <3>2, Zenon DEF Contract!Contains
    <3> QED
      BY <3>3, Zenon DEF Contract!Next
  <2> QED
    BY <2>1, <2>2
<1>7. CASE EvictExpired
  BY <1>7 DEF EvictExpired, Contract!Forget, Contract!Next
<1>8. CASE Tick
  BY <1>8 DEF Tick, Contract!Tick, Contract!Next
<1>9. CASE UNCHANGED cacheVars
  BY <1>9 DEF cacheVars, Contract!vars
<1> QED
  BY <1>3, <1>4, <1>5, <1>6, <1>7, <1>8, <1>9 DEF CacheNext

\* Every cache is a LruMap: latest values only, nothing past its ttl, and no
\* live key missed before Capacity others were used.
THEOREM CacheIsLruMap == CacheSpec => ImplementsLruMap
<1>1. CacheInit => Contract!Init
  BY DEF CacheInit, Contract!Init
<1> QED
  BY <1>1, CacheInvariant, StepRefines, PTL DEF CacheSpec, ImplementsLruMap, Contract!Spec
=============================================================================
