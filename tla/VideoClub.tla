------------------------------ MODULE VideoClub ------------------------------
(***************************************************************************)
(* The club of video-club-rental: titles kept under a name that a later    *)
(* one may take over, rentals that hold on to the objects they were made   *)
(* with, and the overdue flag that a sweep sets and a return clears.       *)
(*                                                                         *)
(* A call that raises before it changes anything is a step that is not     *)
(* enabled. Left out: prices, loyalty points and wishlists, which no other *)
(* operation reads, the age and admin checks in front of register, and the *)
(* dictionary of users, which only the wishlist notices walk: callers hold *)
(* on to a User that another registration of his email has replaced.       *)
(***************************************************************************)
EXTENDS Integers, SequencesExt

CONSTANTS
    Names,
    RentalPeriodDays,
    OnTimeReturnAward,
    LateReturnPenalty,
    MaxUsers,           \* bound: users ever registered
    MaxTitles,          \* bound: titles ever added
    MaxCopies,          \* bound: copies of one title
    MaxPriorityPoints,  \* bound: priority points of one user
    MaxDay              \* bound: days that pass

ASSUME ClubAssumption ==
    /\ RentalPeriodDays \in Nat
    /\ OnTimeReturnAward \in Nat /\ LateReturnPenalty \in Nat
    /\ MaxUsers \in Nat /\ MaxTitles \in Nat /\ MaxCopies \in Nat
    /\ MaxPriorityPoints \in Nat /\ MaxDay \in Nat

VARIABLES
    users,      \* every User made, registered still or replaced since
    titles,     \* every Title made
    catalog,    \* the title each name stands for
    rentals,    \* the open rentals, oldest first
    today,
    sweptOn,    \* history: the day of the last sweep
    unsent      \* history: users whose late alert could not be sent

clubVars == <<users, titles, catalog, rentals, today, sweptOn, unsent>>

NoTitle == 0
NotSwept == -1

User == [points : 0..MaxPriorityPoints, overdue : BOOLEAN]
Title == [name : Names, total : 0..MaxCopies, available : 0..MaxCopies]
Rental == [user : 1..MaxUsers, title : 1..MaxTitles, due : Nat]

-----------------------------------------------------------------------------
IsLate(r) == today > r.due

\* The places of a user's rentals, and of those of one name.
ActiveRentals(u) == {k \in DOMAIN rentals : rentals[k].user = u}
RentalsOf(u, n) == {k \in ActiveRentals(u) : titles[rentals[k].title].name = n}

\* Variant: the copy goes back to the title that has the name now.
CheckedInTo(r) == catalog[titles[r.title].name]

\* The title that gets the copy of a returned rental back.
ReturnedTo(r) == r.title

\* Variants: any return clears the flag; the returned rental still counts.
ClearsAnyway(u, k) == TRUE
ClearsBefore(u, k) == \A j \in ActiveRentals(u) : ~IsLate(rentals[j])

\* The return of the k-th rental leaves the user with none that is late.
Clears(u, k) == \A j \in ActiveRentals(u) \ {k} : ~IsLate(rentals[j])

\* Variant: points may run into the negative.
DeductedBelow(points) == points - LateReturnPenalty

Deducted(points) == IF points > LateReturnPenalty THEN points - LateReturnPenalty ELSE 0

-----------------------------------------------------------------------------
ClubInit ==
    /\ users = <<>>
    /\ titles = <<>>
    /\ catalog = [n \in Names |-> NoTitle]
    /\ rentals = <<>>
    /\ today = 0
    /\ sweptOn = NotSwept
    /\ unsent = {}

\* register, also again under an email that is taken: a new User.
Register ==
    /\ Len(users) < MaxUsers
    /\ users' = Append(users, [points |-> 0, overdue |-> FALSE])
    /\ UNCHANGED <<titles, catalog, rentals, today, sweptOn, unsent>>

\* add_title, also of a name the catalog has: the new title replaces it.
AddTitle(n, copies) ==
    /\ Len(titles) < MaxTitles
    /\ titles' = Append(titles, [name |-> n, total |-> copies, available |-> copies])
    /\ catalog' = [catalog EXCEPT ![n] = Len(titles) + 1]
    /\ UNCHANGED <<users, rentals, today, sweptOn, unsent>>

\* donate, of a name the catalog has; of another it is AddTitle with one copy.
DonateCopy(n) ==
    LET t == catalog[n]
    IN  /\ t # NoTitle
        /\ titles[t].total < MaxCopies
        /\ titles' = [titles EXCEPT ![t].total = @ + 1, ![t].available = @ + 1]
        /\ UNCHANGED <<users, catalog, rentals, today, sweptOn, unsent>>

Rent(u, n) ==
    LET t == catalog[n]
    IN  /\ ~users[u].overdue
        /\ t # NoTitle
        /\ titles[t].available > 0
        /\ titles' = [titles EXCEPT ![t].available = @ - 1]
        /\ rentals' = Append(rentals,
               [user |-> u, title |-> t, due |-> today + RentalPeriodDays])
        /\ UNCHANGED <<users, catalog, today, sweptOn, unsent>>

\* What every return does before it looks at the day.
TakeBack(k) ==
    /\ rentals' = RemoveAt(rentals, k)
    /\ titles' = [titles EXCEPT ![ReturnedTo(rentals[k])].available = @ + 1]
    /\ UNCHANGED <<catalog, today, sweptOn>>

ReturnOnTime(u, n) ==
    LET k == Min(RentalsOf(u, n))
    IN  /\ RentalsOf(u, n) # {} /\ ~IsLate(rentals[k])
        /\ users[u].points + OnTimeReturnAward <= MaxPriorityPoints
        /\ TakeBack(k)
        /\ users' = [users EXCEPT ![u] = [points |-> @.points + OnTimeReturnAward,
                                          overdue |-> @.overdue /\ ~Clears(u, k)]]
        /\ unsent' = IF Clears(u, k) THEN unsent \ {u} ELSE unsent

ReturnLate(u, n) ==
    LET k == Min(RentalsOf(u, n))
    IN  /\ RentalsOf(u, n) # {} /\ IsLate(rentals[k])
        /\ TakeBack(k)
        /\ \/ /\ users' = [users EXCEPT ![u] = [points |-> Deducted(@.points),
                                                overdue |-> @.overdue /\ ~Clears(u, k)]]
              /\ unsent' = IF Clears(u, k) THEN unsent \ {u} ELSE unsent
           \* The notifier raises, and the flag is never looked at.
           \/ /\ users' = [users EXCEPT ![u].points = Deducted(@)]
              /\ unsent' = unsent \cup {u}

\* The sweep flags whoever has a late rental out.
MarkOverdueRentals ==
    /\ sweptOn' = today
    /\ users' = [u \in DOMAIN users |->
                   IF \E k \in ActiveRentals(u) : IsLate(rentals[k])
                   THEN [users[u] EXCEPT !.overdue = TRUE] ELSE users[u]]
    /\ UNCHANGED <<titles, catalog, rentals, today, unsent>>

NextDay ==
    /\ today < MaxDay
    /\ today' = today + 1
    /\ UNCHANGED <<users, titles, catalog, rentals, sweptOn, unsent>>

ClubNext ==
    \/ Register
    \/ \E n \in Names :
         \/ \E copies \in 0..MaxCopies : AddTitle(n, copies)
         \/ DonateCopy(n)
         \/ \E u \in DOMAIN users : Rent(u, n) \/ ReturnOnTime(u, n) \/ ReturnLate(u, n)
    \/ MarkOverdueRentals
    \/ NextDay

ClubSpec == ClubInit /\ [][ClubNext]_clubVars

-----------------------------------------------------------------------------
ClubTypeOK ==
    /\ users \in Seq(User) /\ Len(users) \in 0..MaxUsers
    /\ titles \in Seq(Title) /\ Len(titles) \in 0..MaxTitles
    /\ catalog \in [Names -> {NoTitle} \cup DOMAIN titles]
    /\ rentals \in Seq(Rental)
    /\ \A k \in DOMAIN rentals : rentals[k].user \in DOMAIN users /\ rentals[k].title \in DOMAIN titles
    /\ today \in 0..MaxDay
    /\ sweptOn \in {NotSwept} \cup 0..MaxDay
    /\ unsent \in SUBSET DOMAIN users

\* The copies of a title that are not on the shelf are exactly those of its open
\* rentals, also of a title that another of its name has replaced
\* (video_club.py:77-78, 93-94).
StockConserved ==
    \A t \in DOMAIN titles :
        titles[t].total - titles[t].available
            = Cardinality({k \in DOMAIN rentals : rentals[k].title = t})

\* Nobody is blocked for nothing: a flagged user has a late rental out, unless
\* an alert failed while he returned it (video_club.py:96-103, 105-109).
FlagHasCause ==
    \A u \in DOMAIN users : users[u].overdue /\ u \notin unsent =>
        \E k \in ActiveRentals(u) : IsLate(rentals[k])

\* Once a day has been swept, nobody with a late rental can rent again that day,
\* whatever he returns (video_club.py:72, 102-109).
SweptAreBlocked ==
    sweptOn = today =>
        \A k \in DOMAIN rentals : IsLate(rentals[k]) => users[rentals[k].user].overdue
=============================================================================
