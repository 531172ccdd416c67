-------------------------- MODULE LaundryReservation -------------------------
(***************************************************************************)
(* ReservationService and MachineApi of laundry-reservation, with the      *)
(* collaborators they call: a repository, a pin generator, a machine       *)
(* selector, the mail and SMS notifiers and the machines' own locks.       *)
(*                                                                         *)
(* A notifier may raise, a machine may refuse a lock, and its device may   *)
(* raise, having acted or not; an exception leaves behind what the call    *)
(* had done so far. The selector may pick a machine that is already        *)
(* reserved, as the one of the tests does.                                 *)
(***************************************************************************)
EXTENDS Integers, SequencesExt

CONSTANTS
    Customers,
    Machines,
    Pins,
    MaxFailedAttempts,
    MaxReservations,    \* bound: reservations ever made
    MaxFailures         \* bound: the counter, which a raising notifier leaves high

ASSUME LaundryAssumption ==
    /\ MaxFailedAttempts \in Nat \ {0}
    /\ MaxReservations \in Nat
    /\ MaxFailures \in Nat /\ MaxFailures >= MaxFailedAttempts

VARIABLES
    reservations,   \* the repository; an id is a place in it
    failures,       \* wrong pins counted for each machine
    lock,           \* the reservation and pin each machine is locked with
    assigned,       \* the reservations the MachineApi knows a machine for
    told,           \* the pin each reservation's customer was last sent
    guesses,        \* history: wrong pins entered since a pin was issued
    carried,        \* history: what a call that raised left on each counter
    troubled        \* history: the reservations that met a failed notice or
                    \* device, a refused lock or another on their machine

laundryVars == <<reservations, failures, lock, assigned, told, guesses, carried, troubled>>

Ids == 1..MaxReservations
Unlocked == 0       \* no reservation has this id
Untold == 0

Reservation == [customer : Customers, machine : Machines, pin : Pins, used : BOOLEAN]

-----------------------------------------------------------------------------
Active == {r \in DOMAIN reservations : ~reservations[r].used}
OfCustomer(c) == {r \in Active : reservations[r].customer = c}
OfMachine(m) == {r \in Active : reservations[r].machine = m}

\* The active reservation the repository finds for a machine that has one.
Found(m) == Min(OfMachine(m))

MayReserve(c) == OfCustomer(c) = {}

\* Variant: one wrong pin more before a new one is issued.
LockedOutLate(count) == count > MaxFailedAttempts

LockedOut(count) == count >= MaxFailedAttempts

\* Variant: the machine is locked with the pin the reservation had before.
RelockPinOld(r, pin) == reservations[r].pin

\* The pin a machine is locked with again.
RelockPin(r, pin) == pin

LaundryInit ==
    /\ reservations = <<>>
    /\ failures = [m \in Machines |-> 0]
    /\ lock = [m \in Machines |-> [id |-> Unlocked]]
    /\ assigned = {}
    /\ told = [r \in Ids |-> Untold]
    /\ guesses = [r \in Ids |-> 0]
    /\ carried = [m \in Machines |-> 0]
    /\ troubled = {}

\* MachineApi.lock, on a machine that takes the lock and on one that does not;
\* hit are the reservations the caller has already seen troubled.
Lock(r, m, pin, hit) ==
    \/ /\ lock' = [lock EXCEPT ![m] = [id |-> r, pin |-> pin]]
       /\ assigned' = assigned \cup {r}
       /\ troubled' = troubled \cup hit
    \/ /\ troubled' = troubled \cup hit \cup {r}
       /\ UNCHANGED <<lock, assigned>>

\* The device raises, and the MachineApi does not know whether it had acted.
LockRaises(r, m, pin, hit) ==
    /\ lock' \in {lock, [lock EXCEPT ![m] = [id |-> r, pin |-> pin]]}
    /\ troubled' = troubled \cup hit \cup {r}
    /\ UNCHANGED assigned

CreateReservation(c, m, pin) ==
    LET id == Len(reservations) + 1
        sharing == IF OfMachine(m) = {} THEN {} ELSE OfMachine(m) \cup {id}
    IN  /\ MayReserve(c) /\ id \in Ids
        /\ reservations' = Append(reservations,
               [customer |-> c, machine |-> m, pin |-> pin, used |-> FALSE])
        /\ \/ /\ told' = [told EXCEPT ![id] = pin]
              /\ Lock(id, m, pin, sharing) \/ LockRaises(id, m, pin, sharing)
           \/ /\ troubled' = troubled \cup sharing \cup {id}
              /\ UNCHANGED <<told, lock, assigned>>
        /\ UNCHANGED <<failures, guesses, carried>>

\* The machine is unlocked and its counter starts again from zero.
Unlock(r, m) ==
    /\ lock' = [lock EXCEPT ![m] = [id |-> Unlocked]]
    /\ assigned' = assigned \ {r}
    /\ failures' = [failures EXCEPT ![m] = 0]
    /\ carried' = [carried EXCEPT ![m] = 0]
    /\ UNCHANGED troubled

\* The device raises: the reservation is used, and nothing after it is done.
UnlockRaises(r, m) ==
    /\ lock' \in {lock, [lock EXCEPT ![m] = [id |-> Unlocked]]}
    /\ carried' = [carried EXCEPT ![m] = failures[m]]
    /\ troubled' = troubled \cup {r}
    /\ UNCHANGED <<assigned, failures>>

ClaimRight(m, pin) ==
    /\ OfMachine(m) # {} /\ reservations[Found(m)].pin = pin
    /\ reservations' = [reservations EXCEPT ![Found(m)].used = TRUE]
    /\ Unlock(Found(m), m) \/ UnlockRaises(Found(m), m)
    /\ UNCHANGED <<told, guesses>>

ClaimWrong(m, pin) ==
    /\ OfMachine(m) # {} /\ reservations[Found(m)].pin # pin
    /\ ~LockedOut(failures[m] + 1)
    /\ failures' = [failures EXCEPT ![m] = @ + 1]
    /\ guesses' = [guesses EXCEPT ![Found(m)] = @ + 1]
    /\ UNCHANGED <<reservations, lock, assigned, told, carried, troubled>>

\* A wrong pin too many: the reservation gets a new one.
ClaimLockedOut(m, pin, new) ==
    LET r == Found(m)
    IN  /\ OfMachine(m) # {} /\ reservations[r].pin # pin
        /\ LockedOut(failures[m] + 1) /\ failures[m] < MaxFailures
        /\ reservations' = [reservations EXCEPT ![r].pin = new]
        /\ guesses' = [guesses EXCEPT ![r] = 0]
        /\ \/ /\ told' = [told EXCEPT ![r] = new]
              /\ Lock(r, m, RelockPin(r, new), {})
              /\ failures' = [failures EXCEPT ![m] = 0]
              /\ carried' = [carried EXCEPT ![m] = 0]
           \/ /\ \/ /\ troubled' = troubled \cup {r}
                    /\ UNCHANGED <<told, lock, assigned>>
                 \/ /\ told' = [told EXCEPT ![r] = new]
                    /\ LockRaises(r, m, RelockPin(r, new), {})
              /\ failures' = [failures EXCEPT ![m] = @ + 1]
              /\ carried' = [carried EXCEPT ![m] = failures[m] + 1]

LaundryNext ==
    \E m \in Machines, pin \in Pins :
        \/ \E c \in Customers : CreateReservation(c, m, pin)
        \/ ClaimRight(m, pin) \/ ClaimWrong(m, pin)
        \/ \E new \in Pins : ClaimLockedOut(m, pin, new)

LaundrySpec == LaundryInit /\ [][LaundryNext]_laundryVars

-----------------------------------------------------------------------------
LaundryTypeOK ==
    /\ reservations \in Seq(Reservation) /\ Len(reservations) <= MaxReservations
    /\ failures \in [Machines -> 0..MaxFailures]
    /\ lock \in [Machines -> [id : Ids, pin : Pins] \cup {[id |-> Unlocked]}]
    /\ assigned \in SUBSET Ids
    /\ told \in [Ids -> Pins \cup {Untold}]
    /\ guesses \in [Ids -> Nat]
    /\ carried \in [Machines -> 0..MaxFailures]
    /\ troubled \in SUBSET Ids

\* Where nothing failed and the machine was not shared, the repository, the
\* lock and the last message to the customer agree on the pin of an active
\* reservation, through any number of lock-outs. A machine is locked only for a
\* reservation that is active and that the MachineApi can unlock, or that met
\* trouble of its own: a device that raises in unlock leaves its machine locked
\* for a reservation that is used (reservation_service.py:66-89,
\* machine_api.py:27-40).
PinsAgree ==
    /\ \A r \in Active \ troubled :
           LET reservation == reservations[r]
           IN  /\ lock[reservation.machine] = [id |-> r, pin |-> reservation.pin]
               /\ told[r] = reservation.pin
    /\ \A m \in Machines : lock[m].id \in (assigned \cap Active) \cup troubled \cup {Unlocked}
    /\ assigned \subseteq Active \cup troubled

\* No pin outlives MaxFailedAttempts - 1 wrong guesses at its reservation, even
\* on a shared machine or when notices are lost. The machine's counter counts
\* the guesses at the reservation that is there to claim, and besides them only
\* what a call that raised in between left on it: without one, the next
\* customer starts from zero (reservation_service.py:66-90).
GuessesCounted ==
    /\ \A r \in Active : guesses[r] < MaxFailedAttempts
    /\ \A m \in Machines :
           /\ failures[m] = carried[m] + IF OfMachine(m) = {} THEN 0 ELSE guesses[Found(m)]
           /\ carried[m] > 0 => \E r \in troubled : reservations[r].machine = m
=============================================================================
