---------------------------- MODULE EventSourcing ----------------------------
(***************************************************************************)
(* Account of event-sourcing: rebuilt from a stream of events, changed by  *)
(* commands that return the event they applied, and asked for its history. *)
(*                                                                         *)
(* The stream is kept by the callers, who may lose an event they were      *)
(* given, and who may work on accounts rebuilt from an older stream: no    *)
(* command can tell. Timestamps come from them too, in any order. A        *)
(* command that raises is a step that is not enabled.                      *)
(***************************************************************************)
EXTENDS Integers, SequencesExt

CONSTANTS
    Handlers,       \* callers, each with an Account of his own
    Amounts,
    Times,
    MaxEvents       \* bound: events of one stream

ASSUME AccountAssumption ==
    /\ Amounts \in SUBSET (Nat \ {0})
    /\ Times \in SUBSET Nat
    /\ MaxEvents \in Nat \ {0}

VARIABLES
    store,      \* the stream as the callers saved it
    accounts,   \* the account each caller holds
    strayed     \* history: an event was saved from an account behind the stream

ledgerVars == <<store, accounts, strayed>>

NoAccount == [status |-> "none"]

Kinds == {"AccountOpened", "MoneyDeposited", "MoneyWithdrawn", "AccountClosed"}
Event(kind, amount, at) == [kind |-> kind, amount |-> amount, at |-> at]

NewAccount == [balance |-> 0, status |-> "Open", events |-> <<>>]

\* What an event does to a balance.
Change(e) ==
    CASE e.kind = "MoneyDeposited" -> e.amount
      [] e.kind = "MoneyWithdrawn" -> -e.amount
      [] OTHER -> 0

Applied(account, e) ==
    [balance |-> account.balance + Change(e),
     status |-> CASE e.kind = "AccountOpened" -> "Open"
                  [] e.kind = "AccountClosed" -> "Closed"
                  [] OTHER -> account.status,
     events |-> Append(account.events, e)]

Rebuilt(events) == FoldLeft(Applied, NewAccount, events)

IsTransaction(e) == e.kind \in {"MoneyDeposited", "MoneyWithdrawn"}

\* The loop that sums the transactions up, and lists those at some times.
NoTransactions == [running |-> 0, listed |-> <<>>]

Recorded(history, e, times) ==
    IF ~IsTransaction(e)
    THEN history
    ELSE LET after == history.running + Change(e)
         IN  [running |-> after,
              listed |-> IF e.at \in times
                         THEN Append(history.listed, [at |-> e.at, amount |-> Change(e), after |-> after])
                         ELSE history.listed]

History(events, times) ==
    FoldLeft(LAMBDA history, e : Recorded(history, e, times), NoTransactions, events)

TransactionHistory(account) == History(account.events, Nat).listed

TransactionsInRange(account, from, to) == History(account.events, from..to).listed

\* Variant: an event of that very moment is left out.
IsAfterOrAt(e, t) == e.at >= t

IsAfter(e, t) == e.at > t

\* The events before the first one after t.
UpTo(events, t) ==
    SubSeq(events, 1, Min({i \in DOMAIN events : IsAfter(events[i], t)} \cup {Len(events) + 1}) - 1)

Summed(events) == FoldLeft(LAMBDA balance, e : balance + Change(e), 0, events)

BalanceAt(account, t) == Summed(UpTo(account.events, t))

\* Variant: nobody looks at the balance.
CoversAlways(account, amount) == TRUE

Covers(account, amount) == amount <= account.balance

-----------------------------------------------------------------------------
LedgerInit ==
    /\ store = <<>>
    /\ accounts = [h \in Handlers |-> NoAccount]
    /\ strayed = FALSE

\* A stream starts with an event no command of an Account makes.
OpenAccount(t) ==
    /\ store = <<>>
    /\ store' = <<Event("AccountOpened", 0, t)>>
    /\ UNCHANGED <<accounts, strayed>>

Rebuild(h) ==
    /\ store # <<>>
    /\ accounts' = [accounts EXCEPT ![h] = Rebuilt(store)]
    /\ UNCHANGED <<store, strayed>>

\* The account applies its event, and the caller saves it or loses it.
Commit(h, e) ==
    /\ Len(accounts[h].events) < MaxEvents
    /\ accounts' = [accounts EXCEPT ![h] = Applied(@, e)]
    /\ \/ /\ Len(store) < MaxEvents
          /\ store' = Append(store, e)
          /\ strayed' = (strayed \/ accounts[h].events # store)
       \/ UNCHANGED <<store, strayed>>

Deposit(h, amount, t) ==
    /\ accounts[h].status = "Open"
    /\ Commit(h, Event("MoneyDeposited", amount, t))

Withdraw(h, amount, t) ==
    /\ accounts[h].status = "Open" /\ Covers(accounts[h], amount)
    /\ Commit(h, Event("MoneyWithdrawn", amount, t))

Close(h, t) ==
    /\ accounts[h].status = "Open" /\ accounts[h].balance = 0
    /\ Commit(h, Event("AccountClosed", 0, t))

LedgerNext ==
    \E t \in Times :
        \/ OpenAccount(t)
        \/ \E h \in Handlers :
             \/ Rebuild(h)
             \/ Close(h, t)
             \/ \E amount \in Amounts : Deposit(h, amount, t) \/ Withdraw(h, amount, t)

LedgerSpec == LedgerInit /\ [][LedgerNext]_ledgerVars

-----------------------------------------------------------------------------
Loaded == {accounts[h] : h \in {g \in Handlers : accounts[g] # NoAccount}}

IsEvent(e) ==
    /\ e.kind \in Kinds /\ e.at \in Times
    /\ e.amount \in IF IsTransaction(e) THEN Amounts ELSE {0}

LedgerTypeOK ==
    /\ \A i \in DOMAIN store : IsEvent(store[i])
    /\ \A a \in Loaded : /\ a.status \in {"Open", "Closed"} /\ a.balance \in Int
                         /\ \A i \in DOMAIN a.events : IsEvent(a.events[i])
    /\ strayed \in BOOLEAN

\* A stream written only by accounts that had read all of it never overdraws,
\* at any point of it, and ends when it closes with nothing left
\* (account.py:65-89).
StreamIsSound ==
    ~strayed => \A i \in DOMAIN store :
        LET account == Rebuilt(SubSeq(store, 1, i))
        IN  /\ account.balance >= 0
            /\ account.status = "Closed" => account.balance = 0 /\ i = Len(store)

\* The running balance that the history ends with is the account's, also for
\* one rebuilt from a stream that strayed; and asked for a time, an account
\* whose timestamps never go back answers with the running balance of its last
\* transaction up to then (account.py:91-101, 109-118, 120-134, 136-147).
HistoryAgrees ==
    \A a \in Loaded :
        LET history == TransactionHistory(a)
            Until(t) == TransactionsInRange(a, 0, t)
        IN  /\ history # <<>> => Last(history).after = a.balance
            /\ (\A i \in 1..(Len(a.events) - 1) : a.events[i].at <= a.events[i + 1].at) =>
                   \A t \in Times :
                       BalanceAt(a, t) = IF Until(t) = <<>> THEN 0 ELSE Last(Until(t)).after
=============================================================================
