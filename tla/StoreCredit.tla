----------------------------- MODULE StoreCredit -----------------------------
(***************************************************************************)
(* The store credit account of one customer: StoreCreditRepo.applyEntry as  *)
(* a transaction of several steps, run by concurrent calls of Issue,        *)
(* Restore and Redeem, some of them replays that carry the same             *)
(* idempotency key (internal/infrastructure/postgres/store_credit_repo.go,  *)
(* internal/application/storecredit/service.go).  The account row is locked *)
(* per currency while the key is unique per customer, so two calls with one *)
(* key may meet only at the unique index.                                   *)
(***************************************************************************)
EXTENDS Integers, FiniteSets, Functions

CONSTANTS
    Calls, Currencies, Amounts, Keys, NoKey, Notes, MaxBalance,
    MaxIssue,      \* cap of a single Issue; 0 disables it
    SavedOrders,   \* orders that have a row
    UnsavedOrders, \* order ids whose order has not been saved
    NoOrder,       \* an entry without an order
    NoNote,        \* the empty note
    NoCall,        \* an account row nobody has locked
    MaxFaults      \* bound: number of transactions that fail

Orders == SavedOrders \cup UnsavedOrders

ASSUME StoreCreditAssumption ==
    /\ Amounts \subseteq Nat \ {0}
    /\ NoKey \notin Keys
    /\ NoNote \in Notes
    /\ MaxBalance \in Nat
    /\ MaxIssue \in Nat
    /\ MaxFaults \in Nat
    /\ NoCall \notin Calls
    /\ NoOrder \notin Orders
    /\ SavedOrders \cap UnsavedOrders = {}

VARIABLES
    balance,    \* committed store_credit_accounts.balance of each currency
    ledger,     \* committed rows of store_credit_ledger
    lock,       \* which call holds the account row of each currency
    call,       \* each call: its progress, its request and what it has read
    faults

vars == <<balance, ledger, lock, call, faults>>

\* The balances and the posted entries are all the ledger shows.
Abstract == INSTANCE StoreCreditLedger WITH balance <- balance, ledger <- ledger

------------------------------------------------------------------------------

\* What a caller asks for.  Issue and Restore post an issue entry without an
\* order and may carry a key; Redeem names an order and carries no key.  Notes are
\* compared only between rows with a key, so a request without one is given none.
Ops == {"issue", "restore", "redeem"}

Request == [op : Ops, cur : Currencies, amount : Amounts, key : Keys \cup {NoKey}, note : Notes,
            order : Orders \cup {NoOrder}]

ValidRequests ==
    {q \in Request : /\ q.key = NoKey => q.note = NoNote
                     /\ IF q.op = "redeem" THEN q.key = NoKey /\ q.order \in Orders ELSE q.order = NoOrder}

Kind(q) == IF q.op = "redeem" THEN "redeem" ELSE "issue"

Entry == [id : Calls, kind : {"issue", "redeem"}, cur : Currencies, amount : Amounts, key : Keys \cup {NoKey},
          note : Notes]

\* What applyEntry adds to the balance.
Delta(e) == IF e.kind = "issue" THEN e.amount ELSE -e.amount

\* Where a call is in applyEntry, and how it ended.
InTx == {"lock", "apply", "insert", "commit"}
Ended == {"ok", "conflict", "insufficient", "notfound", "rejected", "error"}
Pc == {"idle", "check", "winner"} \cup InTx \cup Ended

Call == [pc : Pc, req : Request, seen : Nat]

\* The row a call inserts.
EntryOf(c) == [id |-> c, kind |-> Kind(call[c].req), cur |-> call[c].req.cur,
               amount |-> call[c].req.amount, key |-> call[c].req.key, note |-> call[c].req.note]

\* Rows written by a transaction that has not committed.
Inserted == {c \in Calls : call[c].pc = "commit"}

\* A replay carries the amount, currency and note of the row that has its key.
SameValue(e, f) == e.amount = f.amount /\ e.cur = f.cur /\ e.note = f.note

\* Mutant: the key is not looked up, and has no unique index.
RowsOfNoKey(k) == {}

RowsWithKey(k) == {e \in ledger : e.key = k}

\* Mutant: a replay is answered without comparing what it asks for.
ReplayUnchecked(e, f) == "ok"

\* What a call is answered whose key is in row f.
Replay(e, f) == IF SameValue(e, f) THEN "ok" ELSE "conflict"

Goto(c, pc) == call' = [call EXCEPT ![c].pc = pc]

\* Mutant: the transaction is never closed.
UnlockNothing(c) == UNCHANGED lock

Unlock(c) == lock' = [m \in Currencies |-> IF lock[m] = c THEN NoCall ELSE lock[m]]

Init ==
    /\ balance = [m \in Currencies |-> 0]
    /\ ledger = {}
    /\ lock = [m \in Currencies |-> NoCall]
    /\ call \in [Calls -> [pc : {"idle"}, req : ValidRequests, seen : {0}]]
    /\ faults = 0

\* Service.Issue checks the cap; Service.Restore and Service.Redeem do not.
Start(c) ==
    /\ call[c].pc = "idle"
    /\ IF call[c].req.op = "issue" /\ MaxIssue > 0 /\ call[c].req.amount > MaxIssue
       THEN Goto(c, "rejected")
       ELSE Goto(c, "check")
    /\ UNCHANGED <<balance, ledger, lock, faults>>

\* The lookup of the key before anything is written.
CheckKey(c) ==
    LET e == EntryOf(c) IN
    /\ call[c].pc = "check"
    /\ \/ /\ e.key = NoKey \/ RowsWithKey(e.key) = {}
          /\ Goto(c, "lock")
       \/ /\ e.key # NoKey
          /\ \E f \in RowsWithKey(e.key) :
                Goto(c, Replay(e, f))
    /\ UNCHANGED <<balance, ledger, lock, faults>>

\* Mutant: the account row is read without FOR UPDATE.
RowReadable(m) == TRUE

RowFree(m) == lock[m] = NoCall

\* The account row is created if it is missing, locked FOR UPDATE and read.
LockAccount(c) ==
    LET m == call[c].req.cur IN
    /\ call[c].pc = "lock"
    /\ RowFree(m)
    /\ lock' = [lock EXCEPT ![m] = c]
    /\ call' = [call EXCEPT ![c].pc = "apply", ![c].seen = balance[m]]
    /\ UNCHANGED <<balance, ledger, faults>>

\* Overflow and insufficient balance end the transaction.
Apply(c) ==
    LET d == Delta(EntryOf(c)) IN
    /\ call[c].pc = "apply"
    /\ \/ /\ call[c].seen + d > MaxBalance
          /\ Goto(c, "error") /\ Unlock(c)
       \/ /\ call[c].seen + d < 0
          /\ Goto(c, "insufficient") /\ Unlock(c)
       \/ /\ call[c].seen + d \in 0 .. MaxBalance
          /\ Goto(c, "insert") /\ UNCHANGED lock
    /\ UNCHANGED <<balance, ledger, faults>>

\* INSERT INTO store_credit_ledger: the foreign key on orders, then the unique
\* index on the key.  The index makes the statement wait for a transaction that
\* has inserted the same key, and fail once such a row is committed.
InsertRow(c) ==
    LET e == EntryOf(c) IN
    /\ call[c].pc = "insert"
    /\ \/ /\ call[c].req.order \in UnsavedOrders
          /\ Goto(c, "notfound") /\ Unlock(c)
       \/ /\ call[c].req.order \notin UnsavedOrders
          /\ e.key # NoKey /\ RowsWithKey(e.key) # {}
          /\ Goto(c, "winner") /\ Unlock(c)
       \/ /\ call[c].req.order \notin UnsavedOrders
          /\ e.key # NoKey => /\ RowsWithKey(e.key) = {}
                              /\ \A x \in Inserted : call[x].req.key # e.key
          /\ Goto(c, "commit") /\ UNCHANGED lock
    /\ UNCHANGED <<balance, ledger, faults>>

\* The balance computed from what was read, and the row, become visible.
Post(c) ==
    LET e == EntryOf(c) IN
    /\ call[c].pc = "commit"
    /\ balance' = [balance EXCEPT ![e.cur] = call[c].seen + Delta(e)]
    /\ ledger' = ledger \cup {e}

Commit(c) ==
    /\ Post(c)
    /\ Goto(c, "ok") /\ Unlock(c)
    /\ UNCHANGED faults

\* The loser of a race reads the winner's row on a fresh connection.
ReadWinner(c) ==
    LET e == EntryOf(c) IN
    /\ call[c].pc = "winner"
    /\ \E f \in RowsWithKey(e.key) :
          Goto(c, Replay(e, f))
    /\ UNCHANGED <<balance, ledger, lock, faults>>

\* A cancelled context, a lost connection, or the end of the process.  An error
\* of tx.Commit does not say whether the database has applied the transaction.
Fail(c) ==
    /\ call[c].pc \in InTx \cup {"check", "winner"}
    /\ faults < MaxFaults
    /\ faults' = faults + 1
    /\ Post(c) \/ UNCHANGED <<balance, ledger>>
    /\ Goto(c, "error") /\ Unlock(c)

Step(c) == Start(c) \/ CheckKey(c) \/ LockAccount(c) \/ Apply(c) \/ InsertRow(c) \/ Commit(c) \/ ReadWinner(c)

Next == \E c \in Calls : Step(c) \/ Fail(c)

Spec == Init /\ [][Next]_vars

------------------------------------------------------------------------------
(* Properties *)

\* Every account, row, lock and call has its type.
TypeOK ==
    /\ balance \in [Currencies -> Nat]
    /\ ledger \subseteq Entry
    /\ lock \in [Currencies -> Calls \cup {NoCall}]
    /\ call \in [Calls -> Call]
    /\ faults \in Nat

\* No update is lost: the balance of a currency is the sum of its entries
\* (applyEntry overwrites the balance with a value computed from what it read).
BalanceIsLedgerSum ==
    \A m \in Currencies :
        balance[m] = SumFunctionOnSet([e \in ledger |-> Delta(e)], {e \in ledger : e.cur = m})

\* Calls whose entry is posted although they were answered with an error.
Unanswered == {c \in Calls : call[c].pc = "error" /\ EntryOf(c) \in ledger}

\* The answer of a call agrees with the ledger.  "ok": the entry is posted, by
\* this call or by the one it replays, with the amount, currency and note asked
\* for.  "conflict": the key stands on a row that asks for something else, so a
\* caller that repeats a request whose answer it lost is never refused.  A call
\* refused in whatever way has posted nothing.  Only "error" leaves the caller in
\* doubt, and each entry posted under that answer costs a commit whose answer was
\* lost.
AnswersAgreeWithLedger ==
    /\ \A c \in Calls :
          LET e == EntryOf(c) IN
          /\ call[c].pc = "ok" => \/ e \in ledger
                                  \/ e.key # NoKey /\ \E f \in RowsWithKey(e.key) : SameValue(e, f)
          /\ call[c].pc = "conflict" => \E f \in RowsWithKey(e.key) : ~SameValue(e, f)
          /\ call[c].pc \notin {"ok", "error"} => e \notin ledger
    /\ Cardinality(Unanswered) <= faults

\* The transactions implement the ledger: entries are posted one at a time, a
\* key is used once, and the balance stays within bounds.
ImplementsLedger == Abstract!Spec

\* No calls ever wait for each other at the account rows and the unique index:
\* while one has not been answered, some call can take its next step.  Every step
\* brings its call nearer to the end, so each call that goes on is answered.
NobodyWaitsInVain ==
    (\E c \in Calls : call[c].pc \notin Ended) => ENABLED (\E c \in Calls : Step(c))
==============================================================================
