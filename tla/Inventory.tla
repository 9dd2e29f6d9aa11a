------------------------------ MODULE Inventory ------------------------------
(***************************************************************************)
(* Stock rows and reservation rows of the shop, and the transactions that   *)
(* change them: checkout's Reserve and Release, Confirm, the stock writes   *)
(* of administrators and of the ERP synchronisation, and the batched sweep  *)
(* that gives the units of expired reservations back                        *)
(* (internal/infrastructure/postgres/reservation_repo.go, stock_repo.go,    *)
(* internal/application/inventory).                                         *)
(*                                                                          *)
(* Single-statement and two-row transactions are atomic: they wait until    *)
(* the rows they need are unlocked and commit at once.  The sweep and the   *)
(* bulk write hold several row locks at a time, so they are processes of    *)
(* several steps; what they change becomes visible when they commit.        *)
(***************************************************************************)
EXTENDS Integers, Sequences, FiniteSets, Functions

CONSTANTS
    Variants,        \* variants that have a stock row
    Reservations,    \* reservation ids (one per Reserve call)
    Sweepers,        \* workers that may run the reservation-expiry job
    Syncers,         \* workers that may run a bulk stock write
    None,            \* no owner, no variant
    Quantities,      \* quantities a Reserve call may ask for
    StockLevels,     \* absolute quantities SetStock and SetStocks may write
    TTL,             \* how long a reservation lives
    BatchSize,       \* reservationExpiryBatchSize
    MaxNow,          \* bound: last instant of the clock
    MaxWrites,       \* bound: number of absolute stock writes
    MaxFaults        \* bound: number of transactions that fail

Writers == Sweepers \cup Syncers

ASSUME InventoryAssumption ==
    /\ Quantities \subseteq Nat \ {0}
    /\ StockLevels \subseteq Nat
    /\ TTL \in Nat
    /\ BatchSize \in Nat \ {0}
    /\ MaxNow \in Nat /\ MaxWrites \in Nat /\ MaxFaults \in Nat
    /\ None \notin Writers \cup Variants
    /\ Sweepers \cap Syncers = {}
    /\ IsFiniteSet(Variants) /\ IsFiniteSet(Reservations)

VARIABLES
    stock,       \* stock.quantity of each variant
    res,         \* the reservations table
    now,         \* the database clock
    tx,          \* the open transaction of each writer
    rowLock,     \* who holds the lock on each stock row
    writes,      \* absolute stock writes so far
    faults,      \* failed transactions so far
    supplied     \* history: units brought in, net of what writes took away

vars == <<stock, res, now, tx, rowLock, writes, faults, supplied>>

------------------------------------------------------------------------------
(* Rows *)

Status == {"none", "active", "released", "confirmed"}

Row == [status : Status, variant : Variants \cup {None}, qty : Nat, exp : Nat]

NoRow == [status |-> "none", variant |-> None, qty |-> 0, exp |-> 0]

\* One UPDATE or upsert of a stock row.
StockWrite == [variant : Variants, qty : Nat]

\* A writer's open transaction: the sweep's cutoff, the reservation rows it has
\* selected FOR UPDATE, the stock statements still to run, in order, and what
\* the ones already run have written but not committed: an increment for each
\* variant (sweep), or the new level of each variant in touched (bulk write).
Tx == [pc : {"idle", "select", "write"}, cutoff : Nat, batch : SUBSET Reservations,
       todo : Seq(StockWrite), written : [Variants -> Nat], touched : SUBSET Variants]

NoTx == [pc |-> "idle", cutoff |-> 0, batch |-> {}, todo |-> <<>>,
         written |-> [v \in Variants |-> 0], touched |-> {}]

\* Reservation rows some sweep has selected FOR UPDATE.
Selected == UNION {tx[w].batch : w \in Sweepers}

Held(v) == {r \in Reservations : res[r].variant = v /\ res[r].status \in {"active", "confirmed"}}

QtyOf(S) == SumFunctionOnSet([r \in Reservations |-> res[r].qty], S)

Init ==
    /\ stock \in [Variants -> StockLevels]
    /\ res = [r \in Reservations |-> NoRow]
    /\ now = 0
    /\ tx = [w \in Writers |-> NoTx]
    /\ rowLock = [v \in Variants |-> None]
    /\ writes = 0
    /\ faults = 0
    /\ supplied = stock

------------------------------------------------------------------------------
(* Transactions of one statement, or of one reservation and its stock row *)

\* Mutant: stock is decremented without a condition.
AnyQuantity(v, q) == TRUE

Enough(v, q) == stock[v] >= q

\* Mutant: the UPDATE does not look at the status.
AnyRow(r) == res[r].status # "none"

\* WHERE id = $1 AND status = 'active', once no sweep has the row locked.
Open(r) == res[r].status = "active" /\ r \notin Selected

\* ReservationRepo.Reserve.  A quantity above what is left matches no row and
\* the transaction rolls back ("insufficient stock"), which changes nothing.
Reserve(r, v, q) ==
    /\ res[r].status = "none"
    /\ rowLock[v] = None
    /\ Enough(v, q)
    /\ stock' = [stock EXCEPT ![v] = @ - q]
    /\ res' = [res EXCEPT ![r] = [status |-> "active", variant |-> v, qty |-> q, exp |-> now + TTL]]
    /\ UNCHANGED <<now, tx, rowLock, writes, faults, supplied>>

\* ReservationRepo.Release: waits for both rows.
Release(r) ==
    /\ Open(r)
    /\ rowLock[res[r].variant] = None
    /\ res' = [res EXCEPT ![r].status = "released"]
    /\ stock' = [stock EXCEPT ![res[r].variant] = @ + res[r].qty]
    /\ UNCHANGED <<now, tx, rowLock, writes, faults, supplied>>

\* ReservationRepo.Confirm: the units stay deducted.
Confirm(r) ==
    /\ Open(r)
    /\ res' = [res EXCEPT ![r].status = "confirmed"]
    /\ UNCHANGED <<stock, now, tx, rowLock, writes, faults, supplied>>

\* StockRepo.SetStock, as the inventory screen and the importer call it: the
\* row is overwritten, whatever reservations were taken since it was read.
SetStock(v, q) ==
    /\ writes < MaxWrites
    /\ rowLock[v] = None
    /\ stock' = [stock EXCEPT ![v] = q]
    /\ supplied' = [supplied EXCEPT ![v] = @ + (q - stock[v])]
    /\ writes' = writes + 1
    /\ UNCHANGED <<res, now, tx, rowLock, faults>>

------------------------------------------------------------------------------
(* The bulk write: StockSyncService.writeStockChunk and StockRepo.SetStocks *)

\* The next stock statement of a transaction locks its row, or already has it;
\* the lock is kept until the transaction ends.
TakeRow(w) ==
    /\ tx[w].pc = "write"
    /\ tx[w].todo # <<>>
    /\ rowLock[Head(tx[w].todo).variant] \in {None, w}
    /\ rowLock' = [rowLock EXCEPT ![Head(tx[w].todo).variant] = w]
    /\ UNCHANGED <<stock, res, now, writes, faults, supplied>>

Unlock(w) == rowLock' = [v \in Variants |-> IF rowLock[v] = w THEN None ELSE rowLock[v]]

\* SetStocks iterates over a Go map: the order in which the statement meets
\* the stock rows is arbitrary.
Orders(S) == {o \in [1 .. Cardinality(S) -> S] : \A i, j \in DOMAIN o : o[i] = o[j] => i = j}

SyncBegin(w) ==
    /\ tx[w].pc = "idle"
    /\ writes < MaxWrites
    /\ writes' = writes + 1
    /\ \E S \in (SUBSET Variants) \ {{}}, q \in StockLevels :
         \E o \in Orders(S) :
            tx' = [tx EXCEPT ![w].pc = "write",
                             ![w].todo = [i \in DOMAIN o |-> [variant |-> o[i], qty |-> q]]]
    /\ UNCHANGED <<stock, res, now, rowLock, faults, supplied>>

SyncWrite(w) ==
    /\ TakeRow(w)
    /\ LET s == Head(tx[w].todo)
       IN  tx' = [tx EXCEPT ![w].todo = Tail(@),
                            ![w].written[s.variant] = s.qty,
                            ![w].touched = @ \cup {s.variant}]

SyncCommit(w) ==
    /\ tx[w].pc = "write"
    /\ tx[w].todo = <<>>
    /\ stock' = [v \in Variants |-> IF v \in tx[w].touched THEN tx[w].written[v] ELSE stock[v]]
    /\ supplied' = [v \in Variants |-> supplied[v] + (stock'[v] - stock[v])]
    /\ Unlock(w)
    /\ tx' = [tx EXCEPT ![w] = NoTx]
    /\ UNCHANGED <<res, now, writes, faults>>

------------------------------------------------------------------------------
(* The sweep: ReservationExpiryHandler.Handle and ReleaseExpiredBefore *)

SweepStart(w) ==
    /\ tx[w].pc = "idle"
    /\ tx' = [tx EXCEPT ![w] = [NoTx EXCEPT !.pc = "select", !.cutoff = now]]
    /\ UNCHANGED <<stock, res, now, rowLock, writes, faults, supplied>>

\* Mutant: the sweep does not skip rows another one has locked.
ExpiredOrLocked(w) == {r \in Reservations : res[r].status = "active" /\ res[r].exp < tx[w].cutoff}

\* Mutant: a reservation is given its time twice.
ExpiredTwice(w) == {r \in Reservations : res[r].status = "active" /\ res[r].exp + TTL < tx[w].cutoff /\ r \notin Selected}

\* Rows the SELECT ... FOR UPDATE SKIP LOCKED of a sweep may return.
Expired(w) == {r \in Reservations : /\ res[r].status = "active"
                                    /\ res[r].exp < tx[w].cutoff
                                    /\ r \notin Selected}

\* The batches ORDER BY expires_at LIMIT allows, each in the order of its rows.
Batches(w) ==
    LET n == IF Cardinality(Expired(w)) < BatchSize THEN Cardinality(Expired(w)) ELSE BatchSize
    IN  {o \in [1 .. n -> Expired(w)] :
            /\ \A i, j \in 1 .. n : i < j => o[i] # o[j] /\ res[o[i]].exp <= res[o[j]].exp
            /\ \A r \in Expired(w) : (\A i \in 1 .. n : o[i] # r) => \A i \in 1 .. n : res[o[i]].exp <= res[r].exp}

\* releaseExpiredBatch up to its first stock update; an empty selection ends
\* the sweep.
SweepSelect(w) ==
    /\ tx[w].pc = "select"
    /\ \/ /\ Expired(w) = {}
          /\ tx' = [tx EXCEPT ![w] = NoTx]
       \/ /\ Expired(w) # {}
          /\ \E o \in Batches(w) :
                tx' = [tx EXCEPT ![w].pc = "write",
                                 ![w].batch = {o[i] : i \in DOMAIN o},
                                 ![w].todo = [i \in DOMAIN o |-> [variant |-> res[o[i]].variant, qty |-> res[o[i]].qty]]]
    /\ UNCHANGED <<stock, res, now, rowLock, writes, faults, supplied>>

\* One turn of the loop that restores stock.  The case of a variant without a stock row,
\* which the code reports, does not arise: the reservation took its units from that row,
\* and both rows go only with their variant (ON DELETE CASCADE), which nothing deletes.
SweepRestore(w) ==
    /\ TakeRow(w)
    /\ LET s == Head(tx[w].todo)
       IN  tx' = [tx EXCEPT ![w].todo = Tail(@), ![w].written[s.variant] = @ + s.qty]

\* The batch commits: every selected row is released and its units are back.
\* A full batch is followed by another one with the same cutoff.
SweepCommit(w) ==
    /\ tx[w].pc = "write"
    /\ tx[w].todo = <<>>
    /\ res' = [r \in Reservations |-> IF r \in tx[w].batch THEN [res[r] EXCEPT !.status = "released"] ELSE res[r]]
    /\ stock' = [v \in Variants |-> stock[v] + tx[w].written[v]]
    /\ Unlock(w)
    /\ tx' = [tx EXCEPT ![w] = IF Cardinality(tx[w].batch) < BatchSize
                               THEN NoTx
                               ELSE [NoTx EXCEPT !.pc = "select", !.cutoff = tx[w].cutoff]]
    /\ UNCHANGED <<now, writes, faults, supplied>>

\* Mutant: the stock updates of a batch are not in its transaction.
RollbackOfRows(w) ==
    /\ tx' = [tx EXCEPT ![w] = NoTx]
    /\ stock' = [v \in Variants |-> stock[v] + tx[w].written[v]]
    /\ Unlock(w)
    /\ UNCHANGED <<res, now, writes, supplied>>

\* Rollback of an open transaction: nothing it did is visible.
Rollback(w) ==
    /\ tx' = [tx EXCEPT ![w] = NoTx]
    /\ Unlock(w)
    /\ UNCHANGED <<stock, res, now, writes, supplied>>

\* A statement timeout, a lost connection or the end of the worker.
TxFails(w) ==
    /\ tx[w].pc # "idle"
    /\ faults < MaxFaults
    /\ faults' = faults + 1
    /\ Rollback(w)

\* Who a writer waits for.
WaitsFor(w, u) ==
    /\ u # w
    /\ tx[w].pc = "write"
    /\ tx[w].todo # <<>>
    /\ rowLock[Head(tx[w].todo).variant] = u

\* The database breaks a cycle of waiting transactions by aborting one.
InCycle(w) ==
    \E u \in Writers : /\ WaitsFor(w, u)
                       /\ \/ WaitsFor(u, w)
                          \/ \E x \in Writers : WaitsFor(u, x) /\ WaitsFor(x, w)

DeadlockVictim(w) ==
    /\ InCycle(w)
    /\ Rollback(w)
    /\ UNCHANGED faults

Tick ==
    /\ now < MaxNow
    /\ now' = now + 1
    /\ UNCHANGED <<stock, res, tx, rowLock, writes, faults, supplied>>

Next ==
    \/ \E r \in Reservations, v \in Variants, q \in Quantities : Reserve(r, v, q)
    \/ \E r \in Reservations : Release(r) \/ Confirm(r)
    \/ \E v \in Variants, q \in StockLevels : SetStock(v, q)
    \/ \E w \in Syncers : SyncBegin(w) \/ SyncWrite(w) \/ SyncCommit(w)
    \/ \E w \in Sweepers : SweepStart(w) \/ SweepSelect(w) \/ SweepRestore(w) \/ SweepCommit(w)
    \/ \E w \in Writers : TxFails(w) \/ DeadlockVictim(w)
    \/ Tick

Spec == Init /\ [][Next]_vars

\* The reservation-expiry job runs again and again (cron, every 15 minutes), a
\* transaction that can proceed does, the database breaks deadlocks, and a row
\* lock goes to whoever waits for it (strong fairness: lock queues are FIFO).
Fairness ==
    /\ \A w \in Sweepers : /\ WF_vars(SweepStart(w)) /\ WF_vars(SweepSelect(w))
                          /\ SF_vars(SweepRestore(w)) /\ WF_vars(SweepCommit(w))
    /\ \A w \in Syncers : SF_vars(SyncWrite(w)) /\ WF_vars(SyncCommit(w))
    /\ \A w \in Writers : WF_vars(DeadlockVictim(w))

FairSpec == Spec /\ Fairness

------------------------------------------------------------------------------
(* Properties *)

\* Every row, lock and counter has its type.
TypeOK ==
    /\ stock \in [Variants -> Nat]
    /\ res \in [Reservations -> Row]
    /\ now \in Nat
    /\ tx \in [Writers -> Tx]
    /\ rowLock \in [Variants -> Writers \cup {None}]
    /\ writes \in Nat
    /\ faults \in Nat
    /\ supplied \in [Variants -> Int]

\* No unit is lost and none appears twice: what is on the shelf and what
\* active and confirmed reservations hold is what was supplied, although
\* Reserve, Release, Confirm, two overlapping sweeps and absolute writes run
\* in any order and sweeps fail half-way (reservation_repo.go).
StockConserved ==
    \A v \in Variants : stock[v] + QtyOf(Held(v)) = supplied[v]

\* SKIP LOCKED partitions the work: a row a sweep has selected is still active
\* and had expired, belongs to no other sweep, and its stock row is either
\* still to be updated or locked by this sweep until the commit
\* (releaseExpiredBatch).
SweepsPartition ==
    \A w \in Sweepers :
        /\ \A r \in tx[w].batch :
              /\ res[r].status = "active"
              /\ res[r].exp < tx[w].cutoff
              /\ \/ rowLock[res[r].variant] = w
                 \/ \E i \in DOMAIN tx[w].todo : tx[w].todo[i].variant = res[r].variant
        /\ \A u \in Sweepers \ {w} : tx[w].batch \cap tx[u].batch = {}

\* A reservation that was released or confirmed is never touched again, so its
\* units go back at most once (Release, Confirm, releaseExpiredBatch).
SettledIsFinal ==
    [][\A r \in Reservations : res[r].status \in {"released", "confirmed"} => res'[r] = res[r]]_vars

\* A hold whose time is over does not keep its units for ever: some sweep
\* releases it (ReservationExpiryHandler.Handle).
ExpiredIsSettled ==
    \A r \in Reservations :
        (res[r].status = "active" /\ res[r].exp < now) ~> res[r].status # "active"
==============================================================================
