--------------------------- MODULE InventoryProofs ---------------------------
(***************************************************************************)
(* Type correctness of Inventory, the partition of expired rows among       *)
(* overlapping sweeps, the finality of a settled reservation and the        *)
(* conservation of stock, for every set of variants, reservations and       *)
(* workers and every batch size; and, in the last part, the jobs table of   *)
(* JobQueue, which is shared out among its workers in the same way.         *)
(***************************************************************************)
EXTENDS Inventory, JobQueue, SumTheorems, FiniteSetTheorems, TLAPS

\* A row that exists names a variant.
RowsName == \A r \in Reservations : res[r].status # "none" => res[r].variant \in Variants

\* The inductive invariant.
IInv == TypeOK /\ RowsName /\ SweepsPartition

\* What a batch of the sweep's SELECT is: a finite sequence of rows that may be
\* released and that no other sweep has selected.
LEMMA BatchesType ==
    ASSUME NEW w \in Sweepers, TypeOK, NEW o \in Batches(w)
    PROVE  o \in Seq(Expired(w))
<1> DEFINE n == IF Cardinality(Expired(w)) < BatchSize THEN Cardinality(Expired(w)) ELSE BatchSize
<1>1. Expired(w) \subseteq Reservations
  BY DEF Expired
<1>2. IsFiniteSet(Expired(w))
  BY <1>1, FS_Subset, InventoryAssumption
<1>3. n \in Nat
  BY <1>2, FS_CardinalityType, InventoryAssumption
<1>4. o \in [1 .. n -> Expired(w)]
  BY DEF Batches
<1> QED
  BY <1>3, <1>4

\* An order of a finite set of variants is a sequence.
LEMMA OrdersType ==
    ASSUME NEW S \in SUBSET Variants, NEW o \in Orders(S)
    PROVE  o \in Seq(S)
<1>1. IsFiniteSet(S)
  BY FS_Subset, InventoryAssumption
<1>2. Cardinality(S) \in Nat
  BY <1>1, FS_CardinalityType
<1>3. o \in [1 .. Cardinality(S) -> S]
  BY DEF Orders
<1> QED
  BY <1>2, <1>3

LEMMA NoTxType == NoTx \in Tx
BY DEF NoTx, Tx, StockWrite

\* The initial state satisfies the inductive invariant.
LEMMA InitIInv == Init => IInv
<1> SUFFICES ASSUME Init PROVE IInv
  OBVIOUS
<1>1. TypeOK
  <2>1. stock \in [Variants -> Nat] /\ supplied \in [Variants -> Int]
    <3>1. \A q \in StockLevels : q \in Nat
      BY InventoryAssumption
    <3>2. stock \in [Variants -> StockLevels] /\ supplied = stock
      BY DEF Init
    <3> QED
      BY <3>1, <3>2
  <2>2. res \in [Reservations -> Row]
    BY DEF Init, NoRow, Row, Status
  <2>3. tx \in [Writers -> Tx]
    BY NoTxType DEF Init
  <2> QED
    BY <2>1, <2>2, <2>3 DEF Init, TypeOK
<1>2. RowsName
  BY DEF Init, RowsName, NoRow
<1>3. SweepsPartition
  BY DEF Init, SweepsPartition, NoTx, Writers
<1> QED
  BY <1>1, <1>2, <1>3 DEF IInv

\* Reserve creates an active row that no sweep has selected.
LEMMA ReserveIInv ==
    ASSUME IInv, NEW r \in Reservations, NEW v \in Variants, NEW q \in Quantities, Reserve(r, v, q)
    PROVE  IInv'
<1> USE DEF IInv
<1>1. q \in Nat /\ TTL \in Nat
  BY InventoryAssumption
<1>2. TypeOK'
  <2>1. stock' \in [Variants -> Nat]
    BY <1>1 DEF Reserve, Enough, TypeOK
  <2>2. res' \in [Reservations -> Row]
    BY <1>1 DEF Reserve, TypeOK, Row, Status
  <2> QED
    BY <2>1, <2>2 DEF Reserve, TypeOK
<1>3. RowsName'
  BY DEF Reserve, RowsName, TypeOK
<1>4. \A w \in Sweepers : r \notin tx[w].batch
  BY DEF Reserve, SweepsPartition
<1>5. SweepsPartition'
  <2>1. \A x \in Reservations : x # r => res'[x] = res[x]
    BY DEF Reserve, TypeOK
  <2>2. tx' = tx /\ rowLock' = rowLock
    BY DEF Reserve
  <2>3. \A w \in Sweepers : tx[w].batch \subseteq Reservations
    BY DEF TypeOK, Tx, Writers
  <2> QED
    BY <1>4, <2>1, <2>2, <2>3 DEF SweepsPartition
<1> QED
  BY <1>2, <1>3, <1>5

\* Release and Confirm settle a row that no sweep has selected.
LEMMA SettleIInv ==
    ASSUME IInv, NEW r \in Reservations, Release(r) \/ Confirm(r)
    PROVE  IInv'
<1> USE DEF IInv
<1>1. res[r].variant \in Variants /\ res[r].qty \in Nat
  BY DEF Release, Confirm, Open, RowsName, TypeOK, Row
<1>2. TypeOK'
  <2>1. stock' \in [Variants -> Nat]
    BY <1>1 DEF Release, Confirm, Open, TypeOK
  <2>2. res' \in [Reservations -> Row]
    BY DEF Release, Confirm, Open, TypeOK, Row, Status
  <2> QED
    BY <2>1, <2>2 DEF Release, Confirm, Open, TypeOK
<1>3. RowsName'
  BY DEF Release, Confirm, Open, RowsName, TypeOK, Row
<1>4. SweepsPartition'
  <2>1. \A x \in Reservations : x # r => res'[x] = res[x]
    BY DEF Release, Confirm, Open, TypeOK
  <2>2. tx' = tx /\ rowLock' = rowLock
    BY DEF Release, Confirm, Open
  <2>3. \A w \in Sweepers : tx[w].batch \subseteq Reservations /\ r \notin tx[w].batch
    BY DEF TypeOK, Tx, Writers, Release, Confirm, Open, Selected
  <2> QED
    BY <2>1, <2>2, <2>3 DEF SweepsPartition
<1> QED
  BY <1>2, <1>3, <1>4

\* An absolute write changes no reservation.
LEMMA SetStockIInv ==
    ASSUME IInv, NEW v \in Variants, NEW q \in StockLevels, SetStock(v, q)
    PROVE  IInv'
<1> USE DEF IInv
<1>1. q \in Nat
  BY InventoryAssumption
<1>2. TypeOK'
  BY <1>1 DEF SetStock, TypeOK
<1>3. RowsName' /\ SweepsPartition'
  BY DEF SetStock, RowsName, SweepsPartition
<1> QED
  BY <1>2, <1>3

\* Facts about the transactions: what TypeOK says of one of them.
LEMMA TxFields ==
    ASSUME TypeOK, NEW w \in Writers
    PROVE  /\ tx[w].pc \in {"idle", "select", "write"}
           /\ tx[w].cutoff \in Nat
           /\ tx[w].batch \in SUBSET Reservations
           /\ tx[w].todo \in Seq(StockWrite)
           /\ tx[w].written \in [Variants -> Nat]
           /\ tx[w].touched \in SUBSET Variants
BY DEF TypeOK, Tx

\* A transaction with one or more fields replaced is a transaction.
LEMMA TxBuild ==
    ASSUME NEW pc \in {"idle", "select", "write"}, NEW cutoff \in Nat, NEW batch \in SUBSET Reservations,
           NEW todo \in Seq(StockWrite), NEW written \in [Variants -> Nat], NEW touched \in SUBSET Variants
    PROVE  [pc |-> pc, cutoff |-> cutoff, batch |-> batch, todo |-> todo,
            written |-> written, touched |-> touched] \in Tx
BY DEF Tx

\* TakeRow gives the row at the head of todo to w and changes no other lock.
LEMMA TakeRowLocks ==
    ASSUME TypeOK, NEW w \in Writers, TakeRow(w)
    PROVE  /\ Head(tx[w].todo) \in StockWrite
           /\ rowLock' \in [Variants -> Writers \cup {None}]
           /\ rowLock'[Head(tx[w].todo).variant] = w
           /\ \A v \in Variants : rowLock[v] # None => rowLock'[v] = rowLock[v]
<1>1. Head(tx[w].todo) \in StockWrite
  BY TxFields DEF TakeRow
<1>2. Head(tx[w].todo).variant \in Variants
  BY <1>1 DEF StockWrite
<1> QED
  BY <1>1, <1>2 DEF TakeRow, TypeOK

\* Ending a transaction frees its own rows only.
LEMMA UnlockLocks ==
    ASSUME TypeOK, NEW w \in Writers, Unlock(w)
    PROVE  /\ rowLock' \in [Variants -> Writers \cup {None}]
           /\ \A v \in Variants : rowLock[v] # w => rowLock'[v] = rowLock[v]
BY DEF Unlock, TypeOK

\* A transaction that has selected no row can do as it likes with locks that
\* are not another's: the partition of the selected rows is kept as long as
\* the rows and the other transactions are.
LEMMA OthersKeepPartition ==
    ASSUME IInv, NEW w \in Writers,
           \A u \in Sweepers \ {w} : tx'[u] = tx[u],
           \A u \in Sweepers \ {w} : \A r \in tx[u].batch : res'[r] = res[r],
           \A u \in Writers \ {w}, v \in Variants : rowLock[v] = u => rowLock'[v] = u,
           w \in Sweepers => tx'[w].batch = {}
    PROVE  SweepsPartition'
<1>1. ASSUME NEW u \in Sweepers, u # w, NEW r \in tx'[u].batch
      PROVE  /\ res'[r].status = "active"
             /\ res'[r].exp < tx'[u].cutoff
             /\ \/ rowLock'[res'[r].variant] = u
                \/ \E i \in DOMAIN tx'[u].todo : tx'[u].todo[i].variant = res'[r].variant
  <2>1. tx'[u] = tx[u] /\ res'[r] = res[r] /\ r \in tx[u].batch
    BY <1>1
  <2>2. /\ res[r].status = "active"
        /\ res[r].exp < tx[u].cutoff
        /\ \/ rowLock[res[r].variant] = u
           \/ \E i \in DOMAIN tx[u].todo : tx[u].todo[i].variant = res[r].variant
    BY <1>1, <2>1 DEF IInv, SweepsPartition
  <2>3. res[r].variant \in Variants
    BY <1>1, <2>1, <2>2, TxFields DEF IInv, RowsName, Writers
  <2> QED
    BY <1>1, <2>1, <2>2, <2>3 DEF Writers
<1>2. ASSUME NEW u \in Sweepers, NEW x \in Sweepers \ {u}
      PROVE  tx'[u].batch \cap tx'[x].batch = {}
  BY DEF IInv, SweepsPartition
<1> QED
  BY <1>1, <1>2 DEF SweepsPartition

\* The bulk write selects no reservation.
LEMMA SyncIInv ==
    ASSUME IInv, NEW w \in Syncers, SyncBegin(w) \/ SyncWrite(w) \/ SyncCommit(w)
    PROVE  IInv'
<1> USE DEF IInv
<1>0. w \in Writers /\ w \notin Sweepers
  BY InventoryAssumption DEF Writers
<1>1. CASE SyncBegin(w)
  <2>0. PICK S \in SUBSET Variants, q \in StockLevels :
            \E o \in Orders(S) :
               tx' = [tx EXCEPT ![w].pc = "write",
                                ![w].todo = [i \in DOMAIN o |-> [variant |-> o[i], qty |-> q]]]
    BY <1>1 DEF SyncBegin
  <2>1. PICK o \in Orders(S) :
            tx' = [tx EXCEPT ![w].pc = "write",
                             ![w].todo = [i \in DOMAIN o |-> [variant |-> o[i], qty |-> q]]]
    BY <2>0
  <2> DEFINE todo == [i \in DOMAIN o |-> [variant |-> o[i], qty |-> q]]
  <2>2. q \in Nat
    BY InventoryAssumption
  <2>3. todo \in Seq(StockWrite)
    <3>1. o \in Seq(S)
      BY OrdersType
    <3>2. DOMAIN o = 1 .. Len(o) /\ Len(o) \in Nat /\ \A i \in DOMAIN o : o[i] \in Variants
      BY <3>1
    <3>3. \A i \in DOMAIN o : todo[i] \in StockWrite
      BY <2>2, <3>2 DEF StockWrite
    <3>4. todo \in [1 .. Len(o) -> StockWrite]
      BY <3>2, <3>3
    <3> QED
      BY <3>2, <3>4
  <2>4. tx'[w] \in Tx
    <3> HIDE DEF todo
    <3>1. tx[w] \in Tx /\ tx'[w] = [tx[w] EXCEPT !.pc = "write", !.todo = todo]
      BY <1>0, <2>1 DEF TypeOK, todo
    <3> QED
      BY <2>3, <3>1 DEF Tx
  <2>5. TypeOK'
    <3>1. tx' \in [Writers -> Tx]
      <4>1. \A u \in Writers \ {w} : tx'[u] = tx[u]
        BY <2>1 DEF TypeOK
      <4>2. tx' = [u \in Writers |-> tx'[u]]
        BY <2>1 DEF TypeOK
      <4> QED
        BY <2>4, <4>1, <4>2 DEF TypeOK
    <3>2. writes' = writes + 1 /\ UNCHANGED <<stock, res, now, rowLock, faults, supplied>>
      BY <1>1 DEF SyncBegin
    <3> QED
      BY <3>1, <3>2 DEF TypeOK
  <2>6. RowsName'
    BY <1>1 DEF SyncBegin, RowsName
  <2>7. SweepsPartition'
    BY <1>0, <1>1, <2>1, OthersKeepPartition DEF SyncBegin, TypeOK, Writers
  <2> QED
    BY <2>5, <2>6, <2>7
<1>2. CASE SyncWrite(w)
  <2> DEFINE s == Head(tx[w].todo)
  <2>1. TakeRow(w) /\ tx' = [tx EXCEPT ![w].todo = Tail(@), ![w].written[s.variant] = s.qty,
                                       ![w].touched = @ \cup {s.variant}]
    BY <1>2 DEF SyncWrite
  <2>2. s.variant \in Variants /\ s.qty \in Nat
    BY <1>0, <2>1, TakeRowLocks DEF StockWrite
  <2>3. Tail(tx[w].todo) \in Seq(StockWrite)
    BY <1>0, <2>1, TxFields DEF TakeRow
  <2>4. tx'[w] \in Tx
    <3> DEFINE todo == Tail(tx[w].todo)
               written == [tx[w].written EXCEPT ![s.variant] = s.qty]
               touched == tx[w].touched \cup {s.variant}
    <3>1. tx[w] \in Tx /\ tx'[w] = [tx[w] EXCEPT !.todo = todo, !.written = written, !.touched = touched]
      BY <1>0, <2>1 DEF TypeOK
    <3>2. todo \in Seq(StockWrite) /\ written \in [Variants -> Nat] /\ touched \in SUBSET Variants
      BY <1>0, <2>2, <2>3, TxFields
    <3> HIDE DEF todo, written, touched
    <3> QED
      BY <3>1, <3>2 DEF Tx
  <2>5. TypeOK'
    <3>1. tx' \in [Writers -> Tx]
      <4>1. \A u \in Writers \ {w} : tx'[u] = tx[u]
        BY SMTT(30), <2>1 DEF TypeOK
      <4>2. tx' = [u \in Writers |-> tx'[u]]
        BY <2>1 DEF TypeOK
      <4> QED
        BY <2>4, <4>1, <4>2 DEF TypeOK
    <3>2. rowLock' \in [Variants -> Writers \cup {None}]
      BY <1>0, <2>1, TakeRowLocks
    <3> HIDE DEF s
    <3> QED
      BY <2>1, <3>1, <3>2 DEF TakeRow, TypeOK
  <2>6. RowsName'
    BY <2>1 DEF TakeRow, RowsName
  <2>7. SweepsPartition'
    <3>1. w \notin Sweepers /\ None \notin Writers
      BY InventoryAssumption DEF Writers
    <3>2. \A u \in Sweepers : u # w /\ tx'[u] = tx[u]
      BY <2>1, <3>1 DEF TypeOK, Writers
    <3>3. \A u \in Writers \ {w}, v \in Variants : rowLock[v] = u => rowLock'[v] = u
      BY <1>0, <2>1, <3>1, TakeRowLocks
    <3>4. res' = res
      BY <2>1 DEF TakeRow
    <3> HIDE DEF s
    <3> QED
      BY <1>0, <3>1, <3>2, <3>3, <3>4, OthersKeepPartition
  <2> QED
    BY <2>5, <2>6, <2>7
<1>3. CASE SyncCommit(w)
  <2>1. stock' \in [Variants -> Nat]
    BY <1>0, <1>3, TxFields DEF SyncCommit, TypeOK
  <2>2. supplied' \in [Variants -> Int]
    BY <1>3, <2>1 DEF SyncCommit, TypeOK
  <2>3. TypeOK'
    BY <1>0, <1>3, <2>1, <2>2, UnlockLocks, NoTxType DEF SyncCommit, TypeOK
  <2>4. RowsName'
    BY <1>3 DEF SyncCommit, RowsName
  <2>5. SweepsPartition'
    BY <1>0, <1>3, UnlockLocks, OthersKeepPartition DEF SyncCommit, TypeOK, Writers
  <2> QED
    BY <2>3, <2>4, <2>5
<1> QED
  BY <1>1, <1>2, <1>3

\* A rollback or the start of a sweep leaves the transaction without rows.
LEMMA RestartIInv ==
    ASSUME IInv, NEW w \in Writers,
           \/ w \in Sweepers /\ SweepStart(w)
           \/ TxFails(w)
           \/ DeadlockVictim(w)
    PROVE  IInv'
<1> USE DEF IInv
<1>1. CASE w \in Sweepers /\ SweepStart(w)
  <2>1. [NoTx EXCEPT !.pc = "select", !.cutoff = now] \in Tx
    BY NoTxType DEF NoTx, Tx, TypeOK
  <2>2. TypeOK'
    BY <1>1, <2>1 DEF SweepStart, TypeOK
  <2>3. RowsName'
    BY <1>1 DEF SweepStart, RowsName
  <2>4. tx'[w].batch = {}
    BY <1>1 DEF SweepStart, TypeOK, NoTx
  <2>5. SweepsPartition'
    BY <1>1, <2>4, OthersKeepPartition DEF SweepStart, TypeOK, Writers
  <2> QED
    BY <2>2, <2>3, <2>5
<1>2. CASE TxFails(w) \/ DeadlockVictim(w)
  <2>1. Rollback(w) /\ faults' \in Nat
    BY <1>2 DEF TxFails, DeadlockVictim, TypeOK
  <2>2. TypeOK'
    BY <2>1, UnlockLocks, NoTxType DEF Rollback, TypeOK
  <2>3. RowsName'
    BY <2>1 DEF Rollback, RowsName
  <2>4. tx'[w].batch = {}
    BY <2>1 DEF Rollback, TypeOK, NoTx
  <2>5. SweepsPartition'
    BY <2>1, <2>4, UnlockLocks, OthersKeepPartition DEF Rollback, TypeOK, Writers
  <2> QED
    BY <2>2, <2>3, <2>5
<1> QED
  BY <1>1, <1>2

\* A batch is made of rows that may be released and that are nobody else's.
LEMMA SweepSelectIInv ==
    ASSUME IInv, NEW w \in Sweepers, SweepSelect(w)
    PROVE  IInv'
<1> USE DEF IInv
<1>0. w \in Writers
  BY DEF Writers
<1>1. CASE Expired(w) = {} /\ tx' = [tx EXCEPT ![w] = NoTx]
  <2>1. TypeOK'
    BY <1>0, <1>1, NoTxType DEF SweepSelect, TypeOK
  <2>2. RowsName'
    BY DEF SweepSelect, RowsName
  <2>3. tx'[w].batch = {}
    BY <1>0, <1>1 DEF TypeOK, NoTx
  <2>4. SweepsPartition'
    BY <1>0, <1>1, <2>3, OthersKeepPartition DEF SweepSelect, TypeOK, Writers
  <2> QED
    BY <2>1, <2>2, <2>4
<1>2. ASSUME NEW o \in Batches(w),
             tx' = [tx EXCEPT ![w].pc = "write",
                              ![w].batch = {o[i] : i \in DOMAIN o},
                              ![w].todo = [i \in DOMAIN o |-> [variant |-> res[o[i]].variant, qty |-> res[o[i]].qty]]]
      PROVE  IInv'
  <2> DEFINE batch == {o[i] : i \in DOMAIN o}
             todo == [i \in DOMAIN o |-> [variant |-> res[o[i]].variant, qty |-> res[o[i]].qty]]
  <2>1. o \in Seq(Expired(w))
    BY BatchesType
  <2>2. DOMAIN o = 1 .. Len(o) /\ Len(o) \in Nat /\ \A i \in DOMAIN o : o[i] \in Expired(w)
    BY <2>1
  <2>3. batch \subseteq Reservations
    BY <2>2 DEF Expired
  <2>4. todo \in Seq(StockWrite)
    <3>1. \A i \in DOMAIN o : res[o[i]].variant \in Variants /\ res[o[i]].qty \in Nat
      BY <2>2 DEF Expired, RowsName, TypeOK, Row
    <3>2. todo \in [1 .. Len(o) -> StockWrite]
      BY <2>2, <3>1 DEF StockWrite
    <3> QED
      BY <2>2, <3>2
  <2>5. tx'[w] = [tx[w] EXCEPT !.pc = "write", !.batch = batch, !.todo = todo]
    BY <1>0, <1>2 DEF TypeOK
  <2>6. \A u \in Writers \ {w} : tx'[u] = tx[u]
    BY <1>2 DEF TypeOK
  <2>7. tx[w] \in Tx
    BY <1>0 DEF TypeOK
  <2>8. UNCHANGED <<stock, res, now, rowLock, writes, faults, supplied>>
    BY DEF SweepSelect
  <2>9. TypeOK'
    <3>1. tx'[w] \in Tx
      <4> HIDE DEF batch, todo
      <4> QED
        BY <2>3, <2>4, <2>5, <2>7 DEF Tx
    <3>2. tx' = [u \in Writers |-> tx'[u]]
      BY <1>2 DEF TypeOK
    <3>3. tx' \in [Writers -> Tx]
      BY <2>6, <3>1, <3>2 DEF TypeOK
    <3> QED
      BY <2>8, <3>3 DEF TypeOK
  <2>10. RowsName'
    BY <2>8 DEF RowsName
  <2>11. tx'[w].batch = batch /\ tx'[w].todo = todo /\ tx'[w].cutoff = tx[w].cutoff
    BY <2>5, <2>7 DEF Tx
  <2>12. SweepsPartition'
    <3>1. ASSUME NEW r \in batch
          PROVE  /\ res'[r].status = "active"
                 /\ res'[r].exp < tx'[w].cutoff
                 /\ \E i \in DOMAIN tx'[w].todo : tx'[w].todo[i].variant = res'[r].variant
      <4>1. PICK i \in DOMAIN o : r = o[i]
        OBVIOUS
      <4>2. i \in DOMAIN todo /\ todo[i].variant = res[r].variant
        BY <4>1
      <4>3. r \in Expired(w)
        BY <2>2, <4>1
      <4> QED
        BY <2>8, <2>11, <4>2, <4>3 DEF Expired
    <3>2. ASSUME NEW u \in Sweepers \ {w}
          PROVE  /\ tx'[u] = tx[u]
                 /\ tx'[u].batch \cap batch = {}
      BY <2>2, <2>6 DEF Expired, Selected, Writers
    <3> HIDE DEF batch, todo
    <3> QED
      BY <2>8, <2>11, <3>1, <3>2 DEF SweepsPartition
  <2> QED
    BY <2>9, <2>10, <2>12
<1> QED
  BY <1>1, <1>2 DEF SweepSelect

\* What Tail does to the places of a sequence.
LEMMA TailIndex ==
    ASSUME NEW S, NEW q \in Seq(S), q # <<>>, NEW i \in DOMAIN q, i # 1
    PROVE  i - 1 \in DOMAIN Tail(q) /\ Tail(q)[i - 1] = q[i]
<1>1. Len(q) \in Nat /\ i \in 2 .. Len(q) /\ DOMAIN Tail(q) = 1 .. Len(q) - 1
  OBVIOUS
<1> QED
  BY <1>1

\* A restored row stays locked until the batch commits.
LEMMA SweepRestoreIInv ==
    ASSUME IInv, NEW w \in Sweepers, SweepRestore(w)
    PROVE  IInv'
<1> USE DEF IInv
<1> DEFINE s == Head(tx[w].todo)
           todo == Tail(tx[w].todo)
           written == [tx[w].written EXCEPT ![s.variant] = @ + s.qty]
<1>0. w \in Writers
  BY DEF Writers
<1>1. TakeRow(w) /\ tx' = [tx EXCEPT ![w].todo = Tail(@), ![w].written[s.variant] = @ + s.qty]
  BY DEF SweepRestore
<1>2. s.variant \in Variants /\ s.qty \in Nat
  BY <1>0, <1>1, TakeRowLocks DEF StockWrite
<1>3. tx[w] \in Tx /\ tx'[w] = [tx[w] EXCEPT !.todo = todo, !.written = written]
  BY <1>0, <1>1 DEF TypeOK
<1>4. todo \in Seq(StockWrite) /\ written \in [Variants -> Nat]
  <2>1. tx[w].todo \in Seq(StockWrite) /\ tx[w].written \in [Variants -> Nat]
    BY <1>0, TxFields
  <2>2. tx[w].todo # <<>>
    BY <1>1 DEF TakeRow
  <2>3. todo \in Seq(StockWrite)
    BY <2>1, <2>2
  <2>4. written \in [Variants -> Nat]
    <3> HIDE DEF s
    <3> QED
      BY <1>2, <2>1
  <2> QED
    BY <2>3, <2>4
<1>5. \A u \in Writers \ {w} : tx'[u] = tx[u]
  BY <1>1 DEF TypeOK
<1>6. TypeOK'
  <2>1. tx'[w] \in Tx
    <3> HIDE DEF todo, written
    <3> QED
      BY <1>3, <1>4 DEF Tx
  <2>2. tx' = [u \in Writers |-> tx'[u]]
    BY <1>1 DEF TypeOK
  <2>3. tx' \in [Writers -> Tx]
    BY <1>5, <2>1, <2>2 DEF TypeOK
  <2> QED
    BY <1>0, <1>1, <2>3, TakeRowLocks DEF TakeRow, TypeOK
<1>7. RowsName'
  BY <1>1 DEF TakeRow, RowsName
<1>8. SweepsPartition'
  <2>0. res' = res /\ tx'[w].batch = tx[w].batch /\ tx'[w].cutoff = tx[w].cutoff /\ tx'[w].todo = todo
    <3>1. res' = res
      BY <1>1 DEF TakeRow
    <3> HIDE DEF todo, written, s, IInv
    <3>2. tx'[w].batch = tx[w].batch /\ tx'[w].cutoff = tx[w].cutoff /\ tx'[w].todo = todo
      BY <1>3 DEF Tx
    <3> QED
      BY <3>1, <3>2
  <2>1. ASSUME NEW r \in tx[w].batch
        PROVE  \/ rowLock'[res[r].variant] = w
               \/ \E i \in DOMAIN todo : todo[i].variant = res[r].variant
    <3>0. res[r].variant \in Variants
      BY <1>0, TxFields DEF SweepsPartition, RowsName
    <3>1. CASE rowLock[res[r].variant] = w
      BY <1>0, <1>1, <3>0, <3>1, TakeRowLocks, InventoryAssumption
    <3>2. ASSUME NEW i \in DOMAIN tx[w].todo, tx[w].todo[i].variant = res[r].variant
          PROVE  \/ rowLock'[res[r].variant] = w
                 \/ \E j \in DOMAIN todo : todo[j].variant = res[r].variant
      <4>0. tx[w].todo \in Seq(StockWrite) /\ tx[w].todo # <<>>
        BY <1>0, <1>1, TxFields DEF TakeRow
      <4>1. CASE i = 1
        BY <1>0, <1>1, <3>2, <4>0, <4>1, TakeRowLocks
      <4>2. CASE i # 1
        <5>1. i - 1 \in DOMAIN todo /\ todo[i - 1] = tx[w].todo[i]
          BY <4>0, <4>2, TailIndex
        <5> QED
          BY <3>2, <5>1
      <4> QED
        BY <4>1, <4>2
    <3> QED
      BY <3>1, <3>2 DEF SweepsPartition
  <2>2. ASSUME NEW u \in Sweepers \ {w}, NEW r \in tx[u].batch
        PROVE  \/ rowLock'[res[r].variant] = u
               \/ \E i \in DOMAIN tx[u].todo : tx[u].todo[i].variant = res[r].variant
    <3>1. u \in Writers /\ res[r].variant \in Variants
      BY TxFields DEF SweepsPartition, RowsName, Writers
    <3> QED
      BY <1>0, <1>1, <3>1, TakeRowLocks, InventoryAssumption DEF SweepsPartition
  <2>3. \A u \in Sweepers \ {w} : tx'[u] = tx[u]
    BY <1>5 DEF Writers
  <2> HIDE DEF todo, written, s
  <2> QED
    BY <2>0, <2>1, <2>2, <2>3 DEF SweepsPartition
<1> QED
  BY <1>6, <1>7, <1>8

\* The commit releases the rows of this batch, which are in no other.
LEMMA SweepCommitIInv ==
    ASSUME IInv, NEW w \in Sweepers, SweepCommit(w)
    PROVE  IInv'
<1> USE DEF IInv
<1>0. w \in Writers
  BY DEF Writers
<1>1. \A r \in tx[w].batch : r \in Reservations /\ res[r].status = "active"
  BY <1>0, TxFields DEF SweepsPartition
<1>2. tx'[w] \in Tx /\ tx'[w].batch = {}
  <2>1. [NoTx EXCEPT !.pc = "select", !.cutoff = tx[w].cutoff] \in Tx
    BY <1>0, NoTxType, TxFields DEF NoTx, Tx
  <2> QED
    BY <1>0, <2>1, NoTxType DEF SweepCommit, TypeOK, NoTx
<1>3. \A u \in Writers \ {w} : tx'[u] = tx[u]
  BY DEF SweepCommit, TypeOK
<1>4. TypeOK'
  <2>1. stock' \in [Variants -> Nat]
    BY <1>0, TxFields DEF SweepCommit, TypeOK
  <2>2. res' \in [Reservations -> Row]
    <3>1. \A r \in Reservations : [res[r] EXCEPT !.status = "released"] \in Row
      BY DEF TypeOK, Row, Status
    <3> QED
      BY <3>1 DEF SweepCommit, TypeOK
  <2>3. tx' = [u \in Writers |-> tx'[u]]
    BY DEF SweepCommit, TypeOK
  <2>4. tx' \in [Writers -> Tx]
    BY <1>2, <1>3, <2>3 DEF TypeOK
  <2>5. rowLock' \in [Variants -> Writers \cup {None}]
    BY <1>0, UnlockLocks DEF SweepCommit
  <2> QED
    BY <2>1, <2>2, <2>4, <2>5 DEF SweepCommit, TypeOK
<1>5. RowsName'
  BY <1>1 DEF SweepCommit, RowsName, TypeOK, Row
<1>6. SweepsPartition'
  <2>1. \A u \in Sweepers \ {w} : \A r \in tx[u].batch : res'[r] = res[r]
    BY TxFields DEF SweepCommit, SweepsPartition, TypeOK, Writers
  <2>2. \A u \in Writers \ {w}, v \in Variants : rowLock[v] = u => rowLock'[v] = u
    BY <1>0, UnlockLocks DEF SweepCommit
  <2> QED
    BY <1>0, <1>2, <1>3, <2>1, <2>2, OthersKeepPartition DEF Writers
<1> QED
  BY <1>4, <1>5, <1>6

\* Every step preserves the inductive invariant.
LEMMA NextIInv == IInv /\ [Next]_vars => IInv'
<1> SUFFICES ASSUME IInv, [Next]_vars PROVE IInv'
  OBVIOUS
<1>1. CASE \E r \in Reservations, v \in Variants, q \in Quantities : Reserve(r, v, q)
  BY <1>1, ReserveIInv
<1>2. CASE \E r \in Reservations : Release(r) \/ Confirm(r)
  BY <1>2, SettleIInv
<1>3. CASE \E v \in Variants, q \in StockLevels : SetStock(v, q)
  BY <1>3, SetStockIInv
<1>4. CASE \E w \in Syncers : SyncBegin(w) \/ SyncWrite(w) \/ SyncCommit(w)
  BY <1>4, SyncIInv
<1>5. CASE \E w \in Sweepers : SweepStart(w)
  BY <1>5, RestartIInv DEF Writers
<1>6. CASE \E w \in Sweepers : SweepSelect(w)
  BY <1>6, SweepSelectIInv
<1>7. CASE \E w \in Sweepers : SweepRestore(w)
  BY <1>7, SweepRestoreIInv
<1>8. CASE \E w \in Sweepers : SweepCommit(w)
  BY <1>8, SweepCommitIInv
<1>9. CASE \E w \in Writers : TxFails(w) \/ DeadlockVictim(w)
  BY <1>9, RestartIInv
<1>10. CASE Tick
  BY <1>10 DEF Tick, IInv, TypeOK, RowsName, SweepsPartition
<1>11. CASE UNCHANGED vars
  BY <1>11 DEF vars, IInv, TypeOK, RowsName, SweepsPartition
<1> QED
  BY <1>1, <1>2, <1>3, <1>4, <1>5, <1>6, <1>7, <1>8, <1>9, <1>10, <1>11 DEF Next

\* Every row, lock and transaction of Inventory keeps its type; in particular no
\* sequence of reservations, sweeps and writes makes a stock level negative.
THEOREM TypeCorrect == Spec => []TypeOK
<1>1. Init => IInv
  BY InitIInv
<1>2. IInv /\ [Next]_vars => IInv'
  BY NextIInv
<1>3. IInv => TypeOK
  BY DEF IInv
<1> QED
  BY <1>1, <1>2, <1>3, PTL DEF Spec

\* Overlapping sweeps never work on the same reservation, and a reservation a
\* sweep works on is active and expired until the sweep ends
\* (ReleaseExpiredBefore).
THEOREM PartitionCorrect == Spec => []SweepsPartition
<1>1. Init => IInv
  BY InitIInv
<1>2. IInv /\ [Next]_vars => IInv'
  BY NextIInv
<1>3. IInv => SweepsPartition
  BY DEF IInv
<1> QED
  BY <1>1, <1>2, <1>3, PTL DEF Spec

\* A released or confirmed reservation is never changed again, whatever Release,
\* Confirm and the sweeps do: its units go back at most once.
THEOREM SettledIsFinalCorrect == Spec => SettledIsFinal
<1> DEFINE A == \A r \in Reservations : res[r].status \in {"released", "confirmed"} => res'[r] = res[r]
<1>1. Init => IInv
  BY InitIInv
<1>2. IInv /\ [Next]_vars => IInv'
  BY NextIInv
<1>3. IInv /\ [Next]_vars => [A]_vars
  <2> SUFFICES ASSUME IInv, Next PROVE A
    OBVIOUS
  <2>1. CASE \E r \in Reservations, v \in Variants, q \in Quantities : Reserve(r, v, q)
    BY <2>1 DEF Reserve, IInv, TypeOK
  <2>2. CASE \E r \in Reservations : Release(r) \/ Confirm(r)
    BY <2>2 DEF Release, Confirm, Open, IInv, TypeOK
  <2>3. CASE \E w \in Sweepers : SweepCommit(w)
    BY <2>3 DEF SweepCommit, IInv, SweepsPartition, TypeOK
  <2>4. CASE res' = res
    BY <2>4
  <2> QED
    BY ZenonT(30), <2>1, <2>2, <2>3, <2>4
    DEF Next, SetStock, SyncBegin, SyncWrite, SyncCommit, SweepStart, SweepSelect, SweepRestore,
        TakeRow, TxFails, DeadlockVictim, Rollback, Tick
<1>4. Spec => [][A]_vars
  BY <1>1, <1>2, <1>3, PTL DEF Spec
<1> QED
  BY <1>4 DEF SettledIsFinal

------------------------------------------------------------------------------
(* Conservation of stock *)

\* reservations.quantity of every row.
qtys == [r \in Reservations |-> res[r].qty]

\* The rows of a batch that belong to a variant.
OfVariant(S, v) == {r \in S : res[r].variant = v}

\* What a sweep has still to restore is the rest of its batch, each row once:
\* o lists the rows whose stock statement has not run, and written holds the
\* units of the others.
RestOfBatch(w, o) ==
    /\ DOMAIN o = DOMAIN tx[w].todo
    /\ \A i \in DOMAIN o : /\ o[i] \in tx[w].batch
                           /\ tx[w].todo[i] = [variant |-> res[o[i]].variant, qty |-> res[o[i]].qty]
    /\ \A i, j \in DOMAIN o : o[i] = o[j] => i = j
    /\ \A v \in Variants : tx[w].written[v] = SumFunctionOnSet(qtys, OfVariant(tx[w].batch \ {o[i] : i \in DOMAIN o}, v))

SweepsAccount ==
    \A w \in Sweepers :
        /\ tx[w].pc # "write" => tx[w].batch = {} /\ tx[w].todo = <<>>
        /\ \E o \in Seq(Reservations) : RestOfBatch(w, o)

\* The inductive invariant of conservation.
CInv == IInv /\ SweepsAccount /\ StockConserved

\* Sums of quantities are sums of natural numbers over finite sets.
LEMMA QtysFinite ==
    ASSUME TypeOK
    PROVE  /\ \A S \in SUBSET Reservations : IsFiniteSet(S)
           /\ \A r \in Reservations : qtys[r] \in Nat /\ qtys[r] = res[r].qty
           /\ \A v : Held(v) \in SUBSET Reservations
           /\ \A S : QtyOf(S) = SumFunctionOnSet(qtys, S)
BY FS_Subset, InventoryAssumption DEF TypeOK, Row, qtys, Held, QtyOf

\* The account of a sweep depends on its own transaction and on the rows it has
\* selected, and on nothing else.
LEMMA AccountKept ==
    ASSUME CInv, TypeOK', NEW w \in Sweepers, tx'[w] = tx[w], \A r \in tx[w].batch : res'[r] = res[r]
    PROVE  /\ tx'[w].pc # "write" => tx'[w].batch = {} /\ tx'[w].todo = <<>>
           /\ \E o \in Seq(Reservations) : RestOfBatch(w, o)'
<1>0. TypeOK /\ w \in Writers
  BY DEF CInv, IInv, Writers
<1>1. PICK o \in Seq(Reservations) : RestOfBatch(w, o)
  BY DEF CInv, SweepsAccount
<1>2. tx[w].batch \subseteq Reservations
  BY <1>0, TxFields
<1> DEFINE Rest(v) == OfVariant(tx[w].batch \ {o[i] : i \in DOMAIN o}, v)
<1>3. ASSUME NEW v \in Variants
      PROVE  SumFunctionOnSet(qtys, Rest(v)) = SumFunctionOnSet(qtys', Rest(v)')
  <2>1. Rest(v)' = Rest(v)
    BY DEF OfVariant
  <2>2. \A r \in Rest(v) : qtys'[r] = qtys[r]
    BY <1>2 DEF qtys, OfVariant
  <2>3. IsFiniteSet(Rest(v))
    BY <1>0, <1>2, QtysFinite DEF OfVariant
  <2> HIDE DEF Rest
  <2> QED
    BY <2>1, <2>2, <2>3, SumSame
<1>4. RestOfBatch(w, o)'
  <2>1. DOMAIN o = DOMAIN tx'[w].todo
    BY <1>1 DEF RestOfBatch
  <2>2. \A i \in DOMAIN o : /\ o[i] \in tx'[w].batch
                            /\ tx'[w].todo[i] = [variant |-> res'[o[i]].variant, qty |-> res'[o[i]].qty]
    BY <1>1 DEF RestOfBatch
  <2>3. \A v \in Variants : tx'[w].written[v] = SumFunctionOnSet(qtys', Rest(v)')
    <3>1. \A v \in Variants : tx[w].written[v] = SumFunctionOnSet(qtys, Rest(v))
      BY <1>1 DEF RestOfBatch
    <3> HIDE DEF Rest
    <3> QED
      BY <1>3, <3>1
  <2> QED
    BY <1>1, <2>1, <2>2, <2>3 DEF RestOfBatch
<1> QED
  BY <1>4 DEF CInv, SweepsAccount

\* Quantities held for a variant stay as they are when its held rows do.
LEMMA HeldKept ==
    ASSUME TypeOK, TypeOK', NEW v, Held(v)' = Held(v), \A r \in Held(v) : res'[r].qty = res[r].qty
    PROVE  QtyOf(Held(v))' = QtyOf(Held(v))
<1>1. Held(v) \in SUBSET Reservations /\ IsFiniteSet(Held(v))
  BY QtysFinite
<1>2. \A r \in Held(v) : qtys'[r] = qtys[r]
  BY <1>1 DEF qtys
<1>3. QtyOf(Held(v)) = SumFunctionOnSet(qtys, Held(v)) /\ QtyOf(Held(v))' = SumFunctionOnSet(qtys', Held(v)')
  BY DEF QtyOf, qtys
<1>4. SumFunctionOnSet(qtys, Held(v)) = SumFunctionOnSet(qtys', Held(v))
  BY <1>1, <1>2, SumSame
<1> QED
  BY <1>3, <1>4

\* What is held for a variant is a natural number.
LEMMA HeldNat ==
    ASSUME TypeOK, NEW v
    PROVE  QtyOf(Held(v)) \in Nat
<1>1. Held(v) \in SUBSET Reservations /\ IsFiniteSet(Held(v)) /\ QtyOf(Held(v)) = SumFunctionOnSet(qtys, Held(v))
  BY QtysFinite
<1>2. \A r \in Held(v) : qtys[r] \in Nat
  BY <1>1, QtysFinite
<1> QED
  BY <1>1, <1>2, SumNat

\* A step that changes no reservation conserves stock when it accounts for what
\* it brings in or takes away.
LEMMA RowsKept ==
    ASSUME CInv, TypeOK', res' = res, \A v \in Variants : stock'[v] - stock[v] = supplied'[v] - supplied[v]
    PROVE  StockConserved'
<1> SUFFICES ASSUME NEW v \in Variants PROVE stock'[v] + QtyOf(Held(v))' = supplied'[v]
  BY DEF StockConserved
<1>1. TypeOK /\ stock[v] + QtyOf(Held(v)) = supplied[v]
  BY DEF CInv, IInv, StockConserved
<1>2. QtyOf(Held(v))' = QtyOf(Held(v))
  BY <1>1, HeldKept DEF Held
<1>3. QtyOf(Held(v)) \in Int
  BY <1>1, HeldNat
<1>4. stock[v] \in Int /\ stock'[v] \in Int /\ supplied[v] \in Int /\ supplied'[v] \in Int
  BY <1>1 DEF TypeOK
<1> QED
  BY <1>1, <1>2, <1>3, <1>4

\* Nothing is held and no sweep runs at first.
LEMMA InitCInv == Init => CInv
<1> SUFFICES ASSUME Init PROVE CInv
  OBVIOUS
<1>1. IInv
  BY InitIInv
<1>2. SweepsAccount
  <2>0. <<>> \in Seq(Reservations)
    OBVIOUS
  <2> SUFFICES ASSUME NEW w \in Sweepers PROVE tx[w].batch = {} /\ tx[w].todo = <<>> /\ RestOfBatch(w, <<>>)
    BY <2>0 DEF SweepsAccount
  <2>1. tx[w] = NoTx
    BY DEF Init, Writers
  <2>2. \A v : OfVariant(tx[w].batch \ {<<>>[i] : i \in DOMAIN <<>>}, v) = {}
    BY <2>1 DEF OfVariant, NoTx
  <2>3. \A v \in Variants : tx[w].written[v] = 0
    BY <2>1 DEF NoTx
  <2> QED
    BY SMTT(30), <2>1, <2>2, <2>3, SumEmpty DEF RestOfBatch, NoTx
<1>3. StockConserved
  <2> SUFFICES ASSUME NEW v \in Variants PROVE stock[v] + QtyOf(Held(v)) = supplied[v]
    BY DEF StockConserved
  <2>1. Held(v) = {}
    BY DEF Init, Held, NoRow
  <2>2. QtyOf(Held(v)) = 0
    BY <2>1, SumEmpty DEF QtyOf
  <2> QED
    BY <1>1, <2>2 DEF Init, IInv, TypeOK
<1> QED
  BY <1>1, <1>2, <1>3 DEF CInv

\* Reserve moves q units from the shelf to a new held row.
LEMMA ReserveCInv ==
    ASSUME CInv, IInv', NEW r \in Reservations, NEW v \in Variants, NEW q \in Quantities, Reserve(r, v, q)
    PROVE  CInv'
<1>0. TypeOK /\ TypeOK' /\ q \in Nat
  BY InventoryAssumption DEF CInv, IInv
<1>1. SweepsAccount'
  <2> SUFFICES ASSUME NEW w \in Sweepers PROVE tx'[w] = tx[w] /\ \A x \in tx[w].batch : res'[x] = res[x]
    BY <1>0, AccountKept DEF SweepsAccount
  <2>1. tx[w].batch \subseteq Reservations /\ r \notin tx[w].batch
    BY <1>0, TxFields DEF Reserve, SweepsPartition, CInv, IInv, Writers
  <2> QED
    BY <1>0, <2>1 DEF Reserve, TypeOK
<1>2. StockConserved'
  <2> SUFFICES ASSUME NEW x \in Variants PROVE stock'[x] + QtyOf(Held(x))' = supplied'[x]
    BY DEF StockConserved
  <2>0. stock[x] + QtyOf(Held(x)) = supplied[x] /\ supplied' = supplied
    BY DEF CInv, StockConserved, Reserve
  <2>1. res' = [res EXCEPT ![r] = [status |-> "active", variant |-> v, qty |-> q, exp |-> now + TTL]]
    BY DEF Reserve
  <2>2. CASE x # v
    <3>1. Held(x)' = Held(x) /\ r \notin Held(x)
      BY <1>0, <2>1, <2>2 DEF Held, TypeOK, Reserve
    <3>2. \A y \in Held(x) : res'[y].qty = res[y].qty
      BY <1>0, <2>1, <3>1 DEF TypeOK, Held
    <3>3. QtyOf(Held(x))' = QtyOf(Held(x))
      BY <1>0, <3>1, <3>2, HeldKept
    <3>4. stock'[x] = stock[x]
      BY <1>0, <2>2 DEF Reserve, TypeOK
    <3> QED
      BY <2>0, <3>3, <3>4
  <2>3. CASE x = v
    <3>1. Held(v)' = Held(v) \cup {r} /\ r \notin Held(v)
      BY <1>0, <2>1 DEF Held, TypeOK, Reserve
    <3>2. QtyOf(Held(v))' = qtys'[r] + SumFunctionOnSet(qtys', Held(v))
      <4>1. IsFiniteSet(Held(v)) /\ Held(v) \in SUBSET Reservations
        BY <1>0, QtysFinite
      <4>2. \A y \in Held(v) \cup {r} : qtys'[y] \in Int
        BY <1>0, <4>1 DEF TypeOK, Row, qtys
      <4>3. SumFunctionOnSet(qtys', Held(v) \cup {r}) = qtys'[r] + SumFunctionOnSet(qtys', Held(v))
        BY <3>1, <4>1, <4>2, SumAdd
      <4> QED
        BY <3>1, <4>3 DEF QtyOf, qtys
    <3>3. SumFunctionOnSet(qtys', Held(v)) = SumFunctionOnSet(qtys, Held(v))
      <4>1. IsFiniteSet(Held(v)) /\ Held(v) \in SUBSET Reservations
        BY <1>0, QtysFinite
      <4>2. \A y \in Held(v) : qtys'[y] = qtys[y]
        BY <1>0, <2>1, <3>1, <4>1 DEF TypeOK, qtys
      <4> QED
        BY <4>1, <4>2, SumSame
    <3>4. qtys'[r] = q
      BY <1>0, <2>1 DEF qtys, TypeOK
    <3>5. stock'[v] = stock[v] - q /\ stock[v] \in Nat
      BY <1>0 DEF Reserve, TypeOK
    <3>6. QtyOf(Held(v)) = SumFunctionOnSet(qtys, Held(v)) /\ QtyOf(Held(v)) \in Nat
      BY <1>0, QtysFinite, HeldNat
    <3> QED
      BY <1>0, <2>0, <2>3, <3>2, <3>3, <3>4, <3>5, <3>6
  <2> QED
    BY <2>2, <2>3
<1> QED
  BY <1>1, <1>2 DEF CInv

\* Release moves the units of a held row back to the shelf; Confirm moves none.
LEMMA SettleCInv ==
    ASSUME CInv, IInv', NEW r \in Reservations, Release(r) \/ Confirm(r)
    PROVE  CInv'
<1>0. TypeOK /\ TypeOK' /\ res[r].variant \in Variants /\ res[r].qty \in Nat
  BY DEF CInv, IInv, Release, Confirm, Open, RowsName, TypeOK, Row
<1>1. SweepsAccount'
  <2> SUFFICES ASSUME NEW w \in Sweepers PROVE tx'[w] = tx[w] /\ \A x \in tx[w].batch : res'[x] = res[x]
    BY <1>0, AccountKept DEF SweepsAccount
  <2>1. tx[w].batch \subseteq Reservations /\ r \notin tx[w].batch
    BY <1>0, TxFields DEF Release, Confirm, Open, Selected, Writers
  <2> QED
    BY <1>0, <2>1 DEF Release, Confirm, TypeOK
<1>2. supplied' = supplied /\ \A x \in Reservations : res'[x].qty = res[x].qty /\ res'[x].variant = res[x].variant
  BY <1>0 DEF Release, Confirm, TypeOK, Row
<1>3. StockConserved'
  <2> SUFFICES ASSUME NEW x \in Variants PROVE stock'[x] + QtyOf(Held(x))' = supplied'[x]
    BY DEF StockConserved
  <2>0. stock[x] + QtyOf(Held(x)) = supplied[x]
    BY DEF CInv, StockConserved
  <2>1. CASE Confirm(r) \/ x # res[r].variant
    <3>1. Held(x)' = Held(x)
      BY <1>0, <2>1 DEF Release, Confirm, Open, Held, TypeOK, Row
    <3>2. QtyOf(Held(x))' = QtyOf(Held(x))
      BY <1>0, <1>2, <3>1, HeldKept DEF Held
    <3>3. stock'[x] = stock[x]
      BY <1>0, <2>1 DEF Release, Confirm, TypeOK
    <3> QED
      BY <1>2, <2>0, <3>2, <3>3
  <2>2. CASE Release(r) /\ x = res[r].variant
    <3>1. Held(x)' = Held(x) \ {r} /\ r \in Held(x)
      BY <1>0, <2>2 DEF Release, Open, Held, TypeOK, Row
    <3>2. IsFiniteSet(Held(x)) /\ Held(x) \in SUBSET Reservations
      BY <1>0, QtysFinite
    <3>3. \A y \in Held(x) : qtys[y] \in Nat
      BY <1>0, <3>2, QtysFinite
    <3>4. SumFunctionOnSet(qtys, Held(x)) = qtys[r] + SumFunctionOnSet(qtys, Held(x) \ {r})
      BY <3>1, <3>2, <3>3, SumRemove
    <3>5. SumFunctionOnSet(qtys', Held(x) \ {r}) = SumFunctionOnSet(qtys, Held(x) \ {r})
      <4>1. IsFiniteSet(Held(x) \ {r}) /\ \A y \in Held(x) \ {r} : qtys'[y] = qtys[y]
        BY <1>2, <3>2, FS_Subset DEF qtys
      <4> QED
        BY <4>1, SumSame
    <3>6. QtyOf(Held(x))' = SumFunctionOnSet(qtys', Held(x) \ {r})
      BY <3>1 DEF QtyOf, qtys
    <3>7. stock'[x] = stock[x] + qtys[r] /\ stock[x] \in Nat /\ qtys[r] \in Nat
      BY <1>0, <2>2, QtysFinite DEF Release, TypeOK
    <3>8. QtyOf(Held(x)) = SumFunctionOnSet(qtys, Held(x))
      BY <1>0, QtysFinite
    <3>9. SumFunctionOnSet(qtys, Held(x) \ {r}) \in Nat
      <4>1. IsFiniteSet(Held(x) \ {r}) /\ \A y \in Held(x) \ {r} : qtys[y] \in Nat
        BY <3>2, <3>3, FS_Subset
      <4> QED
        BY <4>1, SumNat
    <3> QED
      BY <1>2, <2>0, <3>4, <3>5, <3>6, <3>7, <3>8, <3>9
  <2> QED
    BY <2>1, <2>2
<1> QED
  BY <1>1, <1>3 DEF CInv

\* A transaction without rows and without statements accounts for nothing.
LEMMA EmptyAccount ==
    ASSUME NEW w \in Sweepers, TypeOK', tx'[w].batch = {}, tx'[w].todo = <<>>, \A v \in Variants : tx'[w].written[v] = 0
    PROVE  \E o \in Seq(Reservations) : RestOfBatch(w, o)'
<1>1. <<>> \in Seq(Reservations)
  OBVIOUS
<1>2. \A v : OfVariant(tx[w].batch \ {<<>>[i] : i \in DOMAIN <<>>}, v)' = {}
  BY DEF OfVariant
<1>3. \A v \in Variants : tx'[w].written[v] = SumFunctionOnSet(qtys, OfVariant(tx[w].batch \ {<<>>[i] : i \in DOMAIN <<>>}, v))'
  BY <1>2, SumEmpty
<1>4. DOMAIN <<>> = {} /\ DOMAIN tx'[w].todo = {}
  OBVIOUS
<1>5. RestOfBatch(w, <<>>)'
  BY <1>3, <1>4 DEF RestOfBatch
<1> QED
  BY <1>1, <1>5

\* A new batch: every row is still to be restored, and nothing is written.
LEMMA SweepSelectCInv ==
    ASSUME CInv, IInv', NEW w \in Sweepers, SweepSelect(w)
    PROVE  CInv'
<1>0. TypeOK /\ TypeOK' /\ w \in Writers
  BY DEF CInv, IInv, Writers
<1>1. UNCHANGED <<stock, res, supplied>> /\ \A u \in Sweepers \ {w} : tx'[u] = tx[u]
  BY <1>0 DEF SweepSelect, TypeOK, Writers
<1>2. StockConserved'
  BY <1>0, <1>1, RowsKept DEF TypeOK
<1>3. tx[w].pc = "select" /\ tx[w].batch = {} /\ \A v \in Variants : tx[w].written[v] = 0
  <2>1. tx[w].pc = "select" /\ tx[w].batch = {}
    BY DEF SweepSelect, CInv, SweepsAccount
  <2>2. PICK o \in Seq(Reservations) : RestOfBatch(w, o)
    BY DEF CInv, SweepsAccount
  <2>3. \A v : OfVariant(tx[w].batch \ {o[i] : i \in DOMAIN o}, v) = {}
    BY <2>1 DEF OfVariant
  <2> QED
    BY <2>1, <2>2, <2>3, SumEmpty DEF RestOfBatch
<1>4. CASE tx' = [tx EXCEPT ![w] = NoTx]
  <2>1. tx'[w] = NoTx
    BY <1>0, <1>4 DEF TypeOK
  <2>2. tx'[w].batch = {} /\ tx'[w].todo = <<>> /\ \A v \in Variants : tx'[w].written[v] = 0
    BY <2>1 DEF NoTx
  <2>3. \E o \in Seq(Reservations) : RestOfBatch(w, o)'
    BY <1>0, <2>2, EmptyAccount
  <2>4. SweepsAccount'
    BY <1>0, <1>1, <2>2, <2>3, AccountKept DEF SweepsAccount
  <2> QED
    BY <1>2, <2>4 DEF CInv
<1>5. ASSUME NEW o \in Batches(w),
             tx' = [tx EXCEPT ![w].pc = "write",
                              ![w].batch = {o[i] : i \in DOMAIN o},
                              ![w].todo = [i \in DOMAIN o |-> [variant |-> res[o[i]].variant, qty |-> res[o[i]].qty]]]
      PROVE  CInv'
  <2> DEFINE batch == {o[i] : i \in DOMAIN o}
             todo == [i \in DOMAIN o |-> [variant |-> res[o[i]].variant, qty |-> res[o[i]].qty]]
  <2>1. o \in Seq(Expired(w))
    BY <1>0, BatchesType
  <2>2. o \in Seq(Reservations)
    BY <2>1 DEF Expired
  <2>3. \A i, j \in DOMAIN o : o[i] = o[j] => i = j
    <3>1. \A i, j \in DOMAIN o : i < j => o[i] # o[j]
      BY DEF Batches
    <3>2. DOMAIN o \subseteq Int
      BY <2>2
    <3> QED
      BY <3>1, <3>2
  <2>4. tx'[w].pc = "write" /\ tx'[w].batch = batch /\ tx'[w].todo = todo /\ tx'[w].written = tx[w].written
    <3>1. tx'[w] = [tx[w] EXCEPT !.pc = "write", !.batch = batch, !.todo = todo] /\ tx[w] \in Tx
      BY <1>0, <1>5 DEF TypeOK
    <3> HIDE DEF batch, todo
    <3> QED
      BY <3>1 DEF Tx
  <2>5. RestOfBatch(w, o)'
    <3>1. \A v : OfVariant(tx[w].batch \ {o[i] : i \in DOMAIN o}, v)' = {}
      BY <2>4 DEF OfVariant
    <3>2. \A v \in Variants : tx'[w].written[v] = SumFunctionOnSet(qtys, OfVariant(tx[w].batch \ {o[i] : i \in DOMAIN o}, v))'
      BY <1>3, <2>4, <3>1, SumEmpty
    <3>3. \A i \in DOMAIN o : /\ o[i] \in tx'[w].batch
                              /\ tx'[w].todo[i] = [variant |-> res'[o[i]].variant, qty |-> res'[o[i]].qty]
      BY <1>1, <2>4
    <3>4. DOMAIN o = DOMAIN tx'[w].todo
      BY <2>4
    <3> QED
      BY <2>3, <3>2, <3>3, <3>4 DEF RestOfBatch
  <2>6. SweepsAccount'
    BY <1>0, <1>1, <2>2, <2>4, <2>5, AccountKept DEF SweepsAccount
  <2> QED
    BY <1>2, <2>6 DEF CInv
<1> QED
  BY <1>4, <1>5 DEF SweepSelect

\* One more row of the batch is restored: its units move from todo to written.
LEMMA SweepRestoreCInv ==
    ASSUME CInv, IInv', NEW w \in Sweepers, SweepRestore(w)
    PROVE  CInv'
<1> DEFINE s == Head(tx[w].todo)
           todo == Tail(tx[w].todo)
           written == [tx[w].written EXCEPT ![s.variant] = @ + s.qty]
<1>0. TypeOK /\ TypeOK' /\ w \in Writers
  BY DEF CInv, IInv, Writers
<1>1. UNCHANGED <<stock, res, supplied>> /\ tx[w].pc = "write" /\ tx[w].todo # <<>>
  BY DEF SweepRestore, TakeRow
<1>2. \A u \in Sweepers \ {w} : tx'[u] = tx[u]
  BY <1>0 DEF SweepRestore, TypeOK, Writers
<1>3. StockConserved'
  BY <1>0, <1>1, RowsKept DEF TypeOK
<1>4. tx'[w].pc = "write" /\ tx'[w].batch = tx[w].batch /\ tx'[w].todo = todo /\ tx'[w].written = written
  <2>1. tx[w] \in Tx /\ tx'[w] = [tx[w] EXCEPT !.todo = todo, !.written = written]
    BY <1>0 DEF TypeOK, SweepRestore
  <2> HIDE DEF todo, written
  <2> QED
    BY <1>1, <2>1 DEF Tx
<1>5. PICK o \in Seq(Reservations) : RestOfBatch(w, o)
  BY DEF CInv, SweepsAccount
<1>6. tx[w].todo \in Seq(StockWrite) /\ tx[w].written \in [Variants -> Nat] /\ tx[w].batch \in SUBSET Reservations
  BY <1>0, TxFields
<1> DEFINE r == o[1]
           rest == Tail(o)
           Done == tx[w].batch \ {o[i] : i \in DOMAIN o}
           DoneNow == tx[w].batch \ {rest[i] : i \in DOMAIN rest}
<1>7. DOMAIN o = DOMAIN tx[w].todo /\ Len(o) = Len(tx[w].todo) /\ o # <<>> /\ 1 \in DOMAIN o
  BY <1>1, <1>5, <1>6 DEF RestOfBatch
<1>8. r \in tx[w].batch /\ r \in Reservations /\ r \notin Done
  BY <1>5, <1>6, <1>7 DEF RestOfBatch
<1>9. s.variant = res[r].variant /\ s.qty = qtys[r] /\ qtys[r] \in Nat /\ s.variant \in Variants
  <2>1. s = tx[w].todo[1] /\ s \in StockWrite
    BY <1>1, <1>6
  <2>2. s = [variant |-> res[r].variant, qty |-> res[r].qty]
    BY <1>5, <1>7, <2>1 DEF RestOfBatch
  <2>3. s.variant = res[r].variant /\ s.qty = res[r].qty /\ s.variant \in Variants
    BY <2>1, <2>2 DEF StockWrite
  <2> HIDE DEF s
  <2> QED
    BY <1>0, <1>8, <2>3, QtysFinite
<1>10. rest \in Seq(Reservations) /\ DOMAIN rest = 1 .. Len(o) - 1 /\ DOMAIN todo = 1 .. Len(o) - 1
       /\ \A i \in DOMAIN rest : rest[i] = o[i + 1] /\ i + 1 \in DOMAIN o /\ todo[i] = tx[w].todo[i + 1]
  BY <1>6, <1>7
<1>11. DoneNow = Done \cup {r}
  <2>1. {o[i] : i \in DOMAIN o} = {rest[i] : i \in DOMAIN rest} \cup {r}
    <3>1. \A i \in DOMAIN o : i = 1 \/ (i - 1 \in DOMAIN rest /\ rest[i - 1] = o[i])
      BY <1>7, <1>10
    <3> QED
      BY <1>7, <1>10, <3>1
  <2>2. r \notin {rest[i] : i \in DOMAIN rest}
    <3>1. \A i \in DOMAIN rest : i + 1 # 1
      BY <1>10
    <3> QED
      BY <1>5, <1>7, <1>10, <3>1 DEF RestOfBatch
  <2> QED
    BY <1>8, <2>1, <2>2
<1>12. ASSUME NEW v \in Variants
       PROVE  written[v] = SumFunctionOnSet(qtys, OfVariant(DoneNow, v))
  <2>1. tx[w].written[v] = SumFunctionOnSet(qtys, OfVariant(Done, v))
    BY <1>5 DEF RestOfBatch
  <2>2. CASE v # s.variant
    <3>1. OfVariant(DoneNow, v) = OfVariant(Done, v)
      BY <1>9, <1>11, <2>2 DEF OfVariant
    <3>2. written[v] = tx[w].written[v]
      BY <1>6, <2>2
    <3> QED
      BY <2>1, <3>1, <3>2
  <2>3. CASE v = s.variant
    <3>1. OfVariant(DoneNow, v) = OfVariant(Done, v) \cup {r} /\ r \notin OfVariant(Done, v)
      BY <1>8, <1>9, <1>11, <2>3 DEF OfVariant
    <3>2. written[v] = tx[w].written[v] + qtys[r] /\ tx[w].written[v] \in Nat
      <4> HIDE DEF s
      <4> QED
        BY <1>6, <1>9, <2>3
    <3>3. IsFiniteSet(OfVariant(Done, v)) /\ OfVariant(Done, v) \subseteq Reservations
      BY <1>0, <1>6, QtysFinite DEF OfVariant
    <3>4. \A x \in OfVariant(Done, v) \cup {r} : qtys[x] \in Int
      BY <1>0, <1>8, <3>3, QtysFinite
    <3> HIDE DEF r, Done, DoneNow, written, s
    <3>5. SumFunctionOnSet(qtys, OfVariant(Done, v) \cup {r}) = qtys[r] + SumFunctionOnSet(qtys, OfVariant(Done, v))
      BY <3>1, <3>3, <3>4, SumAdd
    <3> QED
      BY <1>9, <2>1, <3>1, <3>2, <3>5
  <2> QED
    BY <2>2, <2>3
<1>13. RestOfBatch(w, rest)'
  <2>1. qtys' = qtys
    BY <1>1 DEF qtys
  <2>2. \A v \in Variants : OfVariant(tx[w].batch \ {rest[i] : i \in DOMAIN rest}, v)' = OfVariant(DoneNow, v)
    BY <1>1, <1>4 DEF OfVariant
  <2>3. \A v \in Variants : tx'[w].written[v] = SumFunctionOnSet(qtys, OfVariant(tx[w].batch \ {rest[i] : i \in DOMAIN rest}, v))'
    <3> HIDE DEF DoneNow, written, rest
    <3> QED
      BY <1>4, <1>12, <2>1, <2>2
  <2>4. \A i \in DOMAIN rest : /\ rest[i] \in tx'[w].batch
                               /\ tx'[w].todo[i] = [variant |-> res'[rest[i]].variant, qty |-> res'[rest[i]].qty]
    BY <1>1, <1>4, <1>5, <1>10 DEF RestOfBatch
  <2>5. \A i, j \in DOMAIN rest : rest[i] = rest[j] => i = j
    <3>1. \A i, j \in DOMAIN rest : rest[i] = rest[j] => i + 1 = j + 1
      BY <1>5, <1>10 DEF RestOfBatch
    <3> QED
      BY <1>10, <3>1
  <2>6. DOMAIN rest = DOMAIN tx'[w].todo
    BY <1>4, <1>10
  <2> QED
    BY <2>3, <2>4, <2>5, <2>6 DEF RestOfBatch
<1>14. SweepsAccount'
  <2> HIDE DEF rest
  <2> QED
    BY <1>0, <1>1, <1>2, <1>4, <1>10, <1>13, AccountKept DEF SweepsAccount
<1> QED
  BY <1>3, <1>14 DEF CInv

\* The commit of a batch puts on the shelf exactly the units of the rows it
\* releases.
LEMMA SweepCommitCInv ==
    ASSUME CInv, IInv', NEW w \in Sweepers, SweepCommit(w)
    PROVE  CInv'
<1>0. TypeOK /\ TypeOK' /\ w \in Writers
  BY DEF CInv, IInv, Writers
<1>1. /\ res' = [r \in Reservations |-> IF r \in tx[w].batch THEN [res[r] EXCEPT !.status = "released"] ELSE res[r]]
      /\ stock' = [v \in Variants |-> stock[v] + tx[w].written[v]]
      /\ supplied' = supplied /\ tx[w].todo = <<>>
  BY DEF SweepCommit
<1>2. tx[w].batch \in SUBSET Reservations /\ \A r \in tx[w].batch : res[r].status = "active"
  BY <1>0, TxFields DEF CInv, IInv, SweepsPartition
<1>3. SweepsAccount'
  <2>1. ASSUME NEW u \in Sweepers \ {w}
        PROVE  tx'[u] = tx[u] /\ \A r \in tx[u].batch : res'[r] = res[r]
    <3>1. tx[u].batch \in SUBSET Reservations /\ tx[u].batch \cap tx[w].batch = {}
      BY <1>0, TxFields DEF CInv, IInv, SweepsPartition, Writers
    <3> QED
      BY <1>0, <1>1, <3>1 DEF SweepCommit, TypeOK, Writers
  <2>2. tx'[w].batch = {} /\ tx'[w].todo = <<>> /\ \A v \in Variants : tx'[w].written[v] = 0
    BY <1>0 DEF SweepCommit, TypeOK, NoTx
  <2>3. \E o \in Seq(Reservations) : RestOfBatch(w, o)'
    BY <1>0, <2>2, EmptyAccount
  <2> QED
    BY <1>0, <2>1, <2>2, <2>3, AccountKept DEF SweepsAccount
<1>4. StockConserved'
  <2> SUFFICES ASSUME NEW v \in Variants PROVE stock'[v] + QtyOf(Held(v))' = supplied'[v]
    BY DEF StockConserved
  <2> DEFINE B == OfVariant(tx[w].batch, v)
  <2>1. tx[w].written[v] = SumFunctionOnSet(qtys, B)
    <3>1. PICK o \in Seq(Reservations) : RestOfBatch(w, o)
      BY DEF CInv, SweepsAccount
    <3>2. DOMAIN o = {}
      BY <1>1, <3>1 DEF RestOfBatch
    <3>3. tx[w].batch \ {o[i] : i \in DOMAIN o} = tx[w].batch
      BY <3>2
    <3> QED
      BY <3>1, <3>3 DEF RestOfBatch
  <2>2. B \subseteq Held(v) /\ Held(v)' = Held(v) \ B
    BY <1>0, <1>1, <1>2 DEF OfVariant, Held, TypeOK, Row
  <2>3. IsFiniteSet(Held(v)) /\ Held(v) \in SUBSET Reservations /\ QtyOf(Held(v)) = SumFunctionOnSet(qtys, Held(v))
    BY <1>0, QtysFinite
  <2>4. \A r \in Held(v) : qtys[r] \in Nat
    BY <1>0, <2>3, QtysFinite
  <2>5. IsFiniteSet(B) /\ IsFiniteSet(Held(v) \ B)
    BY <2>2, <2>3, FS_Subset
  <2>6. QtyOf(Held(v))' = SumFunctionOnSet(qtys', Held(v) \ B)
    BY <2>2 DEF QtyOf, qtys
  <2>7. \A r \in Held(v) \ B : qtys'[r] = qtys[r]
    BY <1>0, <1>1, <2>3 DEF qtys, TypeOK, Row
  <2> HIDE DEF B
  <2>8. SumFunctionOnSet(qtys', Held(v) \ B) = SumFunctionOnSet(qtys, Held(v) \ B)
    BY <2>5, <2>7, SumSame
  <2>9. SumFunctionOnSet(qtys, Held(v)) = SumFunctionOnSet(qtys, B) + SumFunctionOnSet(qtys, Held(v) \ B)
    BY <2>2, <2>3, <2>4, SumSplit
  <2>10. SumFunctionOnSet(qtys, B) \in Nat /\ SumFunctionOnSet(qtys, Held(v) \ B) \in Nat
    BY <2>2, <2>4, <2>5, SumNat
  <2>11. stock'[v] = stock[v] + tx[w].written[v] /\ stock[v] \in Nat
    BY <1>0, <1>1 DEF TypeOK
  <2>12. stock[v] + QtyOf(Held(v)) = supplied[v]
    BY DEF CInv, StockConserved
  <2> QED
    BY <1>1, <2>1, <2>3, <2>6, <2>8, <2>9, <2>10, <2>11, <2>12
<1> QED
  BY <1>3, <1>4 DEF CInv

\* The other steps change no reservation, and no transaction of a sweep except
\* to empty it.
LEMMA OtherCInv ==
    ASSUME CInv, IInv',
           \/ \E v \in Variants, q \in StockLevels : SetStock(v, q)
           \/ \E w \in Syncers : SyncBegin(w) \/ SyncWrite(w) \/ SyncCommit(w)
           \/ \E w \in Sweepers : SweepStart(w)
           \/ \E w \in Writers : TxFails(w) \/ DeadlockVictim(w)
           \/ Tick
           \/ UNCHANGED vars
    PROVE  CInv'
<1>0. TypeOK /\ TypeOK'
  BY DEF CInv, IInv
<1>1. res' = res
  BY ZenonT(30) DEF SetStock, SyncBegin, SyncWrite, TakeRow, SyncCommit, SweepStart, TxFails, DeadlockVictim, Rollback, Tick, vars
<1>2. \A v \in Variants : stock'[v] - stock[v] = supplied'[v] - supplied[v]
  <2>1. CASE \E v \in Variants, q \in StockLevels : SetStock(v, q)
    <3>1. PICK x \in Variants, q \in StockLevels : SetStock(x, q)
      BY <2>1
    <3>2. q \in Nat
      BY InventoryAssumption
    <3> QED
      BY <1>0, <3>1, <3>2 DEF SetStock, TypeOK
  <2>2. CASE \E w \in Syncers : SyncCommit(w)
    <3>1. PICK w \in Syncers : SyncCommit(w)
      BY <2>2
    <3>2. supplied' = [v \in Variants |-> supplied[v] + (stock'[v] - stock[v])]
      BY <3>1 DEF SyncCommit
    <3>3. \A v \in Variants : stock[v] \in Int /\ stock'[v] \in Int /\ supplied[v] \in Int
      BY <1>0 DEF TypeOK
    <3> QED
      BY <3>2, <3>3
  <2>3. CASE stock' = stock /\ supplied' = supplied
    BY <1>0, <2>3 DEF TypeOK
  <2> QED
    BY ZenonT(30), <2>1, <2>2, <2>3 DEF SyncBegin, SyncWrite, TakeRow, SweepStart, TxFails, DeadlockVictim, Rollback, Tick, vars
<1>3. StockConserved'
  BY <1>0, <1>1, <1>2, RowsKept
<1>4. ASSUME NEW u \in Sweepers
      PROVE  \/ tx'[u] = tx[u]
             \/ tx'[u].batch = {} /\ tx'[u].todo = <<>> /\ \A v \in Variants : tx'[u].written[v] = 0
  <2>1. CASE \E w \in Syncers : SyncBegin(w) \/ SyncWrite(w) \/ SyncCommit(w)
    BY ZenonT(30), <1>0, <2>1, InventoryAssumption DEF SyncBegin, SyncWrite, SyncCommit, TypeOK, Writers
  <2>2. CASE \E w \in Sweepers : SweepStart(w)
    BY <1>0, <2>2 DEF SweepStart, TypeOK, NoTx, Writers
  <2>3. CASE \E w \in Writers : TxFails(w) \/ DeadlockVictim(w)
    BY <1>0, <2>3 DEF TxFails, DeadlockVictim, Rollback, TypeOK, NoTx, Writers
  <2>4. CASE UNCHANGED tx
    BY <2>4
  <2> QED
    BY <2>1, <2>2, <2>3, <2>4 DEF SetStock, Tick, vars
<1>5. SweepsAccount'
  BY <1>0, <1>1, <1>4, AccountKept, EmptyAccount DEF SweepsAccount
<1> QED
  BY <1>3, <1>5 DEF CInv

\* No unit is lost and none appears twice, whatever transactions overlap and
\* fail: for every variant, the shelf and the active and confirmed reservations
\* together hold what was supplied (ReservationRepo, StockRepo).
THEOREM StockConservedCorrect == Spec => []StockConserved
<1>1. Init => CInv
  BY InitCInv
<1>2. CInv /\ [Next]_vars => CInv'
  <2> SUFFICES ASSUME CInv, [Next]_vars PROVE CInv'
    OBVIOUS
  <2>0. IInv'
    BY NextIInv DEF CInv
  <2>1. CASE \E r \in Reservations, v \in Variants, q \in Quantities : Reserve(r, v, q)
    BY <2>0, <2>1, ReserveCInv
  <2>2. CASE \E r \in Reservations : Release(r) \/ Confirm(r)
    BY <2>0, <2>2, SettleCInv
  <2>3. CASE \E w \in Sweepers : SweepSelect(w)
    BY <2>0, <2>3, SweepSelectCInv
  <2>4. CASE \E w \in Sweepers : SweepRestore(w)
    BY <2>0, <2>4, SweepRestoreCInv
  <2>5. CASE \E w \in Sweepers : SweepCommit(w)
    BY <2>0, <2>5, SweepCommitCInv
  <2> QED
    BY <2>0, <2>1, <2>2, <2>3, <2>4, <2>5, OtherCInv DEF Next
<1>3. CInv => StockConserved
  BY DEF CInv
<1> QED
  BY <1>1, <1>2, <1>3, PTL DEF Spec

------------------------------------------------------------------------------
(* The jobs table, which workers share out with SKIP LOCKED as sweeps do the *)
(* expired reservations: the types, a job in one worker's hands at a time,   *)
(* not touched after its handler has succeeded, run at most MaxRetries times *)
(* in a row; for any jobs, workers and bounds.                               *)

\* A worker has a job exactly while it works.
WorkHasJob == \A w \in Workers : IF At(w, "idle") THEN worker[w].job = NoJob ELSE worker[w].job \in Jobs

\* A job can be claimed only while it has attempts left.
ClaimableHasAttempts ==
    \A j \in Jobs : job[j].status \in {"absent", "pending"} => job[j].attempts < MaxRetries

\* The inductive invariant.
QueueInv == QueueTypeOK /\ WorkHasJob /\ OneRunAtATime /\ SuccessIsFinal /\ ClaimableHasAttempts /\ AttemptsBounded

\* The table starts empty and every worker idle.
LEMMA InitQueueInv == QueueInit => QueueInv
  BY SMT, JobQueueAssumption
  DEF QueueInit, QueueInv, QueueTypeOK, JobRow, JobStatus, Pc, Idle, WorkHasJob,
      OneRunAtATime, SuccessIsFinal, ClaimableHasAttempts, AttemptsBounded, At

\* Every action keeps the invariant.
LEMMA NextQueueInv == QueueInv /\ [QueueNext]_queueVars => QueueInv'
<1> SUFFICES ASSUME QueueInv, [QueueNext]_queueVars PROVE QueueInv'
  OBVIOUS
<1> USE JobQueueAssumption DEF QueueInv, At
<1>1. ASSUME NEW w \in Workers, Select(w) PROVE QueueInv'
  <2>1. QueueTypeOK'
    BY <1>1, SMT DEF Select, Claimable, Locked, WorkHasJob, QueueTypeOK, JobRow, JobStatus, Pc, Idle, Goto, Free, SetStatus
  <2>2. WorkHasJob'
    BY <1>1, SMT DEF Select, Claimable, Locked, WorkHasJob, QueueTypeOK, JobRow, JobStatus, Pc, Idle, Goto, Free, SetStatus
  <2>3. OneRunAtATime'
    BY <1>1, SMT DEF Select, Claimable, Locked, WorkHasJob, OneRunAtATime, QueueTypeOK, JobRow, Idle, Goto, Free, SetStatus
  <2>4. SuccessIsFinal'
    <3>1. PICK j \in Jobs : Claimable(j) /\ worker' = [worker EXCEPT ![w] = [pc |-> "claim", job |-> j]]
      BY <1>1 DEF Select
    <3>2. j \notin succeeded
      BY <3>1 DEF Claimable, SuccessIsFinal
    <3>3. \A u \in Workers : worker'[u] = IF u = w THEN [pc |-> "claim", job |-> j] ELSE worker[u]
      BY <3>1 DEF QueueTypeOK
    <3>4. job' = job /\ succeeded' = succeeded
      BY <1>1 DEF Select
    <3> QED
      BY <3>2, <3>3, <3>4, SMT DEF SuccessIsFinal
  <2>5. ClaimableHasAttempts'
    BY <1>1, Zenon DEF Select, ClaimableHasAttempts
  <2>6. AttemptsBounded'
    BY <1>1, Zenon DEF Select, AttemptsBounded
  <2> QED
    BY <2>1, <2>2, <2>3, <2>4, <2>5, <2>6
<1>2. ASSUME NEW w \in Workers, Claim(w) PROVE QueueInv'
  <2>1. QueueTypeOK'
    BY <1>2, SMT DEF Claim, WorkHasJob, QueueTypeOK, JobRow, JobStatus, Pc, Idle, Goto, Free, SetStatus
  <2>2. WorkHasJob'
    BY <1>2, SMT DEF Claim, WorkHasJob, QueueTypeOK, JobRow, JobStatus, Pc, Idle, Goto, Free, SetStatus
  <2>3. OneRunAtATime'
    BY <1>2, SMT DEF Claim, WorkHasJob, OneRunAtATime, QueueTypeOK, JobRow, Idle, Goto, Free, SetStatus
  <2>4. SuccessIsFinal'
    BY <1>2, SMT DEF Claim, WorkHasJob, OneRunAtATime, SuccessIsFinal, QueueTypeOK, JobRow, Idle, Goto, Free, SetStatus
  <2>5. ClaimableHasAttempts'
    BY <1>2, SMT DEF Claim, WorkHasJob, OneRunAtATime, ClaimableHasAttempts, QueueTypeOK, JobRow, Idle, Goto, Free, SetStatus
  <2>6. AttemptsBounded'
    BY <1>2, SMT DEF Claim, WorkHasJob, OneRunAtATime, ClaimableHasAttempts, AttemptsBounded, QueueTypeOK, JobRow, Idle, Goto, Free, SetStatus
  <2> QED
    BY <2>1, <2>2, <2>3, <2>4, <2>5, <2>6
<1>3. ASSUME NEW w \in Workers, Handle(w) PROVE QueueInv'
  <2>1. QueueTypeOK'
    BY <1>3, SMT DEF Handle, WorkHasJob, QueueTypeOK, JobRow, JobStatus, Pc, Idle, Goto, Free, SetStatus
  <2>2. WorkHasJob'
    BY <1>3, SMT DEF Handle, WorkHasJob, QueueTypeOK, JobRow, JobStatus, Pc, Idle, Goto, Free, SetStatus
  <2>3. OneRunAtATime'
    <3>1. PICK p \in {"complete", "fail"} : worker' = [worker EXCEPT ![w].pc = p]
      BY <1>3 DEF Handle, Goto
    <3>2. worker'[w].job = worker[w].job /\ worker'[w].pc = p /\ worker[w].pc = "handle"
      BY <1>3, <3>1, SMT DEF Handle, QueueTypeOK
    <3>3. \A u \in Workers : u # w => worker'[u] = worker[u]
      BY <3>1 DEF QueueTypeOK
    <3>4. job' = job
      BY <1>3 DEF Handle
    <3> QED
      BY <3>2, <3>3, <3>4, SMT DEF OneRunAtATime
  <2>4. SuccessIsFinal'
    BY <1>3, SMT DEF Handle, WorkHasJob, OneRunAtATime, SuccessIsFinal, QueueTypeOK, JobRow, Idle, Goto, Free, SetStatus
  <2>5. ClaimableHasAttempts'
    BY <1>3, SMT DEF Handle, WorkHasJob, OneRunAtATime, ClaimableHasAttempts, QueueTypeOK, JobRow, Idle, Goto, Free, SetStatus
  <2>6. AttemptsBounded'
    BY <1>3, SMT DEF Handle, WorkHasJob, OneRunAtATime, ClaimableHasAttempts, AttemptsBounded, QueueTypeOK, JobRow, Idle, Goto, Free, SetStatus
  <2> QED
    BY <2>1, <2>2, <2>3, <2>4, <2>5, <2>6
<1>4. ASSUME NEW w \in Workers, Complete(w) PROVE QueueInv'
  <2>1. QueueTypeOK'
    <3>1. worker' \in [Workers -> [pc : Pc, job : Jobs \cup {NoJob}]]
      BY <1>4, SMT DEF Complete, QueueTypeOK, Pc, Idle, Goto, Free
    <3>2. job' \in [Jobs -> JobRow]
      BY <1>4, SMT DEF Complete, WorkHasJob, QueueTypeOK, JobRow, JobStatus, SetStatus
    <3> QED
      BY <1>4, <3>1, <3>2 DEF Complete, QueueTypeOK
  <2>2. WorkHasJob'
    BY <1>4, SMT DEF Complete, WorkHasJob, QueueTypeOK, JobRow, JobStatus, Pc, Idle, Goto, Free, SetStatus
  <2>3. OneRunAtATime'
    BY <1>4, SMT DEF Complete, WorkHasJob, OneRunAtATime, QueueTypeOK, JobRow, Idle, Goto, Free, SetStatus
  <2>4. SuccessIsFinal'
    BY <1>4, SMT DEF Complete, WorkHasJob, OneRunAtATime, SuccessIsFinal, QueueTypeOK, JobRow, Idle, Goto, Free, SetStatus
  <2>5. ClaimableHasAttempts'
    BY <1>4, SMT DEF Complete, WorkHasJob, OneRunAtATime, ClaimableHasAttempts, QueueTypeOK, JobRow, Idle, Goto, Free, SetStatus
  <2>6. AttemptsBounded'
    BY <1>4, SMT DEF Complete, WorkHasJob, OneRunAtATime, ClaimableHasAttempts, AttemptsBounded, QueueTypeOK, JobRow, Idle, Goto, Free, SetStatus
  <2> QED
    BY <2>1, <2>2, <2>3, <2>4, <2>5, <2>6
<1>5. ASSUME NEW w \in Workers, FailForGood(w) PROVE QueueInv'
  <2>1. QueueTypeOK'
    <3>1. worker' \in [Workers -> [pc : Pc, job : Jobs \cup {NoJob}]]
      BY <1>5, SMT DEF FailForGood, QueueTypeOK, Pc, Idle, Goto, Free
    <3>2. job' \in [Jobs -> JobRow]
      BY <1>5, SMT DEF FailForGood, WorkHasJob, QueueTypeOK, JobRow, JobStatus, SetStatus
    <3> QED
      BY <1>5, <3>1, <3>2 DEF FailForGood, QueueTypeOK
  <2>2. WorkHasJob'
    BY <1>5, SMT DEF FailForGood, Exhausted, WorkHasJob, QueueTypeOK, JobRow, JobStatus, Pc, Idle, Goto, Free, SetStatus
  <2>3. OneRunAtATime'
    <3> DEFINE k == worker[w].job
    <3>1. \A u \in Workers : u # w => worker'[u] = worker[u]
      BY <1>5 DEF FailForGood, Goto, Free, QueueTypeOK
    <3>2. \A u \in Workers : u # w /\ worker[u].pc # "idle" => worker[u].job \in Jobs \ {k}
      BY <1>5, SMT DEF FailForGood, OneRunAtATime, WorkHasJob
    <3>3. CASE worker' = [worker EXCEPT ![w] = Idle] /\ SetStatus(k, "failed")
      <4>1. \A j \in Jobs : j # k => job'[j] = job[j]
        BY <3>3 DEF SetStatus, QueueTypeOK
      <4>2. worker'[w] = Idle
        BY <3>3 DEF QueueTypeOK
      <4>3. \A u \in Workers : worker'[u].pc # "idle" => u # w /\ worker'[u].job \in Jobs \ {k}
        BY <3>1, <3>2, <4>2 DEF Idle
      <4>4. \A u, x \in Workers : u # x /\ worker'[u].pc # "idle" => worker'[u].job # worker'[x].job
        BY <3>1, <4>2, <4>3, SMT DEF OneRunAtATime, Idle
      <4>5. \A u \in Workers : worker'[u].pc # "idle" =>
                job'[worker'[u].job].status = IF worker'[u].pc = "claim" THEN "pending" ELSE "processing"
        <5> SUFFICES ASSUME NEW u \in Workers, worker'[u].pc # "idle"
                     PROVE job'[worker'[u].job].status = IF worker'[u].pc = "claim" THEN "pending" ELSE "processing"
          OBVIOUS
        <5>1. u # w /\ worker'[u] = worker[u] /\ job'[worker[u].job] = job[worker[u].job]
          BY <3>1, <4>1, <4>3
        <5> QED
          BY <5>1 DEF OneRunAtATime
      <4> QED
        BY <4>4, <4>5 DEF OneRunAtATime
    <3>4. CASE worker' = [worker EXCEPT ![w].pc = "requeue"] /\ UNCHANGED job
      <4>1. worker'[w].job = k /\ worker'[w].pc = "requeue" /\ worker[w].pc = "fail"
        BY <1>5, <3>4, SMT DEF FailForGood, QueueTypeOK
      <4> QED
        BY <3>1, <3>4, <4>1, SMT DEF OneRunAtATime
    <3> QED
      BY <1>5, <3>3, <3>4 DEF FailForGood, Goto, Free
  <2>4. SuccessIsFinal'
    BY <1>5, SMT DEF FailForGood, Exhausted, WorkHasJob, OneRunAtATime, SuccessIsFinal, QueueTypeOK, JobRow, Idle, Goto, Free, SetStatus
  <2>5. ClaimableHasAttempts'
    <3>1. \A j \in Jobs : job'[j].attempts = job[j].attempts
      BY <1>5, SMT DEF FailForGood, SetStatus, QueueTypeOK, JobRow
    <3>2. \A j \in Jobs : job'[j].status = "failed" \/ job'[j].status = job[j].status
      BY <1>5, SMT DEF FailForGood, SetStatus, QueueTypeOK, JobRow
    <3> QED
      BY <3>1, <3>2, SMT DEF ClaimableHasAttempts
  <2>6. AttemptsBounded'
    <3>1. \A j \in Jobs : job'[j].attempts = job[j].attempts
      BY <1>5, SMT DEF FailForGood, SetStatus, QueueTypeOK, JobRow
    <3>2. \A j \in Jobs : job'[j].status = "failed" => job[j].status = "failed" \/ job[j].attempts >= MaxRetries
      BY <1>5, SMT DEF FailForGood, Exhausted, SetStatus, QueueTypeOK, JobRow
    <3>3. \A j \in Jobs : job[j].attempts \in Nat
      BY DEF QueueTypeOK, JobRow
    <3> QED
      BY <3>1, <3>2, <3>3, SMT DEF AttemptsBounded
  <2> QED
    BY <2>1, <2>2, <2>3, <2>4, <2>5, <2>6
<1>6. ASSUME NEW w \in Workers, Requeue(w) PROVE QueueInv'
  <2>1. QueueTypeOK'
    <3> DEFINE k == worker[w].job
               r == IF job[k].status = "processing" /\ ~Exhausted(k) THEN Requeued(k) ELSE job[k]
    <3>1. worker' \in [Workers -> [pc : Pc, job : Jobs \cup {NoJob}]]
      BY <1>6, SMT DEF Requeue, QueueTypeOK, Pc, Idle, Free
    <3>2. k \in Jobs
      BY <1>6 DEF Requeue, WorkHasJob
    <3>3. Requeued(k) \in JobRow
      <4>1. \A x \in JobRow : [x EXCEPT !.status = "pending"] \in JobRow
        BY Zenon DEF JobRow, JobStatus
      <4>2. \A x \in JobRow : [x EXCEPT !.due = FALSE] \in JobRow
        BY Zenon DEF JobRow
      <4> QED
        BY <3>2, <4>1, <4>2, Zenon DEF Requeued, QueueTypeOK
    <3>4. r \in JobRow
      BY <3>2, <3>3 DEF QueueTypeOK
    <3>5. job' = [job EXCEPT ![k] = r]
      BY <1>6 DEF Requeue
    <3> HIDE DEF r, k
    <3>6. job' \in [Jobs -> JobRow]
      BY <3>2, <3>4, <3>5 DEF QueueTypeOK
    <3> QED
      BY <1>6, <3>1, <3>6 DEF Requeue, QueueTypeOK
  <2>2. WorkHasJob'
    BY <1>6, SMT DEF Requeue, Requeued, Exhausted, WorkHasJob, QueueTypeOK, JobRow, JobStatus, Pc, Idle, Goto, Free, SetStatus
  <2>3. OneRunAtATime'
    BY <1>6, SMT DEF Requeue, Requeued, Exhausted, WorkHasJob, OneRunAtATime, QueueTypeOK, JobRow, Idle, Goto, Free, SetStatus
  <2>4. SuccessIsFinal'
    BY <1>6, SMT DEF Requeue, Requeued, Exhausted, WorkHasJob, OneRunAtATime, SuccessIsFinal, QueueTypeOK, JobRow, Idle, Goto, Free, SetStatus
  <2>5. ClaimableHasAttempts'
    BY <1>6, SMT DEF Requeue, Requeued, Exhausted, WorkHasJob, OneRunAtATime, ClaimableHasAttempts, QueueTypeOK, JobRow, Idle, Goto, Free, SetStatus
  <2>6. AttemptsBounded'
    BY <1>6, SMT DEF Requeue, Requeued, Exhausted, WorkHasJob, OneRunAtATime, ClaimableHasAttempts, AttemptsBounded, QueueTypeOK, JobRow, Idle, Goto, Free, SetStatus
  <2> QED
    BY <2>1, <2>2, <2>3, <2>4, <2>5, <2>6
<1>7. ASSUME NEW w \in Workers, Abandon(w) PROVE QueueInv'
  <2>1. QueueTypeOK'
    BY <1>7, SMT DEF Abandon, WorkHasJob, QueueTypeOK, JobRow, JobStatus, Pc, Idle, Goto, Free, SetStatus
  <2>2. WorkHasJob'
    BY <1>7, SMT DEF Abandon, WorkHasJob, QueueTypeOK, JobRow, JobStatus, Pc, Idle, Goto, Free, SetStatus
  <2>3. OneRunAtATime'
    BY <1>7, SMT DEF Abandon, WorkHasJob, OneRunAtATime, QueueTypeOK, JobRow, Idle, Goto, Free, SetStatus
  <2>4. SuccessIsFinal'
    BY <1>7, SMT DEF Abandon, WorkHasJob, OneRunAtATime, SuccessIsFinal, QueueTypeOK, JobRow, Idle, Goto, Free, SetStatus
  <2>5. ClaimableHasAttempts'
    BY <1>7, SMT DEF Abandon, WorkHasJob, OneRunAtATime, ClaimableHasAttempts, QueueTypeOK, JobRow, Idle, Goto, Free, SetStatus
  <2>6. AttemptsBounded'
    BY <1>7, SMT DEF Abandon, WorkHasJob, OneRunAtATime, ClaimableHasAttempts, AttemptsBounded, QueueTypeOK, JobRow, Idle, Goto, Free, SetStatus
  <2> QED
    BY <2>1, <2>2, <2>3, <2>4, <2>5, <2>6
<1>8. ASSUME NEW j \in Jobs, Enqueue(j) PROVE QueueInv'
  <2>1. QueueTypeOK'
    BY <1>8, SMT DEF Enqueue, QueueTypeOK, JobRow, JobStatus, Pc, Idle, SetStatus
  <2>2. WorkHasJob'
    BY <1>8, SMT DEF Enqueue, WorkHasJob, QueueTypeOK, JobRow, SetStatus
  <2>3. OneRunAtATime'
    BY <1>8, SMT DEF Enqueue, WorkHasJob, OneRunAtATime, QueueTypeOK, JobRow, SetStatus
  <2>4. SuccessIsFinal'
    BY <1>8, SMT DEF Enqueue, SuccessIsFinal, QueueTypeOK, JobRow, SetStatus
  <2>5. ClaimableHasAttempts'
    BY <1>8, SMT DEF Enqueue, ClaimableHasAttempts, QueueTypeOK, JobRow, SetStatus
  <2>6. AttemptsBounded'
    BY <1>8, SMT DEF Enqueue, ClaimableHasAttempts, AttemptsBounded, QueueTypeOK, JobRow, SetStatus
  <2> QED
    BY <2>1, <2>2, <2>3, <2>4, <2>5, <2>6
<1>9. ASSUME NEW j \in Jobs, FallDue(j) PROVE QueueInv'
  <2>1. QueueTypeOK'
    <3> DEFINE r == [job[j] EXCEPT !.due = TRUE]
    <3>1. r \in JobRow
      BY ZenonT(30) DEF QueueTypeOK, JobRow
    <3>2. job' = [job EXCEPT ![j] = r]
      BY <1>9 DEF FallDue
    <3>3. UNCHANGED <<worker, succeeded, reopens, queueFaults>>
      BY <1>9 DEF FallDue
    <3> HIDE DEF r
    <3>4. job' \in [Jobs -> JobRow]
      BY <3>1, <3>2 DEF QueueTypeOK
    <3> QED
      BY <3>3, <3>4 DEF QueueTypeOK
  <2>2. WorkHasJob'
    BY <1>9, SMT DEF FallDue, WorkHasJob, QueueTypeOK, JobRow, SetStatus
  <2>3. OneRunAtATime'
    BY <1>9, SMT DEF FallDue, WorkHasJob, OneRunAtATime, QueueTypeOK, JobRow, SetStatus
  <2>4. SuccessIsFinal'
    BY <1>9, SMT DEF FallDue, SuccessIsFinal, QueueTypeOK, JobRow, SetStatus
  <2>5. ClaimableHasAttempts'
    BY <1>9, SMT DEF FallDue, ClaimableHasAttempts, QueueTypeOK, JobRow, SetStatus
  <2>6. AttemptsBounded'
    BY <1>9, SMT DEF FallDue, ClaimableHasAttempts, AttemptsBounded, QueueTypeOK, JobRow, SetStatus
  <2> QED
    BY <2>1, <2>2, <2>3, <2>4, <2>5, <2>6
<1>10. ASSUME NEW j \in Jobs, Retry(j) PROVE QueueInv'
  <2>1. QueueTypeOK'
    BY <1>10, SMT DEF Retry, CanRetry, QueueTypeOK, JobRow, JobStatus, Pc, Idle, SetStatus
  <2>2. WorkHasJob'
    BY <1>10, SMT DEF Retry, CanRetry, WorkHasJob, QueueTypeOK, JobRow, SetStatus
  <2>3. OneRunAtATime'
    BY <1>10, SMT DEF Retry, CanRetry, WorkHasJob, OneRunAtATime, QueueTypeOK, JobRow, SetStatus
  <2>4. SuccessIsFinal'
    BY <1>10, SMT DEF Retry, CanRetry, SuccessIsFinal, QueueTypeOK, JobRow, SetStatus
  <2>5. ClaimableHasAttempts'
    BY <1>10, SMT DEF Retry, CanRetry, ClaimableHasAttempts, QueueTypeOK, JobRow, SetStatus
  <2>6. AttemptsBounded'
    BY <1>10, SMT DEF Retry, CanRetry, ClaimableHasAttempts, AttemptsBounded, QueueTypeOK, JobRow, SetStatus
  <2> QED
    BY <2>1, <2>2, <2>3, <2>4, <2>5, <2>6
<1>11. ASSUME NEW j \in Jobs, Cancel(j) PROVE QueueInv'
  <2>1. QueueTypeOK'
    BY <1>11, SMT DEF Cancel, Locked, QueueTypeOK, JobRow, JobStatus, Pc, Idle, SetStatus
  <2>2. WorkHasJob'
    BY <1>11, SMT DEF Cancel, Locked, WorkHasJob, QueueTypeOK, JobRow, SetStatus
  <2>3. OneRunAtATime'
    BY <1>11, SMT DEF Cancel, Locked, WorkHasJob, OneRunAtATime, QueueTypeOK, JobRow, SetStatus
  <2>4. SuccessIsFinal'
    BY <1>11, SMT DEF Cancel, Locked, SuccessIsFinal, QueueTypeOK, JobRow, SetStatus
  <2>5. ClaimableHasAttempts'
    BY <1>11, SMT DEF Cancel, Locked, ClaimableHasAttempts, QueueTypeOK, JobRow, SetStatus
  <2>6. AttemptsBounded'
    BY <1>11, SMT DEF Cancel, Locked, ClaimableHasAttempts, AttemptsBounded, QueueTypeOK, JobRow, SetStatus
  <2> QED
    BY <2>1, <2>2, <2>3, <2>4, <2>5, <2>6
<1>12. CASE UNCHANGED queueVars
  BY <1>12, SMT DEF queueVars, QueueTypeOK, WorkHasJob, OneRunAtATime, SuccessIsFinal, ClaimableHasAttempts, AttemptsBounded
<1> QED
  BY <1>1, <1>2, <1>3, <1>4, <1>5, <1>6, <1>7, <1>8, <1>9, <1>10, <1>11, <1>12 DEF QueueNext, Work

\* The invariant holds in every behaviour.
THEOREM QueueInvariant == QueueSpec => []QueueInv
  BY InitQueueInv, NextQueueInv, PTL DEF QueueSpec

\* Rows, workers and counters keep their types.
THEOREM QueueTypeCorrect == QueueSpec => []QueueTypeOK
  BY QueueInvariant, PTL DEF QueueInv

\* Dequeue, Cancel and Retry never take a job out of a worker's hands.
THEOREM OneRunCorrect == QueueSpec => []OneRunAtATime
  BY QueueInvariant, PTL DEF QueueInv

\* Fail, Cancel and Retry never touch a job whose handler has succeeded.
THEOREM SuccessCorrect == QueueSpec => []SuccessIsFinal
  BY QueueInvariant, PTL DEF QueueInv

\* Dequeue increments attempts no further than max_retries.
THEOREM AttemptsCorrect == QueueSpec => []AttemptsBounded
  BY QueueInvariant, PTL DEF QueueInv
==============================================================================
