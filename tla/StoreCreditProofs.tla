-------------------------- MODULE StoreCreditProofs --------------------------
(***************************************************************************)
(* For every set of calls, currencies, amounts and keys: the transactions   *)
(* of StoreCredit keep their types, an answer agrees with the ledger, the   *)
(* account implements StoreCreditLedger, and the balance of a currency is   *)
(* the sum of its entries.                                                  *)
(***************************************************************************)
EXTENDS StoreCredit, SumTheorems, FiniteSetTheorems, TLAPS

\* A call holds the account row of its currency, and no other, exactly while
\* it works on it.
Working == {"apply", "insert", "commit"}

LocksHeld ==
    \A c \in Calls, m \in Currencies :
        lock[m] = c <=> call[c].pc \in Working /\ m = call[c].req.cur

\* What a call has read of the balance is still the balance, and what it is
\* about to write is within bounds.
ReadsHold ==
    \A c \in Calls :
        /\ call[c].pc \in Working => call[c].seen = balance[call[c].req.cur]
        /\ call[c].pc \in {"insert", "commit"} => call[c].seen + Delta(EntryOf(c)) \in 0 .. MaxBalance

\* Only a call with a key loses a race for it; an inserted key is in no
\* committed row and in no other inserted one.
KeysHold ==
    /\ \A c \in Calls : call[c].pc = "winner" => call[c].req.key # NoKey
    /\ \A c \in Inserted :
          call[c].req.key # NoKey =>
              /\ \A f \in ledger : f.key # call[c].req.key
              /\ \A x \in Inserted \ {c} : call[x].req.key # call[c].req.key

\* A row is the entry of a call whose commit was answered, or whose answer was
\* lost.
RowsAnswered == \A e \in ledger : call[e.id].pc \in {"ok", "error"} /\ e = EntryOf(e.id)

\* Each answer by itself agrees with the ledger, and the lost ones are finitely
\* many, no more than the faults.
AnswersHold ==
    \A c \in Calls :
        LET e == EntryOf(c) IN
        /\ call[c].pc = "ok" => \/ e \in ledger
                                \/ e.key # NoKey /\ \E f \in RowsWithKey(e.key) : SameValue(e, f)
        /\ call[c].pc = "conflict" => \E f \in RowsWithKey(e.key) : ~SameValue(e, f)
        /\ call[c].pc \notin {"ok", "error"} => e \notin ledger

FewLost == IsFiniteSet(Unanswered) /\ Cardinality(Unanswered) <= faults

IInv == TypeOK /\ LocksHeld /\ ReadsHold /\ KeysHold /\ RowsAnswered /\ AnswersHold /\ FewLost

\* What a call posts is an entry, and its amount is a natural number.
LEMMA EntryType ==
    ASSUME TypeOK, NEW c \in Calls
    PROVE  /\ EntryOf(c) \in Entry
           /\ call[c].req.cur \in Currencies
           /\ call[c].seen \in Nat
           /\ Delta(EntryOf(c)) \in Int
           /\ MaxBalance \in Nat
<1>1. call[c].seen \in Nat /\ call[c].req \in Request
  BY DEF TypeOK, Call
<1>2. /\ call[c].req.cur \in Currencies
      /\ call[c].req.amount \in Amounts
      /\ call[c].req.key \in Keys \cup {NoKey}
      /\ call[c].req.note \in Notes
  BY <1>1 DEF Request
<1>3. Kind(call[c].req) \in {"issue", "redeem"}
  BY DEF Kind
<1>4. EntryOf(c) \in Entry
  BY <1>2, <1>3 DEF EntryOf, Entry
<1>5. EntryOf(c).amount \in Nat
  BY <1>2, StoreCreditAssumption DEF EntryOf
<1>6. Delta(EntryOf(c)) \in Int
  BY <1>5 DEF Delta
<1> QED
  BY <1>1, <1>2, <1>4, <1>6, StoreCreditAssumption

LEMMA InitIInv == Init => IInv
<1> SUFFICES ASSUME Init PROVE IInv
  OBVIOUS
<1>1. call \in [Calls -> [pc : {"idle"}, req : ValidRequests, seen : {0}]]
  BY DEF Init
<1>2. \A c \in Calls : call[c].pc = "idle" /\ call[c] \in Call
  BY <1>1 DEF ValidRequests, Call, Pc
<1>3. TypeOK
  BY <1>1, <1>2 DEF Init, TypeOK
<1>4. LocksHeld
  BY <1>2, StoreCreditAssumption DEF Init, LocksHeld, Working
<1>5. ReadsHold /\ KeysHold /\ RowsAnswered /\ AnswersHold
  BY <1>2 DEF Init, ReadsHold, KeysHold, RowsAnswered, AnswersHold, Working, Inserted, Ended
<1>6. FewLost
  <2>1. Unanswered = {} /\ faults = 0
    BY <1>2 DEF Init, Unanswered
  <2> QED
    BY <2>1, FS_EmptySet DEF FewLost
<1> QED
  BY <1>3, <1>4, <1>5, <1>6 DEF IInv

\* What Goto changes: the progress of one call.
LEMMA GotoEffect ==
    ASSUME TypeOK, NEW c \in Calls, NEW pc \in Pc, Goto(c, pc)
    PROVE  /\ call' \in [Calls -> Call]
           /\ call'[c].pc = pc /\ call'[c].req = call[c].req /\ call'[c].seen = call[c].seen
           /\ \A x \in Calls \ {c} : call'[x] = call[x]
BY DEF Goto, TypeOK, Call

\* What Unlock changes: the rows of one call.
LEMMA UnlockEffect ==
    ASSUME TypeOK, NEW c \in Calls, Unlock(c)
    PROVE  /\ lock' \in [Currencies -> Calls \cup {NoCall}]
           /\ \A m \in Currencies : lock'[m] = IF lock[m] = c THEN NoCall ELSE lock[m]
BY DEF Unlock, TypeOK

\* A step that leaves the unanswered posts as they are keeps them few.
LEMMA LostKept ==
    ASSUME FewLost, faults \in Nat, faults' \in Nat, faults' >= faults,
           \A x \in Calls : x \in Unanswered' <=> x \in Unanswered
    PROVE  FewLost'
<1>1. Unanswered' = Unanswered
  BY DEF Unanswered
<1>2. Cardinality(Unanswered) \in Nat
  BY FS_CardinalityType DEF FewLost
<1> QED
  BY <1>1, <1>2 DEF FewLost

\* A step that keeps the other calls, their requests and the rows that working
\* calls hold keeps what they have read and inserted.
LEMMA StartIInv ==
    ASSUME IInv, NEW c \in Calls, Start(c)
    PROVE  IInv'
<1> USE DEF IInv
<1>1. PICK pc \in {"rejected", "check"} : Goto(c, pc)
  BY DEF Start
<1>2. pc \in Pc
  BY <1>1 DEF Pc, Ended
<1>3. call[c].pc = "idle" /\ UNCHANGED <<balance, ledger, lock, faults>>
  BY DEF Start
<1>4. TypeOK'
  BY <1>1, <1>2, <1>3, GotoEffect DEF TypeOK
<1>5. \A x \in Calls : EntryOf(x)' = EntryOf(x)
  BY <1>1, <1>2, GotoEffect DEF EntryOf, Kind
<1>6. LocksHeld'
  BY <1>1, <1>2, <1>3, GotoEffect DEF LocksHeld, Working
<1>7. ReadsHold'
  BY <1>1, <1>2, <1>3, <1>5, GotoEffect DEF ReadsHold, Working, Delta
<1>8. KeysHold'
  BY <1>1, <1>2, <1>3, GotoEffect DEF KeysHold, Inserted
<1>9. RowsAnswered'
  BY <1>1, <1>2, <1>3, <1>5, GotoEffect DEF RowsAnswered, TypeOK, Entry
<1>10. AnswersHold'
  BY <1>1, <1>2, <1>3, <1>5, GotoEffect DEF AnswersHold, RowsAnswered, RowsWithKey, SameValue, EntryOf
<1>11. FewLost'
  BY <1>1, <1>2, <1>3, <1>5, GotoEffect, LostKept DEF Unanswered, TypeOK
<1> QED
  BY <1>4, <1>6, <1>7, <1>8, <1>9, <1>10, <1>11

\* The lookup of the key answers a replay from the row that has its key.
LEMMA CheckKeyIInv ==
    ASSUME IInv, NEW c \in Calls, CheckKey(c) \/ ReadWinner(c)
    PROVE  IInv'
<1> USE DEF IInv
<1>1. PICK pc \in {"lock", "ok", "conflict"} : Goto(c, pc)
  BY DEF CheckKey, ReadWinner, Replay
<1>2. pc \in Pc
  BY <1>1 DEF Pc, Ended, InTx
<1>3. call[c].pc \in {"check", "winner"} /\ UNCHANGED <<balance, ledger, lock, faults>>
  BY DEF CheckKey, ReadWinner
<1>4. pc = "ok" => EntryOf(c).key # NoKey /\ \E f \in RowsWithKey(EntryOf(c).key) : SameValue(EntryOf(c), f)
  <2>1. call'[c].pc = pc
    BY <1>1, <1>2, GotoEffect
  <2>2. CASE CheckKey(c)
    <3>1. CASE Goto(c, "lock")
      BY <2>1, <3>1, GotoEffect DEF Pc, InTx
    <3>2. ASSUME NEW f \in RowsWithKey(EntryOf(c).key), EntryOf(c).key # NoKey,
                 Goto(c, Replay(EntryOf(c), f))
          PROVE  pc = "ok" => SameValue(EntryOf(c), f)
      BY <2>1, <3>2, GotoEffect DEF Replay, Pc, Ended
    <3> QED
      BY <2>2, <3>1, <3>2 DEF CheckKey
  <2>3. CASE ReadWinner(c)
    <3>1. ASSUME NEW f \in RowsWithKey(EntryOf(c).key),
                 Goto(c, Replay(EntryOf(c), f))
          PROVE  pc = "ok" => SameValue(EntryOf(c), f)
      BY <2>1, <3>1, GotoEffect DEF Replay, Pc, Ended
    <3>2. EntryOf(c).key # NoKey
      BY <2>3 DEF ReadWinner, KeysHold, EntryOf
    <3> QED
      BY <2>3, <3>1, <3>2 DEF ReadWinner
  <2> QED
    BY <2>2, <2>3
<1>4a. pc = "conflict" => \E f \in RowsWithKey(EntryOf(c).key) : ~SameValue(EntryOf(c), f)
  <2>1. call'[c].pc = pc
    BY <1>1, <1>2, GotoEffect
  <2>2. ASSUME NEW f \in RowsWithKey(EntryOf(c).key), Goto(c, Replay(EntryOf(c), f))
        PROVE  pc = "conflict" => ~SameValue(EntryOf(c), f)
    BY <2>1, <2>2, GotoEffect DEF Replay, Pc, Ended
  <2>3. CASE Goto(c, "lock")
    BY <2>1, <2>3, GotoEffect DEF Pc, InTx
  <2> QED
    BY <2>2, <2>3 DEF CheckKey, ReadWinner
<1>5. TypeOK'
  BY <1>1, <1>2, <1>3, GotoEffect DEF TypeOK
<1>6. \A x \in Calls : EntryOf(x)' = EntryOf(x)
  BY <1>1, <1>2, GotoEffect DEF EntryOf, Kind
<1>7. LocksHeld'
  BY <1>1, <1>2, <1>3, GotoEffect DEF LocksHeld, Working
<1>8. ReadsHold'
  BY <1>1, <1>2, <1>3, <1>6, GotoEffect DEF ReadsHold, Working, Delta
<1>9. KeysHold'
  BY <1>1, <1>2, <1>3, GotoEffect DEF KeysHold, Inserted
<1>10. RowsAnswered'
  BY <1>1, <1>2, <1>3, <1>6, GotoEffect DEF RowsAnswered, TypeOK, Entry
<1>11. AnswersHold'
  BY <1>1, <1>2, <1>3, <1>4, <1>4a, <1>6, GotoEffect
  DEF AnswersHold, RowsAnswered, RowsWithKey, SameValue, EntryOf
<1>12. FewLost'
  BY <1>1, <1>2, <1>3, <1>6, GotoEffect, LostKept DEF Unanswered, TypeOK
<1> QED
  BY <1>5, <1>7, <1>8, <1>9, <1>10, <1>11, <1>12

\* The account row is free when it is locked, and read under the lock.
LEMMA LockAccountIInv ==
    ASSUME IInv, NEW c \in Calls, LockAccount(c)
    PROVE  IInv'
<1> USE DEF IInv
<1> DEFINE m == call[c].req.cur
<1>1. /\ call[c].pc = "lock" /\ lock[m] = NoCall
      /\ lock' = [lock EXCEPT ![m] = c]
      /\ call' = [call EXCEPT ![c].pc = "apply", ![c].seen = balance[m]]
      /\ UNCHANGED <<balance, ledger, faults>>
  BY DEF LockAccount, RowFree
<1>2. m \in Currencies /\ balance[m] \in Nat
  BY EntryType DEF TypeOK
<1>3. /\ call' \in [Calls -> Call]
      /\ call'[c].pc = "apply" /\ call'[c].req = call[c].req /\ call'[c].seen = balance[m]
      /\ \A x \in Calls \ {c} : call'[x] = call[x]
  BY <1>1, <1>2 DEF TypeOK, Call, Pc, InTx
<1>4. \A x \in Calls : EntryOf(x)' = EntryOf(x) /\ call'[x].req = call[x].req
  BY <1>3 DEF EntryOf, Kind
<1>5. TypeOK'
  BY <1>1, <1>2, <1>3 DEF TypeOK
<1>6. LocksHeld'
  <2>1. ASSUME NEW x \in Calls, NEW n \in Currencies
        PROVE  lock'[n] = x <=> call'[x].pc \in Working /\ n = call'[x].req.cur
    <3>1. CASE x = c
      BY <1>1, <1>2, <1>3, <3>1, StoreCreditAssumption DEF LocksHeld, Working, TypeOK
    <3>2. CASE x # c /\ n = m
      BY <1>1, <1>2, <1>3, <3>2, StoreCreditAssumption DEF LocksHeld, Working, TypeOK
    <3>3. CASE x # c /\ n # m
      BY <1>1, <1>2, <1>3, <3>3 DEF LocksHeld, Working, TypeOK
    <3> QED
      BY <3>1, <3>2, <3>3
  <2> QED
    BY <2>1 DEF LocksHeld
<1>7. ReadsHold'
  BY <1>1, <1>3, <1>4 DEF ReadsHold, Working, Delta
<1>8. KeysHold'
  BY <1>1, <1>3 DEF KeysHold, Inserted
<1>9. RowsAnswered'
  BY <1>1, <1>3, <1>4 DEF RowsAnswered, TypeOK, Entry
<1>10. AnswersHold'
  BY <1>1, <1>3, <1>4 DEF AnswersHold, RowsWithKey, SameValue
<1>11. FewLost'
  BY <1>1, <1>3, <1>4, LostKept DEF Unanswered, TypeOK
<1> QED
  BY <1>5, <1>6, <1>7, <1>8, <1>9, <1>10, <1>11

\* A call that gives up frees its row and posts nothing.
LEMMA GiveUpIInv ==
    ASSUME IInv, NEW c \in Calls,
           NEW pc \in {"error", "insufficient", "notfound", "winner"},
           call[c].pc \in InTx \cup {"check", "winner"},
           pc = "winner" => call[c].req.key # NoKey,
           Goto(c, pc), Unlock(c), UNCHANGED <<balance, ledger>>, faults' \in Nat, faults' >= faults
    PROVE  IInv'
<1> USE DEF IInv
<1>1. pc \in Pc
  BY DEF Pc, Ended
<1>2. TypeOK'
  BY <1>1, GotoEffect, UnlockEffect DEF TypeOK
<1>3. \A x \in Calls : EntryOf(x)' = EntryOf(x)
  BY <1>1, GotoEffect DEF EntryOf, Kind
<1>4. LocksHeld'
  <2>1. ASSUME NEW x \in Calls, NEW n \in Currencies
        PROVE  lock'[n] = x <=> call'[x].pc \in Working /\ n = call'[x].req.cur
    <3>1. CASE x = c
      BY <1>1, <3>1, GotoEffect, UnlockEffect, StoreCreditAssumption DEF Working
    <3>2. CASE x # c
      BY <1>1, <3>2, GotoEffect, UnlockEffect, StoreCreditAssumption DEF LocksHeld
    <3> QED
      BY <3>1, <3>2
  <2> QED
    BY <2>1 DEF LocksHeld
<1>5. ReadsHold'
  BY <1>1, <1>3, GotoEffect DEF ReadsHold, Working, Delta
<1>6. KeysHold'
  BY <1>1, GotoEffect DEF KeysHold, Inserted
<1>7. RowsAnswered'
  BY <1>1, <1>3, GotoEffect DEF RowsAnswered, TypeOK, Entry, InTx
<1>8. AnswersHold'
  BY <1>1, <1>3, GotoEffect DEF AnswersHold, RowsAnswered, InTx, RowsWithKey, SameValue, EntryOf
<1>9. FewLost'
  <2>1. EntryOf(c) \notin ledger
    BY DEF AnswersHold, InTx
  <2> QED
    BY <1>1, <1>3, <2>1, GotoEffect, LostKept DEF Unanswered, TypeOK, InTx
<1> QED
  BY <1>2, <1>4, <1>5, <1>6, <1>7, <1>8, <1>9

\* The new balance is within bounds, or the call ends.
LEMMA ApplyIInv ==
    ASSUME IInv, NEW c \in Calls, Apply(c)
    PROVE  IInv'
<1> USE DEF IInv
<1>1. call[c].pc = "apply" /\ UNCHANGED <<balance, ledger, faults>>
  BY DEF Apply
<1>2. CASE \E pc \in {"error", "insufficient"} : Goto(c, pc) /\ Unlock(c)
  <2>1. PICK pc \in {"error", "insufficient"} : Goto(c, pc) /\ Unlock(c)
    BY <1>2
  <2>2. call[c].pc \in InTx \cup {"check", "winner"} /\ faults' \in Nat /\ faults' >= faults
    BY <1>1 DEF InTx, TypeOK
  <2> QED
    BY <1>1, <2>1, <2>2, GiveUpIInv
<1>3. CASE /\ call[c].seen + Delta(EntryOf(c)) \in 0 .. MaxBalance
           /\ Goto(c, "insert") /\ UNCHANGED lock
  <2>1. "insert" \in Pc
    BY DEF Pc, InTx
  <2>2. TypeOK'
    BY <1>1, <1>3, <2>1, GotoEffect DEF TypeOK
  <2>3. \A x \in Calls : EntryOf(x)' = EntryOf(x)
    BY <1>3, <2>1, GotoEffect DEF EntryOf, Kind
  <2>4. LocksHeld'
    BY <1>1, <1>3, <2>1, GotoEffect DEF LocksHeld, Working
  <2>5. ReadsHold'
    BY <1>1, <1>3, <2>1, <2>3, GotoEffect DEF ReadsHold, Working, Delta
  <2>6. KeysHold'
    BY <1>1, <1>3, <2>1, GotoEffect DEF KeysHold, Inserted
  <2>7. RowsAnswered'
    BY <1>1, <1>3, <2>1, <2>3, GotoEffect DEF RowsAnswered, TypeOK, Entry
  <2>8. AnswersHold'
    BY <1>1, <1>3, <2>1, <2>3, GotoEffect
    DEF AnswersHold, RowsAnswered, RowsWithKey, SameValue, EntryOf
  <2>9. FewLost'
    BY <1>1, <1>3, <2>1, <2>3, GotoEffect, LostKept DEF Unanswered, TypeOK
  <2> QED
    BY <2>2, <2>4, <2>5, <2>6, <2>7, <2>8, <2>9
<1> QED
  BY <1>2, <1>3 DEF Apply

\* The unique index admits a key that no row, committed or not, has.
LEMMA InsertRowIInv ==
    ASSUME IInv, NEW c \in Calls, InsertRow(c)
    PROVE  IInv'
<1> USE DEF IInv
<1>1. call[c].pc = "insert" /\ UNCHANGED <<balance, ledger, faults>>
  BY DEF InsertRow
<1>2. CASE \/ Goto(c, "notfound") /\ Unlock(c)
           \/ call[c].req.key # NoKey /\ Goto(c, "winner") /\ Unlock(c)
  <2>1. call[c].pc \in InTx \cup {"check", "winner"} /\ faults' \in Nat /\ faults' >= faults
    BY <1>1 DEF InTx, TypeOK
  <2>2. CASE Goto(c, "notfound") /\ Unlock(c)
    BY <1>1, <2>1, <2>2, GiveUpIInv
  <2>3. CASE call[c].req.key # NoKey /\ Goto(c, "winner") /\ Unlock(c)
    BY <1>1, <2>1, <2>3, GiveUpIInv
  <2> QED
    BY <1>2, <2>2, <2>3
<1>3. CASE /\ call[c].req.key # NoKey =>
                 /\ RowsWithKey(call[c].req.key) = {}
                 /\ \A x \in Inserted : call[x].req.key # call[c].req.key
           /\ Goto(c, "commit") /\ UNCHANGED lock
  <2>1. "commit" \in Pc
    BY DEF Pc, InTx
  <2>2. TypeOK'
    BY <1>1, <1>3, <2>1, GotoEffect DEF TypeOK
  <2>3. \A x \in Calls : EntryOf(x)' = EntryOf(x)
    BY <1>3, <2>1, GotoEffect DEF EntryOf, Kind
  <2>4. LocksHeld'
    BY <1>1, <1>3, <2>1, GotoEffect DEF LocksHeld, Working
  <2>5. ReadsHold'
    BY <1>1, <1>3, <2>1, <2>3, GotoEffect DEF ReadsHold, Working, Delta
  <2>6. KeysHold'
    BY <1>1, <1>3, <2>1, GotoEffect DEF KeysHold, Inserted, RowsWithKey
  <2>7. RowsAnswered'
    BY <1>1, <1>3, <2>1, <2>3, GotoEffect DEF RowsAnswered, TypeOK, Entry
  <2>8. AnswersHold'
    BY <1>1, <1>3, <2>1, <2>3, GotoEffect
    DEF AnswersHold, RowsAnswered, RowsWithKey, SameValue, EntryOf
  <2>9. FewLost'
    BY <1>1, <1>3, <2>1, <2>3, GotoEffect, LostKept DEF Unanswered, TypeOK
  <2> QED
    BY <2>2, <2>4, <2>5, <2>6, <2>7, <2>8, <2>9
<1> QED
  BY <1>2, <1>3 DEF InsertRow, EntryOf

\* What a commit writes is what the abstract ledger posts: the value computed
\* from what was read is the balance plus the entry.
LEMMA CommitPosts ==
    ASSUME IInv, NEW c \in Calls, Post(c)
    PROVE  Abstract!Post(EntryOf(c)) /\ ledger' # ledger
<1> USE DEF IInv
<1> DEFINE e == EntryOf(c)
<1>1. /\ call[c].pc = "commit"
      /\ balance' = [balance EXCEPT ![e.cur] = call[c].seen + Delta(e)]
      /\ ledger' = ledger \cup {e}
  BY DEF Post
<1>2. /\ e.id = c /\ e.cur = call[c].req.cur /\ e.key = call[c].req.key
      /\ Abstract!Delta(e) = Delta(e)
  BY DEF EntryOf, Delta, Abstract!Delta
<1>3. \A f \in ledger : f.id # e.id
  BY <1>1, <1>2 DEF RowsAnswered
<1>4. e.key # NoKey => \A f \in ledger : f.key # e.key
  BY <1>1, <1>2 DEF KeysHold, Inserted
<1>5. call[c].seen = balance[e.cur] /\ call[c].seen + Delta(e) \in 0 .. MaxBalance
  BY <1>1, <1>2 DEF ReadsHold, Working
<1>6. balance[e.cur] + Abstract!Delta(e) \in 0 .. MaxBalance
  BY <1>2, <1>5
<1>7. balance' = [balance EXCEPT ![e.cur] = @ + Abstract!Delta(e)]
  BY <1>1, <1>2, <1>5
<1>8. Abstract!Post(e)
  <2> HIDE DEF e
  <2> QED
    BY <1>1, <1>3, <1>4, <1>6, <1>7 DEF Abstract!Post
<1> QED
  BY <1>1, <1>3, <1>8

\* A commit frees its row only after it has written the balance; if its answer
\* is lost, a fault was spent on it.
LEMMA PostIInv ==
    ASSUME IInv, NEW c \in Calls, NEW pc \in {"ok", "error"},
           Post(c), Goto(c, pc), Unlock(c),
           faults' = IF pc = "error" THEN faults + 1 ELSE faults
    PROVE  IInv'
<1> USE DEF IInv
<1> DEFINE e == EntryOf(c)
           m == call[c].req.cur
<1>1. /\ call[c].pc = "commit"
      /\ balance' = [balance EXCEPT ![m] = call[c].seen + Delta(e)]
      /\ ledger' = ledger \cup {e}
      /\ Goto(c, pc) /\ Unlock(c)
      /\ faults \in Nat /\ faults' \in Nat
  BY DEF Post, EntryOf, TypeOK
<1>2. e \in Entry /\ e.id = c /\ e.key = call[c].req.key /\ m \in Currencies
  BY EntryType DEF EntryOf
<1>3. call[c].seen + Delta(e) \in Nat
  BY <1>1, StoreCreditAssumption DEF ReadsHold
<1>4. pc \in Pc
  BY DEF Pc, Ended
<1>5. \A x \in Calls : EntryOf(x)' = EntryOf(x) /\ call'[x].req = call[x].req /\ call'[x].seen = call[x].seen
  BY <1>1, <1>4, GotoEffect DEF EntryOf, Kind
<1>6. call'[c].pc = pc /\ \A x \in Calls \ {c} : call'[x] = call[x]
  BY <1>1, <1>4, GotoEffect
<1>7. TypeOK'
  BY <1>1, <1>2, <1>3, <1>4, GotoEffect, UnlockEffect DEF TypeOK
<1>8. LocksHeld'
  <2>1. ASSUME NEW x \in Calls, NEW n \in Currencies
        PROVE  lock'[n] = x <=> call'[x].pc \in Working /\ n = call'[x].req.cur
    <3>1. CASE x = c
      BY <1>1, <1>6, <3>1, UnlockEffect, StoreCreditAssumption DEF Working
    <3>2. CASE x # c
      BY <1>1, <1>6, <3>2, UnlockEffect, StoreCreditAssumption DEF LocksHeld
    <3> QED
      BY <3>1, <3>2
  <2> QED
    BY <2>1 DEF LocksHeld
<1>9. ReadsHold'
  <2>1. ASSUME NEW x \in Calls \ {c}, call[x].pc \in Working
        PROVE  balance'[call[x].req.cur] = balance[call[x].req.cur]
    <3>1. lock[m] = c /\ lock[call[x].req.cur] = x
      BY <1>1, <1>2, <2>1, EntryType DEF LocksHeld, Working
    <3> QED
      BY <1>1, <1>2, <2>1, <3>1, EntryType DEF TypeOK
  <2> QED
    BY <1>5, <1>6, <2>1 DEF ReadsHold, Working, Delta
<1>10. KeysHold'
  BY <1>1, <1>2, <1>6 DEF KeysHold, Inserted
<1>11. RowsAnswered'
  BY <1>1, <1>2, <1>5, <1>6 DEF RowsAnswered, TypeOK, Entry
<1>12. AnswersHold'
  <2> HIDE DEF e, m
  <2>1. ASSUME NEW x \in Calls \ {c}
        PROVE  e # EntryOf(x)
    BY <1>2 DEF EntryOf
  <2>2. EntryOf(c) = e
    BY DEF e
  <2> QED
    BY <1>1, <1>5, <1>6, <2>1, <2>2 DEF AnswersHold, RowsWithKey, SameValue, EntryOf
<1>13. FewLost'
  <2>1. Unanswered' = IF pc = "error" THEN Unanswered \cup {c} ELSE Unanswered
    <3>1. ASSUME NEW x \in Calls \ {c}
          PROVE  x \in Unanswered' <=> x \in Unanswered
      BY <1>1, <1>5, <1>6 DEF Unanswered, EntryOf
    <3>2. c \in Unanswered' <=> pc = "error"
      BY <1>1, <1>5, <1>6 DEF Unanswered
    <3>3. c \notin Unanswered
      BY <1>1 DEF Unanswered
    <3> QED
      BY <3>1, <3>2, <3>3 DEF Unanswered
  <2>2. IsFiniteSet(Unanswered) /\ Cardinality(Unanswered) \in Nat
    BY FS_CardinalityType DEF FewLost
  <2>3. c \notin Unanswered
    BY <1>1 DEF Unanswered
  <2>4. /\ IsFiniteSet(Unanswered \cup {c})
        /\ Cardinality(Unanswered \cup {c}) = Cardinality(Unanswered) + 1
    BY <2>2, <2>3, FS_AddElement
  <2> QED
    BY <1>1, <2>1, <2>2, <2>4 DEF FewLost
<1> QED
  BY <1>7, <1>8, <1>9, <1>10, <1>11, <1>12, <1>13

\* Every step of every call preserves the invariant.
LEMMA NextIInv == IInv /\ [Next]_vars => IInv'
<1> SUFFICES ASSUME IInv, [Next]_vars PROVE IInv'
  OBVIOUS
<1>1. ASSUME NEW c \in Calls, Step(c)
      PROVE  IInv'
  <2>1. CASE Commit(c)
    BY <2>1, PostIInv DEF Commit
  <2> QED
    BY <1>1, <2>1, StartIInv, CheckKeyIInv, LockAccountIInv, ApplyIInv, InsertRowIInv DEF Step
<1>2. ASSUME NEW c \in Calls, Fail(c)
      PROVE  IInv'
  <2>1. /\ call[c].pc \in InTx \cup {"check", "winner"}
        /\ Goto(c, "error") /\ Unlock(c)
        /\ faults' = faults + 1 /\ faults' \in Nat /\ faults' >= faults
    BY <1>2 DEF Fail, IInv, TypeOK
  <2>2. CASE Post(c)
    BY <2>1, <2>2, PostIInv
  <2>3. CASE UNCHANGED <<balance, ledger>>
    BY <2>1, <2>3, GiveUpIInv
  <2> QED
    BY <1>2, <2>2, <2>3 DEF Fail
<1>3. CASE UNCHANGED vars
  BY <1>3 DEF vars, IInv, TypeOK, LocksHeld, ReadsHold, KeysHold, RowsAnswered, AnswersHold,
              FewLost, Unanswered, Inserted, RowsWithKey, SameValue, EntryOf, Kind, Delta
<1> QED
  BY <1>1, <1>2, <1>3 DEF Next

\* IInv is an inductive invariant of the transactions.
THEOREM Inductive == Spec => []IInv
<1> QED
  BY InitIInv, NextIInv, PTL DEF Spec

\* Accounts, rows, locks and calls keep their types: no balance goes negative.
THEOREM TypeCorrect == Spec => []TypeOK
<1>1. IInv => TypeOK
  BY DEF IInv
<1> QED
  BY <1>1, Inductive, PTL

\* Whatever calls of Issue, Restore and Redeem interleave or fail, with
\* whatever keys and notes, the answer of each agrees with the committed ledger:
\* only an error leaves the caller in doubt, and an entry posted under one costs
\* a commit whose answer was lost.
THEOREM AnswersCorrect == Spec => []AnswersAgreeWithLedger
<1>1. IInv => AnswersAgreeWithLedger
  BY DEF IInv, AnswersHold, FewLost, AnswersAgreeWithLedger
<1> QED
  BY <1>1, Inductive, PTL

\* Each step of applyEntry posts one entry of the ledger or leaves it alone.
LEMMA StepRefines ==
    ASSUME IInv, [Next]_vars
    PROVE  [Abstract!Next]_<<balance, ledger>>
<1>1. ASSUME NEW c \in Calls, Post(c)
      PROVE  Abstract!Next
  <2>1. EntryOf(c) \in Abstract!Entry
    BY EntryType DEF IInv, Entry, Abstract!Entry, Abstract!Kinds
  <2> QED
    BY <1>1, <2>1, CommitPosts DEF Abstract!Next
<1>2. ASSUME NEW c \in Calls, Start(c) \/ CheckKey(c) \/ LockAccount(c) \/ Apply(c) \/ InsertRow(c) \/ ReadWinner(c)
      PROVE  UNCHANGED <<balance, ledger>>
  BY <1>2 DEF Start, CheckKey, LockAccount, Apply, InsertRow, ReadWinner
<1>3. CASE UNCHANGED vars
  BY <1>3 DEF vars
<1> QED
  BY <1>1, <1>2, <1>3 DEF Next, Step, Commit, Fail

\* The account implements the abstract ledger: entries are posted one at a
\* time and for good, a key is used once, and the balance moves with them
\* within 0 .. MaxBalance.
THEOREM LedgerImplemented == Spec => ImplementsLedger
<1>1. Init => Abstract!Init
  BY DEF Init, Abstract!Init
<1> QED
  BY <1>1, Inductive, StepRefines, PTL DEF Spec, ImplementsLedger, Abstract!Spec

------------------------------------------------------------------------------
(* The balance is the sum of the entries *)

\* What each committed row adds to the balance.
deltas == [e \in ledger |-> Delta(e)]

\* The rows of a currency.
RowsOf(m) == {e \in ledger : e.cur = m}

\* The inductive invariant of the sum: a ledger is a finite set of rows, since
\* each commit adds one.
SInv == IInv /\ IsFiniteSet(ledger) /\ BalanceIsLedgerSum

\* What a row adds is an integer.
LEMMA DeltasInt ==
    ASSUME TypeOK
    PROVE  \A e \in ledger : deltas[e] = Delta(e) /\ deltas[e] \in Int
<1> SUFFICES ASSUME NEW e \in ledger PROVE Delta(e) \in Int
  BY DEF deltas
<1>1. e.amount \in Nat
  BY StoreCreditAssumption DEF TypeOK, Entry
<1> QED
  BY <1>1 DEF Delta

\* A commit adds its entry to the sum of one currency, and to its balance.
LEMMA PostSum ==
    ASSUME SInv, IInv', NEW c \in Calls, Post(c)
    PROVE  SInv'
<1> DEFINE e == EntryOf(c)
<1>1. /\ balance' = [balance EXCEPT ![e.cur] = call[c].seen + Delta(e)]
      /\ ledger' = ledger \cup {e}
      /\ call[c].pc = "commit"
  BY DEF Post
<1>2. e.id = c /\ e.cur = call[c].req.cur /\ e.cur \in Currencies
  BY EntryType DEF EntryOf, SInv, IInv
<1>3. e \notin ledger
  BY <1>1, <1>2 DEF SInv, IInv, RowsAnswered
<1>4. call[c].seen = balance[e.cur]
  BY <1>1, <1>2 DEF SInv, IInv, ReadsHold, Working
<1>5. TypeOK /\ TypeOK' /\ IsFiniteSet(ledger) /\ IsFiniteSet(ledger')
  BY <1>1, FS_AddElement DEF SInv, IInv
<1>6. \A x \in ledger : deltas'[x] = deltas[x]
  BY <1>1 DEF deltas, Delta
<1>7. e \in ledger' /\ deltas'[e] = Delta(e) /\ deltas'[e] \in Int
  <2>1. e \in ledger'
    BY <1>1
  <2>2. Delta(e) \in Int
    BY <1>5, EntryType
  <2> HIDE DEF e
  <2>3. deltas'[e] = Delta(e)
    BY <2>1 DEF deltas, Delta
  <2> QED
    BY <2>1, <2>2, <2>3
<1> HIDE DEF e
<1>8. ASSUME NEW m \in Currencies
      PROVE  balance'[m] = SumFunctionOnSet(deltas, RowsOf(m))'
  <2>1. balance[m] = SumFunctionOnSet(deltas, RowsOf(m)) /\ balance[m] \in Nat
    BY <1>5 DEF SInv, BalanceIsLedgerSum, deltas, RowsOf, TypeOK
  <2>2. IsFiniteSet(RowsOf(m)) /\ RowsOf(m) \subseteq ledger
    BY <1>5, FS_Subset DEF RowsOf
  <2>3. SumFunctionOnSet(deltas', RowsOf(m)) = SumFunctionOnSet(deltas, RowsOf(m))
    BY <1>6, <2>2, SumSame
  <2>4. CASE m # e.cur
    <3>1. RowsOf(m)' = RowsOf(m)
      BY <1>1, <2>4 DEF RowsOf
    <3>2. balance'[m] = balance[m]
      BY <1>1, <1>5, <2>4 DEF TypeOK
    <3> QED
      BY <2>1, <2>3, <3>1, <3>2
  <2>5. CASE m = e.cur
    <3>1. RowsOf(m)' = RowsOf(m) \cup {e} /\ e \notin RowsOf(m)
      BY <1>1, <1>3, <2>5 DEF RowsOf
    <3>2. \A x \in RowsOf(m) \cup {e} : deltas'[x] \in Int
      BY <1>5, <1>6, <1>7, <2>2, DeltasInt
    <3>3. SumFunctionOnSet(deltas', RowsOf(m) \cup {e}) = deltas'[e] + SumFunctionOnSet(deltas', RowsOf(m))
      BY <2>2, <3>1, <3>2, SumAdd
    <3>4. balance'[m] = balance[m] + Delta(e)
      BY <1>1, <1>2, <1>4, <1>5, <2>5 DEF TypeOK
    <3> QED
      BY <1>7, <2>1, <2>3, <3>1, <3>3, <3>4
  <2> QED
    BY <2>4, <2>5
<1> QED
  BY <1>5, <1>8 DEF SInv, BalanceIsLedgerSum, deltas, RowsOf

\* No update of a balance is lost: whatever calls interleave, replay or fail,
\* the balance of every currency is the sum of its committed entries, although
\* applyEntry writes a value computed from what it has read before.
THEOREM BalanceCorrect == Spec => []BalanceIsLedgerSum
<1>1. Init => SInv
  <2> SUFFICES ASSUME Init PROVE SInv
    OBVIOUS
  <2>1. IInv /\ ledger = {} /\ balance = [m \in Currencies |-> 0]
    BY InitIInv DEF Init
  <2>2. \A m \in Currencies : {e \in ledger : e.cur = m} = {}
    BY <2>1
  <2> QED
    BY <2>1, <2>2, SumEmpty, FS_EmptySet DEF SInv, BalanceIsLedgerSum
<1>2. SInv /\ [Next]_vars => SInv'
  <2> SUFFICES ASSUME SInv, [Next]_vars PROVE SInv'
    OBVIOUS
  <2>1. IInv'
    BY NextIInv DEF SInv
  <2>2. CASE \E c \in Calls : Post(c)
    BY <2>1, <2>2, PostSum
  <2>3. CASE UNCHANGED <<balance, ledger>>
    BY <2>1, <2>3 DEF SInv, BalanceIsLedgerSum, Delta
  <2> QED
    BY <2>2, <2>3 DEF Next, Step, Start, CheckKey, LockAccount, Apply, InsertRow, Commit, ReadWinner, Fail, vars
<1>3. SInv => BalanceIsLedgerSum
  BY DEF SInv
<1> QED
  BY <1>1, <1>2, <1>3, PTL DEF Spec
==============================================================================
