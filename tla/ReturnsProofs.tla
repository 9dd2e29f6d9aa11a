---------------------------- MODULE ReturnsProofs ----------------------------
(***************************************************************************)
(* Theorems of Returns, for every set of units, orders, returns and callers: *)
(* type correctness, deliveries within the limit of a grant, a refunded      *)
(* payment that is paid back, the refinement of ReturnLifecycle, and that    *)
(* what is on its way back is bound to nothing that stays.  Each has its     *)
(* inductive invariant (TInv, GrantBooks, MInv, VInv, UInv); that of the     *)
(* unit locks, LInv, carries the last.                                       *)
(***************************************************************************)
EXTENDS Returns, SumTheorems, FiniteSetTheorems, SequenceTheorems, TLAPS

------------------------------------------------------------------------------
(* Calls *)

\* The shape of a call follows from its operation.
LEMMA CallShape ==
    ASSUME TypeOK, NEW w \in Callers
    PROVE  /\ call[w] \in Calls
           /\ call[w].op \in BindOps => call[w] \in BindCalls
           /\ call[w].op = "request" => call[w] \in RequestCalls
           /\ call[w].op = "approve" => call[w] \in ApproveCalls
           /\ call[w].op = "refund" => call[w] \in RefundCalls
           /\ call[w].op = "receive" => call[w] \in ReceiveCalls
           /\ call[w].op = "issue" => call[w] \in IssueCalls
           /\ call[w].op = "deliver" => call[w] \in DeliverCalls
           /\ call[w].op = "revoke" => call[w] \in RevokeCalls
           /\ call[w].op = "adminRefund" => call[w] \in AdminCalls
           /\ call[w].op \notin BindOps \cup {"request", "approve", "refund", "receive", "issue", "deliver", "revoke", "adminRefund"}
                 => call[w] = Idle
<1>1. call[w] \in Calls
  BY DEF TypeOK
<1>2. CASE call[w] = Idle
  BY <1>1, <1>2 DEF Idle, BindOps
<1>3. CASE call[w] \in BindCalls
  BY <1>1, <1>3 DEF BindCalls, BindOps
<1>4. CASE call[w] \in RequestCalls
  BY <1>1, <1>4 DEF RequestCalls, BindOps
<1>5. CASE call[w] \in ApproveCalls
  BY <1>1, <1>5 DEF ApproveCalls, BindOps
<1>6. CASE call[w] \in RefundCalls
  BY <1>1, <1>6 DEF RefundCalls, BindOps
<1>7. CASE call[w] \in ReceiveCalls
  BY <1>1, <1>7 DEF ReceiveCalls, BindOps
<1>8. CASE call[w] \in IssueCalls
  BY <1>1, <1>8 DEF IssueCalls, BindOps
<1>9. CASE call[w] \in DeliverCalls
  BY <1>1, <1>9 DEF DeliverCalls, BindOps
<1>10. CASE call[w] \in AdminCalls
  BY <1>1, <1>10 DEF AdminCalls, BindOps
<1>11. CASE call[w] \in RevokeCalls
  BY <1>1, <1>11 DEF RevokeCalls, BindOps
<1> QED
  BY <1>1, <1>2, <1>3, <1>4, <1>5, <1>6, <1>7, <1>8, <1>9, <1>10, <1>11 DEF Calls

\* A caller's new call replaces its own and no other.
LEMMA SetCall ==
    ASSUME TypeOK, NEW w \in Callers, NEW c \in Calls, call' = [call EXCEPT ![w] = c]
    PROVE  /\ call' \in [Callers -> Calls]
           /\ call'[w] = c
           /\ \A x \in Callers \ {w} : call'[x] = call[x]
BY DEF TypeOK

\* Answer makes the caller idle and leaves the other calls alone.
LEMMA AnswerEffect ==
    ASSUME TypeOK, NEW w \in Callers, Answer(w)
    PROVE  /\ call' \in [Callers -> Calls]
           /\ call'[w] = Idle /\ call'[w].op = "idle"
           /\ \A x \in Callers \ {w} : call'[x] = call[x]
<1>1. Idle \in Calls
  BY DEF Calls
<1> QED
  BY <1>1, SetCall DEF Answer, Idle

\* What Goto changes: the progress of one call.
LEMMA GotoEffect ==
    ASSUME TypeOK, NEW w \in Callers, NEW pc,
           \/ call[w].op \in BindOps \cup {"request"} /\ pc \in {"lock", "check", "write"}
           \/ call[w].op = "refund" /\ call[w].pc = "update" /\ pc = "provider"
           \/ call[w].op = "receive" /\ pc \in {"row", "restock"}
           \/ call[w].op = "adminRefund" /\ pc \in {"provider", "save"},
           Goto(w, pc)
    PROVE  /\ call' \in [Callers -> Calls]
           /\ call'[w].op = call[w].op /\ call'[w].pc = pc /\ call'[w].todo = call[w].todo /\ call'[w].arg = call[w].arg
           /\ \A x \in Callers \ {w} : call'[x] = call[x]
<1> DEFINE c == [call[w] EXCEPT !.pc = pc]
<1>1. call' = [call EXCEPT ![w] = c]
  BY DEF Goto, TypeOK
<1>2. c \in Calls /\ c.op = call[w].op /\ c.pc = pc /\ c.todo = call[w].todo /\ c.arg = call[w].arg
  <2>1. CASE call[w].op \in BindOps /\ pc \in {"lock", "check", "write"}
    <3>1. call[w] \in BindCalls
      BY <2>1, CallShape
    <3> QED
      BY <2>1, <3>1 DEF BindCalls, Calls
  <2>2. CASE call[w].op = "request" /\ pc \in {"lock", "check", "write"}
    <3>1. call[w] \in RequestCalls
      BY <2>2, CallShape
    <3> QED
      BY <2>2, <3>1 DEF RequestCalls, Calls
  <2>4. CASE call[w].op = "refund" /\ call[w].pc = "update" /\ pc = "provider"
    <3>1. call[w] \in RefundCalls
      BY <2>4, CallShape
    <3> QED
      BY <2>4, <3>1 DEF RefundCalls, Calls
  <2>5. CASE call[w].op = "receive" /\ pc \in {"row", "restock"}
    <3>1. call[w] \in ReceiveCalls
      BY <2>5, CallShape
    <3> QED
      BY <2>5, <3>1 DEF ReceiveCalls, Calls
  <2>6. CASE call[w].op = "adminRefund" /\ pc \in {"provider", "save"}
    <3>1. call[w] \in AdminCalls
      BY <2>6, CallShape
    <3> QED
      BY <2>6, <3>1 DEF AdminCalls, Calls
  <2> QED
    BY <2>1, <2>2, <2>4, <2>5, <2>6
<1> HIDE DEF c
<1> QED
  BY <1>1, <1>2, SetCall

\* What LockUnit changes: one unit's lock, and what the call still wants.
LEMMA LockUnitEffect ==
    ASSUME TypeOK, NEW w \in Callers, LockUnit(w)
    PROVE  \E u \in call[w].todo :
              /\ u \in Units /\ ulock[u] = Nobody /\ ulock' = [ulock EXCEPT ![u] = w]
              /\ ulock' \in [Units -> Callers \cup {Nobody}]
              /\ call' \in [Callers -> Calls]
              /\ call[w].pc = "lock"
              /\ call'[w].op = call[w].op /\ call'[w].arg = call[w].arg /\ call'[w].todo = call[w].todo \ {u}
              /\ call'[w].pc = IF call[w].todo = {u} THEN "check" ELSE "lock"
              /\ \A x \in Callers \ {w} : call'[x] = call[x]
<1>1. PICK u \in NextLocks(call[w].todo) :
          /\ ulock[u] = Nobody
          /\ ulock' = [ulock EXCEPT ![u] = w]
          /\ call' = [call EXCEPT ![w].todo = @ \ {u}, ![w].pc = IF call[w].todo = {u} THEN "check" ELSE "lock"]
  BY DEF LockUnit
<1>2. call[w] # Idle /\ call[w].pc = "lock" /\ u \in call[w].todo
  BY <1>1 DEF LockUnit, Free, NextLocks
<1> DEFINE pc == IF call[w].todo = {u} THEN "check" ELSE "lock"
           c == [call[w] EXCEPT !.todo = call[w].todo \ {u}, !.pc = pc]
<1>3. call' = [call EXCEPT ![w] = c]
  BY <1>1 DEF TypeOK
<1>4. pc \in {"lock", "check"}
  OBVIOUS
<1>5. c \in Calls /\ c.op = call[w].op /\ c.pc = pc /\ c.todo = call[w].todo \ {u} /\ c.arg = call[w].arg /\ u \in Units
  <2> HIDE DEF pc
  <2>1. CASE call[w] \in BindCalls
    BY <1>2, <1>4, <2>1 DEF BindCalls, Calls
  <2>2. CASE call[w] \in RequestCalls
    BY <1>2, <1>4, <2>2 DEF RequestCalls, Calls
  <2>3. CASE call[w] \in ApproveCalls
    BY <1>2, <1>4, <2>3 DEF ApproveCalls, Calls
  <2>4. CASE call[w] \in RefundCalls
    BY <1>2, <1>4, <2>4 DEF RefundCalls, Calls
  <2>5. CASE call[w] \in ReceiveCalls \cup IssueCalls \cup DeliverCalls \cup RevokeCalls \cup AdminCalls
    BY <1>2, <2>5 DEF ReceiveCalls, IssueCalls, DeliverCalls, RevokeCalls, AdminCalls
  <2>6. call[w] \in Calls
    BY DEF TypeOK
  <2> QED
    BY <1>2, <2>1, <2>2, <2>3, <2>4, <2>5, <2>6 DEF Calls
<1>6. ulock' \in [Units -> Callers \cup {Nobody}]
  BY <1>1 DEF TypeOK
<1> HIDE DEF c
<1>7. /\ call' \in [Callers -> Calls] /\ call'[w] = c
      /\ \A x \in Callers \ {w} : call'[x] = call[x]
  BY <1>3, <1>5, SetCall
<1> QED
  BY <1>1, <1>2, <1>5, <1>6, <1>7

\* What Unlock changes: the locks of one call.
LEMMA UnlockEffect ==
    ASSUME TypeOK, NEW w \in Callers, Unlock(w)
    PROVE  /\ ulock' \in [Units -> Callers \cup {Nobody}] /\ rlock' \in [Rets -> Callers \cup {Nobody}]
           /\ \A u \in Units, x \in Callers \ {w} : ulock[u] = x => ulock'[u] = x
           /\ \A r \in Rets, x \in Callers \ {w} : rlock[r] = x => rlock'[r] = x
BY DEF Unlock, TypeOK

\* Item lists are functions from units to quantities.
LEMMA ItemListsType ==
    /\ NoReturn.items \in ItemLists /\ DOMAIN NoReturn.items = {}
    /\ \A items \in ItemLists : /\ DOMAIN items \subseteq Units
                                /\ \A u \in DOMAIN items : items[u] \in Nat \ {0}
    /\ \A S \in SUBSET Units : ItemsOf(S) \subseteq ItemLists
<1>1. <<>> \in ItemsOf({})
  BY DEF ItemsOf
<1>2. {} \in SUBSET Units
  OBVIOUS
<1>3. \A S \in SUBSET Units : ItemsOf(S) \subseteq ItemLists
  BY DEF ItemLists
<1>4. NoReturn.items \in ItemLists /\ DOMAIN NoReturn.items = {}
  BY <1>1, <1>2, <1>3 DEF NoReturn
<1>5. ASSUME NEW items \in ItemLists
      PROVE  DOMAIN items \subseteq Units /\ \A u \in DOMAIN items : items[u] \in Nat \ {0}
  <2>1. PICK S \in SUBSET Units : items \in ItemsOf(S)
    BY DEF ItemLists
  <2>2. \A u \in S : Ordered[u] \in Nat
    BY UnitAssumption
  <2>3. UNION {1..Ordered[u] : u \in S} \subseteq Nat \ {0}
    BY <2>2
  <2> QED
    BY <2>1, <2>3 DEF ItemsOf
<1> QED
  BY <1>3, <1>4, <1>5

\* Rows of assignments.
LEMMA RowTypes ==
    /\ Unbound \in Row /\ \A c \in Cards : Bound(c) \in Row
    /\ NoGrant \in Grant
BY DEF Unbound, Bound, Row, NoGrant, Grant

------------------------------------------------------------------------------
(* Types *)

\* A return, and a request under way, is of some units that were bought, and the
\* other calls are about returns that exist.
OnReturn == {"approve", "receive", "refund"}
ReturnsOfUnits ==
    /\ \A r \in Rets : ret[r].status # "absent" => Items(r) # {}
    /\ \A w \in Callers : call[w].op = "request" => DOMAIN Arg(w).items \subseteq bought /\ DOMAIN Arg(w).items # {}
    /\ \A w \in Callers : call[w].op \in OnReturn => ret[Arg(w).ret].status # "absent"

\* The inductive invariant of the types.
TInv == TypeOK /\ ReturnsOfUnits

\* It holds at first.
LEMMA InitTInv == Init => TInv
<1> SUFFICES ASSUME Init PROVE TInv
  OBVIOUS
<1>1. ret \in [Rets -> [status : ReturnStatus, items : ItemLists, restocked : BOOLEAN]]
  BY ItemListsType DEF Init, NoReturn, ReturnStatus
<1>2. \A r \in Rets : Items(r) = {} /\ ret[r].status = "absent"
  BY ItemListsType DEF Init, Items, NoReturn
<1>3. call \in [Callers -> Calls] /\ \A w \in Callers : call[w].op = "idle"
  BY DEF Init, Calls, Idle
<1>4. bought \subseteq Units
  BY UnitAssumption DEF Init
<1>5. asg \in [Tickets -> Seq(Row)]
  BY RowTypes DEF Init
<1>6. grant \in [Files -> Grant]
  BY RowTypes DEF Init
<1>7. pay \in [Orders -> {"pending", "failed", "completed", "refunded"}]
  BY DEF Init
<1>8. provider \in [Orders -> [refunded : Nat, keys : SUBSET Nat]]
  BY DEF Init
<1>9. /\ faults \in 0..MaxFaults /\ paidEvents \in 0..MaxPaidEvents /\ reissues \in 0..MaxReissues
      /\ served \in [Files -> Nat] /\ allowed \in [Files -> Nat] /\ stock \in [Units -> Nat]
      /\ ulock \in [Units -> Callers \cup {Nobody}] /\ rlock \in [Rets -> Callers \cup {Nobody}]
      /\ told \subseteq Rets
  BY UnitAssumption, DownloadAssumption DEF Init
<1>10. TypeOK
  BY <1>1, <1>2, <1>3, <1>4, <1>5, <1>6, <1>7, <1>8, <1>9 DEF TypeOK
<1> QED
  BY <1>2, <1>3, <1>10 DEF TInv, ReturnsOfUnits, OnReturn

\* The current row of a ticket is its last one, or none.
LEMMA CurrentType ==
    ASSUME TypeOK, NEW t \in Tickets
    PROVE  /\ asg[t] \in Seq(Row) /\ Len(asg[t]) \in Nat /\ Current(t) \in 0..Len(asg[t])
           /\ Current(t) # 0 => /\ Current(t) = Len(asg[t]) /\ LastRow(t) \in Row
                                /\ LastRow(t).status \in {"unassigned", "assigned"}
<1>1. asg[t] \in Seq(Row) /\ Len(asg[t]) \in Nat
  BY DEF TypeOK
<1>2. CASE asg[t] = <<>>
  BY <1>1, <1>2 DEF Current
<1>3. CASE asg[t] # <<>>
  <2>1. Len(asg[t]) \in 1..Len(asg[t])
    BY <1>1, <1>3, EmptySeq
  <2>2. LastRow(t) \in Row
    BY <1>1, <2>1 DEF LastRow
  <2> QED
    BY <1>1, <2>1, <2>2 DEF Current, Row
<1> QED
  BY <1>2, <1>3

\* Revoking changes the status of the last rows of some tickets and nothing else.
LEMMA RevokedEffect ==
    ASSUME TypeOK, NEW S
    PROVE  /\ Revoked(S) \in [Tickets -> Seq(Row)]
           /\ \A t \in Tickets :
                /\ Len(Revoked(S)[t]) = Len(asg[t])
                /\ t \notin S \/ Current(t) = 0 => Revoked(S)[t] = asg[t]
                /\ t \in S /\ Current(t) # 0 => Revoked(S)[t][Len(asg[t])].status = "revoked"
                /\ \A i \in 1..Len(asg[t]) : i # Len(asg[t]) => Revoked(S)[t][i] = asg[t][i]
<1> SUFFICES ASSUME NEW t \in Tickets
             PROVE  /\ Revoked(S)[t] \in Seq(Row)
                    /\ Len(Revoked(S)[t]) = Len(asg[t])
                    /\ t \notin S \/ Current(t) = 0 => Revoked(S)[t] = asg[t]
                    /\ t \in S /\ Current(t) # 0 => Revoked(S)[t][Len(asg[t])].status = "revoked"
                    /\ \A i \in 1..Len(asg[t]) : i # Len(asg[t]) => Revoked(S)[t][i] = asg[t][i]
  BY DEF Revoked
<1>1. asg[t] \in Seq(Row) /\ Len(asg[t]) \in Nat
  BY CurrentType
<1>2. CASE ~(t \in S /\ Current(t) # 0)
  BY <1>1, <1>2 DEF Revoked
<1>3. CASE t \in S /\ Current(t) # 0
  <2> DEFINE n == Len(asg[t])
             e == [asg[t][n] EXCEPT !.status = "revoked"]
  <2>1. n \in 1..Len(asg[t]) /\ Current(t) = n /\ asg[t][n] \in Row
    BY <1>1, <1>3, CurrentType DEF LastRow
  <2>2. Revoked(S)[t] = [asg[t] EXCEPT ![n] = e]
    BY <1>1, <1>3, <2>1 DEF Revoked
  <2>3. e \in Row /\ e.status = "revoked"
    BY <2>1 DEF Row
  <2> HIDE DEF n, e
  <2>4. /\ [asg[t] EXCEPT ![n] = e] \in Seq(Row) /\ Len([asg[t] EXCEPT ![n] = e]) = Len(asg[t])
        /\ \A i \in 1..Len(asg[t]) : [asg[t] EXCEPT ![n] = e][i] = IF i = n THEN e ELSE asg[t][i]
    BY <1>1, <2>1, <2>3, ExceptSeq
  <2>5. n = Len(asg[t])
    BY DEF n
  <2> QED
    BY <1>1, <1>3, <2>1, <2>2, <2>3, <2>4, <2>5
<1> QED
  BY <1>2, <1>3

\* What a revoke reads are grants.
LEMMA GrantsOfType ==
    ASSUME TypeOK, NEW S
    PROVE  GrantsOf(S) \in GrantReads
<1>1. Files \cap S \in SUBSET Files
  OBVIOUS
<1>2. GrantsOf(S) \in [Files \cap S -> Grant]
  BY DEF GrantsOf, TypeOK
<1> QED
  BY <1>1, <1>2 DEF GrantReads

\* Ending grants that were read as live leaves the others as they are, and the
\* counts of all of them.
LEMMA EndedEffect ==
    ASSUME TypeOK, NEW seen \in GrantReads
    PROVE  /\ Ended(seen) \in [Files -> Grant]
           /\ \A f \in Files : \/ Ended(seen)[f] = grant[f]
                               \/ Ended(seen)[f].status = "expired" /\ Ended(seen)[f].count = grant[f].count
<1>1. PICK S \in SUBSET Files : seen \in [S -> Grant]
  BY DEF GrantReads
<1>2. \A f \in Files : grant[f] \in Grant
  BY DEF TypeOK
<1>3. \A f \in S : seen[f] \in Grant
  BY <1>1
<1>4. DOMAIN seen = S
  BY <1>1
<1>5. ASSUME NEW f \in Files
      PROVE  /\ Ended(seen)[f] \in Grant
             /\ Ended(seen)[f] = grant[f] \/ (Ended(seen)[f].status = "expired" /\ Ended(seen)[f].count = grant[f].count)
  BY <1>2, <1>3, <1>4, <1>5 DEF Ended, Grant
<1> QED
  BY <1>5 DEF Ended

\* A step of one call keeps ReturnsOfUnits when it is still the same call, or
\* over, or a new one about units that were bought or a return that exists.
Continues(w) ==
    /\ call'[w].op = call[w].op
    /\ \/ call'[w].arg = call[w].arg
       \/ call[w].op \in {"approve", "refund"} /\ call'[w].arg.ret = call[w].arg.ret
AboutUnits(c) ==
    /\ c.op = "request" => DOMAIN c.arg.items \subseteq bought /\ DOMAIN c.arg.items # {}
    /\ c.op \in OnReturn => ret[c.arg.ret].status # "absent"

\* A step of one call that meets these conditions keeps ReturnsOfUnits.
LEMMA CallStep ==
    ASSUME TInv, NEW w \in Callers, bought \subseteq bought',
           \A x \in Callers \ {w} : call'[x] = call[x],
           \/ Continues(w)
           \/ call'[w].op = "idle"
           \/ AboutUnits(call'[w]) /\ (call'[w].op \in OnReturn => call'[w].arg.ret \in Rets),
           \A q \in Rets : ret[q].status # "absent" => ret'[q].status # "absent",
           \A q \in Rets : ret'[q].status # "absent" => DOMAIN ret'[q].items # {}
    PROVE  ReturnsOfUnits'
<1>1. ASSUME NEW x \in Callers, call[x].op \in OnReturn
      PROVE  call[x].arg.ret \in Rets
  <2>1. call[x] \in ApproveCalls \cup ReceiveCalls \cup RefundCalls
    BY <1>1, CallShape DEF TInv, OnReturn
  <2> QED
    BY <2>1 DEF ApproveCalls, ReceiveCalls, RefundCalls, RevokingArgs
<1>2. ASSUME NEW x \in Callers, call'[x].op = "request"
      PROVE  DOMAIN call'[x].arg.items \subseteq bought' /\ DOMAIN call'[x].arg.items # {}
  BY <1>2 DEF TInv, ReturnsOfUnits, Arg, AboutUnits, Continues
<1>3. ASSUME NEW x \in Callers, call'[x].op \in OnReturn
      PROVE  ret'[call'[x].arg.ret].status # "absent"
  BY <1>1, <1>3 DEF TInv, ReturnsOfUnits, Arg, AboutUnits, Continues, OnReturn
<1> QED
  BY <1>2, <1>3 DEF ReturnsOfUnits, Arg, Items

\* ... in particular when the returns are unchanged.
LEMMA CallOnly ==
    ASSUME TInv, NEW w \in Callers, bought \subseteq bought', ret' = ret,
           \A x \in Callers \ {w} : call'[x] = call[x],
           Continues(w) \/ call'[w].op = "idle"
    PROVE  ReturnsOfUnits'
<1>1. \A q \in Rets : ret'[q].status # "absent" => DOMAIN ret'[q].items # {}
  BY DEF TInv, ReturnsOfUnits, Items
<1> QED
  BY <1>1, CallStep

\* RevokeCheck ends the call, or goes on to the update with what it has read.
LEMMA RevokeCheckEffect ==
    ASSUME TypeOK, NEW w \in Callers, RevokeCheck(w)
    PROVE  /\ call' \in [Callers -> Calls]
           /\ \A x \in Callers \ {w} : call'[x] = call[x]
           /\ \/ End(w) /\ call'[w].op = "idle"
              \/ /\ UNCHANGED locks /\ Continues(w) /\ call'[w].op \in {"approve", "refund"} /\ call'[w].pc = "update"
<1>1. CASE End(w)
  BY <1>1, AnswerEffect DEF End
<1>2. CASE ~End(w)
  <2> DEFINE r == Arg(w).ret
             c == [op |-> call[w].op, pc |-> "update", todo |-> {}, arg |-> [ret |-> r, seen |-> GrantsOf(Items(r))]]
  <2>1. call' = [call EXCEPT ![w] = c] /\ UNCHANGED locks
    BY <1>2 DEF RevokeCheck, StartAt
  <2>2. call[w].op \in {"approve", "refund"} /\ call[w] \in ApproveCalls \cup RefundCalls
    BY CallShape DEF RevokeCheck
  <2>3. r \in Rets
    BY <2>2 DEF ApproveCalls, RefundCalls, RevokingArgs, Arg
  <2>4. [ret |-> r, seen |-> GrantsOf(Items(r))] \in RevokingArgs
    BY <2>3, GrantsOfType DEF RevokingArgs
  <2>5. c \in Calls /\ c.op = call[w].op /\ c.pc = "update" /\ c.arg.ret = call[w].arg.ret
    BY <2>2, <2>4 DEF ApproveCalls, RefundCalls, Calls, Arg
  <2> HIDE DEF c
  <2>6. call' \in [Callers -> Calls] /\ call'[w] = c /\ \A x \in Callers \ {w} : call'[x] = call[x]
    BY <2>1, <2>5, SetCall
  <2> QED
    BY <2>1, <2>2, <2>5, <2>6 DEF Continues
<1> QED
  BY <1>1, <1>2

\* The order of a return is one of the orders.
LEMMA OrderOfReturnType ==
    ASSUME TInv, NEW r \in Rets, ret[r].status # "absent"
    PROVE  OrderOfReturn(r) \in Orders
<1>1. Items(r) # {} /\ Items(r) \subseteq Units
  BY DEF TInv, TypeOK, ReturnsOfUnits
<1> QED
  BY <1>1 DEF OrderOfReturn, Orders

\* A new call.
LEMMA NewCall ==
    ASSUME TInv, NEW w \in Callers, NEW c \in Calls, call' = [call EXCEPT ![w] = c],
           AboutUnits(c), c.op \in OnReturn => c.arg.ret \in Rets,
           ret' = ret, bought \subseteq bought'
    PROVE  call' \in [Callers -> Calls] /\ ReturnsOfUnits'
<1>1. call' \in [Callers -> Calls] /\ call'[w] = c /\ \A x \in Callers \ {w} : call'[x] = call[x]
  BY SetCall DEF TInv
<1>2. \A q \in Rets : ret'[q].status # "absent" => DOMAIN ret'[q].items # {}
  BY DEF TInv, ReturnsOfUnits, Items
<1> QED
  BY <1>1, <1>2, CallStep

\* A change of a return's status leaves the rest of it alone.
LEMMA StatusEffect ==
    ASSUME TInv, NEW r \in Rets, NEW s \in ReturnStatus, SetStatus(r, s), ret[r].status # "absent"
    PROVE  /\ ret' \in [Rets -> [status : ReturnStatus, items : ItemLists, restocked : BOOLEAN]]
           /\ ret'[r].status = s
           /\ \A q \in Rets \ {r} : ret'[q] = ret[q]
           /\ \A q \in Rets : ret'[q].items = ret[q].items /\ ret'[q].restocked = ret[q].restocked
           /\ \A q \in Rets : ret'[q].status # "absent" => DOMAIN ret'[q].items # {}
           /\ s # "absent" => \A q \in Rets : ret[q].status # "absent" => ret'[q].status # "absent"
<1>1. ret' = [ret EXCEPT ![r].status = s]
  BY DEF SetStatus
<1>2. /\ ret' \in [Rets -> [status : ReturnStatus, items : ItemLists, restocked : BOOLEAN]]
      /\ ret'[r].status = s
      /\ \A q \in Rets \ {r} : ret'[q] = ret[q]
      /\ \A q \in Rets : ret'[q].items = ret[q].items /\ ret'[q].restocked = ret[q].restocked
  BY ZenonT(30), <1>1 DEF TInv, TypeOK
<1>3. ASSUME NEW q \in Rets, ret'[q].status # "absent"
      PROVE  DOMAIN ret'[q].items # {}
  <2>1. ret[q].status # "absent"
    BY <1>2, <1>3
  <2>2. DOMAIN ret[q].items # {}
    BY <2>1 DEF TInv, ReturnsOfUnits, Items
  <2> QED
    BY <1>2, <2>2
<1> QED
  BY <1>2, <1>3

------------------------------------------------------------------------------
(* Every step keeps the types *)

\* Every beginning of a call keeps it.
LEMMA TBegin ==
    ASSUME TInv, NEW w \in Callers, Begin(w)
    PROVE  TInv'
<1> USE DEF TInv
<1>1. ASSUME NEW t \in Tickets, NEW c \in Cards, NEW p, Assign(w, t, c, p), UNCHANGED <<downloads, money>>
      PROVE  TInv'
  <2> DEFINE a == [op |-> "assign", pc |-> "lock", todo |-> {t, c}, arg |-> [child |-> t, parent |-> c, row |-> Current(t)]]
  <2>1. a \in Calls /\ AboutUnits(a) /\ (a.op \in OnReturn => a.arg.ret \in Rets)
    <3>1. Current(t) \in Nat
      BY CurrentType
    <3>2. {t, c} \in SUBSET Units
      BY DEF Units
    <3> QED
      BY <3>1, <3>2 DEF Calls, BindCalls, BindOps, AboutUnits, OnReturn
  <2>2. call' = [call EXCEPT ![w] = a]
    BY <1>1 DEF Assign, Start
  <2> HIDE DEF a
  <2>3. call' \in [Callers -> Calls] /\ ReturnsOfUnits'
    BY <1>1, <2>1, <2>2, NewCall DEF Assign
  <2> QED
    BY <1>1, <2>3 DEF TypeOK, Items, Assign, locks, downloads, money
<1>2. ASSUME NEW t \in Tickets, NEW c \in Cards, NEW p, Purchase(w, t, c, p), UNCHANGED <<downloads, money>>
      PROVE  TInv'
  <2> DEFINE a == [op |-> "purchase", pc |-> "lock", todo |-> {t, c}, arg |-> [child |-> t, parent |-> c, row |-> 0]]
  <2>1. a \in Calls /\ AboutUnits(a) /\ (a.op \in OnReturn => a.arg.ret \in Rets)
    <3>1. {t, c} \in SUBSET Units
      BY DEF Units
    <3> QED
      BY <3>1 DEF Calls, BindCalls, BindOps, AboutUnits, OnReturn
  <2>2. call' = [call EXCEPT ![w] = a]
    BY <1>2 DEF Purchase, Start
  <2> HIDE DEF a
  <2>3. call' \in [Callers -> Calls] /\ ReturnsOfUnits'
    BY <1>2, <2>1, <2>2, NewCall DEF Purchase
  <2> QED
    BY <1>2, <2>3 DEF TypeOK, Items, Purchase, locks, downloads, money
<1>3. ASSUME NEW o \in Orders, RequestReturn(w, o)
      PROVE  TInv'
  <2>0. PICK S \in (SUBSET OrderLines(o)) \ {{}} :
            \E items \in ItemsOf(S) : Returnable(items) /\ Start(w, "request", S, [items |-> items])
    BY <1>3 DEF RequestReturn
  <2>1. PICK items \in ItemsOf(S) : Start(w, "request", S, [items |-> items])
    BY <2>0
  <2>2. S \in SUBSET Units /\ S \subseteq bought /\ S # {} /\ DOMAIN items = S /\ items \in ItemLists
    <3>1. S \subseteq bought /\ S # {} /\ bought \subseteq Units
      BY DEF OrderLines, TypeOK
    <3> QED
      BY <3>1, ItemListsType DEF ItemsOf
  <2> DEFINE a == [op |-> "request", pc |-> "lock", todo |-> S, arg |-> [items |-> items]]
  <2>3. a \in Calls /\ AboutUnits(a) /\ a.op \notin OnReturn
    BY <2>2 DEF Calls, RequestCalls, AboutUnits, OnReturn
  <2>4. call' = [call EXCEPT ![w] = a]
    BY <2>1 DEF Start
  <2> HIDE DEF a
  <2>5. call' \in [Callers -> Calls] /\ call'[w] = a /\ \A x \in Callers \ {w} : call'[x] = call[x]
    BY <2>3, <2>4, SetCall
  <2>6. ReturnsOfUnits'
    BY <1>3, <2>2, <2>3, <2>4, NewCall DEF RequestReturn
  <2> QED
    BY <1>3, <2>5, <2>6 DEF TypeOK, Items, RequestReturn, locks, downloads, money
<1>4. ASSUME NEW o \in Orders, AdminRefund(w, o)
      PROVE  TInv'
  <2> DEFINE a == [op |-> "adminRefund", pc |-> "provider", todo |-> {}, arg |-> [order |-> o]]
  <2>1. a \in Calls /\ AboutUnits(a) /\ (a.op \in OnReturn => a.arg.ret \in Rets)
    BY DEF Calls, AdminCalls, AboutUnits, OnReturn
  <2>2. call' = [call EXCEPT ![w] = a]
    BY <1>4 DEF AdminRefund, StartAt
  <2> HIDE DEF a
  <2>3. call' \in [Callers -> Calls] /\ ReturnsOfUnits'
    BY <1>4, <2>1, <2>2, NewCall DEF AdminRefund
  <2> QED
    BY <1>4, <2>3 DEF TypeOK, Items, AdminRefund, locks, downloads, money
<1>5. ASSUME NEW o \in Orders, HandleOrderPaid(w, o), UNCHANGED money
      PROVE  TInv'
  <2> DEFINE a == [op |-> "issue", pc |-> "insert", todo |-> {}, arg |-> [order |-> o, skip |-> {f \in Files : OnBlockingReturn(f)}]]
  <2>1. a \in Calls /\ AboutUnits(a) /\ (a.op \in OnReturn => a.arg.ret \in Rets)
    <3>1. {f \in Files : OnBlockingReturn(f)} \in SUBSET Files
      OBVIOUS
    <3> QED
      BY <3>1 DEF Calls, IssueCalls, AboutUnits, OnReturn
  <2>2. call' = [call EXCEPT ![w] = a]
    BY <1>5 DEF HandleOrderPaid, Issue, StartAt
  <2> HIDE DEF a
  <2>3. call' \in [Callers -> Calls] /\ ReturnsOfUnits'
    BY <1>5, <2>1, <2>2, NewCall DEF HandleOrderPaid
  <2>4. paidEvents' \in 0..MaxPaidEvents
    BY <1>5, DownloadAssumption DEF HandleOrderPaid, TypeOK
  <2> QED
    BY <1>5, <2>3, <2>4 DEF TypeOK, Items, HandleOrderPaid, locks, money
<1>6. ASSUME NEW r \in Rets, Approve(w, r)
      PROVE  TInv'
  <2> DEFINE a == [op |-> "approve", pc |-> "lock", todo |-> Items(r), arg |-> [ret |-> r]]
  <2>1. a \in Calls /\ AboutUnits(a) /\ (a.op \in OnReturn => a.arg.ret \in Rets)
    <3>1. Items(r) \in SUBSET Units
      BY DEF TypeOK
    <3> QED
      BY <1>6, <3>1 DEF Calls, ApproveCalls, AboutUnits, OnReturn, Approve
  <2>2. call' = [call EXCEPT ![w] = a]
    BY <1>6 DEF Approve, Start
  <2> HIDE DEF a
  <2>3. call' \in [Callers -> Calls] /\ ReturnsOfUnits'
    BY <1>6, <2>1, <2>2, NewCall DEF Approve
  <2> QED
    BY <1>6, <2>3 DEF TypeOK, Items, Approve, locks, downloads, money
<1>7. ASSUME NEW r \in Rets, Close(w, r)
      PROVE  TInv'
  <2> DEFINE a == [op |-> "issue", pc |-> "blocking", todo |-> {}, arg |-> [order |-> OrderOfReturn(r)]]
  <2>1. a \in Calls /\ AboutUnits(a) /\ (a.op \in OnReturn => a.arg.ret \in Rets)
    <3>1. OrderOfReturn(r) \in Orders
      BY <1>7, OrderOfReturnType DEF Close
    <3> QED
      BY <3>1 DEF Calls, IssueCalls, AboutUnits, OnReturn
  <2>2. call' = [call EXCEPT ![w] = a]
    BY <1>7 DEF Close, RetryGrants, StartAt
  <2> HIDE DEF a
  <2>3. call' \in [Callers -> Calls] /\ call'[w] = a /\ \A x \in Callers \ {w} : call'[x] = call[x]
    BY <2>1, <2>2, SetCall
  <2>4. PICK s \in {"rejected", "cancelled"} : SetStatus(r, s)
    BY <1>7 DEF Close
  <2>5. s \in ReturnStatus /\ ret[r].status # "absent"
    BY <1>7 DEF ReturnStatus, Close
  <2>6. /\ ret' \in [Rets -> [status : ReturnStatus, items : ItemLists, restocked : BOOLEAN]]
        /\ \A q \in Rets : ret'[q].items = ret[q].items
        /\ \A q \in Rets : ret[q].status # "absent" => ret'[q].status # "absent"
        /\ \A q \in Rets : ret'[q].status # "absent" => DOMAIN ret'[q].items # {}
    BY <2>4, <2>5, StatusEffect
  <2>7. ReturnsOfUnits'
    BY <1>7, <2>1, <2>3, <2>6, CallStep DEF Close
  <2> QED
    BY <1>7, <2>3, <2>6, <2>7 DEF TypeOK, Items, Close, locks, downloads, money
<1>8. ASSUME NEW r \in Rets, Receive(w, r)
      PROVE  TInv'
  <2> DEFINE a == [op |-> "receive", pc |-> "row", todo |-> {}, arg |-> [ret |-> r]]
  <2>1. a \in Calls /\ AboutUnits(a) /\ (a.op \in OnReturn => a.arg.ret \in Rets)
    BY <1>8 DEF Calls, ReceiveCalls, AboutUnits, OnReturn, Receive, Receivable
  <2>2. call' = [call EXCEPT ![w] = a]
    BY <1>8 DEF Receive, StartAt
  <2> HIDE DEF a
  <2>3. call' \in [Callers -> Calls] /\ ReturnsOfUnits'
    BY <1>8, <2>1, <2>2, NewCall DEF Receive
  <2> QED
    BY <1>8, <2>3 DEF TypeOK, Items, Receive, locks, downloads, money
<1>9. ASSUME NEW r \in Rets, Refund(w, r)
      PROVE  TInv'
  <2>1. CASE UNCHANGED call /\ told' = told \cup {r}
    BY <1>9, <2>1 DEF TypeOK, Items, Refund, locks, downloads, ReturnsOfUnits, Arg
  <2>2. CASE Start(w, "refund", Items(r), [ret |-> r]) /\ UNCHANGED told /\ ret[r].status = "received"
    <3> DEFINE a == [op |-> "refund", pc |-> "lock", todo |-> Items(r), arg |-> [ret |-> r]]
    <3>1. a \in Calls /\ AboutUnits(a) /\ (a.op \in OnReturn => a.arg.ret \in Rets)
      <4>1. Items(r) \in SUBSET Units
        BY DEF TypeOK
      <4> QED
        BY <2>2, <4>1 DEF Calls, RefundCalls, AboutUnits, OnReturn
    <3>2. call' = [call EXCEPT ![w] = a]
      BY <2>2 DEF Start
    <3> HIDE DEF a
    <3>3. call' \in [Callers -> Calls] /\ ReturnsOfUnits'
      BY <1>9, <3>1, <3>2, NewCall DEF Refund
    <3> QED
      BY <1>9, <2>2, <3>3 DEF TypeOK, Items, Refund, locks, downloads
  <2> QED
    BY <1>9, <2>1, <2>2 DEF Refund
<1>10. ASSUME NEW f \in Files, Prepare(w, f), UNCHANGED money
       PROVE  TInv'
  <2> DEFINE a == [op |-> "deliver", pc |-> "claim", todo |-> {}, arg |-> [file |-> f]]
  <2>1. a \in Calls /\ AboutUnits(a) /\ (a.op \in OnReturn => a.arg.ret \in Rets)
    BY DEF Calls, DeliverCalls, AboutUnits, OnReturn
  <2>2. call' = [call EXCEPT ![w] = a]
    BY <1>10 DEF Prepare, StartAt
  <2> HIDE DEF a
  <2>3. call' \in [Callers -> Calls] /\ ReturnsOfUnits'
    BY <1>10, <2>1, <2>2, NewCall DEF Prepare
  <2> QED
    BY <1>10, <2>3 DEF TypeOK, Items, Prepare, locks, downloads, money
<1>11. ASSUME NEW f \in Files, RevokeGrant(w, f), UNCHANGED money
       PROVE  TInv'
  <2> DEFINE a == [op |-> "revoke", pc |-> "update", todo |-> {}, arg |-> [seen |-> GrantsOf({f})]]
  <2>1. a \in Calls /\ AboutUnits(a) /\ (a.op \in OnReturn => a.arg.ret \in Rets)
    BY GrantsOfType DEF Calls, RevokeCalls, AboutUnits, OnReturn
  <2>2. call' = [call EXCEPT ![w] = a]
    BY <1>11 DEF RevokeGrant, StartAt
  <2> HIDE DEF a
  <2>3. call' \in [Callers -> Calls] /\ ReturnsOfUnits'
    BY <1>11, <2>1, <2>2, NewCall DEF RevokeGrant
  <2> QED
    BY <1>11, <2>3 DEF TypeOK, Items, RevokeGrant, locks, downloads, money
<1> QED
  BY <1>1, <1>2, <1>3, <1>4, <1>5, <1>6, <1>7, <1>8, <1>9, <1>10, <1>11 DEF Begin

\* A bind writes one row of one ticket, or none.
LEMMA BindRows ==
    ASSUME TypeOK, NEW w \in Callers, BindWrite(w)
    PROVE  /\ call[w] \in BindCalls /\ call[w].pc = "write"
           /\ asg' \in [Tickets -> Seq(Row)]
           /\ \A t \in Tickets : t # Arg(w).child => asg'[t] = asg[t]
           /\ LET t == Arg(w).child
                  c == Arg(w).parent
                  k == Arg(w).row
              IN  \/ asg' = asg
                  \/ /\ Current(t) = 0 /\ asg'[t] = Append(asg[t], Bound(c))
                  \/ /\ k \in 1..Len(asg[t]) /\ asg[t][k] = Unbound
                     /\ Len(asg'[t]) = Len(asg[t])
                     /\ \A i \in 1..Len(asg[t]) : asg'[t][i] = IF i = k THEN Bound(c) ELSE asg[t][i]
<1> DEFINE t == Arg(w).child
           c == Arg(w).parent
           k == Arg(w).row
<1>1. call[w] \in BindCalls /\ call[w].pc = "write"
  BY CallShape DEF BindWrite
<1>2. t \in Tickets /\ c \in Cards /\ k \in Nat
  BY <1>1 DEF BindCalls, Arg
<1>3. asg \in [Tickets -> Seq(Row)] /\ asg[t] \in Seq(Row) /\ Bound(c) \in Row
  BY <1>2, RowTypes DEF TypeOK
<1>4. CASE k # 0 /\ asg[t][k] = Unbound /\ k \in 1..Len(asg[t])
  <2>1. asg' = [asg EXCEPT ![t] = [asg[t] EXCEPT ![k] = Bound(c)]]
    BY <1>4 DEF BindWrite
  <2>2. /\ [asg[t] EXCEPT ![k] = Bound(c)] \in Seq(Row)
        /\ Len([asg[t] EXCEPT ![k] = Bound(c)]) = Len(asg[t])
        /\ \A i \in 1..Len(asg[t]) : [asg[t] EXCEPT ![k] = Bound(c)][i] = IF i = k THEN Bound(c) ELSE asg[t][i]
    BY <1>3, <1>4, ExceptSeq
  <2> HIDE DEF t, c, k
  <2>3. asg'[t] = [asg[t] EXCEPT ![k] = Bound(c)] /\ asg' \in [Tickets -> Seq(Row)] /\ \A x \in Tickets : x # t => asg'[x] = asg[x]
    BY <1>2, <1>3, <2>1, <2>2
  <2>4. /\ Len(asg'[t]) = Len(asg[t])
        /\ \A i \in 1..Len(asg[t]) : asg'[t][i] = IF i = k THEN Bound(c) ELSE asg[t][i]
    BY <2>2, <2>3
  <2> QED
    BY <1>1, <1>4, <2>3, <2>4 DEF t, c, k
<1>5. CASE k # 0 /\ asg[t][k] = Unbound /\ k \notin 1..Len(asg[t])
  <2>1. asg' = [asg EXCEPT ![t] = [asg[t] EXCEPT ![k] = Bound(c)]]
    BY <1>5 DEF BindWrite
  <2>2. [asg[t] EXCEPT ![k] = Bound(c)] = asg[t]
    <3> HIDE DEF t, c, k
    <3>1. DOMAIN asg[t] = 1..Len(asg[t])
      BY <1>3, LenProperties
    <3>2. asg[t] = [i \in DOMAIN asg[t] |-> asg[t][i]]
      BY <1>3
    <3> QED
      BY <1>5, <3>1, <3>2
  <2>3. asg' = asg
    BY <1>2, <1>3, <2>1, <2>2
  <2> QED
    BY <1>1, <1>3, <2>3
<1>6. CASE k = 0 /\ MayCreate(t)
  <2>1. asg' = [asg EXCEPT ![t] = Append(asg[t], Bound(c))]
    BY <1>6 DEF BindWrite
  <2>2. Append(asg[t], Bound(c)) \in Seq(Row)
    BY <1>3
  <2> HIDE DEF t, c, k
  <2>3. asg'[t] = Append(asg[t], Bound(c)) /\ asg' \in [Tickets -> Seq(Row)] /\ \A x \in Tickets : x # t => asg'[x] = asg[x]
    BY <1>2, <1>3, <2>1, <2>2
  <2> QED
    BY <1>1, <1>6, <2>3 DEF MayCreate, t, c, k
<1>7. CASE ~(k # 0 /\ asg[t][k] = Unbound) /\ ~(k = 0 /\ MayCreate(t))
  <2>1. asg' = asg
    BY <1>7 DEF BindWrite
  <2> QED
    BY <1>1, <1>3, <2>1
<1> QED
  BY <1>4, <1>5, <1>6, <1>7

\* What UpdateRevoking changes: when the stored status has not moved, the return,
\* the assignments of its units and the grants of its files.
LEMMA UpdateEffect ==
    ASSUME TInv, NEW w \in Callers, NEW from, NEW to, Arg(w) \in RevokingArgs, UpdateRevoking(w, from, to),
           <<from, to>> \in {<<"requested", "approved">>, <<"received", "refunded">>}
    PROVE  /\ ret' \in [Rets -> [status : ReturnStatus, items : ItemLists, restocked : BOOLEAN]]
           /\ asg' \in [Tickets -> Seq(Row)] /\ grant' \in [Files -> Grant]
           /\ ulock' \in [Units -> Callers \cup {Nobody}] /\ rlock' \in [Rets -> Callers \cup {Nobody}]
           /\ \A q \in Rets : ret'[q].items = ret[q].items
           /\ \A q \in Rets : ret'[q].status # "absent" => DOMAIN ret'[q].items # {}
           /\ \A q \in Rets : ret[q].status # "absent" => ret'[q].status # "absent"
<1> USE DEF TInv
<1>0. Arg(w).ret \in Rets /\ Arg(w).seen \in GrantReads
  BY DEF RevokingArgs
<1>1. CASE Updates(w, from)
  <2>1. SetStatus(Arg(w).ret, to) /\ asg' = Revoked(Items(Arg(w).ret)) /\ grant' = Ended(Arg(w).seen)
    BY <1>1 DEF UpdateRevoking, RevokeAssignments
  <2>2. to \in ReturnStatus /\ ret[Arg(w).ret].status # "absent"
    BY <1>1 DEF ReturnStatus, Updates
  <2>3. asg' \in [Tickets -> Seq(Row)] /\ grant' \in [Files -> Grant]
    BY <1>0, <2>1, RevokedEffect, EndedEffect
  <2>4. ulock' \in [Units -> Callers \cup {Nobody}] /\ rlock' \in [Rets -> Callers \cup {Nobody}]
    BY UnlockEffect DEF UpdateRevoking
  <2> QED
    BY <1>0, <2>1, <2>2, <2>3, <2>4, StatusEffect
<1>2. CASE ~Updates(w, from)
  <2>1. UNCHANGED <<ret, asg, grant>>
    BY <1>2 DEF UpdateRevoking
  <2>2. ulock' \in [Units -> Callers \cup {Nobody}] /\ rlock' \in [Rets -> Callers \cup {Nobody}]
    BY UnlockEffect DEF UpdateRevoking
  <2> QED
    BY <2>1, <2>2 DEF TypeOK, ReturnsOfUnits, Items
<1> QED
  BY <1>1, <1>2

\* What the provider is asked for keeps its books typed.
LEMMA PaysBackType ==
    ASSUME TypeOK, NEW o \in Orders, NEW n \in Nat, PaysBack(o, n)
    PROVE  provider' \in [Orders -> [refunded : Nat, keys : SUBSET Nat]]
<1>1. provider[o].refunded \in Nat /\ provider[o].keys \in SUBSET Nat
  BY DEF TypeOK
<1> QED
  BY <1>1 DEF PaysBack, TypeOK

\* Amounts of money are natural numbers.
LEMMA MoneyTypes ==
    ASSUME TypeOK
    PROVE  /\ \A items \in ItemLists : Amount(items) \in Nat
           /\ \A o \in Orders : Paid(o) \in Nat
<1>1. ASSUME NEW S \in SUBSET Units PROVE IsFiniteSet(S)
  BY UnitAssumption, FS_Subset
<1>2. \A u \in Units : Price[u] \in Nat /\ Ordered[u] \in Nat
  BY UnitAssumption, PriceAssumption
<1>3. ASSUME NEW items \in ItemLists PROVE Amount(items) \in Nat
  <2> DEFINE f == [u \in DOMAIN items |-> items[u] * Price[u]]
  <2>1. DOMAIN items \subseteq Units /\ \A u \in DOMAIN items : items[u] \in Nat
    BY ItemListsType
  <2>2. IsFiniteSet(DOMAIN items)
    BY <1>1, <2>1
  <2>3. \A u \in DOMAIN items : f[u] \in Nat
    BY <1>2, <2>1
  <2>4. SumFunctionOnSet(f, DOMAIN items) \in Nat
    BY <2>2, <2>3, SumNat
  <2> QED
    BY <2>4 DEF Amount, SumFunction
<1>4. ASSUME NEW o \in Orders PROVE Paid(o) \in Nat
  <2> DEFINE f == [u \in OrderLines(o) |-> Ordered[u] * Price[u]]
  <2>1. OrderLines(o) \subseteq Units
    BY DEF OrderLines, TypeOK
  <2>2. IsFiniteSet(OrderLines(o))
    BY <1>1, <2>1
  <2>3. \A u \in OrderLines(o) : f[u] \in Nat
    BY <1>2, <2>1
  <2>4. SumFunctionOnSet(f, OrderLines(o)) \in Nat
    BY <2>2, <2>3, SumNat
  <2> QED
    BY <2>4 DEF Paid, SumFunction
<1> QED
  BY <1>3, <1>4

\* Every step of a call keeps it: one case per action.
LEMMA TStep ==
    ASSUME TInv, NEW w \in Callers, Step(w)
    PROVE  TInv'
<1> USE DEF TInv
<1>1. CASE LockUnit(w) /\ UNCHANGED <<downloads, money>>
  <2>1. PICK u \in call[w].todo :
              /\ ulock' \in [Units -> Callers \cup {Nobody}]
              /\ call' \in [Callers -> Calls]
              /\ Continues(w)
              /\ \A x \in Callers \ {w} : call'[x] = call[x]
    BY <1>1, LockUnitEffect DEF Continues
  <2>2. ReturnsOfUnits'
    BY <1>1, <2>1, CallOnly DEF LockUnit
  <2> QED
    BY <1>1, <2>1, <2>2 DEF LockUnit, TypeOK, Items, downloads, money
<1>2. CASE BindCheck(w) /\ UNCHANGED <<downloads, money>>
  <2>1. /\ call' \in [Callers -> Calls]
        /\ Continues(w) \/ call'[w].op = "idle"
        /\ \A x \in Callers \ {w} : call'[x] = call[x]
    <3>1. CASE Goto(w, "write")
      BY <1>2, <3>1, GotoEffect DEF Continues, BindCheck, BindOps
    <3>2. CASE End(w)
      BY <1>2, <3>2, AnswerEffect DEF End
    <3> QED
      BY <1>2, <3>1, <3>2 DEF BindCheck
  <2>2. ReturnsOfUnits'
    BY <1>2, <2>1, CallOnly DEF BindCheck
  <2>3. ulock' \in [Units -> Callers \cup {Nobody}] /\ rlock' \in [Rets -> Callers \cup {Nobody}]
    BY <1>2, UnlockEffect DEF BindCheck, End, locks, TypeOK
  <2> QED
    BY <1>2, <2>1, <2>2, <2>3 DEF BindCheck, TypeOK, Items, downloads, money
<1>3. CASE BindWrite(w) /\ UNCHANGED <<downloads, money>>
  <2>1. asg' \in [Tickets -> Seq(Row)] /\ call[w] \in BindCalls
    BY <1>3, BindRows
  <2>2. bought \subseteq bought' /\ bought' \subseteq Units
    <3>1. Arg(w).child \in Units
      BY <2>1 DEF BindCalls, Arg, Units
    <3> QED
      BY <1>3, <3>1 DEF BindWrite, TypeOK
  <2>3. /\ call' \in [Callers -> Calls]
        /\ Continues(w) \/ call'[w].op = "idle"
        /\ \A x \in Callers \ {w} : call'[x] = call[x]
    BY <1>3, AnswerEffect DEF BindWrite, End
  <2>4. ReturnsOfUnits'
    BY <1>3, <2>2, <2>3, CallOnly DEF BindWrite
  <2>5. ulock' \in [Units -> Callers \cup {Nobody}] /\ rlock' \in [Rets -> Callers \cup {Nobody}]
    BY <1>3, UnlockEffect DEF BindWrite, End
  <2> QED
    BY <1>3, <2>1, <2>2, <2>3, <2>4, <2>5 DEF BindWrite, TypeOK, Items, downloads, money
<1>4. CASE RequestCheck(w)
  <2>1. /\ call' \in [Callers -> Calls]
        /\ Continues(w) \/ call'[w].op = "idle"
        /\ \A x \in Callers \ {w} : call'[x] = call[x]
    <3>1. CASE Goto(w, "write")
      BY <1>4, <3>1, GotoEffect DEF Continues, RequestCheck, At
    <3>2. CASE End(w)
      BY <1>4, <3>2, AnswerEffect DEF End
    <3> QED
      BY <1>4, <3>1, <3>2 DEF RequestCheck
  <2>2. ReturnsOfUnits'
    BY <1>4, <2>1, CallOnly DEF RequestCheck
  <2>3. ulock' \in [Units -> Callers \cup {Nobody}] /\ rlock' \in [Rets -> Callers \cup {Nobody}]
    BY <1>4, UnlockEffect DEF RequestCheck, End, locks, TypeOK
  <2> QED
    BY <1>4, <2>1, <2>2, <2>3 DEF RequestCheck, TypeOK, Items, downloads, money
<1>5. CASE SaveReturn(w)
  <2>1. call[w] \in RequestCalls /\ DOMAIN Arg(w).items \subseteq bought /\ DOMAIN Arg(w).items # {}
    BY <1>5, CallShape DEF SaveReturn, At, ReturnsOfUnits
  <2>2. PICK r \in Rets : ret' = [ret EXCEPT ![r] = [status |-> "requested", items |-> Arg(w).items, restocked |-> FALSE]]
    BY <1>5 DEF SaveReturn
  <2>3. Arg(w).items \in ItemLists
    BY <2>1 DEF RequestCalls, Arg
  <2>4. /\ ret' \in [Rets -> [status : ReturnStatus, items : ItemLists, restocked : BOOLEAN]]
        /\ ret'[r].items = Arg(w).items /\ \A q \in Rets \ {r} : ret'[q] = ret[q]
    BY <2>2, <2>3 DEF TypeOK, ReturnStatus
  <2>5. /\ call' \in [Callers -> Calls]
        /\ Continues(w) \/ call'[w].op = "idle"
        /\ \A x \in Callers \ {w} : call'[x] = call[x]
    BY <1>5, AnswerEffect DEF SaveReturn, End
  <2>6. bought' = bought
    BY <1>5 DEF SaveReturn
  <2>7. \A q \in Rets : DOMAIN ret'[q].items \subseteq bought /\ (ret'[q].status # "absent" => DOMAIN ret'[q].items # {})
    BY <2>1, <2>4 DEF ReturnsOfUnits, Items, TypeOK
  <2>8. \A q \in Rets : ret[q].status # "absent" => ret'[q].status # "absent"
    BY <2>2, <2>4 DEF TypeOK
  <2>9. ReturnsOfUnits'
    BY <2>5, <2>6, <2>7, <2>8, CallStep
  <2>10. ulock' \in [Units -> Callers \cup {Nobody}] /\ rlock' \in [Rets -> Callers \cup {Nobody}]
    BY <1>5, UnlockEffect DEF SaveReturn, End
  <2> QED
    BY <1>5, <2>4, <2>5, <2>6, <2>7, <2>9, <2>10 DEF SaveReturn, TypeOK, Items, downloads, money
<1>6. CASE RevokeCheck(w)
  <2>1. /\ call' \in [Callers -> Calls]
        /\ Continues(w) \/ call'[w].op = "idle"
        /\ \A x \in Callers \ {w} : call'[x] = call[x]
    BY <1>6, RevokeCheckEffect
  <2>2. ReturnsOfUnits'
    BY <1>6, <2>1, CallOnly DEF RevokeCheck
  <2>3. ulock' \in [Units -> Callers \cup {Nobody}] /\ rlock' \in [Rets -> Callers \cup {Nobody}]
    BY <1>6, RevokeCheckEffect, UnlockEffect DEF End, locks, TypeOK
  <2> QED
    BY <1>6, <2>1, <2>2, <2>3 DEF RevokeCheck, TypeOK, Items, downloads, money
<1>7. CASE ApproveUpdate(w)
  <2>1. call[w] \in ApproveCalls
    BY <1>7, CallShape DEF ApproveUpdate, At
  <2>2. Arg(w) \in RevokingArgs
    BY <1>7, <2>1 DEF ApproveCalls, ApproveUpdate, At, Arg
  <2>3. /\ call' \in [Callers -> Calls]
        /\ Continues(w) \/ call'[w].op = "idle"
        /\ \A x \in Callers \ {w} : call'[x] = call[x]
    BY <1>7, AnswerEffect DEF ApproveUpdate
  <2>4. UpdateRevoking(w, "requested", "approved") /\ bought' = bought
    BY <1>7 DEF ApproveUpdate
  <2>5. /\ ret' \in [Rets -> [status : ReturnStatus, items : ItemLists, restocked : BOOLEAN]]
        /\ asg' \in [Tickets -> Seq(Row)] /\ grant' \in [Files -> Grant]
        /\ ulock' \in [Units -> Callers \cup {Nobody}] /\ rlock' \in [Rets -> Callers \cup {Nobody}]
        /\ \A q \in Rets : ret'[q].items = ret[q].items
        /\ \A q \in Rets : ret'[q].status # "absent" => DOMAIN ret'[q].items # {}
        /\ \A q \in Rets : ret[q].status # "absent" => ret'[q].status # "absent"
    BY <2>2, <2>4, UpdateEffect
  <2>7. ReturnsOfUnits'
    BY <2>3, <2>4, <2>5, CallStep
  <2> QED
    BY <1>7, <2>3, <2>5, <2>7 DEF ApproveUpdate, TypeOK, Items, downloads, money
<1>8. CASE ReadBlocking(w)
  <2> DEFINE a == [op |-> "issue", pc |-> "insert", todo |-> {}, arg |-> [order |-> Arg(w).order, skip |-> {f \in Files : OnBlockingReturn(f)}]]
  <2>1. a \in Calls /\ AboutUnits(a) /\ (a.op \in OnReturn => a.arg.ret \in Rets)
    <3>1. {f \in Files : OnBlockingReturn(f)} \in SUBSET Files
      OBVIOUS
    <3>2. call[w] \in IssueCalls
      BY <1>8, CallShape DEF ReadBlocking, At
    <3>3. Arg(w).order \in Orders
      BY <3>2 DEF IssueCalls, Arg
    <3> QED
      BY <3>1, <3>3 DEF Calls, IssueCalls, AboutUnits, OnReturn
  <2>2. call' = [call EXCEPT ![w] = a]
    BY <1>8 DEF ReadBlocking, Issue, StartAt
  <2> HIDE DEF a
  <2>3. call' \in [Callers -> Calls] /\ ReturnsOfUnits'
    BY <1>8, <2>1, <2>2, NewCall DEF ReadBlocking
  <2> QED
    BY <1>8, <2>3 DEF TypeOK, Items, ReadBlocking, locks, downloads, money
<1>9. CASE LockForRestock(w)
  <2>1. /\ call' \in [Callers -> Calls]
        /\ Continues(w) \/ call'[w].op = "idle"
        /\ \A x \in Callers \ {w} : call'[x] = call[x]
    <3>1. CASE Goto(w, "restock")
      BY <1>9, <3>1, GotoEffect DEF Continues, LockForRestock, At
    <3>2. CASE Answer(w)
      BY <1>9, <3>2, AnswerEffect
    <3> QED
      BY <1>9, <3>1, <3>2 DEF LockForRestock
  <2>2. ReturnsOfUnits'
    BY <1>9, <2>1, CallOnly DEF LockForRestock
  <2>3. rlock' \in [Rets -> Callers \cup {Nobody}]
    BY <1>9 DEF LockForRestock, TypeOK
  <2> QED
    BY <1>9, <2>1, <2>2, <2>3 DEF LockForRestock, TypeOK, Items, downloads, money
<1>10. CASE Restock(w)
  <2> DEFINE r == Arg(w).ret
  <2>1. call[w] \in ReceiveCalls
    BY <1>10, CallShape DEF Restock, At
  <2>2. r \in Rets
    BY <2>1 DEF ReceiveCalls, Arg
  <2>3. /\ call' \in [Callers -> Calls]
        /\ Continues(w) \/ call'[w].op = "idle"
        /\ \A x \in Callers \ {w} : call'[x] = call[x]
    BY <1>10, AnswerEffect DEF Restock, End
  <2>4. ret' = [ret EXCEPT ![r].status = "received", ![r].restocked = TRUE] /\ bought' = bought
    BY <1>10 DEF Restock
  <2> HIDE DEF r
  <2>5. /\ ret' \in [Rets -> [status : ReturnStatus, items : ItemLists, restocked : BOOLEAN]]
        /\ \A q \in Rets : ret'[q].items = ret[q].items
        /\ \A q \in Rets \ {r} : ret'[q] = ret[q]
    <3> DEFINE Rec == [status : ReturnStatus, items : ItemLists, restocked : BOOLEAN]
    <3>1. ret \in [Rets -> Rec]
      BY DEF TypeOK
    <3>2. "received" \in ReturnStatus
      BY DEF ReturnStatus
    <3>3. ret[r] \in Rec /\ [ret[r] EXCEPT !.status = "received", !.restocked = TRUE] \in Rec
      BY <2>2, <3>1, <3>2
    <3>4. ret' = [ret EXCEPT ![r] = [ret[r] EXCEPT !.status = "received", !.restocked = TRUE]]
      BY <2>2, <2>4, <3>1
    <3>5. \A q \in Rets : ret'[q] = IF q = r THEN [ret[r] EXCEPT !.status = "received", !.restocked = TRUE] ELSE ret[q]
      BY <3>1, <3>4
    <3>6. ret' \in [Rets -> Rec]
      <4> HIDE DEF Rec
      <4> QED
        BY <2>2, <3>1, <3>3, <3>4
    <3>7. \A q \in Rets : ret'[q].items = ret[q].items
      BY <3>1, <3>3, <3>5
    <3> QED
      BY <3>5, <3>6, <3>7
  <2>6. stock' \in [Units -> Nat]
    <3>1. \A u \in Items(r) : ret[r].items[u] \in Nat
      BY <2>2, ItemListsType DEF TypeOK, Items
    <3> QED
      BY <1>10, <3>1 DEF Restock, TypeOK, r
  <2>7. ulock' \in [Units -> Callers \cup {Nobody}] /\ rlock' \in [Rets -> Callers \cup {Nobody}]
    BY <1>10, UnlockEffect DEF Restock, End
  <2>8. ret[r].status # "absent"
    BY <1>10 DEF Restock, At, ReturnsOfUnits, OnReturn, r
  <2>9. /\ \A q \in Rets : ret'[q].status # "absent" => DOMAIN ret'[q].items # {}
        /\ \A q \in Rets : ret[q].status # "absent" => ret'[q].status # "absent"
    <3>1. \A q \in Rets : ret[q].status # "absent" => DOMAIN ret[q].items # {}
      BY DEF ReturnsOfUnits, Items
    <3>2. ret'[r].status = "received"
      BY <2>2, <2>4 DEF TypeOK
    <3> QED
      BY <2>2, <2>5, <2>8, <3>1, <3>2
  <2>10. ReturnsOfUnits'
    BY <2>3, <2>4, <2>9, CallStep
  <2> QED
    BY <1>10, <2>3, <2>4, <2>5, <2>6, <2>7, <2>10 DEF Restock, TypeOK, Items, downloads, money
<1>11. CASE RefundUpdate(w)
  <2>1. call[w] \in RefundCalls
    BY <1>11, CallShape DEF RefundUpdate, At
  <2>2. Arg(w) \in RevokingArgs
    BY <1>11, <2>1 DEF RefundCalls, RefundUpdate, At, Arg
  <2>3. /\ call' \in [Callers -> Calls]
        /\ Continues(w) \/ call'[w].op = "idle"
        /\ \A x \in Callers \ {w} : call'[x] = call[x]
    <3>1. CASE Goto(w, "provider")
      BY <1>11, <3>1, GotoEffect DEF Continues, RefundUpdate, At
    <3>2. CASE Answer(w)
      BY <1>11, <3>2, AnswerEffect
    <3> QED
      BY <1>11, <3>1, <3>2 DEF RefundUpdate
  <2>4. UpdateRevoking(w, "received", "refunded") /\ bought' = bought
    BY <1>11 DEF RefundUpdate
  <2>5. /\ ret' \in [Rets -> [status : ReturnStatus, items : ItemLists, restocked : BOOLEAN]]
        /\ asg' \in [Tickets -> Seq(Row)] /\ grant' \in [Files -> Grant]
        /\ ulock' \in [Units -> Callers \cup {Nobody}] /\ rlock' \in [Rets -> Callers \cup {Nobody}]
        /\ \A q \in Rets : ret'[q].items = ret[q].items
        /\ \A q \in Rets : ret'[q].status # "absent" => DOMAIN ret'[q].items # {}
        /\ \A q \in Rets : ret[q].status # "absent" => ret'[q].status # "absent"
    BY <2>2, <2>4, UpdateEffect
  <2>7. ReturnsOfUnits'
    BY <2>3, <2>4, <2>5, CallStep
  <2> QED
    BY <1>11, <2>3, <2>5, <2>7 DEF RefundUpdate, TypeOK, Items, downloads, money
<1>12. CASE RefundProvider(w)
  <2> DEFINE r == Arg(w).ret
  <2>1. call[w] \in RefundCalls
    BY <1>12, CallShape DEF RefundProvider, At
  <2>2. r \in Rets
    BY <2>1 DEF RefundCalls, RevokingArgs, Arg
  <2>3. /\ call' \in [Callers -> Calls]
        /\ Continues(w) \/ call'[w].op = "idle"
        /\ \A x \in Callers \ {w} : call'[x] = call[x]
    BY <1>12, AnswerEffect DEF RefundProvider
  <2>4. told' \subseteq Rets /\ faults' \in 0..MaxFaults
    BY <1>12, <2>2, UnitAssumption DEF RefundProvider, AskProvider, TypeOK, Fault, NoFault
  <2>5. provider' \in [Orders -> [refunded : Nat, keys : SUBSET Nat]]
    <3>1. OrderOfReturn(r) \in Orders
      <4>1. ret[r].status # "absent"
        BY <1>12 DEF RefundProvider, At, ReturnsOfUnits, OnReturn
      <4> QED
        BY <2>2, <4>1, OrderOfReturnType
    <3>2. Amount(ret[r].items) \in Nat
      BY <2>2, MoneyTypes DEF TypeOK
    <3>3. CASE PaysBack(OrderOfReturn(r), Amount(ret[r].items))
      BY <3>1, <3>2, <3>3, PaysBackType
    <3> QED
      BY <1>12, <3>3 DEF RefundProvider, AskProvider, TypeOK
  <2>6. ReturnsOfUnits'
    BY <1>12, <2>3, CallOnly DEF RefundProvider
  <2> QED
    BY <1>12, <2>3, <2>4, <2>5, <2>6 DEF RefundProvider, TypeOK, Items, downloads, locks
<1>13. CASE AdminProvider(w)
  <2> DEFINE o == Arg(w).order
  <2>1. call[w] \in AdminCalls
    BY <1>13, CallShape DEF AdminProvider, At
  <2>2. o \in Orders
    BY <2>1 DEF AdminCalls, Arg
  <2>3. /\ call' \in [Callers -> Calls]
        /\ Continues(w) \/ call'[w].op = "idle"
        /\ \A x \in Callers \ {w} : call'[x] = call[x]
    <3>1. CASE Goto(w, "save")
      BY <1>13, <3>1, GotoEffect DEF Continues, AdminProvider, At
    <3>2. CASE Answer(w)
      BY <1>13, <3>2, AnswerEffect
    <3> QED
      BY <1>13, <3>1, <3>2 DEF AdminProvider, AskProvider
  <2>4. faults' \in 0..MaxFaults
    BY <1>13, UnitAssumption DEF AdminProvider, AskProvider, TypeOK, Fault, NoFault
  <2>5. provider' \in [Orders -> [refunded : Nat, keys : SUBSET Nat]]
    <3>1. Paid(o) \in Nat
      BY <2>2, MoneyTypes
    <3>2. CASE PaysBack(o, Paid(o))
      BY <2>2, <3>1, <3>2, PaysBackType
    <3> QED
      BY <1>13, <3>2 DEF AdminProvider, AskProvider, TypeOK
  <2>6. ReturnsOfUnits'
    BY <1>13, <2>3, CallOnly DEF AdminProvider
  <2> QED
    BY <1>13, <2>3, <2>4, <2>5, <2>6 DEF AdminProvider, TypeOK, Items, downloads, locks
<1>14. CASE AdminSave(w)
  <2>1. /\ call' \in [Callers -> Calls]
        /\ Continues(w) \/ call'[w].op = "idle"
        /\ \A x \in Callers \ {w} : call'[x] = call[x]
    BY <1>14, AnswerEffect DEF AdminSave
  <2>2. pay' \in [Orders -> {"pending", "failed", "completed", "refunded"}]
    BY <1>14 DEF AdminSave, TypeOK
  <2>3. ReturnsOfUnits'
    BY <1>14, <2>1, CallOnly DEF AdminSave
  <2> QED
    BY <1>14, <2>1, <2>2, <2>3 DEF AdminSave, TypeOK, Items, downloads, locks
<1>15. CASE InsertGrants(w) /\ UNCHANGED money
  <2>1. /\ call' \in [Callers -> Calls]
        /\ Continues(w) \/ call'[w].op = "idle"
        /\ \A x \in Callers \ {w} : call'[x] = call[x]
    BY <1>15, AnswerEffect DEF InsertGrants
  <2>2. grant' \in [Files -> Grant]
    <3>1. [status |-> "live", count |-> 0, limit |-> Limit] \in Grant
      BY DownloadAssumption DEF Grant
    <3> QED
      BY <1>15, <3>1 DEF InsertGrants, TypeOK
  <2>3. allowed' \in [Files -> Nat]
    BY <1>15, DownloadAssumption DEF InsertGrants, TypeOK
  <2>4. ReturnsOfUnits'
    BY <1>15, <2>1, CallOnly DEF InsertGrants
  <2> QED
    BY <1>15, <2>1, <2>2, <2>3, <2>4 DEF InsertGrants, TypeOK, Items, money, locks
<1>16. CASE Claim(w) /\ UNCHANGED money
  <2>1. /\ call' \in [Callers -> Calls]
        /\ Continues(w) \/ call'[w].op = "idle"
        /\ \A x \in Callers \ {w} : call'[x] = call[x]
    BY <1>16, AnswerEffect DEF Claim
  <2>2. grant' \in [Files -> Grant] /\ served' \in [Files -> Nat]
    <3>1. call[w] \in DeliverCalls
      BY <1>16, CallShape DEF Claim, At
    <3>2. Arg(w).file \in Files
      BY <3>1 DEF DeliverCalls, Arg
    <3>3. grant[Arg(w).file] \in Grant
      BY <3>2 DEF TypeOK
    <3>4. CASE Claimable(Arg(w).file)
      <4> DEFINE g == [grant[Arg(w).file] EXCEPT !.count = @ + 1]
      <4>1. g \in Grant
        BY <3>3 DEF Grant
      <4>2. grant' = [grant EXCEPT ![Arg(w).file] = g] /\ served' = [served EXCEPT ![Arg(w).file] = @ + 1]
        BY <1>16, <3>4 DEF Claim
      <4> HIDE DEF g
      <4> QED
        BY <3>2, <4>1, <4>2 DEF TypeOK
    <3>5. CASE ~Claimable(Arg(w).file)
      BY <1>16, <3>5 DEF Claim, TypeOK
    <3> QED
      BY <3>4, <3>5
  <2>3. ReturnsOfUnits'
    BY <1>16, <2>1, CallOnly DEF Claim
  <2> QED
    BY <1>16, <2>1, <2>2, <2>3 DEF Claim, TypeOK, Items, money, locks
<1>17. CASE RevokeWrite(w) /\ UNCHANGED money
  <2>1. /\ call' \in [Callers -> Calls]
        /\ Continues(w) \/ call'[w].op = "idle"
        /\ \A x \in Callers \ {w} : call'[x] = call[x]
    BY <1>17, AnswerEffect DEF RevokeWrite
  <2>2. grant' \in [Files -> Grant]
    <3>1. call[w] \in RevokeCalls
      BY <1>17, CallShape DEF RevokeWrite, At
    <3>2. Arg(w).seen \in GrantReads
      BY <3>1 DEF RevokeCalls, Arg
    <3> QED
      BY <1>17, <3>2, EndedEffect DEF RevokeWrite, TypeOK
  <2>3. ReturnsOfUnits'
    BY <1>17, <2>1, CallOnly DEF RevokeWrite
  <2> QED
    BY <1>17, <2>1, <2>2, <2>3 DEF RevokeWrite, TypeOK, Items, money, locks, downloads
<1> QED
  BY <1>1, <1>2, <1>3, <1>4, <1>5, <1>6, <1>7, <1>8, <1>9, <1>10, <1>11, <1>12, <1>13, <1>14, <1>15, <1>16, <1>17 DEF Step

\* What happens outside the calls, and the calls that die.
Around ==
    \/ \E w \in Callers : Die(w) /\ UNCHANGED <<downloads, money>>
    \/ \E t \in Tickets : (PurchaseDeferred(t) \/ AdminRevoke(t)) /\ UNCHANGED <<downloads, money>>
    \/ \E f \in Files : (Expire(f) \/ Reissue(f)) /\ UNCHANGED money
    \/ \E o \in Orders : ChargeRefunded(o) \/ PaymentEnds(o) \/ RevokeForOrder(o)

\* What happens around the calls keeps it.
LEMMA TAround ==
    ASSUME TInv, Around
    PROVE  TInv'
<1> USE DEF TInv
<1>1. ASSUME NEW w \in Callers, Die(w), UNCHANGED <<downloads, money>>
      PROVE  TInv'
  <2>1. call' \in [Callers -> Calls] /\ call'[w].op = "idle" /\ \A x \in Callers \ {w} : call'[x] = call[x]
    BY <1>1, AnswerEffect DEF Die, End
  <2>2. ReturnsOfUnits'
    BY <1>1, <2>1, CallOnly DEF Die
  <2>3. ulock' \in [Units -> Callers \cup {Nobody}] /\ rlock' \in [Rets -> Callers \cup {Nobody}]
    BY <1>1, UnlockEffect DEF Die, End
  <2>4. faults' \in 0..MaxFaults
    BY <1>1, UnitAssumption DEF Die, Fault, TypeOK
  <2> QED
    BY <1>1, <2>1, <2>2, <2>3, <2>4 DEF Die, TypeOK, Items, downloads, money
<1>2. ASSUME UNCHANGED <<ret, call>>, bought \subseteq bought'
      PROVE  ReturnsOfUnits'
  BY <1>2 DEF ReturnsOfUnits, Items, Arg
<1>3. ASSUME NEW t \in Tickets, PurchaseDeferred(t), UNCHANGED <<downloads, money>>
      PROVE  TInv'
  <2>1. asg' \in [Tickets -> Seq(Row)]
    <3>1. Append(asg[t], Unbound) \in Seq(Row)
      BY RowTypes DEF TypeOK
    <3> QED
      BY <1>3, <3>1 DEF PurchaseDeferred, TypeOK
  <2>2. bought \subseteq bought' /\ bought' \subseteq Units
    BY <1>3 DEF PurchaseDeferred, TypeOK, Units
  <2>3. ReturnsOfUnits'
    BY <1>2, <1>3, <2>2 DEF PurchaseDeferred
  <2> QED
    BY <1>3, <2>1, <2>2, <2>3 DEF PurchaseDeferred, TypeOK, Items, downloads, money, locks
<1>4. ASSUME NEW t \in Tickets, AdminRevoke(t), UNCHANGED <<downloads, money>>
      PROVE  TInv'
  <2>1. asg' \in [Tickets -> Seq(Row)]
    BY <1>4, RevokedEffect DEF AdminRevoke
  <2>2. ReturnsOfUnits'
    BY <1>2, <1>4 DEF AdminRevoke
  <2> QED
    BY <1>4, <2>1, <2>2 DEF AdminRevoke, TypeOK, Items, downloads, money, locks
<1>5. ASSUME NEW f \in Files, Expire(f), UNCHANGED money
      PROVE  TInv'
  <2>1. grant' \in [Files -> Grant]
    <3>1. grant[f] \in Grant
      BY DEF TypeOK
    <3>2. [grant[f] EXCEPT !.status = "expired"] \in Grant
      BY <3>1 DEF Grant
    <3> QED
      BY <1>5, <3>2 DEF Expire, TypeOK
  <2>2. ReturnsOfUnits'
    BY <1>2, <1>5 DEF Expire
  <2> QED
    BY <1>5, <2>1, <2>2 DEF Expire, TypeOK, Items, downloads, money, locks
<1>6. ASSUME NEW f \in Files, Reissue(f), UNCHANGED money
      PROVE  TInv'
  <2>1. PICK reset \in BOOLEAN, limit \in 1..Limit :
          LET count == IF reset THEN 0 ELSE grant[f].count IN
          /\ count <= limit
          /\ grant' = [grant EXCEPT ![f] = [status |-> "live", count |-> count, limit |-> limit]]
          /\ allowed' = [allowed EXCEPT ![f] = served[f] + limit - count]
    BY <1>6 DEF Reissue
  <2>2. grant[f] \in Grant /\ grant[f].count \in Nat /\ limit \in Nat
    BY DownloadAssumption DEF TypeOK, Grant
  <2> DEFINE count == IF reset THEN 0 ELSE grant[f].count
             g == [status |-> "live", count |-> count, limit |-> limit]
  <2>3. g \in Grant /\ served[f] + limit - count \in Nat
    BY <2>1, <2>2 DEF Grant, TypeOK
  <2>4. grant' = [grant EXCEPT ![f] = g] /\ allowed' = [allowed EXCEPT ![f] = served[f] + limit - count]
    BY <2>1
  <2> HIDE DEF g, count
  <2>5. grant' \in [Files -> Grant] /\ allowed' \in [Files -> Nat]
    BY <2>3, <2>4 DEF TypeOK
  <2>6. reissues' \in 0..MaxReissues
    BY <1>6, DownloadAssumption DEF Reissue, TypeOK
  <2>7. ReturnsOfUnits'
    BY <1>2, <1>6 DEF Reissue
  <2> QED
    BY <1>6, <2>5, <2>6, <2>7 DEF Reissue, TypeOK, Items, money, locks
<1>7. ASSUME NEW o \in Orders, ChargeRefunded(o)
      PROVE  TInv'
  <2>1. ReturnsOfUnits'
    BY <1>2, <1>7 DEF ChargeRefunded
  <2> QED
    BY <1>7, <2>1 DEF ChargeRefunded, TypeOK, Items, downloads, locks
<1>8. ASSUME NEW o \in Orders, PaymentEnds(o)
      PROVE  TInv'
  <2>1. ReturnsOfUnits'
    BY <1>2, <1>8 DEF PaymentEnds
  <2>2. pay' \in [Orders -> {"pending", "failed", "completed", "refunded"}]
    BY <1>8 DEF PaymentEnds, TypeOK
  <2> QED
    BY <1>8, <2>1, <2>2 DEF PaymentEnds, TypeOK, Items, downloads, locks
<1>9. ASSUME NEW o \in Orders, RevokeForOrder(o)
      PROVE  TInv'
  <2>1. PICK t \in Tickets : asg' = Revoked({t})
    BY <1>9 DEF RevokeForOrder
  <2>2. asg' \in [Tickets -> Seq(Row)]
    BY <2>1, RevokedEffect
  <2>3. ReturnsOfUnits'
    BY <1>2, <1>9 DEF RevokeForOrder
  <2> QED
    BY <1>9, <2>2, <2>3 DEF RevokeForOrder, TypeOK, Items, downloads, money, locks
<1> QED
  BY <1>1, <1>3, <1>4, <1>5, <1>6, <1>7, <1>8, <1>9 DEF Around

\* Every step is the beginning of a call, a step of one, or something around them.
LEMMA NextCases ==
    ASSUME Next
    PROVE  (\E w \in Callers : Begin(w)) \/ (\E w \in Callers : Step(w)) \/ Around
BY DEF Next, Around

\* Every step keeps it.
LEMMA StepTInv == TInv /\ [Next]_vars => TInv'
<1> SUFFICES ASSUME TInv, [Next]_vars PROVE TInv'
  OBVIOUS
<1>1. CASE Next
  BY <1>1, NextCases, TBegin, TStep, TAround
<1>2. CASE UNCHANGED vars
  BY <1>2 DEF vars, TInv, TypeOK, ReturnsOfUnits, Items, Arg
<1> QED
  BY <1>1, <1>2

\* Types of the post-sale services: the rows, the locks and every call
\* under way keep their types, and no return is ever one of units nobody bought.
THEOREM TypeCorrect == Spec => []TypeOK
<1>1. Spec => []TInv
  BY InitTInv, StepTInv, PTL DEF Spec
<1>2. TInv => TypeOK
  BY DEF TInv
<1> QED
  BY <1>1, <1>2, PTL

------------------------------------------------------------------------------
(* Downloads *)

\* The books of a file's grant: what it has left is what it has allowed and not
\* delivered.  The limit alone does not do: a re-issue resets the count.
GrantBooks ==
    \A f \in Files :
        /\ grant[f].status = "none" => served[f] = 0 /\ allowed[f] = 0
        /\ served[f] <= allowed[f] /\ grant[f].count <= grant[f].limit
        /\ grant[f].status = "live" => allowed[f] - served[f] = grant[f].limit - grant[f].count

\* The beginning of a call writes no row but the status of a return that is closed.
LEMMA BeginFrame ==
    ASSUME NEW w \in Callers, Begin(w)
    PROVE  UNCHANGED <<bought, stock, asg, grant, ulock, rlock, faults, served, allowed, pay, provider>>
<1> USE DEF locks, downloads, money
<1>1. ASSUME NEW t \in Tickets, NEW c \in Cards, NEW p, Assign(w, t, c, p) \/ Purchase(w, t, c, p), UNCHANGED <<downloads, money>>
      PROVE  UNCHANGED <<bought, stock, asg, grant, ulock, rlock, faults, served, allowed, pay, provider>>
  BY <1>1 DEF Assign, Purchase
<1>2. ASSUME NEW o \in Orders, RequestReturn(w, o) \/ AdminRefund(w, o) \/ (HandleOrderPaid(w, o) /\ UNCHANGED money)
      PROVE  UNCHANGED <<bought, stock, asg, grant, ulock, rlock, faults, served, allowed, pay, provider>>
  BY <1>2 DEF RequestReturn, AdminRefund, HandleOrderPaid
<1>3. ASSUME NEW r \in Rets, Approve(w, r) \/ Close(w, r) \/ Receive(w, r) \/ Refund(w, r)
      PROVE  UNCHANGED <<bought, stock, asg, grant, ulock, rlock, faults, served, allowed, pay, provider>>
  BY <1>3 DEF Approve, Close, Receive, Refund
<1>4. ASSUME NEW f \in Files, (Prepare(w, f) \/ RevokeGrant(w, f)) /\ UNCHANGED money
      PROVE  UNCHANGED <<bought, stock, asg, grant, ulock, rlock, faults, served, allowed, pay, provider>>
  BY <1>4 DEF Prepare, RevokeGrant
<1> QED
  BY <1>1, <1>2, <1>3, <1>4 DEF Begin

\* Ending grants within their limits keeps the books, whichever limit is written.
LEMMA EndedBooks ==
    ASSUME TypeOK, GrantBooks, NEW seen \in GrantReads, WithinLimits(Ended(seen)), grant' = Ended(seen),
           UNCHANGED <<served, allowed>>
    PROVE  GrantBooks'
<1>1. \A f \in Files : \/ Ended(seen)[f] = grant[f]
                       \/ Ended(seen)[f].status = "expired" /\ Ended(seen)[f].count = grant[f].count
  BY EndedEffect
<1> QED
  BY <1>1 DEF GrantBooks, WithinLimits

\* Every step keeps the books of the grants.
LEMMA StepGrantBooks ==
    ASSUME TInv, GrantBooks, [Next]_vars
    PROVE  GrantBooks'
<1> USE DEF TInv
<1>1. ASSUME UNCHANGED <<grant, served, allowed>> PROVE GrantBooks'
  BY <1>1 DEF GrantBooks
<1>2. ASSUME NEW w \in Callers, Begin(w) PROVE GrantBooks'
  BY <1>1, <1>2, BeginFrame
<1>3. ASSUME NEW w \in Callers, Step(w) PROVE GrantBooks'
  <2> USE DEF downloads, money, locks
  <2>1. CASE (LockUnit(w) \/ BindCheck(w) \/ BindWrite(w)) /\ UNCHANGED <<downloads, money>>
    BY <1>1, <2>1 DEF LockUnit, BindCheck, BindWrite
  <2>2. CASE RequestCheck(w) \/ SaveReturn(w) \/ RevokeCheck(w) \/ ReadBlocking(w) \/ LockForRestock(w)
             \/ Restock(w) \/ RefundProvider(w) \/ AdminProvider(w) \/ AdminSave(w)
    BY <1>1, <2>2 DEF RequestCheck, SaveReturn, RevokeCheck, ReadBlocking, LockForRestock, Restock, RefundProvider, AdminProvider, AdminSave
  <2>3. CASE ApproveUpdate(w) \/ RefundUpdate(w)
    <3>1. /\ UNCHANGED <<served, allowed>>
          /\ grant' = grant \/ (grant' = Ended(Arg(w).seen) /\ WithinLimits(Ended(Arg(w).seen)))
      BY <2>3 DEF ApproveUpdate, RefundUpdate, UpdateRevoking, Updates
    <3>2. call[w] \in ApproveCalls \cup RefundCalls /\ call[w].pc = "update"
      BY <2>3, CallShape DEF ApproveUpdate, RefundUpdate, At
    <3>3. Arg(w).seen \in GrantReads
      BY <3>2 DEF ApproveCalls, RefundCalls, RevokingArgs, Arg
    <3> QED
      BY <1>1, <3>1, <3>3, EndedBooks
  <2>4. CASE InsertGrants(w)
    <3>1. ASSUME NEW f \in Files
          PROVE  \/ grant'[f] = grant[f] /\ allowed'[f] = allowed[f]
                 \/ /\ grant[f].status = "none" /\ allowed'[f] = allowed[f] + Limit
                    /\ grant'[f] = [status |-> "live", count |-> 0, limit |-> Limit]
      BY <2>4 DEF InsertGrants, Issuable
    <3>2. served' = served
      BY <2>4 DEF InsertGrants
    <3>3. \A f \in Files : served[f] \in Nat /\ allowed[f] \in Nat
      BY DEF TypeOK
    <3> QED
      BY <3>1, <3>2, <3>3, DownloadAssumption DEF GrantBooks
  <2>5. CASE Claim(w)
    <3> DEFINE f == Arg(w).file
    <3>1. call[w] \in DeliverCalls
      BY <2>5, CallShape DEF Claim, At
    <3>2. f \in Files
      BY <3>1 DEF DeliverCalls, Arg
    <3>3. CASE Claimable(f)
      <4>1. /\ grant' = [grant EXCEPT ![f].count = @ + 1] /\ served' = [served EXCEPT ![f] = @ + 1] /\ allowed' = allowed
            /\ grant[f].status = "live" /\ grant[f].count < grant[f].limit
        BY <2>5, <3>3 DEF Claim, Claimable
      <4>2. grant[f] \in Grant /\ served[f] \in Nat /\ allowed[f] \in Nat
        BY <3>2 DEF TypeOK
      <4> HIDE DEF f
      <4>3. /\ \A g \in Files : g # f => grant'[g] = grant[g] /\ served'[g] = served[g]
            /\ grant'[f].status = "live" /\ grant'[f].limit = grant[f].limit
            /\ grant'[f].count = grant[f].count + 1 /\ served'[f] = served[f] + 1
        BY <3>2, <4>1, <4>2 DEF TypeOK, Grant
      <4> QED
        BY <3>2, <4>1, <4>2, <4>3 DEF GrantBooks, Grant
    <3>4. CASE ~Claimable(f)
      BY <1>1, <2>5, <3>4 DEF Claim
    <3> QED
      BY <3>3, <3>4
  <2>6. CASE RevokeWrite(w)
    <3>1. /\ UNCHANGED <<served, allowed>>
          /\ grant' = grant \/ (grant' = Ended(Arg(w).seen) /\ WithinLimits(Ended(Arg(w).seen)))
      BY <2>6 DEF RevokeWrite
    <3>2. call[w] \in RevokeCalls
      BY <2>6, CallShape DEF RevokeWrite, At
    <3>3. Arg(w).seen \in GrantReads
      BY <3>2 DEF RevokeCalls, Arg
    <3> QED
      BY <1>1, <3>1, <3>3, EndedBooks
  <2> QED
    BY <1>3, <2>1, <2>2, <2>3, <2>4, <2>5, <2>6 DEF Step
<1>4. CASE Around
  <2> USE DEF downloads, money, locks
  <2>1. ASSUME NEW w \in Callers, Die(w) /\ UNCHANGED <<downloads, money>> PROVE GrantBooks'
    BY <1>1, <2>1 DEF Die
  <2>2. ASSUME NEW t \in Tickets, (PurchaseDeferred(t) \/ AdminRevoke(t)) /\ UNCHANGED <<downloads, money>> PROVE GrantBooks'
    BY <1>1, <2>2 DEF PurchaseDeferred, AdminRevoke
  <2>3. ASSUME NEW f \in Files, Expire(f) PROVE GrantBooks'
    <3>1. /\ \A g \in Files : g # f => grant'[g] = grant[g]
          /\ grant'[f].status = "expired" /\ grant'[f].count = grant[f].count /\ grant'[f].limit = grant[f].limit
          /\ UNCHANGED <<served, allowed>>
      BY <2>3 DEF Expire, TypeOK, Grant
    <3> QED
      BY <3>1 DEF GrantBooks
  <2>4. ASSUME NEW f \in Files, Reissue(f) PROVE GrantBooks'
    <3>1. PICK reset \in BOOLEAN, limit \in 1..Limit :
            LET count == IF reset THEN 0 ELSE grant[f].count IN
            /\ count <= limit
            /\ grant' = [grant EXCEPT ![f] = [status |-> "live", count |-> count, limit |-> limit]]
            /\ allowed' = [allowed EXCEPT ![f] = served[f] + limit - count]
      BY <2>4 DEF Reissue
    <3> DEFINE count == IF reset THEN 0 ELSE grant[f].count
    <3>2. count \in Nat /\ limit \in Nat /\ count <= limit
      BY <3>1, DownloadAssumption DEF TypeOK, Grant
    <3>3. /\ grant' = [grant EXCEPT ![f] = [status |-> "live", count |-> count, limit |-> limit]]
          /\ allowed' = [allowed EXCEPT ![f] = served[f] + limit - count]
          /\ served' = served
      BY <2>4, <3>1 DEF Reissue
    <3> HIDE DEF count
    <3>4. /\ \A g \in Files : g # f => grant'[g] = grant[g] /\ allowed'[g] = allowed[g]
          /\ grant'[f].status = "live" /\ grant'[f].limit = limit /\ grant'[f].count = count
          /\ allowed'[f] = served[f] + limit - count /\ served[f] \in Nat
      BY <3>3 DEF TypeOK
    <3> QED
      BY <3>2, <3>3, <3>4 DEF GrantBooks
  <2>5. ASSUME NEW o \in Orders, ChargeRefunded(o) \/ PaymentEnds(o) \/ RevokeForOrder(o) PROVE GrantBooks'
    BY <1>1, <2>5 DEF ChargeRefunded, PaymentEnds, RevokeForOrder
  <2> QED
    BY <1>4, <2>1, <2>2, <2>3, <2>4, <2>5 DEF Around
<1>5. CASE UNCHANGED vars
  BY <1>1, <1>5 DEF vars
<1> QED
  BY <1>2, <1>3, <1>4, <1>5, NextCases

\* THEOREM Downloads: however many deliveries of a file run at once between
\* PrepareDelivery and ClaimDelivery, and whatever is revoked, re-issued or expires
\* between them, no more are delivered than its grants have allowed.
THEOREM DeliveriesCorrect == Spec => []DeliveriesWithinLimit
<1>1. Init => GrantBooks
  BY DEF Init, GrantBooks, NoGrant
<1>2. TInv /\ GrantBooks => DeliveriesWithinLimit
  <2> SUFFICES ASSUME TInv, GrantBooks, NEW f \in Files PROVE served[f] <= allowed[f]
    BY DEF DeliveriesWithinLimit
  <2>1. served[f] \in Nat /\ allowed[f] \in Nat /\ grant[f] \in Grant
    BY DEF TInv, TypeOK
  <2> QED
    BY <2>1 DEF GrantBooks, Grant
<1>3. TInv /\ GrantBooks /\ [Next]_vars => GrantBooks'
  BY StepGrantBooks
<1> QED
  BY <1>1, <1>2, <1>3, InitTInv, StepTInv, PTL DEF Spec

------------------------------------------------------------------------------
(* The calls that begin, and how they go on *)

\* What each call begins with.
NewAssign(w) ==
    \E t \in Tickets, c \in Cards :
        /\ {t, c} \subseteq bought /\ ret' = ret
        /\ call'[w] = [op |-> "assign", pc |-> "lock", todo |-> {t, c}, arg |-> [child |-> t, parent |-> c, row |-> Current(t)]]
NewPurchase(w) ==
    \E t \in Tickets, c \in Cards :
        /\ NotOrdered(t) /\ c \in bought /\ ret' = ret
        /\ call'[w] = [op |-> "purchase", pc |-> "lock", todo |-> {t, c}, arg |-> [child |-> t, parent |-> c, row |-> 0]]
NewRequest(w) ==
    \E items \in ItemLists :
        /\ DOMAIN items \subseteq bought /\ ret' = ret
        /\ call'[w] = [op |-> "request", pc |-> "lock", todo |-> DOMAIN items, arg |-> [items |-> items]]
NewRevoking(w) ==
    \E r \in Rets, op \in {"approve", "refund"} :
        /\ op = "approve" => ret[r].status = "requested"
        /\ op = "refund" => ret[r].status = "received"
        /\ ret' = ret
        /\ call'[w] = [op |-> op, pc |-> "lock", todo |-> Items(r), arg |-> [ret |-> r]]
NewReceive(w) ==
    \E r \in Rets :
        /\ ret' = ret
        /\ call'[w] = [op |-> "receive", pc |-> "row", todo |-> {}, arg |-> [ret |-> r]]
NewAdminRefund(w) ==
    \E o \in Orders :
        /\ OrderLines(o) # {} /\ ret' = ret
        /\ call'[w] = [op |-> "adminRefund", pc |-> "provider", todo |-> {}, arg |-> [order |-> o]]
NewDownload(w) == call'[w].op \in {"issue", "deliver", "revoke"} /\ call'[w].pc \in {"insert", "claim", "update"} /\ ret' = ret
NewClose(w) ==
    /\ call'[w].op = "issue"
    /\ \E r \in Rets, s \in {"rejected", "cancelled"} : ret[r].status = "requested" /\ rlock[r] = Nobody /\ SetStatus(r, s)
NewCalls(w) ==
    \/ NewAssign(w) \/ NewPurchase(w) \/ NewRequest(w) \/ NewRevoking(w) \/ NewReceive(w)
    \/ NewAdminRefund(w) \/ NewDownload(w) \/ NewClose(w)

\* A call that begins was idle, and is one of these.
LEMMA BeginCases ==
    ASSUME TInv, NEW w \in Callers, Begin(w)
    PROVE  /\ call[w] = Idle
           /\ \A x \in Callers \ {w} : call'[x] = call[x]
           /\ NewCalls(w) \/ (ret' = ret /\ call' = call)
<1> DEFINE Begun == call[w] = Idle /\ \A x \in Callers \ {w} : call'[x] = call[x]
<1>1. ASSUME NEW c, call' = [call EXCEPT ![w] = c]
      PROVE  call'[w] = c /\ \A x \in Callers \ {w} : call'[x] = call[x]
  BY <1>1 DEF TInv, TypeOK
<1>4. ASSUME NEW t \in Tickets, NEW c \in Cards, NEW p, Assign(w, t, c, p)
      PROVE  Begun /\ NewAssign(w)
  <2>1. call[w] = Idle /\ {t, c} \subseteq bought /\ ret' = ret /\ Start(w, "assign", {t, c}, [child |-> t, parent |-> c, row |-> Current(t)])
    BY <1>4 DEF Assign, Free
  <2>2. call' = [call EXCEPT ![w] = [op |-> "assign", pc |-> "lock", todo |-> {t, c}, arg |-> [child |-> t, parent |-> c, row |-> Current(t)]]]
    BY <2>1 DEF Start
  <2>3. call'[w] = [op |-> "assign", pc |-> "lock", todo |-> {t, c}, arg |-> [child |-> t, parent |-> c, row |-> Current(t)]]
    BY <1>1, <2>2
  <2>4. \A x \in Callers \ {w} : call'[x] = call[x]
    BY <1>1, <2>2
  <2> QED
    BY <2>1, <2>3, <2>4 DEF NewAssign
<1>5. ASSUME NEW t \in Tickets, NEW c \in Cards, NEW p, Purchase(w, t, c, p)
      PROVE  Begun /\ NewPurchase(w)
  <2>1. call[w] = Idle /\ NotOrdered(t) /\ c \in bought /\ ret' = ret /\ Start(w, "purchase", {t, c}, [child |-> t, parent |-> c, row |-> 0])
    BY <1>5 DEF Purchase, Free
  <2>2. call' = [call EXCEPT ![w] = [op |-> "purchase", pc |-> "lock", todo |-> {t, c}, arg |-> [child |-> t, parent |-> c, row |-> 0]]]
    BY <2>1 DEF Start
  <2>3. call'[w] = [op |-> "purchase", pc |-> "lock", todo |-> {t, c}, arg |-> [child |-> t, parent |-> c, row |-> 0]]
    BY <1>1, <2>2
  <2>4. \A x \in Callers \ {w} : call'[x] = call[x]
    BY <1>1, <2>2
  <2> QED
    BY <2>1, <2>3, <2>4 DEF NewPurchase
<1>6. ASSUME NEW o \in Orders, RequestReturn(w, o)
      PROVE  Begun /\ NewRequest(w)
  <2>1. PICK S \in (SUBSET OrderLines(o)) \ {{}} :
            \E items \in ItemsOf(S) : Returnable(items) /\ Start(w, "request", S, [items |-> items])
    BY <1>6 DEF RequestReturn
  <2>2. PICK items \in ItemsOf(S) : Start(w, "request", S, [items |-> items])
    BY <2>1
  <2>3. S \subseteq bought /\ S \in SUBSET Units
    BY DEF OrderLines, TInv, TypeOK
  <2>4. items \in ItemLists /\ DOMAIN items = S
    BY <2>3, ItemListsType DEF ItemsOf
  <2>5. call[w] = Idle /\ ret' = ret
    BY <1>6 DEF RequestReturn, Free
  <2>6. call' = [call EXCEPT ![w] = [op |-> "request", pc |-> "lock", todo |-> DOMAIN items, arg |-> [items |-> items]]]
    BY <2>2, <2>4 DEF Start
  <2>7. call'[w] = [op |-> "request", pc |-> "lock", todo |-> DOMAIN items, arg |-> [items |-> items]]
    BY <1>1, <2>6
  <2>8. \A x \in Callers \ {w} : call'[x] = call[x]
    BY <1>1, <2>6
  <2> QED
    BY <2>3, <2>4, <2>5, <2>7, <2>8 DEF NewRequest
<1>7. ASSUME NEW o \in Orders, AdminRefund(w, o)
      PROVE  Begun /\ NewAdminRefund(w)
  <2>1. call[w] = Idle /\ OrderLines(o) # {} /\ ret' = ret /\ StartAt(w, "adminRefund", "provider", [order |-> o])
    BY <1>7 DEF AdminRefund, Free
  <2>2. call' = [call EXCEPT ![w] = [op |-> "adminRefund", pc |-> "provider", todo |-> {}, arg |-> [order |-> o]]]
    BY <2>1 DEF StartAt
  <2>3. call'[w] = [op |-> "adminRefund", pc |-> "provider", todo |-> {}, arg |-> [order |-> o]]
    BY <1>1, <2>2
  <2>4. \A x \in Callers \ {w} : call'[x] = call[x]
    BY <1>1, <2>2
  <2> QED
    BY <2>1, <2>3, <2>4 DEF NewAdminRefund
<1>8. ASSUME NEW o \in Orders, HandleOrderPaid(w, o)
      PROVE  Begun /\ NewDownload(w)
  <2>1. call[w] = Idle /\ ret' = ret /\ StartAt(w, "issue", "insert", [order |-> o, skip |-> {f \in Files : OnBlockingReturn(f)}])
    BY <1>8 DEF HandleOrderPaid, Free, Issue
  <2>2. call' = [call EXCEPT ![w] = [op |-> "issue", pc |-> "insert", todo |-> {}, arg |-> [order |-> o, skip |-> {f \in Files : OnBlockingReturn(f)}]]]
    BY <2>1 DEF StartAt
  <2>3. call'[w] = [op |-> "issue", pc |-> "insert", todo |-> {}, arg |-> [order |-> o, skip |-> {f \in Files : OnBlockingReturn(f)}]]
    BY <1>1, <2>2
  <2>4. \A x \in Callers \ {w} : call'[x] = call[x]
    BY <1>1, <2>2
  <2> QED
    BY <2>1, <2>3, <2>4 DEF NewDownload
<1>9. ASSUME NEW r \in Rets, Approve(w, r)
      PROVE  Begun /\ NewRevoking(w)
  <2>1. call[w] = Idle /\ ret[r].status = "requested" /\ ret' = ret /\ Start(w, "approve", Items(r), [ret |-> r])
    BY <1>9 DEF Approve, Free
  <2>2. call' = [call EXCEPT ![w] = [op |-> "approve", pc |-> "lock", todo |-> Items(r), arg |-> [ret |-> r]]]
    BY <2>1 DEF Start
  <2>3. call'[w] = [op |-> "approve", pc |-> "lock", todo |-> Items(r), arg |-> [ret |-> r]]
    BY <1>1, <2>2
  <2>4. \A x \in Callers \ {w} : call'[x] = call[x]
    BY <1>1, <2>2
  <2> QED
    BY <2>1, <2>3, <2>4 DEF NewRevoking
<1>10. ASSUME NEW r \in Rets, Close(w, r)
       PROVE  Begun /\ NewClose(w)
  <2>1. /\ call[w] = Idle /\ ret[r].status = "requested" /\ rlock[r] = Nobody
        /\ \E s \in {"rejected", "cancelled"} : SetStatus(r, s)
        /\ StartAt(w, "issue", "blocking", [order |-> OrderOfReturn(r)])
    BY <1>10 DEF Close, Free, RetryGrants
  <2>2. call' = [call EXCEPT ![w] = [op |-> "issue", pc |-> "blocking", todo |-> {}, arg |-> [order |-> OrderOfReturn(r)]]]
    BY <2>1 DEF StartAt
  <2>3. call'[w] = [op |-> "issue", pc |-> "blocking", todo |-> {}, arg |-> [order |-> OrderOfReturn(r)]]
    BY <1>1, <2>2
  <2>4. \A x \in Callers \ {w} : call'[x] = call[x]
    BY <1>1, <2>2
  <2> QED
    BY <2>1, <2>3, <2>4 DEF NewClose
<1>11. ASSUME NEW r \in Rets, Receive(w, r)
       PROVE  Begun /\ NewReceive(w)
  <2>1. call[w] = Idle /\ ret' = ret /\ StartAt(w, "receive", "row", [ret |-> r])
    BY <1>11 DEF Receive, Free
  <2>2. call' = [call EXCEPT ![w] = [op |-> "receive", pc |-> "row", todo |-> {}, arg |-> [ret |-> r]]]
    BY <2>1 DEF StartAt
  <2>3. call'[w] = [op |-> "receive", pc |-> "row", todo |-> {}, arg |-> [ret |-> r]]
    BY <1>1, <2>2
  <2>4. \A x \in Callers \ {w} : call'[x] = call[x]
    BY <1>1, <2>2
  <2> QED
    BY <2>1, <2>3, <2>4 DEF NewReceive
<1>12. ASSUME NEW r \in Rets, Refund(w, r)
       PROVE  Begun /\ (NewRevoking(w) \/ (ret' = ret /\ call' = call))
  <2>1. /\ call[w] = Idle /\ ret' = ret
        /\ \/ call' = call
           \/ ret[r].status = "received" /\ Start(w, "refund", Items(r), [ret |-> r])
    BY <1>12 DEF Refund, Free
  <2>2. CASE call' = call
    BY <2>1, <2>2
  <2>3. CASE ret[r].status = "received" /\ Start(w, "refund", Items(r), [ret |-> r])
    <3>1. call' = [call EXCEPT ![w] = [op |-> "refund", pc |-> "lock", todo |-> Items(r), arg |-> [ret |-> r]]]
      BY <2>3 DEF Start
    <3>2. call'[w] = [op |-> "refund", pc |-> "lock", todo |-> Items(r), arg |-> [ret |-> r]]
      BY <1>1, <3>1
    <3>3. \A x \in Callers \ {w} : call'[x] = call[x]
      BY <1>1, <3>1
    <3> QED
      BY <2>1, <2>3, <3>2, <3>3 DEF NewRevoking
  <2> QED
    BY <2>1, <2>2, <2>3
<1>13. ASSUME NEW f \in Files, Prepare(w, f)
       PROVE  Begun /\ NewDownload(w)
  <2>1. call[w] = Idle /\ ret' = ret /\ StartAt(w, "deliver", "claim", [file |-> f])
    BY <1>13 DEF Prepare, Free
  <2>2. call' = [call EXCEPT ![w] = [op |-> "deliver", pc |-> "claim", todo |-> {}, arg |-> [file |-> f]]]
    BY <2>1 DEF StartAt
  <2>3. call'[w] = [op |-> "deliver", pc |-> "claim", todo |-> {}, arg |-> [file |-> f]]
    BY <1>1, <2>2
  <2>4. \A x \in Callers \ {w} : call'[x] = call[x]
    BY <1>1, <2>2
  <2> QED
    BY <2>1, <2>3, <2>4 DEF NewDownload
<1>14. ASSUME NEW f \in Files, RevokeGrant(w, f)
       PROVE  Begun /\ NewDownload(w)
  <2>1. call[w] = Idle /\ ret' = ret /\ StartAt(w, "revoke", "update", [seen |-> GrantsOf({f})])
    BY <1>14 DEF RevokeGrant, Free
  <2>2. call' = [call EXCEPT ![w] = [op |-> "revoke", pc |-> "update", todo |-> {}, arg |-> [seen |-> GrantsOf({f})]]]
    BY <2>1 DEF StartAt
  <2>3. call'[w] = [op |-> "revoke", pc |-> "update", todo |-> {}, arg |-> [seen |-> GrantsOf({f})]]
    BY <1>1, <2>2
  <2>4. \A x \in Callers \ {w} : call'[x] = call[x]
    BY <1>1, <2>2
  <2> QED
    BY <2>1, <2>3, <2>4 DEF NewDownload
<1> HIDE DEF Begun
<1>15. Begun /\ (NewCalls(w) \/ (ret' = ret /\ call' = call))
  BY <1>4, <1>5, <1>6, <1>7, <1>8, <1>9, <1>10, <1>11, <1>12, <1>13, <1>14 DEF Begin, NewCalls
<1> QED
  BY <1>15 DEF Begun

\* A new call has neither checked nor locked anything.
LEMMA NewCallNotAtWork ==
    ASSUME NEW w \in Callers, NewCalls(w)
    PROVE  call'[w].op \in {"issue", "deliver"} \/ call'[w].pc \notin {"write", "restock"}
<1>1. CASE NewAssign(w)
  BY <1>1 DEF NewAssign
<1>2. CASE NewPurchase(w)
  BY <1>2 DEF NewPurchase
<1>3. CASE NewRequest(w)
  BY <1>3 DEF NewRequest
<1>4. CASE NewRevoking(w)
  BY <1>4 DEF NewRevoking
<1>5. CASE NewReceive(w)
  BY <1>5 DEF NewReceive
<1>6. CASE NewAdminRefund(w)
  BY <1>6 DEF NewAdminRefund
<1>7. CASE NewDownload(w) \/ NewClose(w)
  BY <1>7 DEF NewDownload, NewClose
<1> QED
  BY <1>1, <1>2, <1>3, <1>4, <1>5, <1>6, <1>7 DEF NewCalls

\* The steps of a call that neither buy anything nor touch money go on with it or
\* end it, and ReadBlocking goes on to the insert.
QuietStep(w) ==
    \/ LockUnit(w) \/ BindCheck(w) \/ RequestCheck(w) \/ SaveReturn(w) \/ RevokeCheck(w)
    \/ ApproveUpdate(w) \/ ReadBlocking(w) \/ LockForRestock(w) \/ Restock(w) \/ RefundUpdate(w)
    \/ InsertGrants(w) \/ Claim(w) \/ RevokeWrite(w) \/ Die(w)

\* What such a step leaves of the call, and that nothing is bought by it.
LEMMA QuietStepEffect ==
    ASSUME TInv, NEW w \in Callers, QuietStep(w)
    PROVE  /\ bought' = bought
           /\ \A x \in Callers \ {w} : call'[x] = call[x]
           /\ \/ Continues(w) /\ call'[w].pc # "save"
              \/ call'[w].op \in {"idle", "issue"}
<1> USE DEF TInv, Continues
<1>1. CASE LockUnit(w)
  BY <1>1, LockUnitEffect DEF LockUnit
<1>2. CASE BindCheck(w)
  BY <1>2, GotoEffect, AnswerEffect DEF BindCheck, End
<1>3. CASE RequestCheck(w)
  BY <1>3, GotoEffect, AnswerEffect DEF RequestCheck, At, End
<1>4. CASE SaveReturn(w) \/ Restock(w) \/ InsertGrants(w) \/ Claim(w) \/ RevokeWrite(w) \/ Die(w) \/ ApproveUpdate(w)
  BY <1>4, AnswerEffect DEF SaveReturn, Restock, InsertGrants, Claim, RevokeWrite, Die, ApproveUpdate, End
<1>5. CASE RevokeCheck(w)
  <2>1. bought' = bought
    BY <1>5 DEF RevokeCheck
  <2> QED
    BY <1>5, <2>1, RevokeCheckEffect
<1>6. CASE ReadBlocking(w)
  BY <1>6 DEF ReadBlocking, Issue, StartAt, TypeOK
<1>7. CASE LockForRestock(w)
  BY <1>7, GotoEffect, AnswerEffect DEF LockForRestock, At
<1>8. CASE RefundUpdate(w)
  BY <1>8, GotoEffect, AnswerEffect DEF RefundUpdate, At
<1> QED
  BY <1>1, <1>2, <1>3, <1>4, <1>5, <1>6, <1>7, <1>8 DEF QuietStep

------------------------------------------------------------------------------
(* Money *)

\* The provider pays back no more than was paid, and every amount it knows a key
\* for is among what it has paid back; so the key of the whole payment is known
\* only when all of it is.  An order is created once: while nobody has bought a
\* line of it, it has no payment to refund, and no administrator refunds it.
ProviderBooks ==
    \A o \in Orders : /\ provider[o].refunded <= Paid(o)
                      /\ \A n \in provider[o].keys : n <= provider[o].refunded
                      /\ OrderLines(o) = {} => pay[o] # "refunded"
Buys(w) == OrderOf[Arg(w).child]
AdminCallOK(w) ==
    call[w].op = "adminRefund" =>
        /\ OrderLines(Arg(w).order) # {}
        /\ call[w].pc = "save" => provider[Arg(w).order].refunded = Paid(Arg(w).order)
PurchaseOK(w) ==
    call[w].op = "purchase" =>
        /\ OrderLines(Buys(w)) = {}
        /\ \A x \in Callers : x # w /\ call[x].op = "purchase" => Buys(x) # Buys(w)
AssignOK(w) == call[w].op = "assign" => Arg(w).child \in bought

\* The inductive invariant of the money.
MInv ==
    /\ ProviderBooks
    /\ RefundedPaymentIsPaidBack
    /\ \A w \in Callers : AdminCallOK(w) /\ PurchaseOK(w) /\ AssignOK(w)

\* What was paid for an order depends on its lines only.
LEMMA PaidSame ==
    ASSUME NEW o, OrderLines(o)' = OrderLines(o)
    PROVE  Paid(o)' = Paid(o)
<1>1. [u \in OrderLines(o)' |-> Ordered[u] * Price[u]] = [u \in OrderLines(o) |-> Ordered[u] * Price[u]]
  OBVIOUS
<1> QED
  BY <1>1 DEF Paid

\* A step that buys nothing and moves no money keeps MInv when the call that takes
\* it does.
LEMMA MCall ==
    ASSUME TInv, MInv, NEW w \in Callers, UNCHANGED <<bought, pay, provider>>,
           \A x \in Callers \ {w} : call'[x] = call[x],
           \/ Continues(w) /\ call'[w].pc # "save"
           \/ AdminCallOK(w)' /\ PurchaseOK(w)' /\ AssignOK(w)'
    PROVE  MInv'
<1>1. \A o : OrderLines(o)' = OrderLines(o)
  BY DEF OrderLines
<1>2. \A o : Paid(o)' = Paid(o)
  BY <1>1, PaidSame
<1>3. ProviderBooks' /\ RefundedPaymentIsPaidBack'
  BY <1>1, <1>2 DEF MInv, ProviderBooks, RefundedPaymentIsPaidBack
<1>4. ASSUME NEW x \in Callers PROVE AdminCallOK(x)'
  <2>1. CASE x = w /\ ~Continues(w)
    BY <2>1
  <2>2. CASE x # w \/ (Continues(w) /\ call'[w].pc # "save")
    BY <1>1, <1>2, <2>2 DEF MInv, AdminCallOK, Arg, Continues
  <2> QED
    BY <2>1, <2>2
<1>5. ASSUME NEW x \in Callers PROVE AssignOK(x)'
  BY DEF MInv, AssignOK, Arg, Continues
<1>6. ASSUME NEW x \in Callers PROVE PurchaseOK(x)'
  <2>1. CASE Continues(w)
    BY <1>1, <2>1 DEF MInv, PurchaseOK, Arg, Buys, Continues
  <2>2. CASE ~Continues(w) /\ x = w
    BY <2>2
  <2>3. CASE ~Continues(w) /\ x # w
    <3>1. PurchaseOK(w)' /\ PurchaseOK(x)
      BY <2>3 DEF MInv
    <3> QED
      BY <1>1, <2>3, <3>1 DEF PurchaseOK, Arg, Buys
  <2> QED
    BY <2>1, <2>2, <2>3
<1> QED
  BY <1>3, <1>4, <1>5, <1>6 DEF MInv

\* Calls of other kinds need nothing.
LEMMA MCallOther ==
    ASSUME NEW w \in Callers, call'[w].op \notin {"adminRefund", "purchase", "assign"}
    PROVE  AdminCallOK(w)' /\ PurchaseOK(w)' /\ AssignOK(w)'
BY DEF AdminCallOK, PurchaseOK, AssignOK

\* Every beginning of a call keeps MInv.
LEMMA MBegin ==
    ASSUME TInv, MInv, NEW w \in Callers, Begin(w)
    PROVE  MInv'
<1>0. UNCHANGED <<bought, pay, provider>>
  BY BeginFrame
<1>1. /\ call[w] = Idle
      /\ \A x \in Callers \ {w} : call'[x] = call[x]
      /\ NewCalls(w) \/ (ret' = ret /\ call' = call)
  BY BeginCases
<1>2. CASE ret' = ret /\ call' = call
  <2>1. call'[w].op = "idle"
    BY <1>1, <1>2 DEF Idle
  <2> QED
    BY <1>0, <1>1, <2>1, MCallOther, MCall
<1>3. CASE NewAssign(w)
  <2>1. AdminCallOK(w)' /\ PurchaseOK(w)' /\ AssignOK(w)'
    BY <1>0, <1>3 DEF NewAssign, AdminCallOK, PurchaseOK, AssignOK, Arg
  <2> QED
    BY <1>0, <1>1, <2>1, MCall
<1>4. CASE NewPurchase(w)
  <2>1. PICK t \in Tickets, c \in Cards :
          /\ NotOrdered(t)
          /\ call'[w] = [op |-> "purchase", pc |-> "lock", todo |-> {t, c}, arg |-> [child |-> t, parent |-> c, row |-> 0]]
    BY <1>4 DEF NewPurchase
  <2>2. call'[w].op = "purchase" /\ call'[w].arg.child = t
    BY <2>1
  <2>3. AdminCallOK(w)' /\ AssignOK(w)'
    BY <2>2 DEF AdminCallOK, AssignOK
  <2>4. OrderLines(Buys(w))' = {}
    BY <1>0, <2>1, <2>2 DEF NotOrdered, OrderLines, Buys, Arg
  <2>5. ASSUME NEW x \in Callers, x # w, call'[x].op = "purchase" PROVE Buys(x)' # Buys(w)'
    BY <1>1, <2>1, <2>2, <2>5 DEF NotOrdered, Buys, Arg
  <2>6. PurchaseOK(w)'
    BY <2>4, <2>5 DEF PurchaseOK
  <2> QED
    BY <1>0, <1>1, <2>3, <2>6, MCall
<1>5. CASE NewAdminRefund(w)
  <2>1. PICK o \in Orders :
          /\ OrderLines(o) # {}
          /\ call'[w] = [op |-> "adminRefund", pc |-> "provider", todo |-> {}, arg |-> [order |-> o]]
    BY <1>5 DEF NewAdminRefund
  <2>2. call'[w].op = "adminRefund" /\ call'[w].arg.order = o /\ call'[w].pc # "save"
    BY <2>1
  <2>3. OrderLines(o)' = OrderLines(o)
    BY <1>0 DEF OrderLines
  <2>4. AdminCallOK(w)' /\ PurchaseOK(w)' /\ AssignOK(w)'
    BY <2>1, <2>2, <2>3 DEF AdminCallOK, PurchaseOK, AssignOK, Arg
  <2> QED
    BY <1>0, <1>1, <2>4, MCall
<1>6. CASE NewRequest(w) \/ NewRevoking(w) \/ NewReceive(w) \/ NewDownload(w) \/ NewClose(w)
  <2>1. call'[w].op \notin {"adminRefund", "purchase", "assign"}
    <3>1. CASE NewRequest(w)
      BY <3>1 DEF NewRequest
    <3>2. CASE NewRevoking(w)
      BY <3>2 DEF NewRevoking
    <3>3. CASE NewReceive(w)
      BY <3>3 DEF NewReceive
    <3>4. CASE NewDownload(w) \/ NewClose(w)
      BY <3>4 DEF NewDownload, NewClose
    <3> QED
      BY <1>6, <3>1, <3>2, <3>3, <3>4
  <2> QED
    BY <1>0, <1>1, <2>1, MCallOther, MCall
<1> QED
  BY <1>1, <1>2, <1>3, <1>4, <1>5, <1>6 DEF NewCalls

\* Every quiet step that moves no money keeps it.
LEMMA MQuiet ==
    ASSUME TInv, MInv, NEW w \in Callers, QuietStep(w), UNCHANGED <<pay, provider>>
    PROVE  MInv'
BY QuietStepEffect, MCallOther, MCall

\* A line of an order nobody has bought a line of before.
LEMMA MBuy ==
    ASSUME TInv, MInv, NEW t \in Tickets, OrderLines(OrderOf[t]) = {}, bought' = bought \cup {t},
           UNCHANGED <<pay, provider>>,
           \A x \in Callers : call'[x] = call[x] \/ call'[x].op = "idle",
           \A x \in Callers : call'[x].op = "purchase" => Buys(x) # OrderOf[t]
    PROVE  MInv'
<1> DEFINE o == OrderOf[t]
<1>1. /\ \A p : p # o => OrderLines(p)' = OrderLines(p)
      /\ OrderLines(o)' = {t}
  BY DEF OrderLines
<1>2. \A p : p # o => Paid(p)' = Paid(p)
  BY <1>1, PaidSame
<1>3. o \in Orders /\ Paid(o) \in Nat /\ provider[o].refunded \in Nat /\ pay[o] # "refunded"
  BY MoneyTypes DEF Orders, Units, TInv, TypeOK, MInv, ProviderBooks
<1>4. Paid(o) = 0
  <2>1. [u \in OrderLines(o) |-> Ordered[u] * Price[u]] = [u \in {} |-> Ordered[u] * Price[u]]
    OBVIOUS
  <2>2. DOMAIN [u \in {} |-> Ordered[u] * Price[u]] = {}
    OBVIOUS
  <2> QED
    BY <2>1, <2>2, SumEmpty DEF Paid, SumFunction
<1>5. Paid(o)' \in Nat
  <2>1. IsFiniteSet({t}) /\ Ordered[t] * Price[t] \in Nat
    <3>1. t \in Units
      BY DEF Units
    <3>2. Ordered[t] \in Nat /\ Price[t] \in Nat
      BY <3>1, UnitAssumption, PriceAssumption
    <3>3. Ordered[t] * Price[t] \in Nat
      BY <3>2
    <3>4. IsFiniteSet({t})
      BY FS_Singleton
    <3> QED
      BY <3>3, <3>4
  <2>2. [u \in OrderLines(o)' |-> Ordered[u] * Price[u]] = [u \in {t} |-> Ordered[u] * Price[u]]
    BY <1>1
  <2> DEFINE f == [u \in {t} |-> Ordered[u] * Price[u]]
  <2>3. SumFunctionOnSet(f, {t}) \in Nat
    BY <2>1, SumNat
  <2>4. Paid(o)' = SumFunction(f)
    BY <2>2 DEF Paid
  <2> QED
    BY <2>3, <2>4 DEF SumFunction
<1> HIDE DEF o
<1>6. ProviderBooks'
  <2>1. ASSUME NEW p \in Orders
        PROVE  /\ provider[p].refunded <= Paid(p)'
               /\ \A n \in provider[p].keys : n <= provider[p].refunded
               /\ OrderLines(p)' = {} => pay[p] # "refunded"
    <3>1. CASE p = o
      BY <1>1, <1>3, <1>4, <1>5, <3>1 DEF MInv, ProviderBooks
    <3>2. CASE p # o
      BY <1>1, <1>2, <3>2 DEF MInv, ProviderBooks
    <3> QED
      BY <3>1, <3>2
  <2> QED
    BY <2>1 DEF ProviderBooks
<1>7. RefundedPaymentIsPaidBack'
  BY <1>2, <1>3 DEF MInv, RefundedPaymentIsPaidBack
<1>8. ASSUME NEW x \in Callers, call'[x] = call[x]
      PROVE  AdminCallOK(x)' /\ PurchaseOK(x)' /\ AssignOK(x)'
  <2>1. AdminCallOK(x) /\ PurchaseOK(x) /\ AssignOK(x)
    BY DEF MInv
  <2>2. AssignOK(x)'
    BY <1>8, <2>1 DEF AssignOK, Arg
  <2>3. PurchaseOK(x)'
    <3>1. ASSUME call[x].op = "purchase" PROVE OrderLines(Buys(x))' = {} /\ Buys(x)' = Buys(x)
      BY <1>1, <1>8, <2>1, <3>1 DEF PurchaseOK, Buys, Arg, o
    <3>2. \A y \in Callers : call'[y].op = "purchase" => call'[y] = call[y]
      OBVIOUS
    <3> QED
      BY <1>8, <2>1, <3>1, <3>2 DEF PurchaseOK, Buys, Arg
  <2>4. AdminCallOK(x)'
    <3>1. ASSUME call[x].op = "adminRefund" PROVE Arg(x).order # o
      BY <2>1, <3>1 DEF AdminCallOK, o
    <3> QED
      BY <1>1, <1>2, <1>8, <2>1, <3>1 DEF AdminCallOK, Arg
  <2> QED
    BY <2>2, <2>3, <2>4
<1>9. \A x \in Callers : AdminCallOK(x)' /\ PurchaseOK(x)' /\ AssignOK(x)'
  BY <1>8, MCallOther
<1> QED
  BY <1>6, <1>7, <1>9 DEF MInv

\* The provider's answer keeps its books, and a payment of all that was paid
\* leaves nothing more to pay back.
LEMMA PaysBackBooks ==
    ASSUME TInv, MInv, NEW o \in Orders, NEW n \in Nat, Accepts(o, n), PaysBack(o, n)
    PROVE  /\ \A p \in Orders : /\ provider[p].refunded <= provider'[p].refunded
                                /\ provider'[p].refunded <= Paid(p)
                                /\ \A k \in provider'[p].keys : k <= provider'[p].refunded
           /\ n = Paid(o) => provider'[o].refunded = Paid(o)
<1>1. \A p \in Orders : /\ Paid(p) \in Nat /\ provider[p].refunded \in Nat /\ provider[p].keys \in SUBSET Nat
                        /\ provider[p].refunded <= Paid(p)
                        /\ \A k \in provider[p].keys : k <= provider[p].refunded
  BY MoneyTypes DEF TInv, TypeOK, MInv, ProviderBooks
<1>2. CASE Replays(o, n)
  <2>1. provider' = provider /\ n \in provider[o].keys
    BY <1>2 DEF PaysBack, Replays
  <2> QED
    BY <1>1, <2>1
<1>3. CASE ~Replays(o, n)
  <2> DEFINE v == [refunded |-> provider[o].refunded + n, keys |-> provider[o].keys \cup {n}]
  <2>1. provider' = [provider EXCEPT ![o] = v] /\ provider[o].refunded + n <= Paid(o)
    BY <1>3 DEF PaysBack, Accepts
  <2>2. \A p \in Orders : provider'[p] = IF p = o THEN v ELSE provider[p]
    BY <2>1 DEF TInv, TypeOK
  <2>3. /\ provider'[o].refunded = provider[o].refunded + n /\ provider'[o].keys = provider[o].keys \cup {n}
        /\ \A p \in Orders : p # o => provider'[p] = provider[p]
    BY <2>2
  <2> HIDE DEF v
  <2>4. ASSUME NEW p \in Orders
        PROVE  /\ provider[p].refunded <= provider'[p].refunded
               /\ provider'[p].refunded <= Paid(p)
               /\ \A k \in provider'[p].keys : k <= provider'[p].refunded
    <3>1. CASE p = o
      BY <1>1, <2>1, <2>3, <3>1
    <3>2. CASE p # o
      BY <1>1, <2>3, <3>2
    <3> QED
      BY <3>1, <3>2
  <2> QED
    BY <1>1, <2>1, <2>3, <2>4
<1> QED
  BY <1>2, <1>3

\* A step that asks the provider.
LEMMA MAsk ==
    ASSUME TInv, MInv, NEW w \in Callers, NEW o \in Orders, NEW n \in Nat, UNCHANGED <<bought, pay>>,
           provider' = provider \/ (Accepts(o, n) /\ PaysBack(o, n)),
           \A x \in Callers \ {w} : call'[x] = call[x],
           AdminCallOK(w)', call'[w].op \notin {"purchase", "assign"}
    PROVE  MInv'
<1>1. \A p : OrderLines(p)' = OrderLines(p)
  BY DEF OrderLines
<1>2. \A p : Paid(p)' = Paid(p)
  BY <1>1, PaidSame
<1>3. \A p \in Orders : Paid(p) \in Nat /\ provider[p].refunded \in Nat
  BY MoneyTypes DEF TInv, TypeOK
<1>4. \A p \in Orders : /\ provider[p].refunded <= provider'[p].refunded
                        /\ provider'[p].refunded <= Paid(p)
                        /\ \A k \in provider'[p].keys : k <= provider'[p].refunded
  BY <1>3, PaysBackBooks DEF MInv, ProviderBooks
<1>5. ProviderBooks'
  BY <1>1, <1>2, <1>4 DEF MInv, ProviderBooks
<1>6. provider' \in [Orders -> [refunded : Nat, keys : SUBSET Nat]]
  BY PaysBackType DEF TInv, TypeOK
<1>7. ASSUME NEW p \in Orders, provider[p].refunded = Paid(p) PROVE provider'[p].refunded = Paid(p)'
  BY <1>2, <1>3, <1>4, <1>6, <1>7
<1>8. RefundedPaymentIsPaidBack'
  BY <1>7 DEF MInv, RefundedPaymentIsPaidBack
<1>9. ASSUME NEW x \in Callers, x # w PROVE AdminCallOK(x)'
  <2>1. call[x].op = "adminRefund" => Arg(x).order \in Orders
    BY CallShape DEF TInv, AdminCalls, Arg
  <2> QED
    BY <1>1, <1>7, <1>9, <2>1 DEF MInv, AdminCallOK, Arg
<1>10. ASSUME NEW x \in Callers PROVE AssignOK(x)' /\ PurchaseOK(x)'
  BY <1>1 DEF MInv, AssignOK, PurchaseOK, Arg, Buys
<1> QED
  BY <1>5, <1>8, <1>9, <1>10 DEF MInv

\* Every step of a call keeps it.
LEMMA MStep ==
    ASSUME TInv, MInv, NEW w \in Callers, Step(w)
    PROVE  MInv'
<1> USE DEF downloads, money, locks
<1>1. CASE QuietStep(w) /\ UNCHANGED <<pay, provider>>
  BY <1>1, MQuiet
<1>2. CASE BindWrite(w) /\ UNCHANGED <<downloads, money>>
  <2> DEFINE t == Arg(w).child
  <2>1. call[w] \in BindCalls
    BY <1>2, CallShape DEF BindWrite, TInv
  <2>2. t \in Tickets /\ call[w].op \in {"assign", "purchase"}
    BY <2>1 DEF BindCalls, BindOps, Arg
  <2>3. call'[w].op = "idle" /\ \A x \in Callers \ {w} : call'[x] = call[x]
    BY <1>2, AnswerEffect DEF BindWrite, End, TInv
  <2>4. bought' = bought \cup {t} /\ UNCHANGED <<pay, provider>>
    BY <1>2 DEF BindWrite
  <2>5. CASE call[w].op = "assign"
    <3>1. bought' = bought
      BY <2>4, <2>5 DEF MInv, AssignOK
    <3> QED
      BY <2>3, <2>4, <3>1, MCallOther, MCall
  <2>6. CASE call[w].op = "purchase"
    <3>1. PurchaseOK(w)
      BY DEF MInv
    <3>2. OrderLines(OrderOf[t]) = {}
      BY <2>6, <3>1 DEF PurchaseOK, Buys
    <3>3. \A x \in Callers : call'[x].op = "purchase" => Buys(x) # OrderOf[t]
      BY <2>3, <2>6, <3>1 DEF PurchaseOK, Buys, Arg
    <3> QED
      BY <2>2, <2>3, <2>4, <3>2, <3>3, MBuy
  <2> QED
    BY <2>2, <2>5, <2>6
<1>3. CASE RefundProvider(w)
  <2> DEFINE r == Arg(w).ret
             o == OrderOfReturn(r)
             n == Amount(ret[r].items)
  <2>1. call[w] \in RefundCalls
    BY <1>3, CallShape DEF RefundProvider, At, TInv
  <2>2. r \in Rets
    BY <2>1 DEF RefundCalls, RevokingArgs, Arg
  <2>3. ret[r].status # "absent"
    BY <1>3 DEF RefundProvider, At, ReturnsOfUnits, OnReturn, TInv
  <2>4. o \in Orders /\ n \in Nat
    BY <2>2, <2>3, OrderOfReturnType, MoneyTypes DEF TInv, TypeOK
  <2>5. /\ provider' = provider \/ (Accepts(o, n) /\ PaysBack(o, n))
        /\ UNCHANGED <<bought, pay>>
    BY <1>3 DEF RefundProvider, AskProvider
  <2>6. call'[w].op = "idle" /\ \A x \in Callers \ {w} : call'[x] = call[x]
    BY <1>3, AnswerEffect DEF RefundProvider, TInv
  <2> HIDE DEF o, n
  <2> QED
    BY <2>4, <2>5, <2>6, MCallOther, MAsk
<1>4. CASE AdminProvider(w)
  <2>1. call[w] \in AdminCalls /\ call[w].op = "adminRefund"
    BY <1>4, CallShape DEF AdminProvider, At, TInv
  <2>2. PICK o \in Orders : o = Arg(w).order
    BY <2>1 DEF AdminCalls, Arg
  <2> DEFINE n == Paid(o)
  <2>3. n \in Nat
    BY <2>2, MoneyTypes DEF TInv
  <2>4. /\ \/ Accepts(o, n) /\ PaysBack(o, n) /\ Goto(w, "save")
           \/ Answer(w) /\ (provider' = provider \/ (Accepts(o, n) /\ PaysBack(o, n)))
        /\ UNCHANGED <<bought, pay>>
    BY <1>4, <2>2 DEF AdminProvider, AskProvider
  <2>5. CASE Accepts(o, n) /\ PaysBack(o, n) /\ Goto(w, "save")
    <3>1. /\ call'[w].op = "adminRefund" /\ call'[w].arg = call[w].arg
          /\ \A x \in Callers \ {w} : call'[x] = call[x]
      BY <2>1, <2>5, GotoEffect DEF TInv
    <3>2. OrderLines(o)' = OrderLines(o)
      BY <2>4 DEF OrderLines
    <3>3. Paid(o)' = Paid(o)
      BY <3>2, PaidSame
    <3>4. provider'[o].refunded = Paid(o)
      BY <2>2, <2>3, <2>5, PaysBackBooks
    <3>5. OrderLines(o) # {}
      BY <2>1, <2>2 DEF MInv, AdminCallOK
    <3>6. AdminCallOK(w)'
      BY <2>2, <3>1, <3>2, <3>3, <3>4, <3>5 DEF AdminCallOK, Arg
    <3> HIDE DEF n
    <3> QED
      BY <2>2, <2>3, <2>4, <2>5, <3>1, <3>6, MAsk
  <2>6. CASE Answer(w) /\ (provider' = provider \/ (Accepts(o, n) /\ PaysBack(o, n)))
    <3>1. call'[w].op = "idle" /\ \A x \in Callers \ {w} : call'[x] = call[x]
      BY <2>6, AnswerEffect DEF TInv
    <3> HIDE DEF n
    <3> QED
      BY <2>2, <2>3, <2>4, <2>6, <3>1, MCallOther, MAsk
  <2> QED
    BY <2>4, <2>5, <2>6
<1>5. CASE AdminSave(w)
  <2> DEFINE o == Arg(w).order
  <2>1. call[w] \in AdminCalls /\ call[w].op = "adminRefund" /\ call[w].pc = "save"
    BY <1>5, CallShape DEF AdminSave, At, TInv
  <2>2. o \in Orders
    BY <2>1 DEF AdminCalls, Arg
  <2>3. OrderLines(o) # {} /\ provider[o].refunded = Paid(o)
    BY <2>1 DEF MInv, AdminCallOK
  <2>4. call'[w].op = "idle" /\ \A x \in Callers \ {w} : call'[x] = call[x]
    BY <1>5, AnswerEffect DEF AdminSave, TInv
  <2>5. UNCHANGED <<bought, provider>> /\ pay' = [pay EXCEPT ![o] = "refunded"]
    BY <1>5 DEF AdminSave
  <2>6. \A p : OrderLines(p)' = OrderLines(p) /\ Paid(p)' = Paid(p)
    BY <2>5, PaidSame DEF OrderLines
  <2> HIDE DEF o
  <2>7. \A p \in Orders : p # o => pay'[p] = pay[p]
    BY <2>5 DEF TInv, TypeOK
  <2>8. ProviderBooks'
    BY <2>3, <2>5, <2>6, <2>7 DEF MInv, ProviderBooks
  <2>9. RefundedPaymentIsPaidBack'
    BY <2>3, <2>5, <2>6, <2>7 DEF MInv, RefundedPaymentIsPaidBack
  <2>10. ASSUME NEW x \in Callers, x # w
         PROVE  AdminCallOK(x)' /\ PurchaseOK(x)' /\ AssignOK(x)'
    <3>1. AdminCallOK(x) /\ PurchaseOK(x) /\ AssignOK(x) /\ call'[x] = call[x]
      BY <2>4, <2>10 DEF MInv
    <3>2. AdminCallOK(x)' /\ AssignOK(x)'
      BY <2>5, <2>6, <3>1 DEF AdminCallOK, AssignOK, Arg
    <3>3. PurchaseOK(x)'
      BY <2>4, <2>6, <3>1 DEF PurchaseOK, Arg, Buys
    <3> QED
      BY <3>2, <3>3
  <2>11. AdminCallOK(w)' /\ PurchaseOK(w)' /\ AssignOK(w)'
    BY <2>4, MCallOther
  <2> QED
    BY <2>8, <2>9, <2>10, <2>11 DEF MInv
<1>6. \/ QuietStep(w) /\ UNCHANGED <<pay, provider>>
      \/ BindWrite(w) /\ UNCHANGED <<downloads, money>>
      \/ RefundProvider(w) \/ AdminProvider(w) \/ AdminSave(w)
  BY DEF Step, QuietStep, RequestCheck, SaveReturn, RevokeCheck, ApproveUpdate, ReadBlocking, LockForRestock, Restock, RefundUpdate
<1> QED
  BY <1>1, <1>2, <1>3, <1>4, <1>5, <1>6

\* What happens around the calls keeps it.
LEMMA MAround ==
    ASSUME TInv, MInv, Around
    PROVE  MInv'
<1> USE DEF downloads, money, locks
<1>1. ASSUME NEW w \in Callers, Die(w) /\ UNCHANGED <<downloads, money>> PROVE MInv'
  BY <1>1, MQuiet DEF QuietStep
<1>2. ASSUME NEW t \in Tickets, PurchaseDeferred(t) /\ UNCHANGED <<downloads, money>> PROVE MInv'
  <2>1. bought' = bought \cup {t} /\ UNCHANGED <<pay, provider, call>> /\ NotOrdered(t)
    BY <1>2 DEF PurchaseDeferred
  <2>2. OrderLines(OrderOf[t]) = {} /\ \A x \in Callers : call'[x].op = "purchase" => Buys(x) # OrderOf[t]
    BY <2>1 DEF NotOrdered, OrderLines, Buys
  <2> QED
    BY <2>1, <2>2, MBuy
<1>3. ASSUME UNCHANGED <<bought, call, provider>>,
             pay' \in [Orders -> {"pending", "failed", "completed", "refunded"}],
             \A o \in Orders : pay'[o] = "refunded" => pay[o] = "refunded" \/ FullRefund(o)
      PROVE  MInv'
  <2>1. \A p : OrderLines(p)' = OrderLines(p) /\ Paid(p)' = Paid(p)
    BY <1>3, PaidSame DEF OrderLines
  <2>2. ProviderBooks'
    BY <1>3, <2>1 DEF MInv, ProviderBooks, FullRefund
  <2>3. RefundedPaymentIsPaidBack'
    BY <1>3, <2>1 DEF MInv, RefundedPaymentIsPaidBack, FullRefund
  <2>4. ASSUME NEW x \in Callers
        PROVE  AdminCallOK(x)' /\ PurchaseOK(x)' /\ AssignOK(x)'
    <3>1. AdminCallOK(x) /\ PurchaseOK(x) /\ AssignOK(x)
      BY DEF MInv
    <3>2. AdminCallOK(x)' /\ AssignOK(x)'
      BY <1>3, <2>1, <3>1 DEF AdminCallOK, AssignOK, Arg
    <3>3. PurchaseOK(x)'
      BY <1>3, <2>1, <3>1 DEF PurchaseOK, Arg, Buys
    <3> QED
      BY <3>2, <3>3
  <2> QED
    BY <2>2, <2>3, <2>4 DEF MInv
<1>4. ASSUME UNCHANGED <<bought, call, provider, pay>> PROVE MInv'
  BY <1>3, <1>4 DEF TInv, TypeOK
<1>5. ASSUME NEW t \in Tickets, AdminRevoke(t) /\ UNCHANGED <<downloads, money>> PROVE MInv'
  BY <1>4, <1>5 DEF AdminRevoke
<1>6. ASSUME NEW f \in Files, (Expire(f) \/ Reissue(f)) /\ UNCHANGED money PROVE MInv'
  BY <1>4, <1>6 DEF Expire, Reissue
<1>7. ASSUME NEW o \in Orders, ChargeRefunded(o) PROVE MInv'
  <2>1. UNCHANGED <<bought, call, provider>> /\ FullRefund(o) /\ pay' = [pay EXCEPT ![o] = "refunded"]
    BY <1>7 DEF ChargeRefunded
  <2> QED
    BY <1>3, <2>1 DEF TInv, TypeOK
<1>8. ASSUME NEW o \in Orders, PaymentEnds(o) PROVE MInv'
  <2>1. UNCHANGED <<bought, call, provider>> /\ \E s \in {"completed", "failed"} : pay' = [pay EXCEPT ![o] = s]
    BY <1>8 DEF PaymentEnds
  <2> QED
    BY <1>3, <2>1 DEF TInv, TypeOK
<1>9. ASSUME NEW o \in Orders, RevokeForOrder(o) PROVE MInv'
  BY <1>4, <1>9 DEF RevokeForOrder
<1> QED
  BY <1>1, <1>2, <1>5, <1>6, <1>7, <1>8, <1>9 DEF Around

\* MInv holds at first.
LEMMA InitMInv == Init => MInv
<1> SUFFICES ASSUME Init PROVE MInv
  OBVIOUS
<1>1. TypeOK
  BY InitTInv DEF TInv
<1>2. \A o \in Orders : Paid(o) \in Nat
  BY <1>1, MoneyTypes
<1>3. \A o \in Orders : provider[o].refunded = 0 /\ provider[o].keys = {} /\ pay[o] # "refunded"
  BY DEF Init
<1>4. \A w \in Callers : call[w].op = "idle"
  BY DEF Init, Idle
<1>5. ProviderBooks /\ RefundedPaymentIsPaidBack
  BY <1>2, <1>3 DEF ProviderBooks, RefundedPaymentIsPaidBack
<1> QED
  BY <1>4, <1>5 DEF MInv, AdminCallOK, PurchaseOK, AssignOK

\* Every step keeps it.
LEMMA StepMInv == TInv /\ MInv /\ [Next]_vars => MInv'
<1> SUFFICES ASSUME TInv, MInv, [Next]_vars PROVE MInv'
  OBVIOUS
<1>1. CASE Next
  BY <1>1, NextCases, MBegin, MStep, MAround
<1>2. CASE UNCHANGED vars
  <2>1. \A p : OrderLines(p)' = OrderLines(p) /\ Paid(p)' = Paid(p)
    BY <1>2, PaidSame DEF OrderLines, vars
  <2>2. UNCHANGED <<bought, call, provider, pay>>
    BY <1>2 DEF vars
  <2>3. ProviderBooks' /\ RefundedPaymentIsPaidBack'
    BY <2>1, <2>2 DEF MInv, ProviderBooks, RefundedPaymentIsPaidBack
  <2>4. \A x \in Callers : AdminCallOK(x)' /\ PurchaseOK(x)' /\ AssignOK(x)'
    BY <2>1, <2>2 DEF MInv, AdminCallOK, PurchaseOK, AssignOK, Arg, Buys
  <2> QED
    BY <2>3, <2>4 DEF MInv
<1> QED
  BY <1>1, <1>2

\* THEOREM Refunded payments: a payment is marked refunded, by an administrator or
\* by charge.refunded, only once the provider has paid back all of it, whatever
\* part-refunds, replayed idempotency keys and lost answers came before.
THEOREM RefundedCorrect == Spec => []RefundedPaymentIsPaidBack
<1>1. MInv => RefundedPaymentIsPaidBack
  BY DEF MInv
<1> QED
  BY <1>1, InitTInv, StepTInv, InitMInv, StepMInv, PTL DEF Spec

------------------------------------------------------------------------------
(* Unit locks *)

\* The units a bind or a request locks.
Wants(w) == IF call[w].op = "request" THEN DOMAIN Arg(w).items ELSE {Arg(w).child, Arg(w).parent}
Locking == BindOps \cup {"request"}

\* It holds the lock of every unit it has come to, and has come to all of them
\* when it goes on.
HoldsLocks(w) ==
    call[w].op \in Locking =>
        /\ call[w].pc # "lock" => call[w].todo = {}
        /\ \A u \in Wants(w) \ call[w].todo : ulock[u] = w

\* The invariant of the unit locks.
LInv == \A w \in Callers : HoldsLocks(w)

\* A step of one call leaves the locks of the others.
LEMMA LCall ==
    ASSUME LInv, NEW w \in Callers,
           \A x \in Callers \ {w} : call'[x] = call[x] /\ \A u \in Units : ulock[u] = x => ulock'[u] = x,
           TInv, HoldsLocks(w)'
    PROVE  LInv'
<1> SUFFICES ASSUME NEW x \in Callers, x # w, call'[x].op \in Locking
             PROVE  /\ call'[x].pc # "lock" => call'[x].todo = {}
                    /\ \A u \in Wants(x)' \ call'[x].todo : ulock'[u] = x
  BY DEF LInv, HoldsLocks
<1>1. call'[x] = call[x] /\ HoldsLocks(x)
  BY DEF LInv
<1>2. Wants(x)' = Wants(x)
  BY <1>1 DEF Wants, Arg
<1>3. Wants(x) \subseteq Units
  <2>1. call[x] \in BindCalls \cup RequestCalls
    BY <1>1, CallShape DEF TInv, Locking
  <2>2. CASE call[x] \in BindCalls
    BY <2>2 DEF BindCalls, BindOps, Wants, Arg, Units
  <2>3. CASE call[x] \in RequestCalls
    BY <2>3, ItemListsType DEF RequestCalls, Wants, Arg
  <2> QED
    BY <2>1, <2>2, <2>3
<1> QED
  BY <1>1, <1>2, <1>3 DEF HoldsLocks

\* A call of another kind needs no unit lock.
LEMMA LOther ==
    ASSUME NEW w \in Callers, call'[w].op \notin Locking
    PROVE  HoldsLocks(w)'
BY DEF HoldsLocks

\* Every beginning of a call keeps LInv: it has locked nothing yet.
LEMMA LBegin ==
    ASSUME TInv, LInv, NEW w \in Callers, Begin(w)
    PROVE  LInv'
<1>1. /\ call[w] = Idle
      /\ \A x \in Callers \ {w} : call'[x] = call[x]
      /\ NewCalls(w) \/ (ret' = ret /\ call' = call)
  BY BeginCases
<1>2. ulock' = ulock
  BY BeginFrame
<1>3. HoldsLocks(w)'
  <2>1. CASE ret' = ret /\ call' = call
    BY <1>1, <2>1 DEF HoldsLocks, Idle, Locking, BindOps
  <2>2. CASE NewAssign(w)
    BY <2>2 DEF NewAssign, HoldsLocks, Wants, Arg
  <2>3. CASE NewPurchase(w)
    BY <2>3 DEF NewPurchase, HoldsLocks, Wants, Arg
  <2>4. CASE NewRequest(w)
    BY <2>4 DEF NewRequest, HoldsLocks, Wants, Arg
  <2>5. CASE NewRevoking(w) \/ NewReceive(w) \/ NewAdminRefund(w) \/ NewDownload(w) \/ NewClose(w)
    <3>1. CASE NewRevoking(w)
      BY <3>1 DEF NewRevoking, HoldsLocks, Locking, BindOps
    <3>2. CASE NewReceive(w)
      BY <3>2 DEF NewReceive, HoldsLocks, Locking, BindOps
    <3>3. CASE NewAdminRefund(w)
      BY <3>3 DEF NewAdminRefund, HoldsLocks, Locking, BindOps
    <3>4. CASE NewDownload(w) \/ NewClose(w)
      BY <3>4 DEF NewDownload, NewClose, HoldsLocks, Locking, BindOps
    <3> QED
      BY <2>5, <3>1, <3>2, <3>3, <3>4
  <2> QED
    BY <1>1, <2>1, <2>2, <2>3, <2>4, <2>5 DEF NewCalls
<1> QED
  BY <1>1, <1>2, <1>3, LCall

\* Every step of a call keeps it: it locks what it wants, and unlocks when it ends.
LEMMA LStep ==
    ASSUME TInv, LInv, NEW w \in Callers, Step(w)
    PROVE  LInv'
<1> USE DEF TInv
<1>1. CASE LockUnit(w)
  <2>1. PICK u \in call[w].todo :
              /\ u \in Units /\ ulock[u] = Nobody /\ ulock' = [ulock EXCEPT ![u] = w]
              /\ call[w].pc = "lock"
              /\ call'[w].op = call[w].op /\ call'[w].arg = call[w].arg /\ call'[w].todo = call[w].todo \ {u}
              /\ call'[w].pc = IF call[w].todo = {u} THEN "check" ELSE "lock"
              /\ \A x \in Callers \ {w} : call'[x] = call[x]
    BY <1>1, LockUnitEffect
  <2>2. /\ ulock'[u] = w /\ \A v \in Units : v # u => ulock'[v] = ulock[v]
        /\ Nobody \notin Callers
    BY <2>1, UnitAssumption DEF TypeOK
  <2>3. Wants(w)' = Wants(w)
    BY <2>1 DEF Wants, Arg
  <2>4. HoldsLocks(w)'
    <3>1. CASE call[w].op \in Locking
      <4>1. Wants(w) \subseteq Units
        <5>1. CASE call[w].op \in BindOps
          BY <5>1, CallShape DEF BindCalls, BindOps, Wants, Arg, Units
        <5>2. CASE call[w].op = "request"
          BY <5>2, CallShape, ItemListsType DEF RequestCalls, Wants, Arg
        <5> QED
          BY <3>1, <5>1, <5>2 DEF Locking
      <4>2. HoldsLocks(w)
        BY DEF LInv
      <4> QED
        BY <2>1, <2>2, <2>3, <3>1, <4>1, <4>2 DEF HoldsLocks
    <3>2. CASE call[w].op \notin Locking
      BY <2>1, <3>2, LOther
    <3> QED
      BY <3>1, <3>2
  <2> QED
    BY <2>1, <2>2, <2>4, LCall
<1>2. CASE BindCheck(w) \/ RequestCheck(w)
  <2>1. call[w].op \in Locking /\ call[w].pc = "check" /\ ((UNCHANGED locks /\ Goto(w, "write")) \/ End(w))
    BY <1>2 DEF BindCheck, RequestCheck, At, Locking
  <2>2. CASE End(w)
    <3>1. call'[w].op = "idle" /\ \A x \in Callers \ {w} : call'[x] = call[x]
      BY <2>2, AnswerEffect DEF End
    <3>2. HoldsLocks(w)'
      BY <3>1, LOther DEF Locking, BindOps
    <3> QED
      BY <2>2, <3>1, <3>2, UnlockEffect, LCall DEF End
  <2>3. CASE UNCHANGED locks /\ Goto(w, "write")
    <3>1. /\ call'[w].op = call[w].op /\ call'[w].todo = call[w].todo /\ call'[w].arg = call[w].arg
          /\ \A x \in Callers \ {w} : call'[x] = call[x]
      BY <2>1, <2>3, GotoEffect DEF Locking
    <3>2. Wants(w)' = Wants(w) /\ ulock' = ulock
      BY <2>3, <3>1 DEF Wants, Arg, locks
    <3>3. HoldsLocks(w)
      BY DEF LInv
    <3>4. HoldsLocks(w)'
      BY <2>1, <3>1, <3>2, <3>3 DEF HoldsLocks
    <3> QED
      BY <3>1, <3>2, <3>4, LCall
  <2> QED
    BY <2>1, <2>2, <2>3
<1>3. CASE BindWrite(w) \/ SaveReturn(w) \/ RevokeCheck(w) \/ ApproveUpdate(w) \/ ReadBlocking(w) \/ LockForRestock(w) \/ Restock(w)
           \/ RefundUpdate(w) \/ RefundProvider(w) \/ AdminProvider(w) \/ AdminSave(w) \/ InsertGrants(w) \/ Claim(w)
           \/ RevokeWrite(w)
  <2>1. call'[w].op \notin Locking /\ \A x \in Callers \ {w} : call'[x] = call[x]
    <3>1. CASE Answer(w)
      BY <3>1, AnswerEffect DEF Locking, BindOps
    <3>2. CASE ~Answer(w) /\ (LockForRestock(w) \/ RefundUpdate(w) \/ AdminProvider(w))
      <4>1. /\ call[w].op \in {"refund", "receive", "adminRefund"}
            /\ \/ Goto(w, "restock") /\ call[w].op = "receive"
               \/ Goto(w, "provider") /\ call[w].op = "refund" /\ call[w].pc = "update"
               \/ Goto(w, "save") /\ call[w].op = "adminRefund"
        BY <3>2 DEF LockForRestock, RefundUpdate, AdminProvider, AskProvider, At, End
      <4> QED
        BY <4>1, GotoEffect DEF Locking, BindOps
    <3>3. CASE ReadBlocking(w)
      BY <3>3 DEF ReadBlocking, Issue, StartAt, TypeOK, Locking, BindOps
    <3>4. CASE RevokeCheck(w)
      BY <3>4, RevokeCheckEffect DEF Locking, BindOps
    <3> QED
      BY <1>3, <3>1, <3>2, <3>3, <3>4
      DEF BindWrite, SaveReturn, ApproveUpdate, Restock, RefundProvider, AdminSave, InsertGrants, Claim, RevokeWrite, End
  <2>2. ulock' = ulock \/ Unlock(w)
    BY <1>3 DEF BindWrite, SaveReturn, RevokeCheck, ApproveUpdate, ReadBlocking, LockForRestock, Restock, RefundUpdate,
                RefundProvider, AdminProvider, AdminSave, InsertGrants, Claim, RevokeWrite, End, UpdateRevoking, locks
  <2> QED
    BY <2>1, <2>2, LOther, UnlockEffect, LCall
<1> QED
  BY <1>1, <1>2, <1>3 DEF Step

\* What happens around the calls keeps it.
LEMMA LAround ==
    ASSUME TInv, LInv, Around
    PROVE  LInv'
<1> USE DEF locks
<1>1. ASSUME NEW w \in Callers, Die(w) PROVE LInv'
  <2>1. call'[w].op = "idle" /\ \A x \in Callers \ {w} : call'[x] = call[x]
    BY <1>1, AnswerEffect DEF Die, End, TInv
  <2>2. HoldsLocks(w)'
    BY <2>1, LOther DEF Locking, BindOps
  <2> QED
    BY <1>1, <2>1, <2>2, UnlockEffect, LCall DEF Die, End, TInv
<1>2. ASSUME UNCHANGED <<call, ulock>> PROVE LInv'
  BY <1>2 DEF LInv, HoldsLocks, Wants, Arg
<1>3. ASSUME NEW t \in Tickets, PurchaseDeferred(t) \/ AdminRevoke(t) PROVE LInv'
  BY <1>2, <1>3 DEF PurchaseDeferred, AdminRevoke
<1>4. ASSUME NEW f \in Files, Expire(f) \/ Reissue(f) PROVE LInv'
  BY <1>2, <1>4 DEF Expire, Reissue
<1>5. ASSUME NEW o \in Orders, ChargeRefunded(o) \/ PaymentEnds(o) \/ RevokeForOrder(o) PROVE LInv'
  BY <1>2, <1>5 DEF ChargeRefunded, PaymentEnds, RevokeForOrder
<1> QED
  BY <1>1, <1>3, <1>4, <1>5 DEF Around

\* LInv holds at first.
LEMMA InitLInv == Init => LInv
BY DEF Init, LInv, HoldsLocks, Idle, Locking, BindOps

\* Every step keeps it.
LEMMA StepLInv == TInv /\ LInv /\ [Next]_vars => LInv'
<1>1. CASE UNCHANGED vars
  BY <1>1 DEF vars, LInv, HoldsLocks, Wants, Arg
<1> QED
  BY <1>1, NextCases, LBegin, LStep, LAround

------------------------------------------------------------------------------
(* What a step does to the returns, the rows and the calls that are about to write *)

\* The moves of a return but its receipt.
Moves == {<<"requested", "approved">>, <<"requested", "rejected">>, <<"requested", "cancelled">>, <<"received", "refunded">>}

\* A return whose row nobody has locked moves on; an approved or refunded one has
\* the assignments of its units revoked in the same step.
MoveReturn(r, from, to) ==
    /\ rlock[r] = Nobody
    /\ ret[r].status = from /\ <<from, to>> \in Moves /\ SetStatus(r, to)
    /\ UNCHANGED <<stock, bought>>
    /\ asg' = IF to \in {"approved", "refunded"} THEN Revoked(Items(r)) ELSE asg

\* Returns and the stock change only where a return is saved, restocked or moved on.
LEMMA RetSteps ==
    ASSUME TInv, [Next]_vars
    PROVE  \/ UNCHANGED <<ret, stock>>
           \/ \E w \in Callers : SaveReturn(w)
           \/ \E w \in Callers : Restock(w)
           \/ \E r \in Rets, from, to \in ReturnStatus : MoveReturn(r, from, to)
<1> USE DEF downloads, money, locks
<1>1. ASSUME NEW w \in Callers, Begin(w)
      PROVE  UNCHANGED <<ret, stock>> \/ \E r \in Rets, from, to \in ReturnStatus : MoveReturn(r, from, to)
  <2>1. stock' = stock /\ asg' = asg /\ bought' = bought
    BY <1>1, BeginFrame
  <2>2. ret' = ret \/ NewClose(w)
    BY <1>1, BeginCases DEF NewCalls, NewAssign, NewPurchase, NewRequest, NewRevoking, NewReceive, NewAdminRefund, NewDownload
  <2>3. ASSUME NewClose(w) PROVE \E r \in Rets, from, to \in ReturnStatus : MoveReturn(r, from, to)
    <3>1. PICK r \in Rets, s \in {"rejected", "cancelled"} : ret[r].status = "requested" /\ rlock[r] = Nobody /\ SetStatus(r, s)
      BY <2>3 DEF NewClose
    <3>2. MoveReturn(r, "requested", s)
      BY <2>1, <3>1 DEF MoveReturn, Moves
    <3>3. {"requested", s} \subseteq ReturnStatus
      BY DEF ReturnStatus
    <3> QED
      BY <3>2, <3>3
  <2> QED
    BY <2>1, <2>2, <2>3
<1>2. ASSUME NEW w \in Callers, ApproveUpdate(w) \/ RefundUpdate(w)
      PROVE  UNCHANGED <<ret, stock>> \/ \E r \in Rets, from, to \in ReturnStatus : MoveReturn(r, from, to)
  <2>1. PICK from \in ReturnStatus, to \in ReturnStatus :
            /\ <<from, to>> \in {<<"requested", "approved">>, <<"received", "refunded">>} /\ UpdateRevoking(w, from, to)
            /\ UNCHANGED <<stock, bought>>
    BY <1>2 DEF ApproveUpdate, RefundUpdate, ReturnStatus
  <2>2. PICK r \in Rets : r = Arg(w).ret
    <3>1. call[w] \in ApproveCalls \cup RefundCalls
      BY <1>2, CallShape DEF ApproveUpdate, RefundUpdate, At, TInv
    <3> QED
      BY <3>1 DEF ApproveCalls, RefundCalls, RevokingArgs, Arg
  <2>3. CASE Updates(w, from)
    <3>1. MoveReturn(r, from, to)
      BY <2>1, <2>2, <2>3 DEF MoveReturn, Moves, UpdateRevoking, Updates, RevokeAssignments
    <3> QED
      BY <3>1
  <2>4. CASE ~Updates(w, from)
    BY <2>1, <2>2, <2>4 DEF UpdateRevoking
  <2> QED
    BY <2>3, <2>4
<1>3. ASSUME NEW w \in Callers, Step(w), ~SaveReturn(w), ~Restock(w), ~ApproveUpdate(w), ~RefundUpdate(w)
      PROVE  UNCHANGED <<ret, stock>>
  BY <1>3 DEF Step, LockUnit, BindCheck, BindWrite, RequestCheck, RevokeCheck, ReadBlocking, LockForRestock, RefundProvider,
              AdminProvider, AdminSave, InsertGrants, Claim, RevokeWrite
<1>4. ASSUME Around PROVE UNCHANGED <<ret, stock>>
  BY <1>4 DEF Around, Die, PurchaseDeferred, AdminRevoke, Expire, Reissue, ChargeRefunded, PaymentEnds, RevokeForOrder
<1>5. ASSUME UNCHANGED vars PROVE UNCHANGED <<ret, stock>>
  BY <1>5 DEF vars
<1> QED
  BY <1>1, <1>2, <1>3, <1>4, <1>5, NextCases

\* The rows of assignments change where a ticket is bound or bought, and where
\* assignments are revoked.
LEMMA RowSteps ==
    ASSUME TInv, [Next]_vars
    PROVE  \/ UNCHANGED <<asg, bought>>
           \/ \E S \in SUBSET Units : asg' = Revoked(S) /\ bought' = bought
           \/ \E w \in Callers : BindWrite(w)
           \/ \E t \in Tickets : PurchaseDeferred(t)
<1> USE DEF downloads, money, locks
<1>1. ASSUME NEW w \in Callers, Begin(w) PROVE UNCHANGED <<asg, bought>>
  BY <1>1, BeginFrame
<1>2. ASSUME NEW w \in Callers, ApproveUpdate(w) \/ RefundUpdate(w)
      PROVE  UNCHANGED <<asg, bought>> \/ \E S \in SUBSET Units : asg' = Revoked(S) /\ bought' = bought
  <2>1. /\ asg' = asg \/ asg' = Revoked(Items(Arg(w).ret))
        /\ bought' = bought
    BY <1>2 DEF ApproveUpdate, RefundUpdate, UpdateRevoking, RevokeAssignments
  <2>2. Arg(w).ret \in Rets
    <3>1. call[w] \in ApproveCalls \cup RefundCalls
      BY <1>2, CallShape DEF ApproveUpdate, RefundUpdate, At, TInv
    <3> QED
      BY <3>1 DEF ApproveCalls, RefundCalls, RevokingArgs, Arg
  <2>3. Items(Arg(w).ret) \in SUBSET Units
    BY <2>2 DEF TInv, TypeOK
  <2> QED
    BY <2>1, <2>3
<1>3. ASSUME NEW w \in Callers, Step(w), ~ApproveUpdate(w), ~RefundUpdate(w), ~BindWrite(w)
      PROVE  UNCHANGED <<asg, bought>>
  BY <1>3 DEF Step, LockUnit, BindCheck, RequestCheck, SaveReturn, RevokeCheck, ReadBlocking, LockForRestock, Restock, RefundProvider,
              AdminProvider, AdminSave, InsertGrants, Claim, RevokeWrite
<1>4. ASSUME Around
      PROVE  \/ UNCHANGED <<asg, bought>>
             \/ \E S \in SUBSET Units : asg' = Revoked(S) /\ bought' = bought
             \/ \E t \in Tickets : PurchaseDeferred(t)
  <2>1. ASSUME NEW t \in Tickets, AdminRevoke(t) PROVE asg' = Revoked({t}) /\ bought' = bought /\ {t} \in SUBSET Units
    BY <2>1 DEF AdminRevoke, Units
  <2>2. ASSUME NEW o \in Orders, RevokeForOrder(o) PROVE \E t \in Tickets : asg' = Revoked({t}) /\ bought' = bought /\ {t} \in SUBSET Units
    BY <2>2 DEF RevokeForOrder, Units
  <2>3. ASSUME NEW w \in Callers, Die(w) PROVE UNCHANGED <<asg, bought>>
    BY <2>3 DEF Die
  <2>4. ASSUME NEW f \in Files, Expire(f) \/ Reissue(f) PROVE UNCHANGED <<asg, bought>>
    BY <2>4 DEF Expire, Reissue
  <2>5. ASSUME NEW o \in Orders, ChargeRefunded(o) \/ PaymentEnds(o) PROVE UNCHANGED <<asg, bought>>
    BY <2>5 DEF ChargeRefunded, PaymentEnds
  <2> QED
    BY <1>4, <2>1, <2>2, <2>3, <2>4, <2>5 DEF Around
<1>5. ASSUME UNCHANGED vars PROVE UNCHANGED <<asg, bought>>
  BY <1>5 DEF vars
<1> QED
  BY <1>1, <1>2, <1>3, <1>4, <1>5, NextCases

\* A call that changes is the one that takes the step.
LEMMA CallSteps ==
    ASSUME TInv, [Next]_vars, NEW x \in Callers, call'[x] # call[x]
    PROVE  Begin(x) \/ Step(x) \/ Die(x)
<1> USE DEF downloads, money, locks
<1>1. ASSUME NEW w \in Callers, Begin(w) PROVE w = x
  BY <1>1, BeginCases
<1>2. ASSUME NEW w \in Callers, Step(w) PROVE w = x
  <2>1. CASE QuietStep(w)
    BY <2>1, QuietStepEffect
  <2>2. CASE BindWrite(w) \/ RefundProvider(w) \/ AdminSave(w)
    BY <2>2, AnswerEffect DEF BindWrite, RefundProvider, AdminSave, End, TInv
  <2>3. CASE AdminProvider(w)
    BY <2>3, AnswerEffect, GotoEffect DEF AdminProvider, AskProvider, At, TInv
  <2> QED
    BY <1>2, <2>1, <2>2, <2>3 DEF Step, QuietStep
<1>3. ASSUME NEW w \in Callers, Die(w) PROVE w = x
  BY <1>3, AnswerEffect DEF Die, End, TInv
<1>4. ASSUME Around, \A w \in Callers : ~Die(w) PROVE call' = call
  BY <1>4 DEF Around, PurchaseDeferred, AdminRevoke, Expire, Reissue, ChargeRefunded, PaymentEnds, RevokeForOrder
<1>5. ASSUME UNCHANGED vars PROVE call' = call
  BY <1>5 DEF vars
<1> QED
  BY <1>1, <1>2, <1>3, <1>4, <1>5, NextCases

\* How a call goes on.
LEMMA StepCases ==
    ASSUME TInv, NEW w \in Callers, Step(w)
    PROVE  \/ call'[w].op \in {"idle", "issue"}
           \/ Continues(w) /\ call'[w].pc \notin {"write", "restock"}
           \/ /\ Continues(w) /\ call[w].op \in BindOps /\ MayBind(Arg(w).child, Arg(w).parent)
              /\ UNCHANGED <<asg, ret>>
           \/ /\ Continues(w) /\ call[w].op = "request" /\ ParentsReturnable(DOMAIN Arg(w).items)
              /\ UNCHANGED <<asg, ret>>
           \/ /\ Continues(w) /\ call[w].op = "receive" /\ Receivable(Arg(w).ret)
              /\ ret' = ret /\ rlock' = [rlock EXCEPT ![Arg(w).ret] = w]
<1> USE DEF TInv, Continues, downloads, money, locks
<1>1. CASE LockUnit(w)
  BY <1>1, LockUnitEffect
<1>2. CASE BindCheck(w)
  <2>1. CASE MayBind(Arg(w).child, Arg(w).parent)
    <3>1. Goto(w, "write") /\ call[w].op \in BindOps /\ UNCHANGED <<asg, ret>>
      BY <1>2, <2>1 DEF BindCheck
    <3> QED
      BY <2>1, <3>1, GotoEffect
  <2>2. CASE ~MayBind(Arg(w).child, Arg(w).parent)
    BY <1>2, <2>2, AnswerEffect DEF BindCheck, End
  <2> QED
    BY <2>1, <2>2
<1>3. CASE RequestCheck(w)
  <2>1. CASE ParentsReturnable(DOMAIN Arg(w).items)
    <3>1. Goto(w, "write") /\ call[w].op = "request" /\ UNCHANGED <<asg, ret>>
      BY <1>3, <2>1 DEF RequestCheck, At
    <3> QED
      BY <2>1, <3>1, GotoEffect
  <2>2. CASE ~ParentsReturnable(DOMAIN Arg(w).items)
    BY <1>3, <2>2, AnswerEffect DEF RequestCheck, End
  <2> QED
    BY <2>1, <2>2
<1>4. CASE \/ BindWrite(w) \/ SaveReturn(w) \/ ApproveUpdate(w) \/ Restock(w) \/ RefundProvider(w) \/ AdminSave(w)
           \/ InsertGrants(w) \/ Claim(w) \/ RevokeWrite(w)
  BY <1>4, AnswerEffect
  DEF BindWrite, SaveReturn, ApproveUpdate, Restock, RefundProvider, AdminSave, InsertGrants, Claim, RevokeWrite, End
<1>5. CASE RevokeCheck(w)
  <2>1. \/ call'[w].op = "idle"
        \/ Continues(w) /\ call'[w].pc = "update"
    BY <1>5, RevokeCheckEffect
  <2> QED
    BY <2>1
<1>6. CASE ReadBlocking(w)
  BY <1>6 DEF ReadBlocking, Issue, StartAt, TypeOK
<1>7. CASE LockForRestock(w)
  <2>1. CASE StillReceivable(Arg(w).ret)
    <3>1. /\ Goto(w, "restock") /\ call[w].op = "receive" /\ ret' = ret /\ rlock' = [rlock EXCEPT ![Arg(w).ret] = w]
          /\ Receivable(Arg(w).ret)
      BY <1>7, <2>1 DEF LockForRestock, At, StillReceivable
    <3> QED
      BY <3>1, GotoEffect
  <2>2. CASE ~StillReceivable(Arg(w).ret)
    BY <1>7, <2>2, AnswerEffect DEF LockForRestock
  <2> QED
    BY <2>1, <2>2
<1>8. CASE RefundUpdate(w)
  BY <1>8, GotoEffect, AnswerEffect DEF RefundUpdate, At
<1>9. CASE AdminProvider(w)
  BY <1>9, GotoEffect, AnswerEffect DEF AdminProvider, AskProvider, At
<1> QED
  BY <1>1, <1>2, <1>3, <1>4, <1>5, <1>6, <1>7, <1>8, <1>9 DEF Step

\* A row lock is given up only by the call that holds it.
LEMMA RowLockSteps ==
    ASSUME TInv, [Next]_vars, NEW x \in Callers, NEW r \in Rets, rlock[r] = x, call'[x] = call[x]
    PROVE  rlock'[r] = x
<1> USE DEF downloads, money, locks, TInv
<1>0. Nobody \notin Callers
  BY UnitAssumption
<1>1. ASSUME NEW w \in Callers, Unlock(w), Answer(w), call[w] # Idle PROVE rlock'[r] = x
  <2>1. w # x
    BY <1>1, AnswerEffect
  <2> QED
    BY <2>1, <1>1, UnlockEffect
<1>2. ASSUME NEW w \in Callers, Begin(w) PROVE rlock'[r] = x
  BY <1>2, BeginFrame
<1>3. ASSUME NEW w \in Callers, Step(w) PROVE rlock'[r] = x
  <2>1. CASE BindWrite(w) \/ SaveReturn(w) \/ ApproveUpdate(w) \/ Restock(w)
    <3>1. Unlock(w) /\ Answer(w) /\ call[w] # Idle
      BY <2>1 DEF BindWrite, SaveReturn, ApproveUpdate, Restock, End, UpdateRevoking, At, Idle, BindOps
    <3> QED
      BY <1>1, <3>1
  <2>2. CASE BindCheck(w) \/ RequestCheck(w) \/ RevokeCheck(w)
    <3>1. (Unlock(w) /\ Answer(w) /\ call[w] # Idle) \/ rlock' = rlock
      BY <2>2 DEF BindCheck, RequestCheck, RevokeCheck, End, At, Idle, BindOps
    <3> QED
      BY <1>1, <3>1
  <2>3. CASE RefundUpdate(w)
    <3>1. Unlock(w) /\ call[w].op = "refund" /\ call[w].pc = "update" /\ (Goto(w, "provider") \/ Answer(w))
      BY <2>3 DEF RefundUpdate, UpdateRevoking, At
    <3>2. w # x
      BY <3>1, GotoEffect, AnswerEffect
    <3> QED
      BY <3>1, <3>2, UnlockEffect
  <2>4. CASE LockForRestock(w)
    BY <1>0, <2>4 DEF LockForRestock, TypeOK
  <2>5. CASE \/ LockUnit(w) \/ ReadBlocking(w) \/ RefundProvider(w) \/ AdminProvider(w) \/ AdminSave(w)
             \/ InsertGrants(w) \/ Claim(w) \/ RevokeWrite(w)
    BY <2>5 DEF LockUnit, ReadBlocking, RefundProvider, AdminProvider, AdminSave, InsertGrants, Claim, RevokeWrite
  <2> QED
    BY <1>3, <2>1, <2>2, <2>3, <2>4, <2>5 DEF Step
<1>4. ASSUME NEW w \in Callers, Die(w) PROVE rlock'[r] = x
  BY <1>1, <1>4 DEF Die, End, Free
<1>5. ASSUME Around, \A w \in Callers : ~Die(w) PROVE rlock' = rlock
  BY <1>5 DEF Around, PurchaseDeferred, AdminRevoke, Expire, Reissue, ChargeRefunded, PaymentEnds, RevokeForOrder
<1>6. ASSUME UNCHANGED vars PROVE rlock' = rlock
  BY <1>6 DEF vars
<1> QED
  BY <1>2, <1>3, <1>4, <1>5, <1>6, NextCases

------------------------------------------------------------------------------
(* Receipts *)

\* A call that is about to restock holds the row of a return that is still to be
\* received, and restocked_at is set exactly when a return is received.
Restocking(w) ==
    call[w].op = "receive" /\ call[w].pc = "restock" => rlock[Arg(w).ret] = w /\ Receivable(Arg(w).ret)
RestockedOnce == \A r \in Rets : ret[r].restocked <=> ret[r].status \in {"received", "refunded"}
VInv == RestockedOnce /\ \A w \in Callers : Restocking(w)

\* The effects of saving a return and of restocking one.
LEMMA SaveEffect ==
    ASSUME TInv, NEW w \in Callers, SaveReturn(w)
    PROVE  /\ UNCHANGED <<asg, bought, stock>>
           /\ call[w].op = "request" /\ call[w].pc = "write" /\ call'[w].op = "idle"
           /\ \E r \in Rets :
                /\ ret[r].status = "absent" /\ Items(r) = {}
                /\ ret'[r] = [status |-> "requested", items |-> Arg(w).items, restocked |-> FALSE]
                /\ ret' = [ret EXCEPT ![r] = [status |-> "requested", items |-> Arg(w).items, restocked |-> FALSE]]
                /\ \A q \in Rets \ {r} : ret'[q] = ret[q]
<1>1. PICK r \in Rets :
          /\ ret[r] = NoReturn
          /\ ret' = [ret EXCEPT ![r] = [status |-> "requested", items |-> Arg(w).items, restocked |-> FALSE]]
  BY DEF SaveReturn
<1>2. call'[w].op = "idle"
  BY AnswerEffect DEF SaveReturn, End, TInv
<1>3. ret[r].status = "absent" /\ Items(r) = {}
  BY <1>1, ItemListsType DEF NoReturn, Items
<1> QED
  BY <1>1, <1>2, <1>3 DEF SaveReturn, At, TInv, TypeOK

\* An approved return becomes received, under the lock of its row.
LEMMA RestockEffect ==
    ASSUME TInv, VInv, NEW w \in Callers, Restock(w)
    PROVE  /\ UNCHANGED <<asg, bought>>
           /\ call[w].op = "receive" /\ call'[w].op = "idle"
           /\ \E r \in Rets :
                /\ r = Arg(w).ret /\ rlock[r] = w /\ Receivable(r) /\ ret[r].status = "approved"
                /\ ret'[r].status = "received" /\ ret'[r].items = ret[r].items /\ ret'[r].restocked = TRUE
                /\ \A q \in Rets \ {r} : ret'[q] = ret[q]
                /\ stock' = [u \in Units |-> IF u \in Cards \cap Items(r) THEN stock[u] + ret[r].items[u] ELSE stock[u]]
<1>1. call[w] \in ReceiveCalls /\ call[w].op = "receive" /\ call[w].pc = "restock"
  BY CallShape DEF Restock, At, TInv
<1>2. PICK r \in Rets : r = Arg(w).ret
  BY <1>1 DEF ReceiveCalls, Arg
<1>3. rlock[r] = w /\ Receivable(r) /\ ret[r].status = "approved"
  BY <1>1, <1>2 DEF VInv, Restocking, RestockedOnce, Receivable
<1>4. /\ ret' = [ret EXCEPT ![r].status = "received", ![r].restocked = TRUE]
      /\ stock' = [u \in Units |-> IF u \in Cards \cap Items(r) THEN stock[u] + ret[r].items[u] ELSE stock[u]]
      /\ UNCHANGED <<asg, bought>>
  BY <1>2 DEF Restock
<1>5. /\ ret'[r].status = "received" /\ ret'[r].items = ret[r].items /\ ret'[r].restocked = TRUE
      /\ \A q \in Rets \ {r} : ret'[q] = ret[q]
  BY <1>4 DEF TInv, TypeOK
<1>6. call'[w].op = "idle"
  BY AnswerEffect DEF Restock, End, TInv
<1> QED
  BY <1>1, <1>2, <1>3, <1>4, <1>5, <1>6

\* Moving a return on changes its status only.
LEMMA MoveEffect ==
    ASSUME TInv, NEW r \in Rets, NEW from \in ReturnStatus, NEW to \in ReturnStatus, MoveReturn(r, from, to)
    PROVE  /\ ret'[r].status = to
           /\ \A q \in Rets : ret'[q].items = ret[q].items /\ ret'[q].restocked = ret[q].restocked
           /\ \A q \in Rets \ {r} : ret'[q] = ret[q]
<1>1. SetStatus(r, to) /\ ret[r].status # "absent"
  BY DEF MoveReturn, Moves
<1> QED
  BY <1>1, StatusEffect

\* Every step keeps VInv.
LEMMA StepVInv == TInv /\ VInv /\ [Next]_vars => VInv'
<1> SUFFICES ASSUME TInv, VInv, [Next]_vars PROVE VInv'
  OBVIOUS
<1>2. RestockedOnce'
  <2>1. CASE UNCHANGED <<ret, stock>>
    BY <2>1 DEF VInv, RestockedOnce
  <2>2. ASSUME NEW w \in Callers, SaveReturn(w) PROVE RestockedOnce'
    <3>1. PICK r \in Rets :
              /\ ret'[r] = [status |-> "requested", items |-> Arg(w).items, restocked |-> FALSE]
              /\ \A q \in Rets \ {r} : ret'[q] = ret[q]
      BY <2>2, SaveEffect
    <3>2. ~ret'[r].restocked /\ ret'[r].status = "requested"
      BY <3>1
    <3> QED
      BY <3>1, <3>2 DEF VInv, RestockedOnce
  <2>3. ASSUME NEW w \in Callers, Restock(w) PROVE RestockedOnce'
    <3>1. PICK r \in Rets :
              /\ ret'[r].status = "received" /\ ret'[r].restocked = TRUE
              /\ \A q \in Rets \ {r} : ret'[q] = ret[q]
      BY <2>3, RestockEffect
    <3> QED
      BY <3>1 DEF VInv, RestockedOnce
  <2>4. ASSUME NEW r \in Rets, NEW from \in ReturnStatus, NEW to \in ReturnStatus, MoveReturn(r, from, to) PROVE RestockedOnce'
    <3>1. /\ ret'[r].status = to /\ ret'[r].restocked = ret[r].restocked
          /\ \A q \in Rets \ {r} : ret'[q] = ret[q]
      BY <2>4, MoveEffect
    <3>2. ret[r].status = from /\ <<from, to>> \in Moves
      BY <2>4 DEF MoveReturn
    <3>3. (from \in {"received", "refunded"}) = (to \in {"received", "refunded"})
      BY <3>2 DEF Moves
    <3> QED
      BY <3>1, <3>2, <3>3 DEF VInv, RestockedOnce
  <2> QED
    BY <2>1, <2>2, <2>3, <2>4, RetSteps
<1>3. ASSUME NEW x \in Callers PROVE Restocking(x)'
  <2> SUFFICES ASSUME call'[x].op = "receive", call'[x].pc = "restock"
               PROVE  /\ rlock'[call'[x].arg.ret] = x
                      /\ ret'[call'[x].arg.ret].status \in {"approved", "received"} /\ ~ret'[call'[x].arg.ret].restocked
    BY DEF Restocking, Arg, Receivable
  <2>1. CASE call'[x] # call[x]
    <3>1. ~Die(x)
      BY AnswerEffect DEF Die, End, TInv
    <3>2. ~Begin(x)
      <4>1. ASSUME Begin(x) PROVE NewCalls(x)
        BY <2>1, <4>1, BeginCases
      <4> QED
        BY <4>1, NewCallNotAtWork
    <3>3. Step(x)
      BY <2>1, <3>1, <3>2, CallSteps
    <3>4. /\ Continues(x) /\ call[x].op = "receive" /\ Receivable(Arg(x).ret)
          /\ ret' = ret /\ rlock' = [rlock EXCEPT ![Arg(x).ret] = x]
      BY <3>3, StepCases DEF Continues, BindOps
    <3>5. Arg(x).ret \in Rets
      BY <3>4, CallShape DEF TInv, ReceiveCalls, Arg
    <3> QED
      BY <3>4, <3>5 DEF Continues, Arg, Receivable, TInv, TypeOK
  <2>2. CASE call'[x] = call[x]
    <3>1. PICK r \in Rets : r = call[x].arg.ret
      BY <2>2, CallShape DEF TInv, ReceiveCalls
    <3>2. rlock[r] = x /\ Receivable(r)
      BY <2>2, <3>1 DEF VInv, Restocking, Arg
    <3>3. rlock'[r] = x
      BY <2>2, <3>2, RowLockSteps
    <3>4. ret'[r] = ret[r]
      <4>1. ASSUME NEW w \in Callers, SaveReturn(w) PROVE ret'[r] = ret[r]
        BY <3>2, <4>1, SaveEffect DEF Receivable
      <4>2. ASSUME NEW w \in Callers, Restock(w) PROVE ret'[r] = ret[r]
        <5>1. w # x /\ \E q \in Rets : rlock[q] = w /\ \A p \in Rets \ {q} : ret'[p] = ret[p]
          BY ZenonT(30), <2>2, <4>2, RestockEffect
        <5> QED
          BY <3>2, <5>1
      <4>3. ASSUME NEW q \in Rets, NEW from \in ReturnStatus, NEW to \in ReturnStatus, MoveReturn(q, from, to) PROVE ret'[r] = ret[r]
        <5>1. q # r
          BY <3>2, <4>3, UnitAssumption DEF MoveReturn
        <5> QED
          BY <4>3, <5>1, MoveEffect
      <4> QED
        BY <4>1, <4>2, <4>3, RetSteps
    <3> QED
      BY <2>2, <3>1, <3>2, <3>3, <3>4 DEF Receivable
  <2> QED
    BY <2>1, <2>2
<1> QED
  BY <1>2, <1>3 DEF VInv

\* VInv holds at first.
LEMMA InitVInv == Init => VInv
BY DEF Init, VInv, RestockedOnce, Restocking, NoReturn, Idle

------------------------------------------------------------------------------
(* A return follows its lifecycle *)

\* What a return holds for the shelf, and what the mapped variables are.
HeldBy(r) == [u \in Units |-> IF u \in Cards \cap Items(r) THEN ret[r].items[u] ELSE 0]
Status == [r \in Rets |-> ret[r].status]
Held == [r \in Rets |-> HeldBy(r)]

\* What a return holds depends on its items only.
LEMMA HeldSame ==
    ASSUME NEW r \in Rets, ret'[r].items = ret[r].items
    PROVE  HeldBy(r)' = HeldBy(r)
BY DEF HeldBy, Items

\* Every step is a step of ReturnLifecycle, or changes nothing it sees.
LEMMA LifecycleStep == TInv /\ VInv /\ [Next]_vars => [Lifecycle!Next]_(Lifecycle!vars)
<1> SUFFICES ASSUME TInv, VInv, [Next]_vars PROVE [Lifecycle!Next]_(Lifecycle!vars)
  OBVIOUS
<1>0. /\ Lifecycle!vars = <<Status, Held, stock>>
      /\ Lifecycle!vars' = <<Status', Held', stock'>>
  BY DEF Lifecycle!vars, Status, Held, HeldBy
<1>1. CASE UNCHANGED <<ret, stock>>
  <2>1. Status' = Status /\ Held' = Held
    BY <1>1 DEF Status, Held, HeldBy, Items
  <2> QED
    BY <1>0, <1>1, <2>1
<1>2. ASSUME NEW w \in Callers, SaveReturn(w) PROVE Lifecycle!Next
  <2>1. PICK r \in Rets :
          /\ ret[r].status = "absent"
          /\ ret'[r] = [status |-> "requested", items |-> Arg(w).items, restocked |-> FALSE]
          /\ \A q \in Rets \ {r} : ret'[q] = ret[q]
    BY <1>2, SaveEffect
  <2>2. stock' = stock
    BY <1>2 DEF SaveReturn
  <2>3. Status' = [Status EXCEPT ![r] = "requested"] /\ Status[r] = "absent"
    <3>1. ret'[r].status = "requested"
      BY <2>1
    <3> QED
      BY <2>1, <3>1 DEF Status
  <2>4. \A q \in Rets \ {r} : HeldBy(q)' = HeldBy(q)
    BY <2>1, HeldSame
  <2>5. Held' = [Held EXCEPT ![r] = Held'[r]]
    BY <2>4 DEF Held
  <2>6. Held'[r] \in [Units -> Nat]
    <3>1. TInv'
      BY StepTInv
    <3>2. \A u \in DOMAIN ret'[r].items : ret'[r].items[u] \in Nat
      BY <3>1, ItemListsType DEF TInv, TypeOK
    <3> QED
      BY <3>2 DEF Held, HeldBy, Items
  <2>7. Lifecycle!Open(r)
    BY <2>2, <2>3, <2>5, <2>6 DEF Lifecycle!Open, Status, Held, HeldBy
  <2> QED
    BY <2>7 DEF Lifecycle!Next
<1>3. ASSUME NEW w \in Callers, Restock(w) PROVE Lifecycle!Next
  <2>1. PICK r \in Rets :
          /\ ret[r].status = "approved"
          /\ ret'[r].status = "received" /\ ret'[r].items = ret[r].items
          /\ \A q \in Rets \ {r} : ret'[q] = ret[q]
          /\ stock' = [u \in Units |-> IF u \in Cards \cap Items(r) THEN stock[u] + ret[r].items[u] ELSE stock[u]]
    BY <1>3, RestockEffect
  <2>2. Status' = [Status EXCEPT ![r] = "received"] /\ Status[r] = "approved"
    BY <2>1 DEF Status
  <2>3. Held' = Held
    BY <2>1, HeldSame DEF Held
  <2>4. stock' = [u \in Units |-> stock[u] + Held[r][u]]
    BY <2>1 DEF Held, HeldBy, TInv, TypeOK
  <2>5. Lifecycle!Receive(r)
    BY <2>2, <2>3, <2>4 DEF Lifecycle!Receive, Status, Held, HeldBy
  <2> QED
    BY <2>5 DEF Lifecycle!Next
<1>4. ASSUME NEW r \in Rets, NEW from \in ReturnStatus, NEW to \in ReturnStatus, MoveReturn(r, from, to) PROVE Lifecycle!Next
  <2>1. /\ ret'[r].status = to
        /\ \A q \in Rets : ret'[q].items = ret[q].items
        /\ \A q \in Rets \ {r} : ret'[q] = ret[q]
    BY <1>4, MoveEffect
  <2>2. ret[r].status = from /\ <<from, to>> \in Moves /\ stock' = stock
    BY <1>4 DEF MoveReturn
  <2>3. Status' = [Status EXCEPT ![r] = to] /\ Status[r] = from
    BY <2>1, <2>2 DEF Status
  <2>4. Held' = Held
    BY <2>1, HeldSame DEF Held
  <2>5. Lifecycle!Move(r, from, to)
    BY <2>2, <2>3, <2>4 DEF Lifecycle!Move, Status, Held, HeldBy
  <2> QED
    BY <2>2, <2>5 DEF Lifecycle!Next, Moves
<1> QED
  BY <1>1, <1>2, <1>3, <1>4, RetSteps

\* The initial states are those of ReturnLifecycle.
LEMMA LifecycleInit == Init => Lifecycle!Init
<1> SUFFICES ASSUME Init PROVE Lifecycle!Init
  OBVIOUS
<1>1. \A r \in Rets : ret[r].status = "absent" /\ Items(r) = {}
  BY ItemListsType DEF Init, NoReturn, Items
<1>2. stock = [u \in Units |-> 0]
  BY DEF Init
<1> QED
  BY <1>1, <1>2 DEF Lifecycle!Init

\* THEOREM Lifecycle of a return: however requests, approvals, receipts and refunds
\* interleave, a return takes only the steps of ReturnLifecycle, and its units come
\* back to stock in one of them, once.
THEOREM LifecycleCorrect == Spec => ReturnsFollowLifecycle
<1>1. Spec => [](TInv /\ VInv)
  BY InitTInv, StepTInv, InitVInv, StepVInv, PTL DEF Spec
<1>2. Init => Lifecycle!Init
  BY LifecycleInit
<1>3. TInv /\ VInv /\ [Next]_vars => [Lifecycle!Next]_(Lifecycle!vars)
  BY LifecycleStep
<1> QED
  BY <1>1, <1>2, <1>3, PTL DEF Spec, ReturnsFollowLifecycle, Lifecycle!Spec

------------------------------------------------------------------------------
(* Bound units *)

\* A ticket nobody has bought has no row, and only the newest row of a ticket is
\* not revoked.
RowsOK ==
    \A t \in Tickets : /\ t \notin bought => asg[t] = <<>>
                       /\ \A i \in 1..Len(asg[t]) : i # Len(asg[t]) => asg[t][i].status = "revoked"

\* What a call that is about to write has checked still holds.
Checked(w) ==
    /\ call[w].op = "request" /\ call[w].pc = "write" => ParentsReturnable(DOMAIN Arg(w).items)
    /\ call[w].op \in BindOps /\ call[w].pc = "write" => MayBind(Arg(w).child, Arg(w).parent)

\* The inductive invariant of the bound units.
UInv == RowsOK /\ ReturnedUnitsAreUnbound /\ \A w \in Callers : Checked(w)

\* What a ticket is bound to depends on its own rows only.
LEMMA SameRows ==
    ASSUME NEW t \in Tickets, asg'[t] = asg[t]
    PROVE  Current(t)' = Current(t) /\ Assigned(t)' = Assigned(t)
BY DEF Current, Assigned, LastRow

\* Revoking binds nothing.
LEMMA RevokedRows ==
    ASSUME TInv, NEW S, asg' = Revoked(S), NEW t \in Tickets
    PROVE  /\ Current(t)' \in {0, Current(t)}
           /\ Assigned(t)' \subseteq Assigned(t)
           /\ t \in S => Current(t)' = 0
<1>1. CASE t \in S /\ Current(t) # 0
  <2>1. Len(asg'[t]) = Len(asg[t]) /\ asg'[t][Len(asg[t])].status = "revoked"
    BY <1>1, RevokedEffect DEF TInv
  <2>2. LastRow(t)'.status = "revoked"
    BY <2>1 DEF LastRow
  <2>3. Current(t)' = 0
    BY <2>2 DEF Current
  <2> QED
    BY <2>3 DEF Assigned
<1>2. CASE ~(t \in S /\ Current(t) # 0)
  <2>1. asg'[t] = asg[t]
    BY <1>2, RevokedEffect DEF TInv
  <2> QED
    BY <1>2, <2>1, SameRows
<1> QED
  BY <1>1, <1>2

\* After a bind the ticket is bound to the card or to what it was bound to.
LEMMA BoundRows ==
    ASSUME TInv, RowsOK, NEW w \in Callers, BindWrite(w),
           NEW t \in Tickets, t = Arg(w).child, NEW c \in Cards, c = Arg(w).parent
    PROVE  /\ \A x \in Tickets : x # t => asg'[x] = asg[x]
           /\ asg' = asg \/ Assigned(t)' \subseteq {c}
           /\ RowsOK'
<1>1. /\ call[w] \in BindCalls
      /\ asg' \in [Tickets -> Seq(Row)]
      /\ \A x \in Tickets : x # t => asg'[x] = asg[x]
  BY BindRows DEF TInv
<1>4. bought' = bought \cup {t}
  BY DEF BindWrite
<1>5. asg[t] \in Seq(Row) /\ Len(asg[t]) \in Nat /\ asg'[t] \in Seq(Row) /\ Bound(c) \in Row
  BY <1>1, RowTypes DEF TInv, TypeOK
<1>6. ASSUME \A i \in 1..Len(asg'[t]) : i # Len(asg'[t]) => asg'[t][i].status = "revoked"
      PROVE  RowsOK'
  BY <1>1, <1>4, <1>6 DEF RowsOK
<1>7. CASE asg' = asg
  BY <1>1, <1>6, <1>7 DEF RowsOK
<1>8. CASE Current(t) = 0 /\ asg'[t] = Append(asg[t], Bound(c))
  <2>1. /\ Len(asg'[t]) = Len(asg[t]) + 1 /\ asg'[t][Len(asg[t]) + 1] = Bound(c)
        /\ \A i \in 1..Len(asg[t]) : asg'[t][i] = asg[t][i]
    BY <1>5, <1>8
  <2>2. \A i \in 1..Len(asg[t]) : asg[t][i].status = "revoked"
    <3>1. CASE asg[t] = <<>>
      BY <3>1
    <3>2. CASE asg[t] # <<>>
      BY <1>5, <1>8, <3>2 DEF Current, LastRow, RowsOK
    <3> QED
      BY <3>1, <3>2
  <2>3. LastRow(t)' = Bound(c)
    BY <2>1 DEF LastRow
  <2>4. Assigned(t)' \subseteq {c}
    BY <2>3 DEF Assigned, Bound
  <2>5. \A i \in 1..Len(asg'[t]) : i # Len(asg'[t]) => asg'[t][i].status = "revoked"
    BY SMTT(30), <1>5, <2>1, <2>2
  <2> QED
    BY <1>1, <1>6, <2>4, <2>5
<1>9. CASE \E k \in 1..Len(asg[t]) : /\ asg[t][k] = Unbound /\ Len(asg'[t]) = Len(asg[t])
                                     /\ \A i \in 1..Len(asg[t]) : asg'[t][i] = IF i = k THEN Bound(c) ELSE asg[t][i]
  <2>1. PICK k \in 1..Len(asg[t]) : /\ asg[t][k] = Unbound /\ Len(asg'[t]) = Len(asg[t])
                                    /\ \A i \in 1..Len(asg[t]) : asg'[t][i] = IF i = k THEN Bound(c) ELSE asg[t][i]
    BY <1>9
  <2>2. k = Len(asg[t])
    BY <2>1 DEF RowsOK, Unbound
  <2>3. LastRow(t)' = Bound(c)
    BY <2>1, <2>2 DEF LastRow
  <2>4. Assigned(t)' \subseteq {c}
    BY <2>3 DEF Assigned, Bound
  <2>5. \A i \in 1..Len(asg'[t]) : i # Len(asg'[t]) => asg'[t][i].status = "revoked"
    BY <1>5, <2>1, <2>2 DEF RowsOK
  <2> QED
    BY <1>1, <1>6, <2>4, <2>5
<1>10. LET k == Arg(w).row IN
       \/ asg' = asg
       \/ Current(t) = 0 /\ asg'[t] = Append(asg[t], Bound(c))
       \/ /\ k \in 1..Len(asg[t]) /\ asg[t][k] = Unbound
          /\ Len(asg'[t]) = Len(asg[t])
          /\ \A i \in 1..Len(asg[t]) : asg'[t][i] = IF i = k THEN Bound(c) ELSE asg[t][i]
  BY BindRows DEF TInv
<1> QED
  BY <1>7, <1>8, <1>9, <1>10

\* A ticket bought without a card is bound to nothing.
LEMMA DeferredRows ==
    ASSUME TInv, RowsOK, NEW t \in Tickets, PurchaseDeferred(t)
    PROVE  /\ t \notin bought /\ Assigned(t)' = {} /\ RowsOK'
           /\ \A x \in Tickets : x # t => asg'[x] = asg[x]
<1>1. t \notin bought /\ asg[t] = <<>>
  BY DEF PurchaseDeferred, NotOrdered, RowsOK
<1>2. asg' = [asg EXCEPT ![t] = Append(asg[t], Unbound)] /\ bought' = bought \cup {t}
  BY DEF PurchaseDeferred
<1>3. asg'[t] = <<Unbound>> /\ \A x \in Tickets : x # t => asg'[x] = asg[x]
  BY <1>1, <1>2 DEF TInv, TypeOK
<1>4. Len(asg'[t]) = 1 /\ asg'[t][1] = Unbound
  BY <1>3
<1>5. LastRow(t)' = Unbound
  BY <1>4 DEF LastRow
<1>6. Assigned(t)' = {}
  BY <1>5 DEF Assigned, Bound, Unbound
<1> QED
  BY <1>1, <1>2, <1>3, <1>4, <1>6 DEF RowsOK

\* Every step keeps RowsOK.
LEMMA StepRowsOK ==
    ASSUME TInv, RowsOK, [Next]_vars
    PROVE  RowsOK'
<1>1. CASE UNCHANGED <<asg, bought>>
  BY <1>1 DEF RowsOK
<1>2. ASSUME NEW S \in SUBSET Units, asg' = Revoked(S), bought' = bought PROVE RowsOK'
  <2>1. \A t \in Tickets :
          /\ Len(asg'[t]) = Len(asg[t])
          /\ Current(t) = 0 => asg'[t] = asg[t]
          /\ \A i \in 1..Len(asg[t]) : i # Len(asg[t]) => asg'[t][i] = asg[t][i]
    BY <1>2, RevokedEffect DEF TInv
  <2>2. \A t \in Tickets : asg[t] = <<>> => Current(t) = 0
    BY DEF Current
  <2> QED
    BY <1>2, <2>1, <2>2 DEF RowsOK
<1>3. ASSUME NEW w \in Callers, BindWrite(w) PROVE RowsOK'
  <2>1. call[w] \in BindCalls
    BY <1>3, BindRows DEF TInv
  <2>2. Arg(w).child \in Tickets /\ Arg(w).parent \in Cards
    BY <2>1 DEF BindCalls, Arg
  <2> QED
    BY <1>3, <2>2, BoundRows
<1>4. ASSUME NEW t \in Tickets, PurchaseDeferred(t) PROVE RowsOK'
  BY <1>4, DeferredRows
<1> QED
  BY <1>1, <1>2, <1>3, <1>4, RowSteps

\* Two calls that are about to write have no unit in common.
LEMMA LocksExclude ==
    ASSUME LInv, NEW w \in Callers, NEW x \in Callers, w # x,
           call[w].op \in Locking, call[w].pc = "write", call[x].op \in Locking, call[x].pc = "write"
    PROVE  Wants(w) \cap Wants(x) = {}
<1>1. HoldsLocks(w) /\ HoldsLocks(x)
  BY DEF LInv
<1> QED
  BY <1>1 DEF HoldsLocks

\* A unit comes to be on its way back only where a return of it is saved.
LEMMA BlockingBefore ==
    ASSUME TInv, VInv, [Next]_vars, NEW u, OnBlockingReturn(u)'
    PROVE  OnBlockingReturn(u) \/ \E w \in Callers : SaveReturn(w) /\ u \in DOMAIN Arg(w).items
<1>1. PICK r \in Rets : ret'[r].status \in Blocking /\ u \in DOMAIN ret'[r].items
  BY DEF OnBlockingReturn, Items
<1>2. CASE UNCHANGED <<ret, stock>>
  BY <1>1, <1>2 DEF OnBlockingReturn, Items
<1>3. ASSUME NEW w \in Callers, SaveReturn(w)
      PROVE  OnBlockingReturn(u) \/ u \in DOMAIN Arg(w).items
  <2>1. PICK q \in Rets :
          /\ ret'[q] = [status |-> "requested", items |-> Arg(w).items, restocked |-> FALSE]
          /\ \A p \in Rets \ {q} : ret'[p] = ret[p]
    BY <1>3, SaveEffect
  <2>2. CASE r = q
    BY <1>1, <2>1, <2>2
  <2>3. CASE r # q
    BY <1>1, <2>1, <2>3 DEF OnBlockingReturn, Items
  <2> QED
    BY <2>2, <2>3
<1>4. ASSUME NEW w \in Callers, Restock(w) PROVE OnBlockingReturn(u)
  <2>1. PICK q \in Rets :
          /\ ret[q].status = "approved" /\ ret'[q].items = ret[q].items
          /\ \A p \in Rets \ {q} : ret'[p] = ret[p]
    BY ZenonT(30), <1>4, RestockEffect
  <2> QED
    BY <1>1, <2>1 DEF OnBlockingReturn, Items, Blocking
<1>5. ASSUME NEW q \in Rets, NEW from \in ReturnStatus, NEW to \in ReturnStatus, MoveReturn(q, from, to) PROVE OnBlockingReturn(u)
  <2>1. /\ ret'[q].items = ret[q].items /\ ret[q].status = from /\ <<from, to>> \in Moves
        /\ \A p \in Rets \ {q} : ret'[p] = ret[p]
    BY <1>5, MoveEffect DEF MoveReturn
  <2>2. from \in Blocking
    BY <2>1 DEF Moves, Blocking
  <2> QED
    BY <1>1, <2>1, <2>2 DEF OnBlockingReturn, Items
<1> QED
  BY <1>2, <1>3, <1>4, <1>5, RetSteps

\* What a call has checked holds until it writes: whoever could change it would
\* need a lock the call holds.
LEMMA StepChecked ==
    ASSUME TInv, LInv, VInv, UInv, [Next]_vars, NEW x \in Callers
    PROVE  Checked(x)'
<1>1. CASE call'[x] # call[x]
  <2> SUFFICES ASSUME call'[x].op \in Locking, call'[x].pc = "write" PROVE Checked(x)'
    BY DEF Checked, Locking
  <2>1. ~Die(x)
    BY AnswerEffect DEF Die, End, TInv, Locking, BindOps
  <2>2. ~Begin(x)
    <3>1. ASSUME Begin(x) PROVE NewCalls(x)
      BY <1>1, <3>1, BeginCases
    <3> QED
      BY <3>1, NewCallNotAtWork DEF Locking, BindOps
  <2>3. Step(x)
    BY <1>1, <2>1, <2>2, CallSteps
  <2>4. \/ /\ Continues(x) /\ call[x].op \in BindOps /\ MayBind(Arg(x).child, Arg(x).parent)
           /\ UNCHANGED <<asg, ret>>
        \/ /\ Continues(x) /\ call[x].op = "request" /\ ParentsReturnable(DOMAIN Arg(x).items)
           /\ UNCHANGED <<asg, ret>>
    BY <2>3, StepCases DEF Locking, BindOps, Continues
  <2>5. Arg(x)' = Arg(x) /\ \A u : OnBlockingReturn(u)' = OnBlockingReturn(u)
    BY <2>4 DEF Continues, BindOps, Arg, OnBlockingReturn, Items
  <2>6. \A S : ParentsReturnable(S)' = ParentsReturnable(S)
    BY <2>4 DEF ParentsReturnable, Assigned, Current, LastRow
  <2> QED
    BY <2>4, <2>5, <2>6 DEF Checked, MayBind, Continues, BindOps
<1>2. CASE call'[x] = call[x]
  <2>1. Checked(x)
    BY DEF UInv
  <2>2. ASSUME call[x].op = "request", call[x].pc = "write" PROVE ParentsReturnable(DOMAIN Arg(x).items)'
    <3>1. PICK S : S = DOMAIN Arg(x).items
      OBVIOUS
    <3>2. ParentsReturnable(S)
      BY <2>1, <2>2, <3>1 DEF Checked
    <3>3. ASSUME NEW t \in Tickets, Assigned(t)' \cap S # {} PROVE t \in S
      <4>1. ASSUME Assigned(t)' \subseteq Assigned(t) PROVE t \in S
        BY <3>2, <3>3, <4>1 DEF ParentsReturnable
      <4>2. CASE UNCHANGED <<asg, bought>>
        BY <4>1, <4>2, SameRows
      <4>3. ASSUME NEW R \in SUBSET Units, asg' = Revoked(R) PROVE t \in S
        BY <4>1, <4>3, RevokedRows
      <4>4. ASSUME NEW w \in Callers, BindWrite(w) PROVE t \in S
        <5>1. call[w] \in BindCalls /\ call[w].pc = "write"
          BY <4>4, BindRows DEF TInv
        <5>2. PICK t0 \in Tickets : t0 = Arg(w).child
          BY <5>1 DEF BindCalls, Arg
        <5>3. PICK c0 \in Cards : c0 = Arg(w).parent
          BY <5>1 DEF BindCalls, Arg
        <5>4. /\ \A y \in Tickets : y # t0 => asg'[y] = asg[y]
              /\ asg' = asg \/ Assigned(t0)' \subseteq {c0}
          BY <4>4, <5>2, <5>3, BoundRows DEF UInv
        <5>5. CASE t # t0 \/ asg' = asg
          BY <4>1, <5>4, <5>5, SameRows
        <5>6. CASE t = t0 /\ Assigned(t0)' \subseteq {c0}
          <6>1. c0 \in S
            BY <3>3, <5>6
          <6>2. w # x /\ call[w].op \in BindOps
            BY <2>2, <5>1 DEF BindCalls, BindOps
          <6>3. c0 \in Wants(w) /\ c0 \in Wants(x)
            BY <2>2, <3>1, <5>3, <6>1, <6>2 DEF Wants, BindOps
          <6> QED
            BY <2>2, <5>1, <6>2, <6>3, LocksExclude DEF Locking
        <5> QED
          BY <5>4, <5>5, <5>6
      <4>5. ASSUME NEW t0 \in Tickets, PurchaseDeferred(t0) PROVE t \in S
        BY <3>3, <4>1, <4>5, DeferredRows, SameRows DEF UInv
      <4> QED
        BY <4>2, <4>3, <4>4, <4>5, RowSteps
    <3>4. ParentsReturnable(S)'
      BY <3>3 DEF ParentsReturnable
    <3> QED
      BY <1>2, <3>1, <3>4 DEF Arg, ParentsReturnable
  <2>3. ASSUME call[x].op \in BindOps, call[x].pc = "write" PROVE MayBind(Arg(x).child, Arg(x).parent)'
    <3>1. PICK t, c : t = Arg(x).child /\ c = Arg(x).parent
      OBVIOUS
    <3>2. ~OnBlockingReturn(t) /\ ~OnBlockingReturn(c)
      BY <2>1, <2>3, <3>1 DEF Checked, MayBind
    <3>3. ASSUME NEW u \in {t, c}, OnBlockingReturn(u)' PROVE FALSE
      <4>1. PICK w \in Callers : SaveReturn(w) /\ u \in DOMAIN Arg(w).items
        BY <3>2, <3>3, BlockingBefore
      <4>2. call[w].op = "request" /\ call[w].pc = "write"
        BY <4>1, SaveEffect
      <4>3. w # x
        BY <2>3, <4>2 DEF BindOps
      <4>4. u \in Wants(w) /\ u \in Wants(x)
        BY <2>3, <3>1, <4>1, <4>2 DEF Wants, BindOps
      <4> QED
        BY <2>3, <4>2, <4>3, <4>4, LocksExclude DEF Locking
    <3>4. ~OnBlockingReturn(t)' /\ ~OnBlockingReturn(c)'
      BY <3>3
    <3> QED
      BY <1>2, <3>1, <3>4 DEF MayBind, Arg, OnBlockingReturn
  <2> QED
    BY <1>2, <2>2, <2>3 DEF Checked
<1> QED
  BY <1>1, <1>2

\* A step that binds no ticket to a card on its way back, and leaves the returns
\* alone, keeps them apart.
LEMMA BindKeepsUnbound ==
    ASSUME TInv, VInv, UInv, [Next]_vars, ret' = ret, NEW r \in Rets, NEW t \in Tickets
    PROVE  /\ ret[r].status \in Blocking /\ Assigned(t)' \cap Items(r) # {} => t \in Items(r)
           /\ ret[r].status \in {"approved", "received", "refunded"} /\ t \in Items(r) => Current(t)' = 0
<1>1. /\ ret[r].status \in Blocking /\ Assigned(t) \cap Items(r) # {} => t \in Items(r)
      /\ ret[r].status \in {"approved", "received", "refunded"} /\ t \in Items(r) => Current(t) = 0
  BY DEF UInv, ReturnedUnitsAreUnbound
<1>2. CASE UNCHANGED <<asg, bought>>
  BY <1>1, <1>2, SameRows
<1>3. ASSUME NEW S \in SUBSET Units, asg' = Revoked(S)
      PROVE  Current(t)' \in {0, Current(t)} /\ Assigned(t)' \subseteq Assigned(t)
  BY <1>3, RevokedRows
<1>4. ASSUME NEW w \in Callers, BindWrite(w)
      PROVE  /\ ret[r].status \in Blocking /\ Assigned(t)' \cap Items(r) # {} => t \in Items(r)
             /\ ret[r].status \in {"approved", "received", "refunded"} /\ t \in Items(r) => Current(t)' = 0
  <2>1. call[w] \in BindCalls /\ call[w].pc = "write"
    BY <1>4, BindRows DEF TInv
  <2>2. PICK t0 \in Tickets : t0 = Arg(w).child
    BY <2>1 DEF BindCalls, Arg
  <2>3. PICK c0 \in Cards : c0 = Arg(w).parent
    BY <2>1 DEF BindCalls, Arg
  <2>4. /\ \A y \in Tickets : y # t0 => asg'[y] = asg[y]
        /\ asg' = asg \/ Assigned(t0)' \subseteq {c0}
    BY <1>4, <2>2, <2>3, BoundRows DEF UInv
  <2>5. ~OnBlockingReturn(t0) /\ ~OnBlockingReturn(c0)
    BY <2>1, <2>2, <2>3 DEF UInv, Checked, MayBind, BindCalls
  <2>6. CASE t # t0 \/ asg' = asg
    BY <1>1, <2>4, <2>6, SameRows
  <2>7. CASE t = t0 /\ Assigned(t0)' \subseteq {c0}
    BY <2>5, <2>7 DEF OnBlockingReturn, Blocking
  <2> QED
    BY <2>4, <2>6, <2>7
<1>5. ASSUME NEW t0 \in Tickets, PurchaseDeferred(t0)
      PROVE  /\ ret[r].status \in Blocking /\ Assigned(t)' \cap Items(r) # {} => t \in Items(r)
             /\ ret[r].status \in {"approved", "received", "refunded"} /\ t \in Items(r) => Current(t)' = 0
  <2>1. t0 \notin bought /\ Assigned(t0)' = {} /\ \A x \in Tickets : x # t0 => asg'[x] = asg[x]
    BY <1>5, DeferredRows DEF UInv
  <2>2. Items(r) \subseteq bought
    BY DEF TInv, TypeOK
  <2>3. CASE t = t0
    BY <2>1, <2>2, <2>3
  <2>4. CASE t # t0
    BY <1>1, <2>1, <2>4, SameRows
  <2> QED
    BY <2>3, <2>4
<1> QED
  BY <1>1, <1>2, <1>3, <1>4, <1>5, RowSteps

\* A return that is saved or that moves on takes no bound card with it, and an
\* approval or a refund revokes what its tickets are bound to.
LEMMA StepUnbound ==
    ASSUME TInv, VInv, UInv, [Next]_vars
    PROVE  ReturnedUnitsAreUnbound'
<1> SUFFICES ASSUME NEW r \in Rets, NEW t \in Tickets
             PROVE  LET I == DOMAIN ret'[r].items IN
                    /\ ret'[r].status \in Blocking /\ Assigned(t)' \cap I # {} => t \in I
                    /\ ret'[r].status \in {"approved", "received", "refunded"} /\ t \in I => Current(t)' = 0
  BY DEF ReturnedUnitsAreUnbound, Items
<1>1. /\ ret[r].status \in Blocking /\ Assigned(t) \cap Items(r) # {} => t \in Items(r)
      /\ ret[r].status \in {"approved", "received", "refunded"} /\ t \in Items(r) => Current(t) = 0
  BY DEF UInv, ReturnedUnitsAreUnbound
<1> DEFINE Apart ==
      LET I == DOMAIN ret'[r].items IN
      /\ ret'[r].status \in Blocking /\ Assigned(t)' \cap I # {} => t \in I
      /\ ret'[r].status \in {"approved", "received", "refunded"} /\ t \in I => Current(t)' = 0
<1>2. ASSUME ret' = ret PROVE Apart
  BY <1>2, BindKeepsUnbound DEF Items
<1>3. ASSUME NEW w \in Callers, SaveReturn(w) PROVE Apart
  <2>1. asg' = asg /\ call[w].op = "request" /\ call[w].pc = "write"
    BY <1>3, SaveEffect
  <2>2. Current(t)' = Current(t) /\ Assigned(t)' = Assigned(t)
    BY <2>1, SameRows
  <2>3. ParentsReturnable(DOMAIN Arg(w).items)
    BY <2>1 DEF UInv, Checked
  <2>4. PICK q \in Rets :
          /\ ret'[q] = [status |-> "requested", items |-> Arg(w).items, restocked |-> FALSE]
          /\ \A p \in Rets \ {q} : ret'[p] = ret[p]
    BY <1>3, SaveEffect
  <2>5. CASE r = q
    <3>1. ret'[r].status = "requested" /\ ret'[r].items = Arg(w).items
      BY <2>4, <2>5
    <3> QED
      BY <2>2, <2>3, <3>1 DEF ParentsReturnable
  <2>6. CASE r # q
    BY <1>1, <2>2, <2>4, <2>6 DEF Items
  <2> QED
    BY <2>5, <2>6
<1>4. ASSUME NEW w \in Callers, Restock(w) PROVE Apart
  <2>1. asg' = asg
    BY <1>4, RestockEffect
  <2>2. Current(t)' = Current(t) /\ Assigned(t)' = Assigned(t)
    BY <2>1, SameRows
  <2>3. PICK q \in Rets :
          /\ ret[q].status = "approved" /\ ret'[q].items = ret[q].items
          /\ \A p \in Rets \ {q} : ret'[p] = ret[p]
    BY <1>4, RestockEffect
  <2> QED
    BY <1>1, <2>2, <2>3 DEF Items, Blocking
<1>5. ASSUME NEW q \in Rets, NEW from \in ReturnStatus, NEW to \in ReturnStatus, MoveReturn(q, from, to) PROVE Apart
  <2>1. /\ ret'[q].status = to /\ ret'[q].items = ret[q].items /\ ret[q].status = from /\ <<from, to>> \in Moves
        /\ \A p \in Rets \ {q} : ret'[p] = ret[p]
        /\ asg' = IF to \in {"approved", "refunded"} THEN Revoked(Items(q)) ELSE asg
    BY <1>5, MoveEffect DEF MoveReturn
  <2>2. /\ from \in Blocking
        /\ to \in {"approved", "refunded"} \/ to \in {"rejected", "cancelled"}
    BY <2>1 DEF Moves, Blocking
  <2>3. Current(t)' \in {0, Current(t)} /\ Assigned(t)' \subseteq Assigned(t)
    BY <2>1, RevokedRows, SameRows
  <2>4. CASE r # q
    BY <1>1, <2>1, <2>3, <2>4 DEF Items
  <2>5. CASE r = q /\ to \in {"approved", "refunded"}
    <3>1. t \in Items(q) => Current(t)' = 0
      BY <2>1, <2>5, RevokedRows
    <3> QED
      BY <1>1, <2>1, <2>2, <2>3, <2>5, <3>1 DEF Items
  <2>6. CASE r = q /\ to \in {"rejected", "cancelled"}
    BY <2>1, <2>6 DEF Blocking
  <2> QED
    BY <2>2, <2>4, <2>5, <2>6
<1> QED
  BY <1>2, <1>3, <1>4, <1>5, RetSteps

\* The invariant of the bound units holds at first and is kept by every step.
LEMMA InitUInv == Init => UInv
<1> SUFFICES ASSUME Init PROVE UInv
  OBVIOUS
<1>1. \A r \in Rets : ret[r].status = "absent"
  BY DEF Init, NoReturn
<1>2. \A w \in Callers : call[w].op = "idle"
  BY DEF Init, Idle
<1>3. RowsOK
  <2> SUFFICES ASSUME NEW t \in Tickets
               PROVE  /\ t \notin bought => asg[t] = <<>>
                      /\ \A i \in 1..Len(asg[t]) : i # Len(asg[t]) => asg[t][i].status = "revoked"
    BY DEF RowsOK
  <2>1. asg[t] = IF t \in bought THEN <<Unbound>> ELSE <<>>
    BY DEF Init
  <2>2. CASE t \in bought
    <3>1. Len(asg[t]) = 1
      BY <2>1, <2>2
    <3> QED
      BY <2>2, <3>1
  <2>3. CASE t \notin bought
    BY <2>1, <2>3
  <2> QED
    BY <2>2, <2>3
<1>4. ReturnedUnitsAreUnbound
  BY <1>1 DEF ReturnedUnitsAreUnbound, Blocking
<1>5. \A w \in Callers : Checked(w)
  BY <1>2 DEF Checked, BindOps
<1> QED
  BY <1>3, <1>4, <1>5 DEF UInv

\* Every step keeps UInv.
LEMMA StepUInv == TInv /\ LInv /\ VInv /\ UInv /\ [Next]_vars => UInv'
<1> SUFFICES ASSUME TInv, LInv, VInv, UInv, [Next]_vars PROVE UInv'
  OBVIOUS
<1>1. RowsOK'
  BY StepRowsOK DEF UInv
<1>2. ReturnedUnitsAreUnbound'
  BY StepUnbound
<1>3. \A x \in Callers : Checked(x)'
  BY StepChecked
<1> QED
  BY <1>1, <1>2, <1>3 DEF UInv

\* However binds, purchases, revocations and returns interleave, fail and die, a
\* card is never on its way back without the tickets bound to it, and a ticket
\* whose return is approved is bound to nothing: the unit locks of
\* LockAssignmentUnits and the second look under them suffice.
THEOREM UnboundCorrect == Spec => []ReturnedUnitsAreUnbound
<1>1. Init => TInv /\ LInv /\ VInv /\ UInv
  BY InitTInv, InitLInv, InitVInv, InitUInv
<1>2. TInv /\ LInv /\ VInv /\ UInv /\ [Next]_vars => (TInv /\ LInv /\ VInv /\ UInv)'
  BY StepTInv, StepLInv, StepVInv, StepUInv
<1>3. UInv => ReturnedUnitsAreUnbound
  BY DEF UInv
<1> QED
  BY <1>1, <1>2, <1>3, PTL DEF Spec
==============================================================================
