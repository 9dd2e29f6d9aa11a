--------------------------- MODULE CheckoutProofs ----------------------------
(***************************************************************************)
(* Theorems of Checkout, for every set of attempts, variants, webhook       *)
(* handlers and administrators, every price and every amount of credit:     *)
(* type correctness, payments that move forward, an accepted charge that    *)
(* keeps its order, credit that comes back once, and a refusal that leaves  *)
(* nothing behind.  PInv ties the progress of an attempt to its order,      *)
(* payment and events; KInv adds its credit, AInv why orders fail, HInv the *)
(* holds of attempts that end without a fault.  BooksInv counts the units   *)
(* of a variant, HoldsInv says what an attempt holds when it saves an order.*)
(***************************************************************************)
EXTENDS Checkout, FiniteSetTheorems, TLAPS

------------------------------------------------------------------------------
(* The inductive invariant *)

BeforeOrder == {"reserve", "credit", "redeem", "save", "rollback", "release", "refused"}
AfterOrder == {"snapshot", "ship", "pay", "initiate", "record", "done", "stopped",
               "unpaid", "fail", "lookup", "notify", "refund"}
Compensating == {"fail", "lookup", "notify", "refund"}

\* The progress of an attempt says whether its order is saved; nobody but the
\* attempt saves it, and an administrator has read it from the table.
OrdersFollow ==
    /\ \A a \in Attempts :
          /\ attempt[a].pc \in BeforeOrder => order[a] = "absent"
          /\ attempt[a].pc \in AfterOrder => order[a] # "absent"
    /\ \A m \in Admins : admin[m] # Idle => order[admin[m].order] # "absent"

\* The row of a payment that its attempt has not recorded an answer in.
Unanswered == [status |-> "pending", ref |-> FALSE, ver |-> 1]

\* The progress of an attempt says what its payments row is; the context knows
\* what the provider has answered.
PaymentsFollow ==
    \A a \in Attempts :
        /\ attempt[a].pc \in (BeforeOrder \cup {"snapshot", "ship", "pay"}) =>
              payment[a] = NoPayment /\ attempt[a].answer = "none"
        /\ attempt[a].pc = "initiate" => payment[a] = Unanswered /\ attempt[a].answer = "none"
        /\ attempt[a].pc = "record" => payment[a] = Unanswered /\ attempt[a].answer # "none"
        /\ attempt[a].answer \in {"none", "captured", "declined"} => intent[a] = attempt[a].answer
        /\ attempt[a].answer = "accepted" => intent[a] \in {"accepted", "charged", "returned"}
        /\ attempt[a].answer \in {"none", "declined"} => payment[a].status \in {"absent", "pending", "failed"}
        /\ attempt[a].pc \in Compensating => attempt[a].answer \in {"none", "declined"}

\* The provider speaks of payments that the customer could confirm, and their
\* attempts have ended by then.
EventsFollow ==
    /\ \A a \in Attempts :
          /\ intent[a] \in {"charged", "returned"} => attempt[a].pc = "done"
          /\ attempt[a].pc = "done" /\ attempt[a].answer = "accepted" => payment[a].ver >= 2
    /\ \A e \in sent : attempt[e.order].pc = "done" /\ attempt[e.order].answer = "accepted"

\* What a handler has read of a payment is still so when the version is, and a
\* failed payment stays one.
HandlersFollow ==
    \A h \in Handlers :
        handler[h] # Idle =>
            /\ handler[h].event \in sent
            /\ handler[h].ver <= payment[handler[h].event.order].ver
            /\ handler[h].pc = "write" /\ handler[h].ver = payment[handler[h].event.order].ver =>
                  payment[handler[h].event.order].status = Needs(handler[h].event)
            /\ handler[h].pc \in {"fail", "restore"} =>
                  handler[h].event.type = "failed" /\ payment[handler[h].event.order].status = "failed"

PInv == TypeOK /\ OrdersFollow /\ PaymentsFollow /\ EventsFollow /\ HandlersFollow

\* What was redeemed for an order is what its context says, and it came back in
\* full under the key or not at all; without an order it may have come back once
\* in the rollback.
CreditFollows ==
    \A a \in Attempts :
        /\ attempt[a].pc \in {"reserve", "credit", "redeem"} => credit.redeemed[a] = 0
        /\ attempt[a].pc \in {"reserve", "credit", "redeem", "save", "rollback"} => credit.restored[a] = 0
        /\ attempt[a].pc \in {"save", "rollback"} \/ order[a] # "absent" => credit.redeemed[a] = attempt[a].credit
        /\ order[a] = "absent" => a \notin credit.keys /\ credit.restored[a] <= credit.redeemed[a]
        /\ order[a] # "absent" => credit.restored[a] = IF a \in credit.keys THEN attempt[a].credit ELSE 0

\* An order fails only for want of a payment, not before its payment was tried,
\* and then stays failed.
FailuresFollow ==
    \A a \in Attempts :
        /\ attempt[a].pc \in {"snapshot", "ship", "pay", "initiate", "record"} => order[a] = "pending"
        /\ order[a] = "failed" => attempt[a].answer \in {"none", "declined"} \/ payment[a].status = "failed"
        /\ attempt[a].pc \in {"notify", "refund"} => order[a] = "failed"
        /\ a \in credit.keys => order[a] = "failed"

\* Without a fault nothing but the missing stock or the missing balance ends an
\* attempt, and the holds it has are those its context lists.
HoldsFollow ==
    faults = 0 =>
        \A a \in Attempts :
            attempt[a].pc \in {"release", "refused"} =>
                Held(a) = IF attempt[a].pc = "release" THEN attempt[a].listed ELSE {}

\* Credit is redeemed last before the order is saved: to lose it takes a failed
\* Save, and a failed Restore.
LossesCost ==
    \A a \in Attempts :
        /\ attempt[a].pc = "rollback" => faults >= 1
        /\ attempt[a].pc \in {"release", "refused"} => credit.restored[a] = credit.redeemed[a] \/ faults >= 2

\* An amount of credit that came back has been redeemed.
RestoredWithinRedeemed == \A a \in Attempts : credit.restored[a] <= credit.redeemed[a]

------------------------------------------------------------------------------
(* What the pieces of an action change *)

Contexts == [pc : Pc, wanted : Wanted, credit : Nat, answer : Answers, listed : SUBSET Variants]
Webhooks == [pc : {"write", "fail", "restore"}, event : Event, ver : Nat]
Accounts == [balance : Nat, redeemed : [Attempts -> Nat], restored : [Attempts -> Nat], keys : SUBSET Attempts]

Moved(a, pc) ==
    /\ attempt'[a].pc = pc
    /\ attempt'[a].credit = attempt[a].credit
    /\ attempt'[a].answer = attempt[a].answer
    /\ \A b \in Attempts \ {a} : attempt'[b] = attempt[b]

\* One attempt gets a new context.
LEMMA SetContext ==
    ASSUME TypeOK, NEW a \in Attempts, NEW r \in Contexts, attempt' = [attempt EXCEPT ![a] = r]
    PROVE  /\ attempt' \in [Attempts -> Contexts]
           /\ attempt'[a] = r
           /\ \A b \in Attempts \ {a} : attempt'[b] = attempt[b]
           /\ r.credit = attempt[a].credit /\ r.answer = attempt[a].answer => Moved(a, r.pc)
BY DEF TypeOK, Contexts, Moved

\* Goto changes the progress of one attempt.
LEMMA GotoEffect ==
    ASSUME TypeOK, NEW a \in Attempts, NEW pc \in Pc, Goto(a, pc)
    PROVE  /\ attempt' \in [Attempts -> Contexts]
           /\ Moved(a, pc)
           /\ attempt'[a].listed = attempt[a].listed
<1> DEFINE r == [attempt[a] EXCEPT !.pc = pc]
<1>1. attempt[a] \in Contexts
  BY DEF TypeOK, Contexts
<1>2. r \in Contexts /\ r.pc = pc /\ r.credit = attempt[a].credit /\ r.answer = attempt[a].answer /\ r.listed = attempt[a].listed
  BY <1>1 DEF Contexts
<1>3. attempt' = [attempt EXCEPT ![a] = r]
  BY DEF Goto
<1> HIDE DEF r
<1> QED
  BY <1>2, <1>3, SetContext

\* Refuse lists the holds of the attempt.
LEMMA RefuseEffect ==
    ASSUME TypeOK, NEW a \in Attempts, Refuse(a)
    PROVE  /\ attempt' \in [Attempts -> Contexts]
           /\ Moved(a, "release")
           /\ attempt'[a].listed = Held(a)
<1> DEFINE r == [attempt[a] EXCEPT !.pc = "release", !.listed = Held(a)]
<1>1. Held(a) \in SUBSET Variants /\ "release" \in Pc
  BY DEF Held, Pc
<1>2. attempt[a] \in Contexts
  BY DEF TypeOK, Contexts
<1>3. r \in Contexts /\ r.pc = "release" /\ r.credit = attempt[a].credit /\ r.answer = attempt[a].answer /\ r.listed = Held(a)
  BY <1>1, <1>2 DEF Contexts
<1>4. attempt' = [attempt EXCEPT ![a] = r]
  BY DEF Refuse
<1> HIDE DEF r
<1> QED
  BY ZenonT(30), <1>3, <1>4, SetContext

\* A webhook request that has read its payment has an event and a version.
LEMMA WebhookShape ==
    ASSUME TypeOK, NEW h \in Handlers
    PROVE  /\ handler[h] = Idle \/ handler[h] \in Webhooks
           /\ handler[h].pc = "idle" <=> handler[h] = Idle
           /\ handler[h] # Idle =>
                 /\ handler[h].event \in Event /\ handler[h].event.order \in Attempts
                 /\ handler[h].ver \in Nat
                 /\ handler[h].pc \in {"write", "fail", "restore"}
BY DEF TypeOK, Webhooks, Idle, Event

\* RestoreOnce gives back what the context says, once.
LEMMA RestoreOnceEffect ==
    ASSUME TypeOK, NEW a \in Attempts, RestoreOnce(a)
    PROVE  /\ credit' \in Accounts
           /\ credit'.redeemed = credit.redeemed
           /\ \A b \in Attempts \ {a} : credit'.restored[b] = credit.restored[b] /\ (b \in credit'.keys <=> b \in credit.keys)
           /\ attempt[a].credit = 0 \/ a \in credit.keys =>
                 credit'.restored[a] = credit.restored[a] /\ (a \in credit'.keys <=> a \in credit.keys)
           /\ attempt[a].credit # 0 /\ a \notin credit.keys =>
                 credit'.restored[a] = credit.restored[a] + attempt[a].credit /\ a \in credit'.keys
<1>1. attempt[a].credit \in Nat
  BY DEF TypeOK
<1>2. CASE attempt[a].credit = 0 \/ KeyUsed(a)
  BY <1>2 DEF RestoreOnce, KeyUsed, TypeOK, Accounts
<1>3. CASE ~(attempt[a].credit = 0 \/ KeyUsed(a))
  <2>1. credit' = [credit EXCEPT !.balance = @ + attempt[a].credit, !.restored[a] = @ + attempt[a].credit, !.keys = @ \cup {a}]
    BY <1>3 DEF RestoreOnce
  <2>2. /\ credit'.balance = credit.balance + attempt[a].credit
        /\ credit'.redeemed = credit.redeemed
        /\ credit'.restored = [credit.restored EXCEPT ![a] = @ + attempt[a].credit]
        /\ credit'.keys = credit.keys \cup {a}
    BY <2>1 DEF TypeOK
  <2>3. credit'.balance \in Nat /\ credit'.redeemed \in [Attempts -> Nat] /\ credit'.restored \in [Attempts -> Nat] /\ credit'.keys \in SUBSET Attempts
    BY <2>2, <1>1 DEF TypeOK
  <2>4. credit' = [balance |-> credit'.balance, redeemed |-> credit'.redeemed, restored |-> credit'.restored, keys |-> credit'.keys]
    BY <2>1 DEF TypeOK
  <2>5. credit' \in Accounts
    BY <2>3, <2>4 DEF Accounts
  <2> QED
    BY <1>3, <2>2, <2>5 DEF KeyUsed, TypeOK
<1> QED
  BY <1>2, <1>3
------------------------------------------------------------------------------
(* What a step of an attempt does, apart from stock and holds *)

Quiet == UNCHANGED <<credit, order, payment, admin, intent, sent, acked, handler>>

\* The moves of an attempt that change no row.
PlainMove(a, pc) ==
    \/ At(a, "reserve") /\ pc \in {"reserve", "credit", "release"}
    \/ At(a, "credit") /\ pc \in {"release", "refused"}
    \/ At(a, "redeem") /\ pc = "release"
    \/ At(a, "save") /\ pc = "rollback"
    \/ At(a, "rollback") /\ pc = "release"
    \/ At(a, "release") /\ pc \in {"release", "refused"}
    \/ At(a, "snapshot") /\ pc \in {"ship", "unpaid"}
    \/ At(a, "ship") /\ pc \in {"done", "pay", "unpaid"}
    \/ attempt[a].pc \in {"pay", "initiate", "record"} /\ pc = "unpaid"
    \/ At(a, "unpaid") /\ (pc = "stopped" \/ (pc = "fail" /\ ~ChargeAccepted(a)))
    \/ attempt[a].pc \in Compensating /\ pc = "stopped"
    \/ At(a, "lookup") /\ pc = "notify" /\ order[a] = "failed"
    \/ At(a, "notify") /\ pc = "refund" /\ order[a] # "failed"
    \/ attempt[a].pc \notin Over /\ pc = "dead"

Plain(a) == Quiet /\ \E pc \in Pc : PlainMove(a, pc) /\ Moved(a, pc)

Applied(a) ==
    /\ At(a, "credit") /\ Quiet
    /\ attempt'[a].pc = IF attempt'[a].credit = 0 THEN "save" ELSE "redeem"
    /\ attempt'[a].answer = attempt[a].answer
    /\ \A b \in Attempts \ {a} : attempt'[b] = attempt[b]

Redeemed(a) ==
    /\ At(a, "redeem") /\ Moved(a, "save")
    /\ credit'.redeemed = [credit.redeemed EXCEPT ![a] = attempt[a].credit]
    /\ credit'.restored = credit.restored /\ credit'.keys = credit.keys
    /\ UNCHANGED <<order, payment, admin, intent, sent, acked, handler>>

Saved(a) ==
    /\ At(a, "save") /\ Moved(a, "snapshot")
    /\ order' = [order EXCEPT ![a] = "pending"]
    /\ UNCHANGED <<credit, payment, admin, intent, sent, acked, handler>>

RolledBack(a) ==
    /\ At(a, "rollback") /\ Moved(a, "release")
    /\ credit'.restored = [credit.restored EXCEPT ![a] = @ + attempt[a].credit]
    /\ credit'.redeemed = credit.redeemed /\ credit'.keys = credit.keys
    /\ UNCHANGED <<order, payment, admin, intent, sent, acked, handler>>

Created(a) ==
    /\ At(a, "pay") /\ Moved(a, "initiate")
    /\ payment' = [payment EXCEPT ![a] = Unanswered]
    /\ UNCHANGED <<credit, order, admin, intent, sent, acked, handler>>

Answered(a) ==
    /\ At(a, "initiate")
    /\ attempt'[a].pc = "record" /\ attempt'[a].credit = attempt[a].credit
    /\ attempt'[a].answer \in {"accepted", "captured", "declined"}
    /\ \A b \in Attempts \ {a} : attempt'[b] = attempt[b]
    /\ intent' = [intent EXCEPT ![a] = attempt'[a].answer]
    /\ UNCHANGED <<credit, order, payment, admin, sent, acked, handler>>

Recorded(a) ==
    /\ At(a, "record")
    /\ \E pc \in {"done", "unpaid"} : Moved(a, pc)
    /\ \E s \in {"pending", "completed", "failed"}, r \in BOOLEAN :
          /\ payment' = [payment EXCEPT ![a] = [status |-> s, ref |-> r, ver |-> 2]]
          /\ s = "completed" <=> intent[a] = "captured"
          /\ s = "failed" <=> intent[a] = "declined"
    /\ UNCHANGED <<credit, order, admin, intent, sent, acked, handler>>

Failed(a) ==
    /\ At(a, "fail") /\ Moved(a, "lookup")
    /\ FailIfPending(a)
    /\ UNCHANGED <<credit, payment, admin, intent, sent, acked, handler>>

Returned(a) ==
    /\ \/ At(a, "notify") /\ order[a] = "failed" /\ Moved(a, "refund")
       \/ At(a, "refund") /\ Moved(a, "stopped")
    /\ RestoreOnce(a)
    /\ UNCHANGED <<order, payment, admin, intent, sent, acked, handler>>

AttemptEffect(a) ==
    \/ Plain(a) \/ Applied(a) \/ Redeemed(a) \/ Saved(a) \/ RolledBack(a) \/ Created(a)
    \/ Answered(a) \/ Recorded(a) \/ Failed(a) \/ Returned(a)
\* reserve_inventory moves on, and takes units that are in stock.
LEMMA ReserveEffect ==
    ASSUME TypeOK, NEW a \in Attempts, Reserve(a)
    PROVE  TypeOK' /\ Plain(a)
<1>1. At(a, "reserve") /\ Quiet
  BY DEF Reserve, Quiet, web
<1>2. CASE \E v \in Variants \ Held(a) :
            /\ InStock(v)
            /\ stock' = [stock EXCEPT ![v] = @ - 1]
            /\ hold' = [hold EXCEPT ![a][v] = "active"]
            /\ Goto(a, IF Held(a) \cup {v} = Variants THEN "credit" ELSE "reserve")
            /\ NoFault
  <2>1. PICK v \in Variants \ Held(a) :
            /\ InStock(v)
            /\ stock' = [stock EXCEPT ![v] = @ - 1]
            /\ hold' = [hold EXCEPT ![a][v] = "active"]
            /\ Goto(a, IF Held(a) \cup {v} = Variants THEN "credit" ELSE "reserve")
            /\ NoFault
    BY <1>2
  <2>2. stock' \in [Variants -> Nat] /\ hold' \in [Attempts -> [Variants -> {"none", "active", "ended"}]]
    BY <2>1 DEF InStock, TypeOK
  <2>3. PICK pc \in {"credit", "reserve"} : Goto(a, pc)
    BY <2>1
  <2>4. pc \in Pc
    BY DEF Pc
  <2>5. attempt' \in [Attempts -> Contexts] /\ Moved(a, pc)
    BY <2>3, <2>4, GotoEffect
  <2> QED
    BY <1>1, <2>1, <2>2, <2>4, <2>5 DEF TypeOK, Quiet, Plain, PlainMove, Contexts, NoFault
<1>3. CASE /\ IF \E v \in Variants \ Held(a) : ~InStock(v) THEN NoFault ELSE Fault
           /\ Refuse(a)
           /\ UNCHANGED <<stock, hold>>
  <2>1. faults' \in Nat
    BY <1>3 DEF NoFault, Fault, TypeOK
  <2>2. attempt' \in [Attempts -> Contexts] /\ Moved(a, "release") /\ "release" \in Pc
    BY <1>3, RefuseEffect DEF Pc
  <2> QED
    BY <1>1, <1>3, <2>1, <2>2 DEF TypeOK, Quiet, Plain, PlainMove, Contexts
<1> QED
  BY <1>2, <1>3 DEF Reserve
\* The counter of faults stays one.
LEMMA FaultEffect ==
    ASSUME TypeOK, Fault \/ NoFault
    PROVE  faults' \in Nat
BY DEF TypeOK, Fault, NoFault

\* A plain move whose new context, stock and holds have their types.
LEMMA PlainEffect ==
    ASSUME TypeOK, Quiet, NEW a \in Attempts, NEW pc \in Pc, PlainMove(a, pc), Moved(a, pc),
           attempt' \in [Attempts -> Contexts], UNCHANGED <<stock, hold>>, Fault \/ NoFault
    PROVE  TypeOK' /\ Plain(a)
BY FaultEffect DEF TypeOK, Quiet, Plain, Contexts

\* applyStoreCredit decides on an amount within the balance and the price.
LEMMA ReadCreditEffect ==
    ASSUME TypeOK, NEW a \in Attempts, ReadCredit(a)
    PROVE  TypeOK' /\ (Plain(a) \/ Applied(a))
<1> DEFINE amount == SmallerOf(attempt[a].wanted, SmallerOf(credit.balance, Price))
           pc == IF amount = 0 THEN "save" ELSE "redeem"
           r == [attempt[a] EXCEPT !.pc = pc, !.credit = amount]
<1>1. At(a, "credit") /\ Quiet /\ UNCHANGED <<stock, hold>>
  BY DEF ReadCredit, Quiet, web
<1>2. CASE attempt' = [attempt EXCEPT ![a].pc = pc, ![a].credit = amount] /\ NoFault
  <2>1. amount \in Nat
    BY CheckoutAssumption DEF SmallerOf, TypeOK
  <2>2. attempt' = [attempt EXCEPT ![a] = r]
    BY <1>2
  <2>3. attempt[a] \in Contexts /\ pc \in Pc
    BY DEF TypeOK, Contexts, Pc
  <2> HIDE DEF amount
  <2>4. r \in Contexts /\ r.pc = pc /\ r.credit = amount /\ r.answer = attempt[a].answer
    BY <2>1, <2>3 DEF Contexts
  <2> HIDE DEF r
  <2>5. /\ attempt' \in [Attempts -> Contexts]
        /\ attempt'[a] = r
        /\ \A b \in Attempts \ {a} : attempt'[b] = attempt[b]
    BY <2>2, <2>4, SetContext
  <2>6. Applied(a)
    BY <1>1, <2>4, <2>5 DEF Applied
  <2> QED
    BY <1>1, <1>2, <2>5, <2>6, FaultEffect DEF TypeOK, Quiet, Contexts
<1>3. CASE Refuse(a) /\ Fault
  BY <1>1, <1>3, RefuseEffect, PlainEffect DEF PlainMove, Pc
<1>4. CASE Goto(a, "refused") /\ Fault
  <2>1. "refused" \in Pc
    BY DEF Pc, Over
  <2> QED
    BY <1>1, <1>4, <2>1, GotoEffect, PlainEffect DEF PlainMove
<1> QED
  BY <1>2, <1>3, <1>4 DEF ReadCredit

\* Redeem takes the amount off a balance that covers it.
LEMMA RedeemEffect ==
    ASSUME TypeOK, NEW a \in Attempts, Redeem(a)
    PROVE  TypeOK' /\ (Plain(a) \/ Redeemed(a))
<1> DEFINE amount == attempt[a].credit
<1>1. At(a, "redeem") /\ UNCHANGED <<stock, hold, order, payment, admin, intent, sent, acked, handler>>
  BY DEF Redeem, web
<1>2. CASE /\ credit.balance >= amount
           /\ credit' = [credit EXCEPT !.balance = @ - amount, !.redeemed[a] = amount]
           /\ Goto(a, "save") /\ NoFault
  <2>1. amount \in Nat
    BY DEF TypeOK
  <2>2. /\ credit'.balance = credit.balance - amount
        /\ credit'.redeemed = [credit.redeemed EXCEPT ![a] = amount]
        /\ credit'.restored = credit.restored /\ credit'.keys = credit.keys
    BY <1>2 DEF TypeOK
  <2>3. credit'.balance \in Nat /\ credit'.redeemed \in [Attempts -> Nat] /\ credit'.restored \in [Attempts -> Nat] /\ credit'.keys \in SUBSET Attempts
    BY <1>2, <2>1, <2>2 DEF TypeOK
  <2>4. credit' = [balance |-> credit'.balance, redeemed |-> credit'.redeemed, restored |-> credit'.restored, keys |-> credit'.keys]
    BY <1>2 DEF TypeOK
  <2>5. credit' \in Accounts
    BY <2>3, <2>4 DEF Accounts
  <2>6. attempt' \in [Attempts -> Contexts] /\ Moved(a, "save")
    BY <1>2, GotoEffect DEF Pc
  <2>7. Redeemed(a)
    BY <1>1, <2>2, <2>6 DEF Redeemed
  <2> QED
    BY <1>1, <1>2, <2>5, <2>6, <2>7, FaultEffect DEF TypeOK, Contexts, Accounts
<1>3. CASE (Fault \/ NoFault) /\ Refuse(a) /\ UNCHANGED credit
  <2>1. Quiet
    BY <1>1, <1>3 DEF Quiet
  <2> QED
    BY <1>1, <1>3, <2>1, RefuseEffect, PlainEffect DEF PlainMove, Pc
<1> QED
  BY <1>2, <1>3 DEF Redeem

\* persistOrder.
LEMMA SaveOrderEffect ==
    ASSUME TypeOK, NEW a \in Attempts, SaveOrder(a)
    PROVE  TypeOK' /\ (Plain(a) \/ Saved(a))
<1>1. At(a, "save") /\ UNCHANGED <<stock, hold, credit, payment, admin, intent, sent, acked, handler>>
  BY DEF SaveOrder, web
<1>2. CASE order' = [order EXCEPT ![a] = "pending"] /\ Goto(a, "snapshot") /\ NoFault
  <2>1. attempt' \in [Attempts -> Contexts] /\ Moved(a, "snapshot")
    BY <1>2, GotoEffect DEF Pc
  <2>2. Saved(a)
    BY <1>1, <1>2, <2>1 DEF Saved
  <2> QED
    BY <1>1, <1>2, <2>1, <2>2, FaultEffect DEF TypeOK, Contexts, OrderStatus
<1>3. CASE Fault /\ Goto(a, "rollback") /\ UNCHANGED order
  <2>1. Quiet /\ "rollback" \in Pc
    BY <1>1, <1>3 DEF Quiet, Pc
  <2> QED
    BY <1>1, <1>3, <2>1, GotoEffect, PlainEffect DEF PlainMove
<1> QED
  BY <1>2, <1>3 DEF SaveOrder

\* rollbackAppliedCredit.
LEMMA RollbackCreditEffect ==
    ASSUME TypeOK, NEW a \in Attempts, RollbackCredit(a)
    PROVE  TypeOK' /\ (Plain(a) \/ RolledBack(a))
<1> DEFINE amount == attempt[a].credit
<1>1. At(a, "rollback") /\ UNCHANGED <<stock, hold, order, payment, admin, intent, sent, acked, handler>>
  BY DEF RollbackCredit, web
<1>2. attempt' \in [Attempts -> Contexts] /\ Moved(a, "release") /\ "release" \in Pc
  BY RefuseEffect DEF RollbackCredit, Pc
<1>3. CASE credit' = [credit EXCEPT !.balance = @ + amount, !.restored[a] = @ + amount] /\ NoFault
  <2>1. amount \in Nat
    BY DEF TypeOK
  <2>2. /\ credit'.balance = credit.balance + amount
        /\ credit'.restored = [credit.restored EXCEPT ![a] = @ + amount]
        /\ credit'.redeemed = credit.redeemed /\ credit'.keys = credit.keys
    BY <1>3 DEF TypeOK
  <2>3. credit'.balance \in Nat /\ credit'.redeemed \in [Attempts -> Nat] /\ credit'.restored \in [Attempts -> Nat] /\ credit'.keys \in SUBSET Attempts
    BY <2>1, <2>2 DEF TypeOK
  <2>4. credit' = [balance |-> credit'.balance, redeemed |-> credit'.redeemed, restored |-> credit'.restored, keys |-> credit'.keys]
    BY <1>3 DEF TypeOK
  <2>5. credit' \in Accounts
    BY <2>3, <2>4 DEF Accounts
  <2>6. RolledBack(a)
    BY <1>1, <1>2, <2>2 DEF RolledBack
  <2> QED
    BY <1>1, <1>2, <1>3, <2>5, <2>6, FaultEffect DEF TypeOK, Contexts, Accounts
<1>4. CASE Fault /\ UNCHANGED credit
  <2>1. Quiet
    BY <1>1, <1>4 DEF Quiet
  <2> QED
    BY <1>1, <1>2, <1>4, <2>1, PlainEffect DEF PlainMove
<1> QED
  BY <1>3, <1>4 DEF RollbackCredit
\* releaseCheckoutHolds, hold by hold.
LEMMA ReleaseHoldEffect ==
    ASSUME TypeOK, NEW a \in Attempts, ReleaseHold(a)
    PROVE  TypeOK' /\ Plain(a)
<1>1. At(a, "release") /\ Quiet
  BY DEF ReleaseHold, Quiet, web
<1>2. ASSUME NEW v \in attempt[a].listed,
             attempt' = [attempt EXCEPT ![a].listed = @ \ {v}],
             \/ /\ hold[a][v] = "active"
                /\ hold' = [hold EXCEPT ![a][v] = "ended"]
                /\ stock' = [stock EXCEPT ![v] = @ + 1]
                /\ NoFault
             \/ Fault /\ UNCHANGED <<stock, hold>>
      PROVE  TypeOK' /\ Plain(a)
  <2> DEFINE r == [attempt[a] EXCEPT !.listed = @ \ {v}]
  <2>1. attempt[a] \in Contexts /\ attempt[a].listed \in SUBSET Variants
    BY DEF TypeOK, Contexts
  <2>2. r \in Contexts /\ r.pc = "release" /\ r.credit = attempt[a].credit /\ r.answer = attempt[a].answer
    BY <1>1, <2>1 DEF Contexts, At
  <2>3. attempt' = [attempt EXCEPT ![a] = r]
    BY <1>2
  <2> HIDE DEF r
  <2>4. attempt' \in [Attempts -> Contexts] /\ Moved(a, "release")
    <3>1. attempt' \in [Attempts -> Contexts] /\ Moved(a, r.pc)
      BY ONLY TypeOK, <2>2, <2>3, SetContext
    <3> QED
      BY ONLY <3>1, <2>2
  <2>5. v \in Variants /\ "release" \in Pc
    BY <2>1 DEF Pc
  <2>6. ASSUME hold' = [hold EXCEPT ![a][v] = "ended"], stock' = [stock EXCEPT ![v] = @ + 1]
        PROVE  stock' \in [Variants -> Nat] /\ hold' \in [Attempts -> [Variants -> {"none", "active", "ended"}]]
    BY <2>5, <2>6 DEF TypeOK
  <2>7. stock' \in [Variants -> Nat] /\ hold' \in [Attempts -> [Variants -> {"none", "active", "ended"}]]
    BY <1>2, <2>6 DEF TypeOK
  <2>8. faults' \in Nat
    BY <1>2, FaultEffect
  <2> QED
    BY <1>1, <2>4, <2>5, <2>7, <2>8 DEF TypeOK, Quiet, Plain, PlainMove, Contexts
<1>3. CASE Goto(a, "refused") /\ NoFault /\ UNCHANGED <<stock, hold>>
  <2>1. "refused" \in Pc
    BY DEF Pc, Over
  <2> QED
    BY <1>1, <1>3, <2>1, GotoEffect, PlainEffect DEF PlainMove
<1> QED
  BY <1>2, <1>3 DEF ReleaseHold

\* The end of create_order.
LEMMA SnapshotEffect ==
    ASSUME TypeOK, NEW a \in Attempts, SnapshotExtensions(a)
    PROVE  TypeOK' /\ Plain(a)
<1>1. At(a, "snapshot") /\ Quiet /\ UNCHANGED <<stock, hold>>
  BY DEF SnapshotExtensions, Quiet, web
<1>2. "ship" \in Pc /\ "unpaid" \in Pc
  BY DEF Pc
<1>3. CASE Goto(a, "ship") /\ NoFault
  BY <1>1, <1>2, <1>3, GotoEffect, PlainEffect DEF PlainMove
<1>4. CASE Goto(a, "unpaid") /\ Fault
  BY <1>1, <1>2, <1>4, GotoEffect, PlainEffect DEF PlainMove
<1> QED
  BY <1>3, <1>4 DEF SnapshotExtensions

\* select_shipping.
LEMMA SelectShippingEffect ==
    ASSUME TypeOK, NEW a \in Attempts, SelectShipping(a)
    PROVE  TypeOK' /\ Plain(a)
<1>1. At(a, "ship") /\ Quiet /\ UNCHANGED <<stock, hold>> /\ (Fault \/ NoFault)
  BY DEF SelectShipping, Quiet, web
<1>2. PICK pc \in {"done", "pay", "unpaid"} : Goto(a, pc)
  BY DEF SelectShipping
<1>3. pc \in Pc
  BY DEF Pc, Over
<1> QED
  BY <1>1, <1>2, <1>3, GotoEffect, PlainEffect DEF PlainMove

\* initiate_payment saves its row.
LEMMA CreatePaymentEffect ==
    ASSUME TypeOK, NEW a \in Attempts, CreatePayment(a)
    PROVE  TypeOK' /\ (Plain(a) \/ Created(a))
<1>1. At(a, "pay") /\ UNCHANGED <<stock, hold, credit, order, admin, intent, sent, acked, handler>>
  BY DEF CreatePayment, web
<1>2. CASE payment' = [payment EXCEPT ![a] = Unanswered] /\ Goto(a, "initiate") /\ NoFault
  <2>1. attempt' \in [Attempts -> Contexts] /\ Moved(a, "initiate")
    BY <1>2, GotoEffect DEF Pc
  <2>2. Unanswered \in [status : PaymentStatus, ref : BOOLEAN, ver : Nat]
    BY DEF Unanswered, PaymentStatus
  <2>3. Created(a)
    BY <1>1, <1>2, <2>1 DEF Created
  <2> QED
    BY <1>1, <1>2, <2>1, <2>2, <2>3, FaultEffect DEF TypeOK, Contexts
<1>3. CASE Fault /\ Goto(a, "unpaid") /\ UNCHANGED payment
  <2>1. Quiet /\ "unpaid" \in Pc
    BY <1>1, <1>3 DEF Quiet, Pc
  <2> QED
    BY <1>1, <1>3, <2>1, GotoEffect, PlainEffect DEF PlainMove, At
<1> QED
  BY <1>2, <1>3 DEF CreatePayment, Unanswered

\* The provider is asked, and its answer is in the context when it is known.
LEMMA InitiateEffect ==
    ASSUME TypeOK, NEW a \in Attempts, Initiate(a)
    PROVE  TypeOK' /\ (Plain(a) \/ Answered(a))
<1>1. At(a, "initiate") /\ UNCHANGED <<stock, hold, credit, order, payment, sent, acked, handler, admin>>
  BY DEF Initiate
<1>2. ASSUME NEW answer \in {"accepted", "captured", "declined"},
             attempt' = [attempt EXCEPT ![a].pc = "record", ![a].answer = Meta(answer)],
             intent' = [intent EXCEPT ![a] = answer], NoFault
      PROVE  TypeOK' /\ Answered(a)
  <2> DEFINE r == [attempt[a] EXCEPT !.pc = "record", !.answer = answer]
  <2>1. attempt[a] \in Contexts /\ "record" \in Pc /\ answer \in Answers
    BY DEF TypeOK, Contexts, Pc, Answers
  <2>2. r \in Contexts /\ r.pc = "record" /\ r.credit = attempt[a].credit /\ r.answer = answer
    BY <2>1 DEF Contexts
  <2>3. attempt' = [attempt EXCEPT ![a] = r]
    BY <1>2 DEF Meta
  <2> HIDE DEF r
  <2>4. /\ attempt' \in [Attempts -> Contexts]
        /\ attempt'[a] = r
        /\ \A b \in Attempts \ {a} : attempt'[b] = attempt[b]
    BY <2>2, <2>3, SetContext
  <2>5. Answered(a)
    BY <1>1, <1>2, <2>2, <2>4 DEF Answered
  <2> QED
    BY <1>1, <1>2, <2>1, <2>4, <2>5, FaultEffect DEF TypeOK, Contexts
<1>3. CASE Fault /\ Goto(a, "unpaid") /\ UNCHANGED intent
  <2>1. Quiet /\ "unpaid" \in Pc
    BY <1>1, <1>3 DEF Quiet, Pc
  <2> QED
    BY <1>1, <1>3, <2>1, GotoEffect, PlainEffect DEF PlainMove, At
<1> QED
  BY <1>2, <1>3 DEF Initiate

\* The answer is written to the row.
LEMMA RecordAnswerEffect ==
    ASSUME TypeOK, NEW a \in Attempts, RecordAnswer(a)
    PROVE  TypeOK' /\ (Plain(a) \/ Recorded(a))
<1> DEFINE s == CASE intent[a] = "captured" -> "completed" [] intent[a] = "declined" -> "failed" [] OTHER -> "pending"
           p == [status |-> s, ref |-> intent[a] # "declined", ver |-> 2]
<1>1. At(a, "record") /\ UNCHANGED <<stock, hold, credit, order, admin, intent, sent, acked, handler>>
  BY DEF RecordAnswer, web
<1>2. CASE /\ payment' = [payment EXCEPT ![a] = p]
           /\ \/ Goto(a, IF intent[a] = "declined" THEN "unpaid" ELSE "done") /\ NoFault
              \/ Goto(a, "unpaid") /\ Fault
  <2>1. PICK pc \in {"done", "unpaid"} : Goto(a, pc)
    BY <1>2
  <2>2. pc \in Pc
    BY DEF Pc, Over
  <2>3. attempt' \in [Attempts -> Contexts] /\ Moved(a, pc)
    BY <2>1, <2>2, GotoEffect
  <2>4. /\ s \in {"pending", "completed", "failed"}
        /\ s = "completed" <=> intent[a] = "captured"
        /\ s = "failed" <=> intent[a] = "declined"
    OBVIOUS
  <2>5. PICK r \in BOOLEAN : r = (intent[a] # "declined")
    OBVIOUS
  <2> HIDE DEF s
  <2>6. p = [status |-> s, ref |-> r, ver |-> 2]
    BY <2>5
  <2>7. p \in [status : PaymentStatus, ref : BOOLEAN, ver : Nat]
    BY <2>4, <2>6 DEF PaymentStatus
  <2>8. Recorded(a)
    BY <1>1, <1>2, <2>3, <2>4, <2>6 DEF Recorded
  <2>9. payment' \in [Attempts -> [status : PaymentStatus, ref : BOOLEAN, ver : Nat]]
    <3> HIDE DEF p
    <3> QED
      BY <1>2, <2>7 DEF TypeOK
  <2>10. faults' \in Nat
    BY <1>2, FaultEffect
  <2> QED
    BY <1>1, <2>3, <2>8, <2>9, <2>10 DEF TypeOK, Contexts
<1>3. CASE (Fault \/ NoFault) /\ Goto(a, "unpaid") /\ UNCHANGED payment
  <2>1. Quiet /\ "unpaid" \in Pc
    BY <1>1, <1>3 DEF Quiet, Pc
  <2> QED
    BY <1>1, <1>3, <2>1, GotoEffect, PlainEffect DEF PlainMove, At
<1> QED
  BY <1>2, <1>3 DEF RecordAnswer
\* skipUnpaidCompensation.
LEMMA CheckUnpaidEffect ==
    ASSUME TypeOK, NEW a \in Attempts, CheckUnpaid(a)
    PROVE  TypeOK' /\ Plain(a)
<1>1. At(a, "unpaid") /\ Quiet /\ UNCHANGED <<stock, hold>> /\ (Fault \/ NoFault)
  BY DEF CheckUnpaid, Quiet, web
<1>2. PICK pc \in {"stopped", "fail"} : Goto(a, pc) /\ (pc = "fail" => ~ChargeAccepted(a))
  BY DEF CheckUnpaid
<1>3. pc \in Pc
  BY DEF Pc, Over
<1> QED
  BY <1>1, <1>2, <1>3, GotoEffect, PlainEffect DEF PlainMove

\* FailIfPending keeps statuses statuses.
LEMMA FailIfPendingEffect ==
    ASSUME TypeOK, NEW a \in Attempts, FailIfPending(a)
    PROVE  /\ order' \in [Attempts -> OrderStatus]
           /\ \A b \in Attempts \ {a} : order'[b] = order[b]
           /\ order'[a] = IF order[a] = "pending" THEN "failed" ELSE order[a]
BY DEF FailIfPending, TypeOK, OrderStatus

\* The compensation fails the order.
LEMMA FailOrderEffect ==
    ASSUME TypeOK, NEW a \in Attempts, FailOrder(a)
    PROVE  TypeOK' /\ (Plain(a) \/ Failed(a))
<1>1. At(a, "fail") /\ UNCHANGED <<stock, hold, credit, payment, admin, intent, sent, acked, handler>>
  BY DEF FailOrder, web
<1>2. "lookup" \in Pc /\ "stopped" \in Pc
  BY DEF Pc, Over
<1>3. CASE FailIfPending(a) /\ Goto(a, "lookup") /\ NoFault
  <2>1. attempt' \in [Attempts -> Contexts] /\ Moved(a, "lookup")
    BY <1>2, <1>3, GotoEffect
  <2>2. Failed(a)
    BY <1>1, <1>3, <2>1 DEF Failed
  <2> QED
    BY <1>1, <1>3, <2>1, <2>2, FaultEffect, FailIfPendingEffect DEF TypeOK, Contexts
<1>4. CASE Fault /\ Goto(a, "stopped") /\ UNCHANGED order
  <2>1. Quiet
    BY <1>1, <1>4 DEF Quiet
  <2> QED
    BY <1>1, <1>2, <1>4, <2>1, GotoEffect, PlainEffect DEF PlainMove, At, Compensating
<1> QED
  BY <1>3, <1>4 DEF FailOrder

\* It looks at the order again.
LEMMA LookupOrderEffect ==
    ASSUME TypeOK, NEW a \in Attempts, LookupOrder(a)
    PROVE  TypeOK' /\ Plain(a)
<1>1. At(a, "lookup") /\ Quiet /\ UNCHANGED <<stock, hold>> /\ (Fault \/ NoFault)
  BY DEF LookupOrder, Quiet, web
<1>2. PICK pc \in {"stopped", "notify"} : Goto(a, pc) /\ (pc = "notify" => order[a] = "failed")
  BY DEF LookupOrder
<1>3. pc \in Pc
  BY DEF Pc, Over
<1> QED
  BY <1>1, <1>2, <1>3, GotoEffect, PlainEffect DEF PlainMove, At, Compensating

\* The subscriber of checkout.unpaid_failed.
LEMMA NotifyUnpaidEffect ==
    ASSUME TypeOK, NEW a \in Attempts, NotifyUnpaid(a)
    PROVE  TypeOK' /\ (Plain(a) \/ Returned(a))
<1>1. At(a, "notify") /\ UNCHANGED <<stock, hold, order, payment, admin, intent, sent, acked, handler>>
  BY DEF NotifyUnpaid, web
<1>2. "refund" \in Pc /\ "stopped" \in Pc
  BY DEF Pc, Over
<1>3. CASE order[a] = "failed" /\ RestoreOnce(a) /\ Goto(a, "refund") /\ NoFault
  <2>1. attempt' \in [Attempts -> Contexts] /\ Moved(a, "refund")
    BY <1>2, <1>3, GotoEffect
  <2>2. Returned(a)
    BY <1>1, <1>3, <2>1 DEF Returned
  <2>3. credit' \in Accounts
    BY <1>3, RestoreOnceEffect
  <2> QED
    BY <1>1, <1>3, <2>1, <2>2, <2>3, FaultEffect DEF TypeOK, Contexts, Accounts
<1>4. CASE order[a] # "failed" /\ UNCHANGED credit /\ Goto(a, "refund") /\ NoFault
  <2>1. Quiet
    BY <1>1, <1>4 DEF Quiet
  <2> QED
    BY <1>1, <1>2, <1>4, <2>1, GotoEffect, PlainEffect DEF PlainMove
<1>5. CASE Fault /\ Goto(a, "stopped") /\ UNCHANGED credit
  <2>1. Quiet
    BY <1>1, <1>5 DEF Quiet
  <2> QED
    BY <1>1, <1>2, <1>5, <2>1, GotoEffect, PlainEffect DEF PlainMove, At, Compensating
<1> QED
  BY <1>3, <1>4, <1>5 DEF NotifyUnpaid

\* refundCompensatedCredit.
LEMMA RefundCreditEffect ==
    ASSUME TypeOK, NEW a \in Attempts, RefundCredit(a)
    PROVE  TypeOK' /\ (Plain(a) \/ Returned(a))
<1>1. At(a, "refund") /\ UNCHANGED <<stock, hold, order, payment, admin, intent, sent, acked, handler>>
  BY DEF RefundCredit, web
<1>2. "stopped" \in Pc
  BY DEF Pc, Over
<1>3. attempt' \in [Attempts -> Contexts] /\ Moved(a, "stopped")
  BY <1>2, GotoEffect DEF RefundCredit
<1>4. CASE RestoreOnce(a) /\ NoFault
  <2>1. Returned(a)
    BY <1>1, <1>3, <1>4 DEF Returned
  <2>2. credit' \in Accounts
    BY <1>4, RestoreOnceEffect
  <2> QED
    BY <1>1, <1>3, <1>4, <2>1, <2>2, FaultEffect DEF TypeOK, Contexts, Accounts
<1>5. CASE Fault /\ UNCHANGED credit
  <2>1. Quiet
    BY <1>1, <1>5 DEF Quiet
  <2> QED
    BY <1>1, <1>2, <1>3, <1>5, <2>1, PlainEffect DEF PlainMove, At, Compensating
<1> QED
  BY <1>4, <1>5 DEF RefundCredit

\* The process ends.
LEMMA CrashEffect ==
    ASSUME TypeOK, NEW a \in Attempts, Crash(a)
    PROVE  TypeOK' /\ Plain(a)
<1>1. attempt[a].pc \notin Over /\ Quiet /\ UNCHANGED <<stock, hold>> /\ Fault /\ Goto(a, "dead")
  BY DEF Crash, Quiet, web
<1>2. "dead" \in Pc
  BY DEF Pc, Over
<1> QED
  BY <1>1, <1>2, GotoEffect, PlainEffect DEF PlainMove

\* Every step of an attempt keeps the types and has one of the effects above.
LEMMA StepEffect ==
    ASSUME TypeOK, NEW a \in Attempts, Step(a) \/ Crash(a)
    PROVE  TypeOK' /\ AttemptEffect(a)
BY ReserveEffect, ReadCreditEffect, RedeemEffect, SaveOrderEffect, RollbackCreditEffect, ReleaseHoldEffect,
   SnapshotEffect, SelectShippingEffect, CreatePaymentEffect, InitiateEffect, RecordAnswerEffect,
   CheckUnpaidEffect, FailOrderEffect, LookupOrderEffect, NotifyUnpaidEffect, RefundCreditEffect, CrashEffect
   DEF Step, AttemptEffect
------------------------------------------------------------------------------
(* What the provider, the handlers and the administrators do *)

\* The provider sends an event about a payment that the customer could confirm.
Notified(a) ==
    /\ (At(a, "done") /\ intent[a] = "accepted") \/ intent[a] = "charged"
    /\ \E i \in {"accepted", "charged", "returned"} : intent' = [intent EXCEPT ![a] = i]
    /\ \E t \in {"succeeded", "failed", "refunded"} : sent' = sent \cup {Ev(t, a)}
    /\ UNCHANGED <<stock, hold, credit, order, payment, attempt, handler, admin, faults>>

Freed(h) == handler'[h] = Idle
OtherHandlers(h) == \A g \in Handlers \ {h} : handler'[g] = handler[g]

\* A webhook request reads its payment.
Received(h) ==
    /\ OtherHandlers(h)
    /\ \/ Freed(h)
       \/ \E e \in sent :
            /\ handler'[h] = [pc |-> "write", event |-> e, ver |-> payment[e.order].ver]
            /\ payment[e.order].status = Needs(e)
       \/ \E e \in sent :
            /\ handler'[h] = [pc |-> "fail", event |-> e, ver |-> payment[e.order].ver]
            /\ Heals(e)
    /\ UNCHANGED <<stock, hold, credit, order, payment, attempt, intent, sent, admin, faults>>

\* It gives up on its payment, or it is done.
Dropped(h) ==
    /\ OtherHandlers(h) /\ Freed(h)
    /\ UNCHANGED <<stock, hold, credit, order, payment, attempt, intent, sent, admin>>

\* It writes its payment.
Written(h) ==
    /\ OtherHandlers(h) /\ handler[h].pc = "write"
    /\ Fresh(handler[h].event.order, handler[h].ver)
    /\ \E r \in BOOLEAN :
          payment' = [payment EXCEPT ![handler[h].event.order] =
                        [status |-> Becomes(handler[h].event), ref |-> r, ver |-> payment[handler[h].event.order].ver + 1]]
    /\ Freed(h) \/ (handler[h].event.type = "failed" /\ handler'[h] = [handler[h] EXCEPT !.pc = "fail"])
    /\ UNCHANGED <<stock, hold, credit, order, attempt, intent, sent, admin>>

\* It fails the order of its payment.
OrderFailed(h) ==
    /\ OtherHandlers(h) /\ handler[h].pc = "fail"
    /\ FailIfPending(handler[h].event.order)
    /\ handler'[h] = [handler[h] EXCEPT !.pc = "restore"]
    /\ UNCHANGED <<stock, hold, credit, payment, attempt, intent, sent, admin>>

\* It gives back the credit of its order.
CreditReturned(h) ==
    /\ OtherHandlers(h) /\ Freed(h) /\ handler[h].pc = "restore"
    /\ order[handler[h].event.order] = "failed" /\ RestoreOnce(handler[h].event.order)
    /\ UNCHANGED <<stock, hold, order, payment, attempt, intent, sent, admin>>

WebhookEffect(h) == Received(h) \/ Dropped(h) \/ Written(h) \/ OrderFailed(h) \/ CreditReturned(h)

\* The sweep touches stock and holds.
LEMMA SweepEffect ==
    ASSUME TypeOK, NEW a \in Attempts, Sweep(a)
    PROVE  TypeOK' /\ Quiet /\ UNCHANGED <<attempt, faults>>
<1>1. Quiet /\ UNCHANGED <<attempt, faults>>
  BY DEF Sweep, Quiet, web
<1>2. PICK v \in Held(a) : hold' = [hold EXCEPT ![a][v] = "ended"] /\ stock' = [stock EXCEPT ![v] = @ + 1]
  BY DEF Sweep
<1>3. v \in Variants
  BY DEF Held
<1>4. stock' \in [Variants -> Nat] /\ hold' \in [Attempts -> [Variants -> {"none", "active", "ended"}]]
  BY <1>2, <1>3 DEF TypeOK
<1> QED
  BY <1>1, <1>4 DEF TypeOK, Quiet

\* Decline, Capture and Refund.
LEMMA NotifiedEffect ==
    ASSUME TypeOK, NEW a \in Attempts, Decline(a) \/ Capture(a) \/ Refund(a)
    PROVE  TypeOK' /\ Notified(a)
<1> USE DEF shop
<1>1. PICK t \in {"succeeded", "failed", "refunded"} : Send(Ev(t, a))
  BY DEF Decline, Capture, Refund
<1>2. Ev(t, a) \in Event
  BY DEF Ev, Event
<1>3. intent' = intent /\ intent[a] = "accepted" => intent' = [intent EXCEPT ![a] = "accepted"]
  BY DEF TypeOK
<1>4. Notified(a)
  BY <1>1, <1>3 DEF Decline, Capture, Refund, Send, Notified
<1>5. sent' \subseteq Event /\ acked' \subseteq Event
  BY <1>1, <1>2 DEF Send, TypeOK
<1>6. intent' \in [Attempts -> Answers \cup {"charged", "returned"}]
  BY <1>4 DEF Notified, TypeOK, Answers
<1> QED
  BY <1>4, <1>5, <1>6 DEF Notified, TypeOK

\* One handler gets a new state.
LEMMA SetHandler ==
    ASSUME TypeOK, NEW h \in Handlers, NEW r \in {Idle} \cup Webhooks, handler' = [handler EXCEPT ![h] = r]
    PROVE  /\ handler' \in [Handlers -> {Idle} \cup Webhooks]
           /\ handler'[h] = r
           /\ OtherHandlers(h)
BY DEF TypeOK, Webhooks, OtherHandlers

\* A request ends, acknowledged or not.
LEMMA FreeHandler ==
    ASSUME TypeOK, NEW h \in Handlers, Drop(h) \/ \E e \in Event : Ack(h, e)
    PROVE  /\ handler' \in [Handlers -> {Idle} \cup Webhooks]
           /\ Freed(h) /\ OtherHandlers(h)
           /\ acked' \subseteq Event
<1>1. handler' = [handler EXCEPT ![h] = Idle]
  BY DEF Drop, Ack
<1>2. acked' \subseteq Event
  BY DEF Drop, Ack, TypeOK
<1> QED
  BY <1>1, <1>2, SetHandler DEF Freed

\* A webhook request arrives.
LEMMA ReceiveEffect ==
    ASSUME TypeOK, NEW h \in Handlers, NEW e \in sent, Receive(h, e)
    PROVE  TypeOK' /\ Received(h)
<1>1. UNCHANGED <<stock, hold, credit, order, payment, attempt, intent, sent, admin, faults>>
  BY DEF Receive, shop
<1>2. e \in Event /\ e.order \in Attempts
  BY DEF TypeOK, Event
<1>3. payment[e.order].ver \in Nat
  BY <1>2 DEF TypeOK
<1>4. ASSUME NEW pc \in {"write", "fail"},
             handler' = [handler EXCEPT ![h] = [pc |-> pc, event |-> e, ver |-> payment[e.order].ver]],
             UNCHANGED acked, pc = "write" => payment[e.order].status = Needs(e), pc = "fail" => Heals(e)
      PROVE  TypeOK' /\ Received(h)
  <2> DEFINE r == [pc |-> pc, event |-> e, ver |-> payment[e.order].ver]
  <2>1. r \in Webhooks
    BY <1>2, <1>3 DEF Webhooks
  <2>2. handler' \in [Handlers -> {Idle} \cup Webhooks] /\ handler'[h] = r /\ OtherHandlers(h)
    <3>1. handler' = [handler EXCEPT ![h] = r]
      BY <1>4
    <3> HIDE DEF r
    <3> QED
      BY ONLY TypeOK, <2>1, <3>1, SetHandler, h \in Handlers
  <2>3. Received(h)
    BY <1>1, <1>4, <2>2 DEF Received
  <2>4. TypeOK'
    BY <1>1, <1>4, <2>2 DEF TypeOK, Webhooks
  <2> QED
    BY <2>3, <2>4
<1>5. CASE Drop(h) \/ Ack(h, e)
  <2>1. handler' \in [Handlers -> {Idle} \cup Webhooks] /\ Freed(h) /\ OtherHandlers(h) /\ acked' \subseteq Event
    BY <1>2, <1>5, FreeHandler
  <2> QED
    BY <1>1, <2>1 DEF Received, TypeOK, Webhooks
<1> QED
  BY <1>4, <1>5 DEF Receive
\* The row of the payment is written, or was not the one that was read.
LEMMA WritePaymentEffect ==
    ASSUME TypeOK, NEW h \in Handlers, WritePayment(h)
    PROVE  TypeOK' /\ (Written(h) \/ Dropped(h))
<1>1. PICK e \in Event : e = handler[h].event
  BY WebhookShape DEF WritePayment, Idle
<1>2. PICK a \in Attempts : a = e.order
  BY DEF Event
<1>3. /\ handler[h].pc = "write"
      /\ handler[h] \in Webhooks
      /\ UNCHANGED <<stock, hold, credit, order, attempt, intent, sent, admin>>
  BY WebhookShape DEF WritePayment, Idle
<1>4. CASE /\ Fresh(a, handler[h].ver)
           /\ payment' = [payment EXCEPT ![a] = [status |-> Becomes(e), ref |-> payment[a].ref \/ e.type = "succeeded", ver |-> payment[a].ver + 1]]
           /\ IF e.type = "failed"
              THEN handler' = [handler EXCEPT ![h].pc = "fail"] /\ UNCHANGED acked
              ELSE Ack(h, e)
           /\ NoFault
  <2>1. PICK b \in BOOLEAN : b = (payment[a].ref \/ e.type = "succeeded")
    OBVIOUS
  <2> DEFINE p == [status |-> Becomes(e), ref |-> b, ver |-> payment[a].ver + 1]
             r == [handler[h] EXCEPT !.pc = "fail"]
  <2>2. payment' = [payment EXCEPT ![a] = p]
    BY <1>4, <2>1
  <2>3. Becomes(e) \in PaymentStatus /\ payment[a].ver \in Nat
    BY DEF Becomes, PaymentStatus, TypeOK
  <2>4. p \in [status : PaymentStatus, ref : BOOLEAN, ver : Nat]
    BY <2>3
  <2>5. payment' \in [Attempts -> [status : PaymentStatus, ref : BOOLEAN, ver : Nat]]
    <3> HIDE DEF p
    <3> QED
      BY <2>2, <2>4 DEF TypeOK
  <2>6. /\ handler' \in [Handlers -> {Idle} \cup Webhooks] /\ OtherHandlers(h) /\ acked' \subseteq Event
        /\ Freed(h) \/ (e.type = "failed" /\ handler'[h] = r)
    <3>1. CASE e.type = "failed"
      <4>1. r \in Webhooks
        BY <1>3 DEF Webhooks
      <4>2. handler' = [handler EXCEPT ![h] = r] /\ UNCHANGED acked
        BY <1>4, <3>1
      <4> HIDE DEF r
      <4> QED
        BY <3>1, <4>1, <4>2, SetHandler DEF TypeOK
    <3>2. CASE e.type # "failed"
      BY <1>4, <3>2, FreeHandler
    <3> QED
      BY <3>1, <3>2
  <2>7. Written(h)
    BY <1>1, <1>2, <1>3, <1>4, <2>2, <2>6 DEF Written
  <2>8. faults' \in Nat
    BY <1>4, FaultEffect
  <2>9. TypeOK'
    BY <1>3, <2>5, <2>6, <2>8 DEF TypeOK, Webhooks
  <2> QED
    BY <2>7, <2>9
<1>5. CASE (Fault \/ NoFault) /\ Drop(h) /\ UNCHANGED payment
  <2>1. handler' \in [Handlers -> {Idle} \cup Webhooks] /\ Freed(h) /\ OtherHandlers(h) /\ acked' \subseteq Event
    BY <1>5, FreeHandler
  <2>2. faults' \in Nat
    BY <1>5, FaultEffect
  <2> QED
    BY <1>3, <1>5, <2>1, <2>2 DEF TypeOK, Webhooks, Dropped
<1> QED
  BY <1>1, <1>2, <1>4, <1>5 DEF WritePayment

\* The order of a failed payment.
LEMMA FailUnpaidOrderEffect ==
    ASSUME TypeOK, NEW h \in Handlers, FailUnpaidOrder(h)
    PROVE  TypeOK' /\ (OrderFailed(h) \/ Dropped(h))
<1>1. PICK a \in Attempts : a = handler[h].event.order
  BY WebhookShape DEF FailUnpaidOrder, Idle
<1>2. /\ handler[h].pc = "fail"
      /\ handler[h] \in Webhooks
      /\ UNCHANGED <<stock, hold, credit, payment, attempt, intent, sent, admin>>
  BY WebhookShape DEF FailUnpaidOrder, Idle
<1>3. CASE FailIfPending(a) /\ handler' = [handler EXCEPT ![h].pc = "restore"] /\ NoFault /\ UNCHANGED acked
  <2> DEFINE r == [handler[h] EXCEPT !.pc = "restore"]
  <2>1. r \in Webhooks
    BY <1>2 DEF Webhooks
  <2>2. handler' = [handler EXCEPT ![h] = r]
    BY <1>3
  <2>3. handler' \in [Handlers -> {Idle} \cup Webhooks] /\ OtherHandlers(h) /\ handler'[h] = r
    <3> HIDE DEF r
    <3> QED
      BY <2>1, <2>2, SetHandler
  <2>4. order' \in [Attempts -> OrderStatus]
    BY <1>3, FailIfPendingEffect
  <2>5. OrderFailed(h)
    BY <1>1, <1>2, <1>3, <2>3 DEF OrderFailed
  <2>6. TypeOK'
    BY <1>2, <1>3, <2>3, <2>4, FaultEffect DEF TypeOK, Webhooks
  <2> QED
    BY <2>5, <2>6
<1>4. CASE Fault /\ Drop(h) /\ UNCHANGED order
  <2>1. handler' \in [Handlers -> {Idle} \cup Webhooks] /\ Freed(h) /\ OtherHandlers(h) /\ acked' \subseteq Event
    BY <1>4, FreeHandler
  <2> QED
    BY <1>2, <1>4, <2>1, FaultEffect DEF TypeOK, Webhooks, Dropped
<1> QED
  BY <1>1, <1>3, <1>4 DEF FailUnpaidOrder

\* The credit of a failed order.
LEMMA RestoreUnpaidCreditEffect ==
    ASSUME TypeOK, NEW h \in Handlers, RestoreUnpaidCredit(h)
    PROVE  TypeOK' /\ (CreditReturned(h) \/ Dropped(h))
<1>1. PICK e \in Event : e = handler[h].event
  BY WebhookShape DEF RestoreUnpaidCredit, Idle
<1>2. PICK a \in Attempts : a = e.order
  BY DEF Event
<1>3. handler[h].pc = "restore" /\ UNCHANGED <<stock, hold, order, payment, attempt, intent, sent, admin>>
  BY DEF RestoreUnpaidCredit
<1>4. handler' \in [Handlers -> {Idle} \cup Webhooks] /\ Freed(h) /\ OtherHandlers(h) /\ acked' \subseteq Event
  <2>1. Drop(h) \/ Ack(h, e)
    BY <1>1 DEF RestoreUnpaidCredit
  <2> QED
    BY <2>1, FreeHandler
<1>5. faults' \in Nat
  BY FaultEffect DEF RestoreUnpaidCredit
<1>6. CASE order[a] = "failed" /\ RestoreOnce(a)
  <2>1. credit' \in Accounts
    BY <1>6, RestoreOnceEffect
  <2> QED
    BY <1>1, <1>2, <1>3, <1>4, <1>5, <1>6, <2>1 DEF TypeOK, Webhooks, Accounts, CreditReturned
<1>7. CASE UNCHANGED credit
  BY <1>3, <1>4, <1>5, <1>7 DEF TypeOK, Webhooks, Dropped
<1> QED
  BY <1>1, <1>2, <1>6, <1>7 DEF RestoreUnpaidCredit

\* Every step of a handler keeps the types and has one of the effects above.
LEMMA HandlerEffect ==
    ASSUME TypeOK, NEW h \in Handlers, Serve(h) \/ \E e \in sent : Receive(h, e)
    PROVE  TypeOK' /\ WebhookEffect(h)
BY ReceiveEffect, WritePaymentEffect, FailUnpaidOrderEffect, RestoreUnpaidCreditEffect DEF Serve, WebhookEffect

Others == UNCHANGED <<stock, hold, credit, payment, attempt, intent, sent, acked, handler, faults>>

\* An administrator reads an order.
LEMMA AdminReadEffect ==
    ASSUME TypeOK, NEW m \in Admins, NEW a \in Attempts, AdminRead(m, a)
    PROVE  /\ TypeOK' /\ Others /\ UNCHANGED order
           /\ order[a] # "absent" /\ admin'[m].order = a
           /\ \A n \in Admins \ {m} : admin'[n] = admin[n]
<1> DEFINE r == [pc |-> "write", order |-> a, seen |-> order[a]]
<1>1. Others /\ UNCHANGED order /\ order[a] # "absent" /\ admin' = [admin EXCEPT ![m] = r]
  BY DEF AdminRead, Others, shop, web
<1>2. r \in [pc : {"write"}, order : Attempts, seen : OrderStatus] /\ r.order = a
  BY DEF TypeOK
<1> HIDE DEF r
<1>3. /\ admin' \in [Admins -> {Idle} \cup [pc : {"write"}, order : Attempts, seen : OrderStatus]]
      /\ admin'[m] = r /\ \A n \in Admins \ {m} : admin'[n] = admin[n]
  BY <1>1, <1>2 DEF TypeOK
<1> QED
  BY <1>1, <1>2, <1>3 DEF TypeOK, Others

\* An administrator writes over the status of the order it has read.
LEMMA AdminWriteEffect ==
    ASSUME TypeOK, NEW m \in Admins, AdminWrite(m)
    PROVE  /\ TypeOK' /\ Others
           /\ admin[m] # Idle /\ admin'[m] = Idle
           /\ \A n \in Admins \ {m} : admin'[n] = admin[n]
           /\ \/ UNCHANGED order
              \/ \E s \in OrderStatus \ {"absent"} : order' = [order EXCEPT ![admin[m].order] = s]
<1>1. Others /\ admin[m].pc = "write" /\ admin' = [admin EXCEPT ![m] = Idle]
  BY DEF AdminWrite, Others, web
<1>2. admin[m] # Idle /\ admin[m].order \in Attempts
  BY <1>1 DEF TypeOK, Idle
<1>3. \/ UNCHANGED order
      \/ \E s \in OrderStatus \ {"absent"} : order' = [order EXCEPT ![admin[m].order] = s]
  BY DEF AdminWrite, OrderTransitions, OrderStatus
<1>4. order' \in [Attempts -> OrderStatus]
  BY <1>2, <1>3 DEF TypeOK
<1>5. /\ admin' \in [Admins -> {Idle} \cup [pc : {"write"}, order : Attempts, seen : OrderStatus]]
      /\ admin'[m] = Idle /\ \A n \in Admins \ {m} : admin'[n] = admin[n]
  BY <1>1 DEF TypeOK
<1> QED
  BY <1>1, <1>2, <1>3, <1>4, <1>5 DEF TypeOK, Others
\* Untouched rows and fresh contexts have their types.
LEMMA InitType == Init => TypeOK
<1> SUFFICES ASSUME Init PROVE TypeOK
  OBVIOUS
<1>1. attempt \in [Attempts -> [pc : {"reserve"}, wanted : Wanted, credit : {0}, answer : {"none"}, listed : {{}}]]
  BY DEF Init
<1>2. \A a \in Attempts : attempt[a] \in Contexts
  BY <1>1 DEF Contexts, Pc, Answers
<1>3. attempt \in [Attempts -> Contexts]
  BY <1>1, <1>2
<1>4. NoPayment \in [status : PaymentStatus, ref : BOOLEAN, ver : Nat]
  BY DEF NoPayment, PaymentStatus
<1>5. credit \in Accounts
  BY CheckoutAssumption DEF Init, Accounts
<1> QED
  BY <1>3, <1>4, <1>5, CheckoutAssumption DEF Init, TypeOK, Contexts, Accounts, OrderStatus, Answers, Idle

\* Every step keeps the types.
LEMMA NextType == ASSUME TypeOK, [Next]_vars PROVE TypeOK'
<1>1. CASE UNCHANGED vars
  BY <1>1 DEF vars, TypeOK
<1>2. CASE \E a \in Attempts : Step(a) \/ Crash(a) \/ Sweep(a) \/ Decline(a) \/ Capture(a) \/ Refund(a)
  BY <1>2, StepEffect, SweepEffect, NotifiedEffect
<1>3. CASE \E h \in Handlers : Serve(h) \/ \E e \in sent : Receive(h, e)
  BY <1>3, HandlerEffect
<1>4. CASE \E m \in Admins : AdminWrite(m) \/ \E a \in Attempts : AdminRead(m, a)
  BY <1>4, AdminWriteEffect, AdminReadEffect
<1> QED
  BY <1>1, <1>2, <1>3, <1>4 DEF Next

\* Rows, contexts, requests and events keep their types; neither stock nor a
\* balance goes negative.
THEOREM TypeCorrect == Spec => []TypeOK
BY InitType, NextType, PTL DEF Spec

------------------------------------------------------------------------------
(* Orders, payments and events *)

\* A step of an attempt changes its own order and nobody else's.
LEMMA AttemptOrders ==
    ASSUME PInv, TypeOK', NEW a \in Attempts, AttemptEffect(a)
    PROVE  OrdersFollow'
<1> USE DEF PInv, BeforeOrder, AfterOrder, Compensating
<1>0. \A m \in Admins : admin[m] # Idle => admin[m].order \in Attempts
  BY DEF TypeOK
<1>1. CASE Plain(a)
  BY <1>0, <1>1 DEF Plain, PlainMove, Moved, Quiet, OrdersFollow, At, Over
<1>2. CASE Applied(a)
  BY <1>0, <1>2 DEF Applied, Quiet, OrdersFollow, At
<1>3. CASE Redeemed(a) \/ RolledBack(a) \/ Created(a) \/ Recorded(a) \/ Returned(a)
  BY <1>0, <1>3 DEF Redeemed, RolledBack, Created, Recorded, Returned, Moved, OrdersFollow, At
<1>4. CASE Answered(a)
  BY <1>0, <1>4 DEF Answered, OrdersFollow, At
<1>5. CASE Saved(a)
  <2>1. order'[a] = "pending" /\ \A b \in Attempts \ {a} : order'[b] = order[b]
    BY <1>5 DEF Saved, TypeOK
  <2> QED
    BY <1>0, <1>5, <2>1 DEF Saved, Moved, OrdersFollow, At
<1>6. CASE Failed(a)
  <2>1. \A b \in Attempts : order'[b] = "absent" <=> order[b] = "absent"
    BY <1>6, FailIfPendingEffect DEF Failed
  <2> QED
    BY <1>0, <1>6, <2>1 DEF Failed, Moved, OrdersFollow, At
<1> QED
  BY <1>1, <1>2, <1>3, <1>4, <1>5, <1>6 DEF AttemptEffect

\* A step of an attempt keeps its payment in line with its progress.
LEMMA AttemptPayments ==
    ASSUME PInv, TypeOK', NEW a \in Attempts, AttemptEffect(a)
    PROVE  PaymentsFollow'
<1> USE DEF PInv, BeforeOrder, Compensating
<1>0. attempt[a].answer \in Answers /\ \A b \in Attempts : attempt'[b].answer \in Answers
  BY DEF TypeOK
<1>1. CASE Plain(a)
  <2>1. PICK pc \in Pc : PlainMove(a, pc) /\ Moved(a, pc) /\ Quiet
    BY <1>1 DEF Plain
  <2>2. ~ChargeAccepted(a) => attempt[a].answer \in {"none", "declined"}
    BY <1>0 DEF ChargeAccepted, Answers
  <2> QED
    BY <2>1, <2>2 DEF PlainMove, Moved, Quiet, PaymentsFollow, At, Over
<1>2. CASE Applied(a)
  BY <1>2 DEF Applied, Quiet, PaymentsFollow, At
<1>3. CASE Redeemed(a) \/ RolledBack(a) \/ Saved(a) \/ Failed(a) \/ Returned(a)
  BY <1>3 DEF Redeemed, RolledBack, Saved, Failed, Returned, Moved, PaymentsFollow, At
<1>4. CASE Created(a)
  <2>1. payment'[a] = Unanswered /\ \A b \in Attempts \ {a} : payment'[b] = payment[b]
    BY <1>4 DEF Created, TypeOK
  <2> QED
    BY <1>4, <2>1 DEF Created, Moved, PaymentsFollow, At, Unanswered
<1>5. CASE Answered(a)
  <2>1. intent'[a] = attempt'[a].answer /\ \A b \in Attempts \ {a} : intent'[b] = intent[b]
    BY <1>5 DEF Answered, TypeOK
  <2> QED
    BY <1>5, <2>1 DEF Answered, PaymentsFollow, At, Unanswered
<1>6. CASE Recorded(a)
  <2>1. PICK pc \in {"done", "unpaid"} : Moved(a, pc)
    BY <1>6 DEF Recorded
  <2>2. PICK s \in {"pending", "completed", "failed"}, r \in BOOLEAN :
          /\ payment' = [payment EXCEPT ![a] = [status |-> s, ref |-> r, ver |-> 2]]
          /\ s = "completed" <=> intent[a] = "captured"
    BY <1>6 DEF Recorded
  <2>3. payment'[a].status = s /\ \A b \in Attempts \ {a} : payment'[b] = payment[b]
    BY <2>2 DEF TypeOK
  <2> QED
    BY <1>6, <2>1, <2>2, <2>3 DEF Recorded, Moved, PaymentsFollow, At
<1> QED
  BY <1>1, <1>2, <1>3, <1>4, <1>5, <1>6 DEF AttemptEffect

\* An attempt that still moves is one that the provider has said nothing about,
\* but for its answer.
LEMMA AttemptEvents ==
    ASSUME PInv, TypeOK', NEW a \in Attempts, AttemptEffect(a)
    PROVE  /\ EventsFollow'
           /\ attempt[a].pc # "done" /\ sent' = sent
<1> USE DEF PInv
<1>0. \A e \in sent : e.order \in Attempts
  BY DEF TypeOK, Event
<1>1. CASE Plain(a)
  <2>1. PICK pc \in Pc : PlainMove(a, pc) /\ Moved(a, pc) /\ Quiet
    BY <1>1 DEF Plain
  <2>2. attempt[a].pc # "done" /\ (pc = "done" => attempt[a].pc = "ship")
    BY <2>1 DEF PlainMove, At, Over, Compensating
  <2>3. pc = "done" => attempt[a].answer = "none"
    BY <2>2 DEF PaymentsFollow
  <2> QED
    BY <1>0, <2>1, <2>2, <2>3 DEF Moved, Quiet, EventsFollow
<1>2. CASE Applied(a)
  BY <1>0, <1>2 DEF Applied, Quiet, EventsFollow, At
<1>3. CASE Redeemed(a) \/ RolledBack(a) \/ Saved(a) \/ Failed(a) \/ Returned(a)
  BY <1>0, <1>3 DEF Redeemed, RolledBack, Saved, Failed, Returned, Moved, EventsFollow, At
<1>4. CASE Created(a)
  <2>1. \A b \in Attempts \ {a} : payment'[b] = payment[b]
    BY <1>4 DEF Created, TypeOK
  <2> QED
    BY <1>0, <1>4, <2>1 DEF Created, Moved, EventsFollow, At
<1>5. CASE Answered(a)
  <2>1. intent'[a] = attempt'[a].answer /\ \A b \in Attempts \ {a} : intent'[b] = intent[b]
    BY <1>5 DEF Answered, TypeOK
  <2> QED
    BY <1>0, <1>5, <2>1 DEF Answered, EventsFollow, At
<1>6. CASE Recorded(a)
  <2>1. PICK pc \in {"done", "unpaid"} : Moved(a, pc)
    BY <1>6 DEF Recorded
  <2>2. PICK s \in {"pending", "completed", "failed"}, r \in BOOLEAN :
          payment' = [payment EXCEPT ![a] = [status |-> s, ref |-> r, ver |-> 2]]
    BY <1>6 DEF Recorded
  <2>3. payment'[a].ver = 2 /\ \A b \in Attempts \ {a} : payment'[b] = payment[b]
    BY <2>2 DEF TypeOK
  <2> QED
    BY <1>0, <1>6, <2>1, <2>2, <2>3 DEF Recorded, Moved, EventsFollow, At
<1> QED
  BY <1>1, <1>2, <1>3, <1>4, <1>5, <1>6 DEF AttemptEffect

\* The handlers work on other attempts' payments.
LEMMA AttemptHandlers ==
    ASSUME PInv, TypeOK', NEW a \in Attempts, AttemptEffect(a)
    PROVE  HandlersFollow'
<1> USE DEF PInv
<1>1. handler' = handler
  BY DEF AttemptEffect, Plain, Quiet, Applied, Redeemed, Saved, RolledBack, Created, Answered, Recorded, Failed, Returned
<1>2. \A b \in Attempts \ {a} : payment'[b] = payment[b]
  BY DEF AttemptEffect, Plain, Quiet, Applied, Redeemed, Saved, RolledBack, Created, Answered, Recorded, Failed, Returned, TypeOK
<1>3. sent' = sent /\ attempt[a].pc # "done"
  BY AttemptEvents
<1>4. \A h \in Handlers : handler[h] # Idle => handler[h].event.order \in Attempts /\ handler[h].event.order # a
  BY <1>3, WebhookShape DEF HandlersFollow, EventsFollow
<1> QED
  BY <1>1, <1>2, <1>3, <1>4 DEF HandlersFollow
\* The provider's events.
LEMMA NotifiedPInv ==
    ASSUME PInv, TypeOK', NEW a \in Attempts, Notified(a)
    PROVE  PInv'
<1> USE DEF PInv
<1>1. PICK i \in {"accepted", "charged", "returned"} : intent' = [intent EXCEPT ![a] = i]
  BY DEF Notified
<1>2. PICK t \in {"succeeded", "failed", "refunded"} : sent' = sent \cup {Ev(t, a)}
  BY DEF Notified
<1>3. intent'[a] = i /\ \A b \in Attempts \ {a} : intent'[b] = intent[b]
  BY <1>1 DEF TypeOK
<1>4. UNCHANGED <<order, payment, attempt, handler, admin>>
  BY DEF Notified
<1>5. attempt[a].pc = "done" /\ attempt[a].answer = "accepted"
  BY SMTT(30) DEF Notified, At, EventsFollow, PaymentsFollow, TypeOK, Answers
<1>6. Ev(t, a).order = a
  BY DEF Ev
<1>7. OrdersFollow'
  BY <1>4 DEF OrdersFollow
<1>8. PaymentsFollow'
  BY <1>1, <1>3, <1>4, <1>5 DEF PaymentsFollow
<1>9. EventsFollow'
  BY <1>1, <1>2, <1>3, <1>4, <1>5, <1>6 DEF EventsFollow
<1>10. HandlersFollow'
  BY <1>2, <1>4 DEF HandlersFollow
<1> QED
  BY <1>7, <1>8, <1>9, <1>10

\* A handler that is freed has nothing to keep.
LEMMA OtherHandlersFollow ==
    ASSUME PInv, NEW h \in Handlers, OtherHandlers(h), UNCHANGED <<payment, sent>>,
           \/ Freed(h)
           \/ /\ handler'[h].event \in sent
              /\ handler'[h].ver <= payment[handler'[h].event.order].ver
              /\ handler'[h].pc = "write" => payment[handler'[h].event.order].status = Needs(handler'[h].event)
              /\ handler'[h].pc \in {"fail", "restore"} =>
                    handler'[h].event.type = "failed" /\ payment[handler'[h].event.order].status = "failed"
    PROVE  HandlersFollow'
BY DEF PInv, HandlersFollow, OtherHandlers, Freed, Needs

\* The webhook requests: a row that is written is one that was read, and then
\* every other request that has read it comes too late.
LEMMA HandlerPInv ==
    ASSUME PInv, TypeOK', NEW h \in Handlers, WebhookEffect(h)
    PROVE  PInv'
<1> USE DEF PInv
<1>0. UNCHANGED <<attempt, intent, sent, admin>>
  BY DEF WebhookEffect, Received, Dropped, Written, OrderFailed, CreditReturned
<1>1. CASE Received(h)
  <2>1. UNCHANGED <<order, payment>> /\ OtherHandlers(h)
    BY <1>1 DEF Received
  <2>2. ASSUME NEW e \in sent, handler'[h] = [pc |-> "write", event |-> e, ver |-> payment[e.order].ver],
               payment[e.order].status = Needs(e)
        PROVE  HandlersFollow'
    <3>1. payment[e.order].ver \in Nat
      BY DEF TypeOK, Event
    <3> QED
      BY <1>0, <2>1, <2>2, <3>1, OtherHandlersFollow
  <2>3. ASSUME NEW e \in sent, handler'[h] = [pc |-> "fail", event |-> e, ver |-> payment[e.order].ver], Heals(e)
        PROVE  HandlersFollow'
    <3>1. payment[e.order].ver \in Nat
      BY DEF TypeOK, Event
    <3> QED
      BY <1>0, <2>1, <2>3, <3>1, OtherHandlersFollow DEF Heals
  <2>4. HandlersFollow'
    BY <1>0, <1>1, <2>1, <2>2, <2>3, OtherHandlersFollow DEF Received
  <2> QED
    BY <1>0, <2>1, <2>4 DEF OrdersFollow, PaymentsFollow, EventsFollow
<1>2. CASE Dropped(h) \/ CreditReturned(h)
  <2>1. UNCHANGED <<order, payment>> /\ OtherHandlers(h) /\ Freed(h)
    BY <1>2 DEF Dropped, CreditReturned
  <2>2. HandlersFollow'
    BY <1>0, <2>1, OtherHandlersFollow
  <2> QED
    BY <1>0, <2>1, <2>2 DEF OrdersFollow, PaymentsFollow, EventsFollow
<1>3. CASE Written(h)
  <2>1. PICK e \in Event : e = handler[h].event
    BY <1>3, WebhookShape DEF Written, Idle
  <2>2. PICK a \in Attempts : a = e.order
    BY DEF Event
  <2>3. handler[h] # Idle /\ handler[h].pc = "write" /\ handler[h] \in Webhooks
    BY <1>3, WebhookShape DEF Written, Idle
  <2>4. /\ e \in sent /\ attempt[a].pc = "done" /\ attempt[a].answer = "accepted"
        /\ payment[a].ver >= 2 /\ payment[a].ver = handler[h].ver
        /\ payment[a].status = Needs(e)
    BY <1>3, <2>1, <2>2, <2>3 DEF HandlersFollow, EventsFollow, Written, Fresh
  <2>5. /\ payment'[a].ver = payment[a].ver + 1 /\ payment'[a].status = Becomes(e)
        /\ \A b \in Attempts \ {a} : payment'[b] = payment[b]
    BY <1>3, <2>1, <2>2 DEF Written, TypeOK
  <2>6. payment[a].ver \in Nat
    BY DEF TypeOK
  <2>7. OrdersFollow'
    BY <1>0, <1>3 DEF OrdersFollow, Written
  <2>8. PaymentsFollow'
    BY <1>0, <2>4, <2>5 DEF PaymentsFollow, BeforeOrder, Compensating
  <2>9. EventsFollow'
    BY <1>0, <2>4, <2>5, <2>6 DEF EventsFollow
  <2>10. ASSUME NEW g \in Handlers \ {h}, handler'[g] # Idle
         PROVE  /\ handler'[g].event \in sent'
                /\ handler'[g].ver <= payment'[handler'[g].event.order].ver
                /\ handler'[g].pc = "write" /\ handler'[g].ver = payment'[handler'[g].event.order].ver =>
                      payment'[handler'[g].event.order].status = Needs(handler'[g].event)
                /\ handler'[g].pc \in {"fail", "restore"} =>
                      handler'[g].event.type = "failed" /\ payment'[handler'[g].event.order].status = "failed"
    <3>1. handler'[g] = handler[g] /\ handler[g] # Idle
      BY <1>3, <2>10 DEF Written, OtherHandlers
    <3>2. PICK x \in Attempts, n \in Nat : x = handler[g].event.order /\ n = handler[g].ver
      BY <3>1, WebhookShape
    <3>3. CASE x = a
      <4>1. payment[a].status # "failed" /\ n <= payment[a].ver
        BY <2>4, <3>1, <3>2, <3>3 DEF Needs, HandlersFollow
      <4>2. /\ handler[g].event \in sent
            /\ ~(handler[g].pc \in {"fail", "restore"})
        BY <3>1, <3>2, <3>3, <4>1 DEF HandlersFollow
      <4>3. payment'[x].ver = payment[a].ver + 1 /\ n < payment'[x].ver
        BY <2>5, <2>6, <3>2, <3>3, <4>1
      <4>4. payment'[x].ver \in Nat
        BY <2>6, <4>3
      <4>5. n <= payment'[x].ver /\ n # payment'[x].ver
        BY <4>3, <4>4
      <4> QED
        BY <1>0, <3>1, <3>2, <4>2, <4>5
    <3>4. CASE x # a
      BY <1>0, <2>5, <3>1, <3>2, <3>4 DEF HandlersFollow
    <3> QED
      BY <3>3, <3>4
  <2>11. \/ Freed(h)
         \/ /\ handler'[h].event = e /\ handler'[h].ver = handler[h].ver /\ handler'[h].pc = "fail"
            /\ e.type = "failed"
    BY <1>3, <2>1, <2>3 DEF Written, Webhooks
  <2>12. e.type = "failed" => Becomes(e) = "failed"
    BY DEF Becomes
  <2>13. HandlersFollow'
    BY <1>0, <2>2, <2>4, <2>5, <2>6, <2>10, <2>11, <2>12 DEF HandlersFollow, Freed
  <2> QED
    BY <2>7, <2>8, <2>9, <2>13
<1>4. CASE OrderFailed(h)
  <2>1. PICK e \in Event : e = handler[h].event
    BY <1>4, WebhookShape DEF OrderFailed, Idle
  <2>2. PICK a \in Attempts : a = e.order
    BY DEF Event
  <2>3. handler[h] # Idle /\ handler[h].pc = "fail" /\ handler[h] \in Webhooks
    BY <1>4, WebhookShape DEF OrderFailed, Idle
  <2>4. \A b \in Attempts : order'[b] = "absent" <=> order[b] = "absent"
    BY <1>4, <2>1, <2>2, FailIfPendingEffect DEF OrderFailed
  <2>5. \A m \in Admins : admin[m] # Idle => admin[m].order \in Attempts
    BY DEF TypeOK
  <2>6. OrdersFollow'
    BY <1>0, <2>4, <2>5 DEF OrdersFollow
  <2>7. UNCHANGED payment /\ OtherHandlers(h)
    BY <1>4 DEF OrderFailed
  <2>8. handler'[h].event = e /\ handler'[h].ver = handler[h].ver /\ handler'[h].pc = "restore"
    BY <1>4, <2>1, <2>3 DEF OrderFailed, Webhooks
  <2>9. e \in sent /\ handler[h].ver <= payment[e.order].ver /\ e.type = "failed" /\ payment[e.order].status = "failed"
    BY <2>1, <2>3 DEF HandlersFollow
  <2>10. HandlersFollow'
    BY <1>0, <2>7, <2>8, <2>9, OtherHandlersFollow
  <2> QED
    BY <1>0, <2>6, <2>7, <2>10 DEF PaymentsFollow, EventsFollow
<1> QED
  BY <1>1, <1>2, <1>3, <1>4 DEF WebhookEffect

\* Administrators write what they have read, and orders stay saved.
LEMMA AdminPInv ==
    ASSUME PInv, NEW m \in Admins, AdminWrite(m) \/ \E a \in Attempts : AdminRead(m, a)
    PROVE  PInv'
<1> USE DEF PInv
<1>1. TypeOK' /\ UNCHANGED <<payment, attempt, intent, sent, handler>>
  BY AdminWriteEffect, AdminReadEffect DEF Others
<1>2. \A n \in Admins : admin[n] # Idle => admin[n].order \in Attempts
  BY DEF TypeOK
<1>3. CASE AdminWrite(m)
  <2>1. \A a \in Attempts : order'[a] = "absent" <=> order[a] = "absent"
    <3>1. PICK a \in Attempts : a = admin[m].order /\ order[a] # "absent"
      BY <1>2, <1>3, AdminWriteEffect DEF OrdersFollow
    <3>2. CASE UNCHANGED order
      BY <3>2
    <3>3. ASSUME NEW s \in OrderStatus \ {"absent"}, order' = [order EXCEPT ![a] = s]
          PROVE  \A b \in Attempts : order'[b] = "absent" <=> order[b] = "absent"
      BY <3>1, <3>3 DEF TypeOK
    <3> QED
      BY <1>3, <3>1, <3>2, <3>3, AdminWriteEffect
  <2> QED
    BY <1>1, <1>2, <1>3, <2>1, AdminWriteEffect DEF OrdersFollow, PaymentsFollow, EventsFollow, HandlersFollow
<1>4. CASE \E a \in Attempts : AdminRead(m, a)
  BY <1>1, <1>2, <1>4, AdminReadEffect DEF OrdersFollow, PaymentsFollow, EventsFollow, HandlersFollow
<1> QED
  BY <1>3, <1>4

\* PInv is inductive.
LEMMA NextPInv == ASSUME PInv, [Next]_vars PROVE PInv'
<1>1. TypeOK'
  BY NextType DEF PInv
<1>2. CASE UNCHANGED vars
  BY <1>1, <1>2 DEF vars, PInv, OrdersFollow, PaymentsFollow, EventsFollow, HandlersFollow
<1>3. ASSUME NEW a \in Attempts, Step(a) \/ Crash(a)
      PROVE  PInv'
  BY <1>1, <1>3, StepEffect, AttemptOrders, AttemptPayments, AttemptEvents, AttemptHandlers DEF PInv
<1>4. ASSUME NEW a \in Attempts, Sweep(a)
      PROVE  PInv'
  BY <1>1, <1>4, SweepEffect DEF PInv, Quiet, OrdersFollow, PaymentsFollow, EventsFollow, HandlersFollow
<1>5. ASSUME NEW a \in Attempts, Decline(a) \/ Capture(a) \/ Refund(a)
      PROVE  PInv'
  BY <1>5, NotifiedEffect, NotifiedPInv DEF PInv
<1>6. ASSUME NEW h \in Handlers, Serve(h) \/ \E e \in sent : Receive(h, e)
      PROVE  PInv'
  BY <1>6, HandlerEffect, HandlerPInv DEF PInv
<1> QED
  BY <1>2, <1>3, <1>4, <1>5, <1>6, AdminPInv DEF Next

\* Before the first step nothing is saved, paid or sent.
LEMMA InitPInv == Init => PInv
<1> SUFFICES ASSUME Init PROVE PInv
  OBVIOUS
<1>1. \A a \in Attempts : attempt[a].pc = "reserve" /\ attempt[a].answer = "none"
  BY DEF Init
<1>2. OrdersFollow /\ HandlersFollow
  BY <1>1 DEF Init, OrdersFollow, HandlersFollow, BeforeOrder, AfterOrder
<1>3. PaymentsFollow /\ EventsFollow
  BY <1>1 DEF Init, PaymentsFollow, EventsFollow, BeforeOrder, Compensating, NoPayment
<1> QED
  BY <1>2, <1>3, InitType DEF PInv
------------------------------------------------------------------------------
(* Payments move forward, and an accepted charge keeps its order *)

\* A row is written from the status that was read.
LEMMA ForwardStep ==
    ASSUME PInv, [Next]_vars, NEW b \in Attempts, payment'[b].status # payment[b].status
    PROVE  <<payment[b].status, payment'[b].status>> \in PaymentTransitions
<1> USE DEF PInv
<1>1. CASE UNCHANGED vars
  BY <1>1 DEF vars
<1>2. ASSUME NEW a \in Attempts, Step(a) \/ Crash(a)
      PROVE  <<payment[b].status, payment'[b].status>> \in PaymentTransitions
  <2>1. AttemptEffect(a) /\ payment' # payment
    BY <1>2, StepEffect
  <2>2. Created(a) \/ Recorded(a)
    BY <2>1 DEF AttemptEffect, Plain, Quiet, Applied, Redeemed, Saved, RolledBack, Answered, Failed, Returned
  <2>3. CASE Created(a)
    <3>1. payment[a].status = "absent" /\ payment'[a].status = "pending" /\ a = b
      BY <2>3 DEF Created, PaymentsFollow, At, NoPayment, Unanswered, TypeOK
    <3> QED
      BY <3>1 DEF PaymentTransitions
  <2>4. CASE Recorded(a)
    <3>1. PICK s \in {"pending", "completed", "failed"}, r \in BOOLEAN :
              payment' = [payment EXCEPT ![a] = [status |-> s, ref |-> r, ver |-> 2]]
      BY <2>4 DEF Recorded
    <3>2. payment[a].status = "pending"
      BY <2>4 DEF Recorded, PaymentsFollow, At, Unanswered
    <3>3. a = b /\ payment'[a].status = s
      BY <3>1 DEF TypeOK
    <3> QED
      BY <3>2, <3>3 DEF PaymentTransitions
  <2> QED
    BY <2>2, <2>3, <2>4
<1>3. ASSUME NEW a \in Attempts, Sweep(a) \/ Decline(a) \/ Capture(a) \/ Refund(a)
      PROVE  payment' = payment
  BY <1>3, SweepEffect, NotifiedEffect DEF Quiet, Notified
<1>4. ASSUME NEW h \in Handlers, Serve(h) \/ \E e \in sent : Receive(h, e)
      PROVE  <<payment[b].status, payment'[b].status>> \in PaymentTransitions
  <2>1. Written(h)
    BY <1>4, HandlerEffect DEF WebhookEffect, Received, Dropped, OrderFailed, CreditReturned
  <2>2. PICK e \in Event : e = handler[h].event
    BY <2>1, WebhookShape DEF Written, Idle
  <2>3. PICK a \in Attempts : a = e.order
    BY DEF Event
  <2>4. payment[a].status = Needs(e)
    BY <2>1, <2>2, <2>3 DEF Written, Fresh, HandlersFollow, Idle
  <2>5. a = b /\ payment'[a].status = Becomes(e)
    BY <2>1, <2>2, <2>3 DEF Written, TypeOK
  <2>6. e.type \in {"succeeded", "failed", "refunded"}
    BY DEF Event
  <2> QED
    BY <2>4, <2>5, <2>6 DEF Needs, Becomes, PaymentTransitions
<1>5. ASSUME NEW m \in Admins, AdminWrite(m) \/ \E a \in Attempts : AdminRead(m, a)
      PROVE  payment' = payment
  BY <1>5, AdminWriteEffect, AdminReadEffect DEF Others
<1> QED
  BY <1>1, <1>2, <1>3, <1>4, <1>5 DEF Next

\* A payment only moves forward, however many webhook requests, attempts and
\* administrators there are and whatever they have read.
THEOREM PaymentForwardCorrect == Spec => PaymentMovesForward
<1>1. PInv /\ [Next]_vars => (\A a \in Attempts : payment'[a].status # payment[a].status =>
                                 <<payment[a].status, payment'[a].status>> \in PaymentTransitions)
  BY ForwardStep
<1> QED
  BY <1>1, InitPInv, NextPInv, PTL DEF Spec, PaymentMovesForward

\* Compensation fails no order whose charge the provider has accepted: the
\* context keeps the answer that the row may have missed.
THEOREM AcceptedChargeCorrect == Spec => CheckoutKeepsAcceptedCharge
<1>1. PInv => \A a \in Attempts : At(a, "fail") => intent[a] \notin {"accepted", "captured", "charged"}
  BY DEF PInv, PaymentsFollow, At, Compensating
<1>2. PInv /\ [Next]_vars => (\A a \in Attempts :
          At(a, "fail") /\ order'[a] # order[a] => intent[a] \notin {"accepted", "captured", "charged"})
  BY <1>1
<1> QED
  BY <1>2, InitPInv, NextPInv, PTL DEF Spec, CheckoutKeepsAcceptedCharge

------------------------------------------------------------------------------
(* Store credit comes back once *)

\* What else a step does to credit and orders.
LEMMA CreditStep ==
    ASSUME PInv, [Next]_vars, ~ \E a \in Attempts : Step(a) \/ Crash(a)
    PROVE  /\ UNCHANGED attempt
           /\ \A a \in Attempts : order'[a] = "absent" <=> order[a] = "absent"
           /\ \/ UNCHANGED credit
              \/ \E a \in Attempts : RestoreOnce(a) /\ order[a] = "failed" /\ UNCHANGED order
<1> USE DEF PInv
<1>1. CASE UNCHANGED vars
  BY <1>1 DEF vars
<1>2. ASSUME NEW a \in Attempts, Sweep(a) \/ Decline(a) \/ Capture(a) \/ Refund(a)
      PROVE  UNCHANGED <<attempt, order, credit>>
  BY <1>2, SweepEffect, NotifiedEffect DEF Quiet, Notified
<1>3. ASSUME NEW h \in Handlers, Serve(h) \/ \E e \in sent : Receive(h, e)
      PROVE  /\ UNCHANGED attempt
             /\ \A a \in Attempts : order'[a] = "absent" <=> order[a] = "absent"
             /\ \/ UNCHANGED credit
                \/ \E a \in Attempts : RestoreOnce(a) /\ order[a] = "failed" /\ UNCHANGED order
  <2>1. Received(h) \/ Dropped(h) \/ Written(h) \/ OrderFailed(h) \/ CreditReturned(h)
    BY <1>3, HandlerEffect DEF WebhookEffect
  <2>2. CASE Received(h) \/ Dropped(h) \/ Written(h)
    BY <2>2 DEF Received, Dropped, Written
  <2>3. CASE OrderFailed(h)
    <3>1. PICK a \in Attempts : a = handler[h].event.order
      BY <2>3, WebhookShape DEF OrderFailed, Idle
    <3> QED
      BY <2>3, <3>1, FailIfPendingEffect DEF OrderFailed
  <2>4. CASE CreditReturned(h)
    <3>1. PICK a \in Attempts : a = handler[h].event.order
      BY <2>4, WebhookShape DEF CreditReturned, Idle
    <3> QED
      BY <2>4, <3>1 DEF CreditReturned
  <2> QED
    BY <2>1, <2>2, <2>3, <2>4
<1>4. ASSUME NEW m \in Admins, AdminWrite(m) \/ \E a \in Attempts : AdminRead(m, a)
      PROVE  /\ UNCHANGED <<attempt, credit>>
             /\ \A a \in Attempts : order'[a] = "absent" <=> order[a] = "absent"
  <2>1. CASE \E a \in Attempts : AdminRead(m, a)
    BY <2>1, AdminReadEffect DEF Others
  <2>2. CASE AdminWrite(m)
    <3>1. PICK a \in Attempts : a = admin[m].order /\ order[a] # "absent"
      BY <2>2, AdminWriteEffect DEF OrdersFollow, TypeOK
    <3>2. ASSUME NEW s \in OrderStatus \ {"absent"}, order' = [order EXCEPT ![a] = s]
          PROVE  \A b \in Attempts : order'[b] = "absent" <=> order[b] = "absent"
      BY <3>1, <3>2 DEF TypeOK
    <3> QED
      BY <2>2, <3>1, <3>2, AdminWriteEffect DEF Others
  <2> QED
    BY <1>4, <2>1, <2>2
<1> QED
  BY <1>1, <1>2, <1>3, <1>4 DEF Next

\* Giving credit back under the key of an order that is saved.
LEMMA RestoreFollows ==
    ASSUME TypeOK, TypeOK', CreditFollows, NEW a \in Attempts, RestoreOnce(a), order[a] # "absent",
           \A b \in Attempts : order'[b] = "absent" <=> order[b] = "absent",
           \A b \in Attempts : attempt'[b].credit = attempt[b].credit /\ (attempt'[b] = attempt[b] \/ b = a),
           attempt'[a].pc \notin {"reserve", "credit", "redeem", "save", "rollback"}
    PROVE  CreditFollows'
<1>1. /\ credit.restored[a] \in Nat /\ attempt[a].credit \in Nat
      /\ credit.restored[a] = IF a \in credit.keys THEN attempt[a].credit ELSE 0
  BY DEF TypeOK, CreditFollows
<1>2. credit'.restored[a] = IF a \in credit'.keys THEN attempt'[a].credit ELSE 0
  BY <1>1, RestoreOnceEffect
<1>3. credit'.redeemed[a] = attempt'[a].credit
  BY RestoreOnceEffect DEF CreditFollows
<1>4. ASSUME NEW b \in Attempts \ {a}
      PROVE  /\ attempt'[b] = attempt[b] /\ credit'.redeemed[b] = credit.redeemed[b]
             /\ credit'.restored[b] = credit.restored[b] /\ (b \in credit'.keys <=> b \in credit.keys)
  BY <1>4, RestoreOnceEffect
<1> QED
  BY <1>2, <1>3, <1>4 DEF CreditFollows
\* A step of an attempt keeps its credit in line with its progress.
LEMMA AttemptCredit ==
    ASSUME PInv, TypeOK', CreditFollows, NEW a \in Attempts, AttemptEffect(a)
    PROVE  CreditFollows'
<1> USE DEF PInv
<1>0. /\ credit.restored[a] \in Nat /\ credit.redeemed[a] \in Nat /\ attempt[a].credit \in Nat
      /\ DOMAIN credit.restored = Attempts /\ DOMAIN credit.redeemed = Attempts
  BY DEF TypeOK
<1>1. CASE Plain(a)
  BY <1>1 DEF Plain, PlainMove, Moved, Quiet, CreditFollows, At, Over
<1>2. CASE Applied(a)
  <2>1. order[a] = "absent"
    BY <1>2 DEF Applied, At, OrdersFollow, BeforeOrder
  <2> QED
    BY <1>2, <2>1 DEF Applied, Quiet, CreditFollows, At
<1>3. CASE Redeemed(a)
  <2>1. credit'.redeemed[a] = attempt[a].credit /\ \A b \in Attempts \ {a} : credit'.redeemed[b] = credit.redeemed[b]
    BY <1>0, <1>3 DEF Redeemed
  <2>2. order[a] = "absent"
    BY <1>3 DEF Redeemed, At, OrdersFollow, BeforeOrder
  <2> QED
    BY <1>0, <1>3, <2>1, <2>2 DEF Redeemed, Moved, CreditFollows, At
<1>4. CASE Saved(a)
  <2>1. order'[a] = "pending" /\ \A b \in Attempts \ {a} : order'[b] = order[b]
    BY <1>4 DEF Saved, TypeOK
  <2>2. order[a] = "absent"
    BY <1>4 DEF Saved, At, OrdersFollow, BeforeOrder
  <2> QED
    BY <1>4, <2>1, <2>2 DEF Saved, Moved, CreditFollows, At
<1>5. CASE RolledBack(a)
  <2>1. /\ credit'.restored[a] = credit.restored[a] + attempt[a].credit
        /\ \A b \in Attempts \ {a} : credit'.restored[b] = credit.restored[b]
    BY <1>0, <1>5 DEF RolledBack
  <2>2. order[a] = "absent" /\ credit.restored[a] = 0 /\ credit.redeemed[a] = attempt[a].credit
    BY <1>5 DEF RolledBack, At, OrdersFollow, BeforeOrder, CreditFollows
  <2>3. credit'.restored[a] <= credit'.redeemed[a]
    BY <1>0, <1>5, <2>1, <2>2 DEF RolledBack
  <2> QED
    BY <1>5, <2>1, <2>2, <2>3 DEF RolledBack, Moved, CreditFollows
<1>6. CASE Created(a) \/ Recorded(a)
  BY <1>6 DEF Created, Recorded, Moved, CreditFollows, At
<1>7. CASE Answered(a)
  BY <1>7 DEF Answered, CreditFollows, At
<1>8. CASE Failed(a)
  <2>1. \A b \in Attempts : order'[b] = "absent" <=> order[b] = "absent"
    BY <1>8, FailIfPendingEffect DEF Failed
  <2> QED
    BY <1>8, <2>1 DEF Failed, Moved, CreditFollows, At
<1>9. CASE Returned(a)
  <2>1. order[a] # "absent"
    BY <1>9 DEF Returned, At, OrdersFollow, AfterOrder
  <2>2. \A b \in Attempts : order'[b] = "absent" <=> order[b] = "absent"
    BY <1>9 DEF Returned
  <2>3. \A b \in Attempts : attempt'[b].credit = attempt[b].credit /\ (attempt'[b] = attempt[b] \/ b = a)
    BY <1>9 DEF Returned, Moved
  <2>4. attempt'[a].pc \notin {"reserve", "credit", "redeem", "save", "rollback"} /\ RestoreOnce(a)
    BY <1>9 DEF Returned, Moved
  <2> QED
    BY <2>1, <2>2, <2>3, <2>4, RestoreFollows
<1> QED
  BY <1>1, <1>2, <1>3, <1>4, <1>5, <1>6, <1>7, <1>8, <1>9 DEF AttemptEffect

KInv == PInv /\ CreditFollows

\* Nothing has been redeemed yet.
LEMMA InitKInv == Init => KInv
<1> SUFFICES ASSUME Init PROVE CreditFollows
  BY InitPInv DEF KInv
<1>1. \A a \in Attempts : attempt[a].pc = "reserve"
  BY DEF Init
<1> QED
  BY <1>1 DEF Init, CreditFollows

\* KInv is inductive.
LEMMA NextKInv == ASSUME KInv, [Next]_vars PROVE KInv'
<1> USE DEF KInv
<1>1. PInv' /\ TypeOK /\ TypeOK'
  BY NextPInv DEF PInv
<1>2. CASE \E a \in Attempts : Step(a) \/ Crash(a)
  BY <1>1, <1>2, StepEffect, AttemptCredit
<1>3. CASE ~ \E a \in Attempts : Step(a) \/ Crash(a)
  <2>1. /\ UNCHANGED attempt
        /\ \A a \in Attempts : order'[a] = "absent" <=> order[a] = "absent"
        /\ \/ UNCHANGED credit
           \/ \E a \in Attempts : RestoreOnce(a) /\ order[a] = "failed" /\ UNCHANGED order
    BY <1>3, CreditStep
  <2>2. CASE UNCHANGED credit
    BY <1>1, <2>1, <2>2 DEF CreditFollows
  <2>3. ASSUME NEW a \in Attempts, RestoreOnce(a), order[a] = "failed"
        PROVE  CreditFollows'
    <3>1. attempt'[a].pc \notin {"reserve", "credit", "redeem", "save", "rollback"}
      BY <2>1, <2>3 DEF PInv, OrdersFollow, BeforeOrder
    <3> QED
      BY <1>1, <2>1, <2>3, <3>1, RestoreFollows
  <2> QED
    BY <1>1, <2>1, <2>2, <2>3
<1> QED
  BY <1>2, <1>3

\* Compensations of any number of attempts, handlers and administrators give
\* back no more than was redeemed.
LEMMA KInvRestored == KInv => RestoredWithinRedeemed
<1> SUFFICES ASSUME KInv, NEW a \in Attempts PROVE credit.restored[a] <= credit.redeemed[a]
  BY DEF RestoredWithinRedeemed
<1>1. credit.restored[a] \in Nat /\ attempt[a].credit \in Nat
  BY DEF KInv, PInv, TypeOK
<1> QED
  BY <1>1 DEF KInv, CreditFollows

------------------------------------------------------------------------------
(* Orders that fail *)

\* Without administrators a failed order stays failed, and it has a reason.
FInv == KInv /\ FailuresFollow

\* A step of an attempt fails no order but its own, and that for want of a
\* payment.
LEMMA AttemptFailures ==
    ASSUME FInv, TypeOK', NEW a \in Attempts, AttemptEffect(a)
    PROVE  FailuresFollow'
<1> USE DEF FInv, KInv, PInv
<1>1. CASE Plain(a)
  BY <1>1 DEF Plain, PlainMove, Moved, Quiet, FailuresFollow, At, Over
<1>2. CASE Applied(a)
  BY <1>2 DEF Applied, Quiet, FailuresFollow, At
<1>3. CASE Redeemed(a) \/ RolledBack(a)
  BY <1>3 DEF Redeemed, RolledBack, Moved, FailuresFollow, At
<1>4. CASE Saved(a)
  <2>1. order'[a] = "pending" /\ \A b \in Attempts \ {a} : order'[b] = order[b]
    BY <1>4 DEF Saved, TypeOK
  <2>2. order[a] = "absent" /\ a \notin credit.keys
    BY <1>4 DEF Saved, At, OrdersFollow, BeforeOrder, CreditFollows
  <2> QED
    BY <1>4, <2>1, <2>2 DEF Saved, Moved, FailuresFollow, At
<1>5. CASE Created(a)
  <2>1. attempt[a].answer = "none" /\ \A b \in Attempts \ {a} : payment'[b] = payment[b]
    BY <1>5 DEF Created, At, PaymentsFollow, TypeOK
  <2> QED
    BY <1>5, <2>1 DEF Created, Moved, FailuresFollow, At
<1>6. CASE Answered(a)
  <2>1. order[a] = "pending"
    BY <1>6 DEF Answered, At, FailuresFollow
  <2> QED
    BY <1>6, <2>1 DEF Answered, FailuresFollow, At
<1>7. CASE Recorded(a)
  <2>1. order[a] = "pending" /\ \A b \in Attempts \ {a} : payment'[b] = payment[b]
    BY <1>7 DEF Recorded, At, FailuresFollow, TypeOK
  <2> QED
    BY <1>7, <2>1 DEF Recorded, Moved, FailuresFollow, At
<1>8. CASE Failed(a)
  <2>1. attempt[a].answer \in {"none", "declined"}
    BY <1>8 DEF Failed, At, PaymentsFollow, Compensating
  <2>2. \A b \in Attempts \ {a} : order'[b] = order[b]
    BY <1>8, FailIfPendingEffect DEF Failed
  <2>3. order[a] = "failed" => order'[a] = "failed"
    BY <1>8, FailIfPendingEffect DEF Failed
  <2> QED
    BY <1>8, <2>1, <2>2, <2>3 DEF Failed, Moved, FailuresFollow, At
<1>9. CASE Returned(a)
  <2>1. order[a] = "failed" /\ UNCHANGED <<order, payment>>
    BY <1>9 DEF Returned, FailuresFollow, At
  <2>2. \A b \in Attempts \ {a} : b \in credit'.keys <=> b \in credit.keys
    BY <1>9, RestoreOnceEffect DEF Returned
  <2> QED
    BY <1>9, <2>1, <2>2 DEF Returned, Moved, FailuresFollow, At
<1> QED
  BY <1>1, <1>2, <1>3, <1>4, <1>5, <1>6, <1>7, <1>8, <1>9 DEF AttemptEffect
\* A webhook request fails an order only after its payment has failed.
LEMMA HandlerFailures ==
    ASSUME FInv, NEW h \in Handlers, WebhookEffect(h)
    PROVE  FailuresFollow'
<1> USE DEF FInv, KInv, PInv
<1>0. UNCHANGED attempt
  BY DEF WebhookEffect, Received, Dropped, Written, OrderFailed, CreditReturned
<1>1. CASE Received(h) \/ Dropped(h)
  <2>1. UNCHANGED <<credit, order, payment>>
    BY <1>1 DEF Received, Dropped
  <2> QED
    BY <1>0, <2>1 DEF FailuresFollow
<1>2. ASSUME handler[h].pc \in {"write", "fail", "restore"}
      PROVE  \E a \in Attempts :
                /\ a = handler[h].event.order /\ attempt[a].pc = "done" /\ attempt[a].answer = "accepted"
                /\ handler[h] # Idle
  <2>1. handler[h] # Idle
    BY <1>2 DEF Idle
  <2> QED
    BY <2>1, WebhookShape DEF HandlersFollow, EventsFollow
<1>3. CASE Written(h)
  <2>1. PICK a \in Attempts : a = handler[h].event.order /\ attempt[a].answer = "accepted" /\ handler[h] # Idle
    BY <1>2, <1>3 DEF Written
  <2>2. payment[a].status = Needs(handler[h].event) /\ \A b \in Attempts \ {a} : payment'[b] = payment[b]
    BY <1>3, <2>1 DEF Written, Fresh, HandlersFollow, TypeOK
  <2>3. order[a] # "failed"
    BY <2>1, <2>2 DEF FailuresFollow, Needs
  <2> QED
    BY <1>0, <1>3, <2>2, <2>3 DEF FailuresFollow, Written
<1>4. CASE OrderFailed(h)
  <2>1. PICK a \in Attempts : a = handler[h].event.order /\ attempt[a].pc = "done" /\ handler[h] # Idle
    BY <1>2, <1>4 DEF OrderFailed
  <2>2. payment[a].status = "failed"
    BY <1>4, <2>1 DEF OrderFailed, HandlersFollow
  <2>3. /\ \A b \in Attempts \ {a} : order'[b] = order[b]
        /\ order[a] = "failed" => order'[a] = "failed"
    BY <1>4, <2>1, FailIfPendingEffect DEF OrderFailed
  <2> QED
    BY <1>0, <1>4, <2>1, <2>2, <2>3 DEF FailuresFollow, OrderFailed
<1>5. CASE CreditReturned(h)
  <2>1. PICK a \in Attempts : a = handler[h].event.order
    BY <1>2, <1>5 DEF CreditReturned
  <2>2. order[a] = "failed" /\ RestoreOnce(a) /\ UNCHANGED <<order, payment>>
    BY <1>5, <2>1 DEF CreditReturned
  <2>3. \A b \in Attempts \ {a} : b \in credit'.keys <=> b \in credit.keys
    BY <2>2, RestoreOnceEffect
  <2> QED
    BY <1>0, <2>2, <2>3 DEF FailuresFollow
<1> QED
  BY <1>1, <1>3, <1>4, <1>5 DEF WebhookEffect

\* Administrators apart, that is inductive.
LEMMA NextFailures == ASSUME FInv, [Next]_vars, Admins = {} PROVE FailuresFollow'
<1> USE DEF FInv, KInv, PInv
<1>1. CASE UNCHANGED vars
  BY <1>1 DEF vars, FailuresFollow
<1>2. ASSUME NEW a \in Attempts, Step(a) \/ Crash(a)
      PROVE  FailuresFollow'
  BY <1>2, StepEffect, AttemptFailures
<1>3. ASSUME NEW a \in Attempts, Sweep(a) \/ Decline(a) \/ Capture(a) \/ Refund(a)
      PROVE  FailuresFollow'
  <2>1. UNCHANGED <<attempt, order, payment, credit>>
    BY <1>3, SweepEffect, NotifiedEffect DEF Quiet, Notified
  <2> QED
    BY <2>1 DEF FailuresFollow
<1>4. ASSUME NEW h \in Handlers, Serve(h) \/ \E e \in sent : Receive(h, e)
      PROVE  FailuresFollow'
  BY <1>4, HandlerEffect, HandlerFailures
<1> QED
  BY <1>1, <1>2, <1>3, <1>4 DEF Next

\* What is kept with administrators and without.
AInv == KInv /\ (Admins = {} => FailuresFollow)

\* No order has failed yet.
LEMMA InitAInv == Init => AInv
<1> SUFFICES ASSUME Init PROVE FailuresFollow
  BY InitKInv DEF AInv
<1>1. \A a \in Attempts : attempt[a].pc = "reserve" /\ attempt[a].answer = "none"
  BY DEF Init
<1> QED
  BY <1>1 DEF Init, FailuresFollow

\* AInv is inductive.
LEMMA NextAInv == ASSUME AInv, [Next]_vars PROVE AInv'
BY NextKInv, NextFailures DEF AInv, FInv

\* A completed payment does not meet a failed order.
LEMMA FInvCompleted == FInv => CompletedIsNotFailed
BY DEF FInv, KInv, PInv, PaymentsFollow, FailuresFollow, CompletedIsNotFailed

\* Credit that came back has an order that never was or has failed.
LEMMA FInvCredit == FInv => CreditComesBackOnce
<1> SUFFICES ASSUME FInv, NEW a \in Attempts
             PROVE  /\ credit.restored[a] <= credit.redeemed[a]
                    /\ credit.restored[a] > 0 => order[a] \in {"absent", "failed"}
  BY DEF CreditComesBackOnce
<1>1. credit.restored[a] <= credit.redeemed[a]
  BY KInvRestored DEF FInv, RestoredWithinRedeemed
<1>2. ASSUME order[a] # "absent", credit.restored[a] > 0
      PROVE  order[a] = "failed"
  BY <1>2 DEF FInv, KInv, CreditFollows, FailuresFollow
<1> QED
  BY <1>1, <1>2

\* However many compensations run, with administrators and without, no more
\* credit comes back for an order than was redeemed for it.
THEOREM RestoredCorrect == Spec => []RestoredWithinRedeemed
BY InitKInv, NextKInv, KInvRestored, PTL DEF Spec

\* Where no administrator writes over a status, credit comes back only when the
\* order never existed or has failed.
THEOREM CreditCorrect == Spec => [](Admins = {} => CreditComesBackOnce)
<1>1. AInv => (Admins = {} => CreditComesBackOnce)
  BY FInvCredit DEF AInv, FInv
<1> QED
  BY <1>1, InitAInv, NextAInv, PTL DEF Spec

\* Where no administrator writes over a status, an order whose payment is
\* completed has not failed.
THEOREM CompletedCorrect == Spec => [](Admins = {} => CompletedIsNotFailed)
<1>1. AInv => (Admins = {} => CompletedIsNotFailed)
  BY FInvCompleted DEF AInv, FInv
<1> QED
  BY <1>1, InitAInv, NextAInv, PTL DEF Spec
------------------------------------------------------------------------------
(* Holds and credit of a refused checkout *)

HInv == KInv /\ HoldsFollow /\ LossesCost

\* Faults are counted, never forgotten.
LEMMA FaultsGrow ==
    ASSUME TypeOK, [Next]_vars
    PROVE  /\ faults \in Nat /\ (faults' = faults \/ faults' = faults + 1)
           /\ faults' = 0 => faults = 0 /\ ~Fault
<1> USE DEF TypeOK, Fault, NoFault
<1>1. faults' = faults \/ faults' = faults + 1
  <2>1. CASE UNCHANGED vars
    BY <2>1 DEF vars
  <2>2. ASSUME NEW a \in Attempts, Step(a) \/ Crash(a)
        PROVE  faults' = faults \/ faults' = faults + 1
    BY <2>2 DEF Step, Crash, Reserve, ReadCredit, Redeem, SaveOrder, RollbackCredit, ReleaseHold, SnapshotExtensions,
       SelectShipping, CreatePayment, Initiate, RecordAnswer, CheckUnpaid, FailOrder, LookupOrder, NotifyUnpaid, RefundCredit
  <2>3. ASSUME NEW a \in Attempts, Sweep(a) \/ Decline(a) \/ Capture(a) \/ Refund(a)
        PROVE  faults' = faults
    BY <2>3 DEF Sweep, Decline, Capture, Refund
  <2>4. ASSUME NEW h \in Handlers, Serve(h) \/ \E e \in sent : Receive(h, e)
        PROVE  faults' = faults \/ faults' = faults + 1
    BY <2>4 DEF Serve, Receive, WritePayment, FailUnpaidOrder, RestoreUnpaidCredit
  <2>5. ASSUME NEW m \in Admins, AdminWrite(m) \/ \E a \in Attempts : AdminRead(m, a)
        PROVE  faults' = faults
    BY <2>5 DEF AdminWrite, AdminRead
  <2> QED
    BY <2>1, <2>2, <2>3, <2>4, <2>5 DEF Next
<1> QED
  BY <1>1

\* A step of an attempt leaves the holds, the order and the credit of the other
\* attempts alone.
LEMMA OtherAttempts ==
    ASSUME TypeOK, NEW a \in Attempts, Step(a) \/ Crash(a), NEW b \in Attempts \ {a}
    PROVE  /\ attempt'[b] = attempt[b] /\ order'[b] = order[b] /\ hold'[b] = hold[b]
           /\ credit'.redeemed[b] = credit.redeemed[b] /\ credit'.restored[b] = credit.restored[b]
<1>1. AttemptEffect(a)
  BY StepEffect
<1>2. attempt'[b] = attempt[b]
  BY <1>1 DEF AttemptEffect, Plain, Moved, Applied, Redeemed, Saved, RolledBack, Created, Answered, Recorded, Failed, Returned
<1>3. order'[b] = order[b]
  BY <1>1 DEF AttemptEffect, Plain, Quiet, Applied, Redeemed, Saved, RolledBack, Created, Answered, Recorded, Failed, Returned,
     FailIfPending, TypeOK
<1>4. hold'[b] = hold[b]
  <2>1. \/ UNCHANGED hold
        \/ \E v : hold' = [hold EXCEPT ![a][v] = "active"]
        \/ \E v : hold' = [hold EXCEPT ![a][v] = "ended"]
    BY DEF Step, Crash, Reserve, ReadCredit, Redeem, SaveOrder, RollbackCredit, ReleaseHold, SnapshotExtensions,
       SelectShipping, CreatePayment, Initiate, RecordAnswer, CheckUnpaid, FailOrder, LookupOrder, NotifyUnpaid, RefundCredit
  <2> QED
    BY <2>1 DEF TypeOK
<1>5. credit'.redeemed[b] = credit.redeemed[b] /\ credit'.restored[b] = credit.restored[b]
  <2>1. CASE Redeemed(a) \/ RolledBack(a)
    BY <2>1 DEF Redeemed, RolledBack, TypeOK
  <2>2. CASE Returned(a)
    BY <2>2, RestoreOnceEffect DEF Returned
  <2>3. CASE ~(Redeemed(a) \/ RolledBack(a) \/ Returned(a))
    BY <1>1, <2>3 DEF AttemptEffect, Plain, Quiet, Applied, Saved, Created, Answered, Recorded, Failed
  <2> QED
    BY <2>1, <2>2, <2>3
<1> QED
  BY <1>2, <1>3, <1>4, <1>5

\* Where no call fails, an attempt ends for want of stock or of balance, or goes
\* on releasing.
LEMMA EndsWithoutFault ==
    ASSUME TypeOK, NEW a \in Attempts, Step(a) \/ Crash(a), ~Fault,
           attempt'[a].pc \in {"release", "refused", "rollback"}
    PROVE  \/ At(a, "reserve") /\ Refuse(a) /\ UNCHANGED <<hold, credit, order>>
           \/ At(a, "redeem") /\ Refuse(a) /\ UNCHANGED <<hold, credit, order>>
           \/ ReleaseHold(a) \/ RollbackCredit(a)
<1>0. \A pc \in Pc : Goto(a, pc) => attempt'[a].pc = pc
  BY GotoEffect DEF Moved
<1>1. CASE Reserve(a)
  <2>1. "credit" \in Pc /\ "reserve" \in Pc
    BY DEF Pc
  <2>2. ASSUME NEW v, Goto(a, IF Held(a) \cup {v} = Variants THEN "credit" ELSE "reserve")
        PROVE  FALSE
    BY <1>0, <2>1, <2>2
  <2> QED
    BY <1>1, <2>2 DEF Reserve
<1>2. CASE Redeem(a)
  <2>1. "save" \in Pc
    BY DEF Pc
  <2> QED
    BY <1>0, <1>2, <2>1 DEF Redeem
<1>3. CASE ReadCredit(a)
  <2> DEFINE pc == IF SmallerOf(attempt[a].wanted, SmallerOf(credit.balance, Price)) = 0 THEN "save" ELSE "redeem"
  <2>1. attempt' = [attempt EXCEPT ![a].pc = pc, ![a].credit = SmallerOf(attempt[a].wanted, SmallerOf(credit.balance, Price))]
    BY <1>3 DEF ReadCredit
  <2>2. attempt'[a].pc = pc
    BY <2>1 DEF TypeOK
  <2> QED
    BY <2>2
<1>4. CASE Initiate(a)
  <2>1. "unpaid" \in Pc
    BY DEF Pc
  <2>2. \E answer : attempt' = [attempt EXCEPT ![a].pc = "record", ![a].answer = Meta(answer)]
    BY <1>0, <1>4, <2>1 DEF Initiate
  <2>3. attempt'[a].pc = "record"
    BY <2>2 DEF TypeOK
  <2> QED
    BY <2>3
<1>5. CASE SaveOrder(a) \/ SnapshotExtensions(a) \/ CreatePayment(a) \/ FailOrder(a) \/ NotifyUnpaid(a) \/ RefundCredit(a) \/ Crash(a)
  <2>1. {"snapshot", "rollback", "ship", "initiate", "unpaid", "lookup", "stopped", "refund", "dead"} \subseteq Pc
    BY DEF Pc, Over
  <2>2. PICK pc \in {"snapshot", "ship", "initiate", "unpaid", "lookup", "stopped", "refund", "dead"} : Goto(a, pc)
    BY <1>5 DEF SaveOrder, SnapshotExtensions, CreatePayment, FailOrder, NotifyUnpaid, RefundCredit, Crash
  <2>3. attempt'[a].pc = pc
    BY <1>0, <2>1, <2>2
  <2> QED
    BY <2>3
<1>6. CASE SelectShipping(a) \/ RecordAnswer(a) \/ CheckUnpaid(a) \/ LookupOrder(a)
  <2>1. {"done", "pay", "unpaid", "stopped", "fail", "notify"} \subseteq Pc
    BY DEF Pc, Over
  <2>2. PICK pc \in {"done", "pay", "unpaid", "stopped", "fail", "notify"} : Goto(a, pc)
    BY <1>6 DEF SelectShipping, RecordAnswer, CheckUnpaid, LookupOrder
  <2>3. attempt'[a].pc = pc
    BY <1>0, <2>1, <2>2
  <2> QED
    BY <2>3
<1> QED
  BY <1>1, <1>2, <1>3, <1>4, <1>5, <1>6 DEF Step
\* An attempt that ends without a fault holds what its context lists.
LEMMA AttemptHolds ==
    ASSUME HInv, TypeOK', NEW a \in Attempts, Step(a) \/ Crash(a), faults = 0, ~Fault,
           attempt'[a].pc \in {"release", "refused", "rollback"}
    PROVE  /\ attempt'[a].pc # "rollback"
           /\ Held(a)' = IF attempt'[a].pc = "release" THEN attempt'[a].listed ELSE {}
<1> USE DEF HInv, KInv, PInv
<1>1. ASSUME Refuse(a), UNCHANGED hold
      PROVE  attempt'[a].pc = "release" /\ Held(a)' = attempt'[a].listed
  <2>1. attempt'[a].pc = "release" /\ attempt'[a].listed = Held(a)
    BY <1>1, RefuseEffect DEF Moved
  <2>2. Held(a)' = Held(a)
    BY <1>1 DEF Held
  <2> QED
    BY <2>1, <2>2
<1>2. CASE RollbackCredit(a)
  BY <1>2 DEF RollbackCredit, LossesCost, At
<1>3. CASE ReleaseHold(a)
  <2>1. At(a, "release") /\ Held(a) = attempt[a].listed
    BY <1>3 DEF ReleaseHold, HoldsFollow, At
  <2>2. ASSUME NEW v \in attempt[a].listed,
               attempt' = [attempt EXCEPT ![a].listed = @ \ {v}],
               hold' = [hold EXCEPT ![a][v] = "ended"]
        PROVE  attempt'[a].pc = "release" /\ Held(a)' = attempt'[a].listed
    <3>1. attempt'[a].pc = "release" /\ attempt'[a].listed = attempt[a].listed \ {v}
      BY <2>1, <2>2 DEF TypeOK, At
    <3>2. \A x \in Variants : hold'[a][x] = "active" <=> hold[a][x] = "active" /\ x # v
      BY <2>2 DEF TypeOK
    <3> QED
      BY <2>1, <3>1, <3>2 DEF Held
  <2>3. ASSUME attempt[a].listed = {}, Goto(a, "refused"), UNCHANGED hold
        PROVE  attempt'[a].pc = "refused" /\ Held(a)' = {}
    <3>1. Goto(a, "refused") /\ "refused" \in Pc
      BY <2>3 DEF Pc, Over
    <3>2. attempt'[a].pc = "refused"
      BY <3>1, GotoEffect DEF Moved
    <3> QED
      BY <2>1, <2>3, <3>2 DEF Held
  <2> QED
    BY <1>3, <2>1, <2>2, <2>3 DEF ReleaseHold
<1> QED
  BY <1>1, <1>2, <1>3, EndsWithoutFault DEF At

\* Whoever begins to release has redeemed nothing, or has tried to put it back.
LEMMA AttemptCosts ==
    ASSUME HInv, TypeOK', NEW a \in Attempts, Step(a) \/ Crash(a),
           faults \in Nat, faults' = faults \/ faults' = faults + 1
    PROVE  /\ attempt'[a].pc = "rollback" => faults' >= 1
           /\ attempt'[a].pc \in {"release", "refused"} => credit'.restored[a] = credit'.redeemed[a] \/ faults' >= 2
<1> USE DEF HInv, KInv, PInv
<1>1. ASSUME attempt'[a].pc = "rollback"
      PROVE  faults' >= 1
  <2>1. ~Refuse(a) /\ ~RollbackCredit(a)
    BY <1>1, RefuseEffect DEF Moved, RollbackCredit
  <2>2. ~ReleaseHold(a)
    <3>1. ASSUME ReleaseHold(a) PROVE FALSE
      <4>1. Plain(a) /\ At(a, "release")
        BY <3>1, ReleaseHoldEffect DEF ReleaseHold
      <4> QED
        BY <1>1, <4>1 DEF Plain, PlainMove, Moved, At, Compensating, Over
    <3> QED
      BY <3>1
  <2>3. Fault
    BY <1>1, <2>1, <2>2, EndsWithoutFault
  <2> QED
    BY <2>3 DEF Fault
<1>2. ASSUME attempt'[a].pc \in {"release", "refused"}
      PROVE  credit'.restored[a] = credit'.redeemed[a] \/ faults' >= 2
  <2>1. CASE At(a, "rollback")
    <3>1. RollbackCredit(a)
      <4>1. ~Crash(a)
        BY <1>2, GotoEffect DEF Crash, Moved, Pc, Over
      <4> QED
        BY <2>1, <4>1 DEF Step, Reserve, ReadCredit, Redeem, SaveOrder, ReleaseHold, SnapshotExtensions, SelectShipping,
           CreatePayment, Initiate, RecordAnswer, CheckUnpaid, FailOrder, LookupOrder, NotifyUnpaid, RefundCredit, At
    <3>2. /\ credit.restored[a] = 0 /\ credit.redeemed[a] = attempt[a].credit /\ faults >= 1
          /\ attempt[a].credit \in Nat
      BY <2>1 DEF CreditFollows, LossesCost, At, TypeOK
    <3>3. CASE credit' = [credit EXCEPT !.balance = @ + attempt[a].credit, !.restored[a] = @ + attempt[a].credit]
      <4>1. credit'.restored[a] = credit.restored[a] + attempt[a].credit /\ credit'.redeemed[a] = credit.redeemed[a]
        BY <3>3 DEF TypeOK
      <4> QED
        BY <3>2, <4>1
    <3>4. CASE Fault
      BY <3>2, <3>4 DEF Fault
    <3> QED
      BY <3>1, <3>3, <3>4 DEF RollbackCredit
  <2>2. CASE ~At(a, "rollback")
    <3>1. Plain(a)
      BY <1>2, <2>2, StepEffect DEF AttemptEffect, Applied, Redeemed, Saved, RolledBack, Created, Answered, Recorded, Failed,
         Returned, Moved, At
    <3>2. credit' = credit /\ attempt[a].pc \in {"reserve", "credit", "redeem", "release"}
      BY <1>2, <2>2, <3>1 DEF Plain, Quiet, PlainMove, Moved, At, Compensating, Over
    <3> QED
      BY <3>2 DEF CreditFollows, LossesCost
  <2> QED
    BY <2>1, <2>2
<1> QED
  BY <1>1, <1>2

\* Every attempt is still at its first step.
LEMMA InitHInv == Init => HInv
<1> SUFFICES ASSUME Init PROVE HoldsFollow /\ LossesCost
  BY InitKInv DEF HInv
<1>1. \A a \in Attempts : attempt[a].pc = "reserve"
  BY DEF Init
<1> QED
  BY <1>1 DEF HoldsFollow, LossesCost

\* HInv is inductive.
LEMMA NextHInv == ASSUME HInv, [Next]_vars PROVE HInv'
<1> USE DEF HInv, KInv, PInv
<1>1. KInv' /\ TypeOK'
  BY NextKInv
<1>2. faults \in Nat /\ (faults' = faults \/ faults' = faults + 1)
  BY FaultsGrow
<1>3. faults' = 0 => faults = 0 /\ ~Fault
  BY FaultsGrow
<1>4. \A b \in Attempts : hold'[b] = hold[b] => Held(b)' = Held(b)
  BY DEF Held
<1>5. ASSUME NEW a \in Attempts, Step(a) \/ Crash(a)
      PROVE  HoldsFollow' /\ LossesCost'
  <2>1. ASSUME NEW b \in Attempts \ {a}
        PROVE  /\ attempt'[b] = attempt[b] /\ Held(b)' = Held(b)
               /\ credit'.redeemed[b] = credit.redeemed[b] /\ credit'.restored[b] = credit.restored[b]
    BY <1>4, <1>5, OtherAttempts
  <2>2. faults' = 0 /\ attempt'[a].pc \in {"release", "refused", "rollback"} =>
           Held(a)' = IF attempt'[a].pc = "release" THEN attempt'[a].listed ELSE {}
    BY <1>1, <1>3, <1>5, AttemptHolds
  <2>3. HoldsFollow'
    BY <1>3, <2>1, <2>2 DEF HoldsFollow
  <2>4. /\ attempt'[a].pc = "rollback" => faults' >= 1
        /\ attempt'[a].pc \in {"release", "refused"} => credit'.restored[a] = credit'.redeemed[a] \/ faults' >= 2
    BY <1>1, <1>2, <1>5, AttemptCosts
  <2>5. LossesCost'
    BY <1>2, <2>1, <2>4 DEF LossesCost
  <2> QED
    BY <2>3, <2>5
<1>6. ASSUME NEW a \in Attempts, Sweep(a)
      PROVE  HoldsFollow' /\ LossesCost'
  <2>1. UNCHANGED <<credit, order, attempt>>
    BY <1>6, SweepEffect DEF Quiet
  <2>2. PICK v \in Held(a) : hold' = [hold EXCEPT ![a][v] = "ended"] /\ attempt[a].pc \in Over
    BY <1>6 DEF Sweep
  <2>3. \A b \in Attempts \ {a} : hold'[b] = hold[b]
    BY <2>2 DEF TypeOK
  <2>4. faults = 0 => attempt[a].pc \notin {"release", "refused"}
    BY <2>2 DEF HoldsFollow, Over
  <2>5. \A b \in Attempts \ {a} : Held(b)' = Held(b)
    BY <1>4, <2>3
  <2>6. HoldsFollow'
    BY <1>3, <2>1, <2>4, <2>5 DEF HoldsFollow
  <2> QED
    BY <1>2, <2>1, <2>6 DEF LossesCost
<1>7. ASSUME UNCHANGED hold, ~ \E a \in Attempts : Step(a) \/ Crash(a)
      PROVE  HoldsFollow' /\ LossesCost'
  <2>1. /\ UNCHANGED attempt
        /\ \/ UNCHANGED credit
           \/ \E a \in Attempts : RestoreOnce(a) /\ order[a] = "failed" /\ UNCHANGED order
    BY <1>7, CreditStep
  <2>2. \A b \in Attempts : order[b] = "absent" =>
           credit'.redeemed[b] = credit.redeemed[b] /\ credit'.restored[b] = credit.restored[b]
    BY <2>1, RestoreOnceEffect
  <2>3. \A b \in Attempts : Held(b)' = Held(b)
    BY <1>4, <1>7
  <2>4. HoldsFollow'
    BY <1>3, <2>1, <2>3 DEF HoldsFollow
  <2>5. \A b \in Attempts : attempt[b].pc \in {"release", "refused"} => order[b] = "absent"
    BY DEF OrdersFollow, BeforeOrder
  <2> QED
    BY <1>2, <2>1, <2>2, <2>4, <2>5 DEF LossesCost
<1>8. ASSUME NEW a \in Attempts, Decline(a) \/ Capture(a) \/ Refund(a)
      PROVE  UNCHANGED hold
  BY <1>8, NotifiedEffect DEF Notified
<1>9. ASSUME NEW h \in Handlers, Serve(h) \/ \E e \in sent : Receive(h, e)
      PROVE  UNCHANGED hold
  BY <1>9, HandlerEffect DEF WebhookEffect, Received, Dropped, Written, OrderFailed, CreditReturned
<1>10. ASSUME NEW m \in Admins, AdminWrite(m) \/ \E a \in Attempts : AdminRead(m, a)
      PROVE  UNCHANGED hold
  BY <1>10, AdminWriteEffect, AdminReadEffect DEF Others
<1>11. ASSUME UNCHANGED vars
      PROVE  HoldsFollow' /\ LossesCost'
  <2>1. \A b \in Attempts : Held(b)' = Held(b)
    BY <1>4, <1>11 DEF vars
  <2>2. HoldsFollow'
    BY <1>11, <2>1 DEF vars, HoldsFollow
  <2> QED
    BY <1>11, <2>2 DEF vars, LossesCost
<1>12. HoldsFollow' /\ LossesCost'
  <2> HIDE DEF HInv, KInv, PInv
  <2> QED
    BY <1>5, <1>6, <1>7, <1>8, <1>9, <1>10, <1>11 DEF Next
<1> QED
  BY <1>1, <1>12

\* A refused checkout has no hold left unless a call failed, and has lost no
\* redeemed credit unless two did, whatever the stock, the balance and the other
\* attempts are.
THEOREM RefusedCorrect == Spec => []RefusedLeavesNothing
<1>1. HInv => RefusedLeavesNothing
  BY DEF HInv, KInv, PInv, TypeOK, HoldsFollow, LossesCost, RefusedLeavesNothing, At
<1> QED
  BY <1>1, InitHInv, NextHInv, PTL DEF Spec

------------------------------------------------------------------------------
(* Where the units are *)

Holders(v) == {a \in Attempts : hold[a][v] = "active"}

\* A unit of a variant is in stock or held by one attempt.
UnitsAccounted == \A v \in Variants : stock[v] + Cardinality(Holders(v)) = Stock[v]

BooksInv == TypeOK /\ UnitsAccounted /\ \A v \in Variants : IsFiniteSet(Holders(v))

\* From its last Reserve to its end an attempt holds a unit of every variant, unless it
\* fails before the order is saved; what it is about to release it still holds.
UnderHold == {"credit", "redeem", "save", "rollback", "snapshot", "ship", "pay", "initiate", "record", "unpaid"}
             \cup Compensating
HoldKept(a) ==
    /\ attempt[a].pc \in UnderHold => Held(a) = Variants
    /\ attempt[a].pc = "release" => attempt[a].listed \subseteq Held(a)
HoldsInv == TypeOK /\ \A a \in Attempts : HoldKept(a)

\* An order is saved while its attempt holds a unit of every variant of the cart.
OrderedUnderHold == [][\A a \in Attempts : order[a] = "absent" /\ order'[a] # "absent" => Held(a) = Variants]_vars

\* The two ways to move a unit.
Taken(a, v) ==
    /\ hold[a][v] # "active" /\ hold' = [hold EXCEPT ![a][v] = "active"]
    /\ stock' = [stock EXCEPT ![v] = @ - 1]
PutBack(a, v) ==
    /\ hold[a][v] = "active" /\ hold' = [hold EXCEPT ![a][v] = "ended"]
    /\ stock' = [stock EXCEPT ![v] = @ + 1]

\* Nothing but Reserve, Release and the sweep moves a unit.
LEMMA UnitStep ==
    ASSUME TypeOK, [Next]_vars
    PROVE  UNCHANGED <<stock, hold>> \/ \E a \in Attempts, v \in Variants : Taken(a, v) \/ PutBack(a, v)
<1>1. ASSUME NEW a \in Attempts, Reserve(a)
      PROVE  UNCHANGED <<stock, hold>> \/ \E v \in Variants : Taken(a, v)
  BY <1>1 DEF Reserve, Held, Taken
<1>2. ASSUME NEW a \in Attempts, ReleaseHold(a)
      PROVE  UNCHANGED <<stock, hold>> \/ \E v \in Variants : PutBack(a, v)
  <2>1. attempt[a].listed \subseteq Variants
    BY DEF TypeOK
  <2> QED
    BY <1>2, <2>1 DEF ReleaseHold, PutBack
<1>3. ASSUME NEW a \in Attempts, Sweep(a)
      PROVE  \E v \in Variants : PutBack(a, v)
  BY <1>3 DEF Sweep, Held, PutBack
<1>4. ASSUME NEW a \in Attempts, Step(a) \/ Crash(a), ~Reserve(a), ~ReleaseHold(a)
      PROVE  UNCHANGED <<stock, hold>>
  BY <1>4 DEF Step, Crash, ReadCredit, Redeem, SaveOrder, RollbackCredit, SnapshotExtensions, SelectShipping,
     CreatePayment, Initiate, RecordAnswer, CheckUnpaid, FailOrder, LookupOrder, NotifyUnpaid, RefundCredit
<1>5. ASSUME NEW a \in Attempts, Decline(a) \/ Capture(a) \/ Refund(a)
      PROVE  UNCHANGED <<stock, hold>>
  BY <1>5, NotifiedEffect DEF Notified
<1>6. ASSUME NEW h \in Handlers, Serve(h) \/ \E e \in sent : Receive(h, e)
      PROVE  UNCHANGED <<stock, hold>>
  BY <1>6, HandlerEffect DEF WebhookEffect, Received, Dropped, Written, OrderFailed, CreditReturned
<1>7. ASSUME NEW m \in Admins, AdminWrite(m) \/ \E a \in Attempts : AdminRead(m, a)
      PROVE  UNCHANGED <<stock, hold>>
  BY <1>7, AdminWriteEffect, AdminReadEffect DEF Others
<1>8. CASE UNCHANGED vars
  BY <1>8 DEF vars
<1> QED
  BY <1>1, <1>2, <1>3, <1>4, <1>5, <1>6, <1>7, <1>8 DEF Next

\* A unit that is taken has one more holder.
LEMMA TakenBooks ==
    ASSUME BooksInv, NEW a \in Attempts, NEW v \in Variants, Taken(a, v)
    PROVE  UnitsAccounted' /\ \A w \in Variants : IsFiniteSet(Holders(w))'
<1>1. Holders(v)' = Holders(v) \cup {a} /\ a \notin Holders(v)
  <2>1. \A b \in Attempts : hold'[b][v] = IF b = a THEN "active" ELSE hold[b][v]
    BY DEF Taken, BooksInv, TypeOK
  <2> QED
    BY <2>1 DEF Holders, Taken
<1>2. IsFiniteSet(Holders(v)') /\ Cardinality(Holders(v)') = Cardinality(Holders(v)) + 1
  BY <1>1, FS_AddElement DEF BooksInv
<1>3. stock'[v] = stock[v] - 1 /\ stock[v] \in Nat /\ Cardinality(Holders(v)) \in Nat
  BY FS_CardinalityType DEF Taken, BooksInv, TypeOK
<1>4. stock[v] + Cardinality(Holders(v)) = Stock[v]
  BY DEF BooksInv, UnitsAccounted
<1>5. ASSUME NEW w \in Variants \ {v} PROVE stock'[w] = stock[w] /\ Holders(w)' = Holders(w)
  <2>1. \A b \in Attempts : hold'[b][w] = hold[b][w]
    BY DEF Taken, BooksInv, TypeOK
  <2> QED
    BY <2>1 DEF Taken, Holders, BooksInv, TypeOK
<1>6. stock'[v] + Cardinality(Holders(v)') = Stock[v]
  BY <1>2, <1>3, <1>4
<1> QED
  BY <1>2, <1>5, <1>6 DEF BooksInv, UnitsAccounted

\* A unit that is put back has one less.
LEMMA PutBackBooks ==
    ASSUME BooksInv, NEW a \in Attempts, NEW v \in Variants, PutBack(a, v)
    PROVE  UnitsAccounted' /\ \A w \in Variants : IsFiniteSet(Holders(w))'
<1>1. Holders(v)' = Holders(v) \ {a} /\ a \in Holders(v)
  <2>1. \A b \in Attempts : hold'[b][v] = IF b = a THEN "ended" ELSE hold[b][v]
    BY DEF PutBack, BooksInv, TypeOK
  <2> QED
    BY <2>1 DEF Holders, PutBack
<1>2. IsFiniteSet(Holders(v)') /\ Cardinality(Holders(v)') = Cardinality(Holders(v)) - 1
  BY <1>1, FS_RemoveElement DEF BooksInv
<1>3. stock'[v] = stock[v] + 1 /\ stock[v] \in Nat /\ Cardinality(Holders(v)) \in Nat
  BY FS_CardinalityType DEF PutBack, BooksInv, TypeOK
<1>4. stock[v] + Cardinality(Holders(v)) = Stock[v]
  BY DEF BooksInv, UnitsAccounted
<1>5. ASSUME NEW w \in Variants \ {v} PROVE stock'[w] = stock[w] /\ Holders(w)' = Holders(w)
  <2>1. \A b \in Attempts : hold'[b][w] = hold[b][w]
    BY DEF PutBack, BooksInv, TypeOK
  <2> QED
    BY <2>1 DEF PutBack, Holders, BooksInv, TypeOK
<1>6. stock'[v] + Cardinality(Holders(v)') = Stock[v]
  BY <1>2, <1>3, <1>4
<1> QED
  BY <1>2, <1>5, <1>6 DEF BooksInv, UnitsAccounted

\* No unit is held twice or lost, whatever fails, crashes or is swept
\* (Reserve, Release and ReleaseExpiredBefore as checkout uses them).
THEOREM UnitsCorrect == Spec => []UnitsAccounted
<1>1. Init => BooksInv
  <2> SUFFICES ASSUME Init PROVE BooksInv
    OBVIOUS
  <2>1. \A v \in Variants : Holders(v) = {} /\ stock[v] = Stock[v] /\ Stock[v] \in Nat
    BY CheckoutAssumption DEF Init, Holders
  <2> QED
    BY <2>1, InitType, FS_EmptySet DEF BooksInv, UnitsAccounted
<1>2. BooksInv /\ [Next]_vars => BooksInv'
  <2> SUFFICES ASSUME BooksInv, [Next]_vars PROVE BooksInv'
    OBVIOUS
  <2>1. TypeOK'
    BY NextType DEF BooksInv
  <2>2. CASE UNCHANGED <<stock, hold>>
    BY <2>1, <2>2 DEF BooksInv, UnitsAccounted, Holders
  <2> QED
    BY <2>1, <2>2, UnitStep, TakenBooks, PutBackBooks DEF BooksInv
<1>3. BooksInv => UnitsAccounted
  BY DEF BooksInv
<1> QED
  BY <1>1, <1>2, <1>3, PTL DEF Spec

\* Whoever begins to release lists what it holds.
LEMMA RefusesOnly ==
    ASSUME TypeOK, NEW a \in Attempts, Step(a) \/ Crash(a), ~ReleaseHold(a), attempt'[a].pc = "release"
    PROVE  Refuse(a) /\ UNCHANGED hold
<1>1. attempt[a].pc \in {"reserve", "credit", "redeem", "rollback", "release"} /\ ~Crash(a)
  <2>1. AttemptEffect(a)
    BY StepEffect
  <2>2. "dead" \in Pc
    BY DEF Pc, Over
  <2> QED
    BY <2>1, <2>2, GotoEffect DEF AttemptEffect, Plain, PlainMove, Moved, At, Applied, Redeemed, Saved, RolledBack, Created, Answered,
       Recorded, Failed, Returned, Crash, Compensating, Over
<1>2. Reserve(a) \/ ReadCredit(a) \/ Redeem(a) \/ RollbackCredit(a)
  BY <1>1 DEF Step, SaveOrder, SnapshotExtensions, SelectShipping, CreatePayment, Initiate, RecordAnswer, CheckUnpaid, FailOrder,
     LookupOrder, NotifyUnpaid, RefundCredit, At
<1>3. \A pc \in {"reserve", "credit", "save", "refused"} : ~Goto(a, pc)
  <2>1. {"reserve", "credit", "save", "refused"} \subseteq Pc
    BY DEF Pc, Over
  <2> QED
    BY <2>1, GotoEffect DEF Moved
<1>4. CASE Reserve(a)
  BY <1>3, <1>4 DEF Reserve
<1>5. CASE ReadCredit(a)
  <2>1. \A c : attempt' # [attempt EXCEPT ![a].pc = "save", ![a].credit = c] /\ attempt' # [attempt EXCEPT ![a].pc = "redeem", ![a].credit = c]
    BY DEF TypeOK
  <2> QED
    BY <1>3, <1>5, <2>1 DEF ReadCredit
<1>6. CASE Redeem(a) \/ RollbackCredit(a)
  BY <1>3, <1>6 DEF Redeem, RollbackCredit
<1> QED
  BY <1>2, <1>4, <1>5, <1>6

\* Reserve goes on when it has all it needs.
LEMMA ReserveHolds ==
    ASSUME HoldsInv, NEW a \in Attempts, Reserve(a)
    PROVE  attempt'[a].pc \in UnderHold => Held(a)' = Variants
<1>1. CASE Refuse(a)
  BY <1>1, RefuseEffect DEF HoldsInv, Moved, UnderHold, Compensating
<1>2. ASSUME NEW v \in Variants \ Held(a),
             hold' = [hold EXCEPT ![a][v] = "active"],
             Goto(a, IF Held(a) \cup {v} = Variants THEN "credit" ELSE "reserve")
      PROVE  attempt'[a].pc \in UnderHold => Held(a)' = Variants
  <2>1. \A x \in Variants : hold'[a][x] = IF x = v THEN "active" ELSE hold[a][x]
    BY <1>2 DEF HoldsInv, TypeOK
  <2>2. Held(a)' = Held(a) \cup {v}
    BY <2>1 DEF Held
  <2>3. PICK pc \in {"credit", "reserve"} : Goto(a, pc) /\ pc = IF Held(a) \cup {v} = Variants THEN "credit" ELSE "reserve"
    BY <1>2
  <2>4. attempt'[a].pc = pc
    BY <2>3, GotoEffect DEF Pc, Moved, HoldsInv
  <2> QED
    BY <2>2, <2>3, <2>4 DEF UnderHold, Compensating
<1> QED
  BY <1>1, <1>2 DEF Reserve

\* A hold that is released leaves the list, whether the call fails or not.
LEMMA ReleaseHolds ==
    ASSUME HoldsInv, NEW a \in Attempts, ReleaseHold(a)
    PROVE  HoldKept(a)'
<1>1. At(a, "release") /\ attempt[a].listed \subseteq Held(a) /\ attempt[a].listed \subseteq Variants
  BY DEF ReleaseHold, HoldsInv, HoldKept, At, TypeOK
<1>2. ASSUME NEW v \in attempt[a].listed,
             attempt' = [attempt EXCEPT ![a].listed = @ \ {v}],
             UNCHANGED hold \/ hold' = [hold EXCEPT ![a][v] = "ended"]
      PROVE  HoldKept(a)'
  <2>1. attempt'[a].pc = "release" /\ attempt'[a].listed = attempt[a].listed \ {v}
    BY <1>1, <1>2 DEF HoldsInv, TypeOK, At
  <2>2. \A x \in Variants \ {v} : hold'[a][x] = hold[a][x]
    BY <1>2 DEF HoldsInv, TypeOK
  <2>3. attempt[a].listed \ {v} \subseteq Held(a)'
    BY <1>1, <2>2 DEF Held
  <2> QED
    BY <2>1, <2>3 DEF HoldKept, UnderHold, Compensating
<1>3. ASSUME Goto(a, "refused")
      PROVE  HoldKept(a)'
  <2>1. attempt'[a].pc = "refused"
    BY <1>3, GotoEffect DEF Pc, Over, Moved, HoldsInv
  <2> QED
    BY <2>1 DEF HoldKept, UnderHold, Compensating
<1> QED
  BY <1>2, <1>3 DEF ReleaseHold

\* Every other step of an attempt leaves its holds alone.
LEMMA StepHolds ==
    ASSUME HoldsInv, NEW a \in Attempts, Step(a) \/ Crash(a)
    PROVE  HoldKept(a)'
<1>0. TypeOK /\ HoldKept(a)
  BY DEF HoldsInv
<1>1. ASSUME attempt'[a].pc = "release", ~ReleaseHold(a)
      PROVE  attempt'[a].listed \subseteq Held(a)'
  <2>1. attempt'[a].listed = Held(a) /\ UNCHANGED hold
    BY <1>0, <1>1, RefusesOnly, RefuseEffect
  <2> QED
    BY <2>1 DEF Held
<1>2. ASSUME attempt'[a].pc \in UnderHold, ~Reserve(a), ~ReleaseHold(a)
      PROVE  Held(a)' = Variants
  <2>1. UNCHANGED hold
    BY <1>2 DEF Step, Crash, ReadCredit, Redeem, SaveOrder, RollbackCredit, SnapshotExtensions, SelectShipping,
       CreatePayment, Initiate, RecordAnswer, CheckUnpaid, FailOrder, LookupOrder, NotifyUnpaid, RefundCredit
  <2>2. ~At(a, "reserve") \/ Crash(a)
    BY <1>2 DEF Step, ReadCredit, Redeem, SaveOrder, RollbackCredit, SnapshotExtensions, SelectShipping,
       CreatePayment, Initiate, RecordAnswer, CheckUnpaid, FailOrder, LookupOrder, NotifyUnpaid, RefundCredit, At
  <2>3. ~Crash(a)
    BY <1>0, <1>2, GotoEffect DEF Crash, Moved, Pc, Over, UnderHold, Compensating
  <2>4. attempt[a].pc \in UnderHold
    BY <1>0, <1>2, <2>2, <2>3, StepEffect DEF AttemptEffect, Plain, PlainMove, Moved, At, Applied, Redeemed, Saved, RolledBack,
       Created, Answered, Recorded, Failed, Returned, UnderHold, Compensating, Over
  <2>5. Held(a)' = Held(a)
    BY <2>1 DEF Held
  <2> QED
    BY <1>0, <2>4, <2>5 DEF HoldKept
<1> QED
  BY <1>1, <1>2, ReserveHolds, ReleaseHolds DEF HoldKept

\* HoldsInv is inductive: a sweep ends the holds of attempts that are over only.
LEMMA HoldsStep == ASSUME HoldsInv, [Next]_vars PROVE HoldsInv'
<1>0. TypeOK /\ TypeOK'
  BY NextType DEF HoldsInv
<1>1. ASSUME NEW b \in Attempts, attempt'[b] = attempt[b], hold'[b] = hold[b]
      PROVE  HoldKept(b)'
  <2>1. Held(b)' = Held(b)
    BY <1>1 DEF Held
  <2> QED
    BY <1>1, <2>1 DEF HoldsInv, HoldKept
<1>2. ASSUME NEW a \in Attempts, Step(a) \/ Crash(a), NEW b \in Attempts
      PROVE  HoldKept(b)'
  <2>1. CASE b = a
    BY <1>2, <2>1, StepHolds
  <2>2. CASE b # a
    BY <1>0, <1>1, <1>2, <2>2, OtherAttempts
  <2> QED
    BY <2>1, <2>2
<1>3. ASSUME NEW a \in Attempts, Sweep(a), NEW b \in Attempts
      PROVE  HoldKept(b)'
  <2>1. UNCHANGED attempt /\ attempt[a].pc \in Over
    BY <1>3 DEF Sweep
  <2>2. CASE b = a
    BY <2>1, <2>2 DEF HoldKept, UnderHold, Compensating, Over
  <2>3. CASE b # a
    <3>1. hold'[b] = hold[b]
      BY <1>0, <1>3, <2>3 DEF Sweep, TypeOK
    <3> QED
      BY <1>1, <2>1, <3>1
  <2> QED
    BY <2>2, <2>3
<1>4. ASSUME UNCHANGED <<attempt, hold>>, NEW b \in Attempts
      PROVE  HoldKept(b)'
  BY <1>1, <1>4
<1>5. ASSUME NEW a \in Attempts, Decline(a) \/ Capture(a) \/ Refund(a)
      PROVE  UNCHANGED <<attempt, hold>>
  BY <1>0, <1>5, NotifiedEffect DEF Notified
<1>6. ASSUME NEW h \in Handlers, Serve(h) \/ \E e \in sent : Receive(h, e)
      PROVE  UNCHANGED <<attempt, hold>>
  BY <1>0, <1>6, HandlerEffect DEF WebhookEffect, Received, Dropped, Written, OrderFailed, CreditReturned
<1>7. ASSUME NEW m \in Admins, AdminWrite(m) \/ \E a \in Attempts : AdminRead(m, a)
      PROVE  UNCHANGED <<attempt, hold>>
  BY <1>0, <1>7, AdminWriteEffect, AdminReadEffect DEF Others
<1>8. CASE UNCHANGED vars
  BY <1>0, <1>4, <1>8 DEF vars, HoldsInv
<1> QED
  BY <1>0, <1>2, <1>3, <1>4, <1>5, <1>6, <1>7, <1>8 DEF Next, HoldsInv

\* persistOrder runs between reserve_inventory and the release of its holds: no order is
\* saved whose units another checkout could still take.
THEOREM OrdersAreHeld == Spec => OrderedUnderHold
<1>1. Init => HoldsInv
  <2>1. Init => \A a \in Attempts : attempt[a].pc = "reserve"
    BY DEF Init
  <2> QED
    BY <2>1, InitType DEF HoldsInv, HoldKept, UnderHold, Compensating
<1>2. ASSUME PInv, HoldsInv, [Next]_vars
      PROVE  [\A a \in Attempts : order[a] = "absent" /\ order'[a] # "absent" => Held(a) = Variants]_vars
  <2> SUFFICES ASSUME NEW a \in Attempts, order[a] = "absent", order'[a] # "absent"
               PROVE  Held(a) = Variants
    OBVIOUS
  <2>1. PICK b \in Attempts : Step(b) \/ Crash(b)
    BY <1>2, CreditStep
  <2>2. AttemptEffect(b)
    BY <1>2, <2>1, StepEffect DEF HoldsInv
  <2>3. ~Failed(b)
    BY <1>2, FailIfPendingEffect DEF Failed, HoldsInv
  <2>4. Saved(b)
    BY <2>2, <2>3 DEF AttemptEffect, Plain, Quiet, Applied, Redeemed, RolledBack, Created, Answered, Recorded, Returned
  <2>5. b = a /\ attempt[a].pc = "save"
    BY <1>2, <2>4 DEF Saved, At, HoldsInv, TypeOK
  <2> QED
    BY <1>2, <2>5 DEF HoldsInv, HoldKept, UnderHold, Compensating
<1> QED
  BY <1>1, <1>2, InitPInv, NextPInv, HoldsStep, PTL DEF Spec, OrderedUnderHold
=============================================================================
