-------------------------------- MODULE Carts ---------------------------------
(***************************************************************************)
(* Carts (internal/application/cart, cart_repo.go): the requests that edit  *)
(* one, the claim of a visitor's cart when the visitor logs in, and the     *)
(* recovery mail.  A request reads a row, works on the copy and saves it    *)
(* under the version it has read; the custom values of a line (extension    *)
(* rows) are written and deleted by statements of their own.  There is one  *)
(* customer.                                                                *)
(***************************************************************************)
EXTENDS Integers, FiniteSets, Functions

CONSTANTS
    Guests,      \* ids of carts that visitors have
    Own,         \* ids of carts that CreateCart makes for the customer
    Variants,
    Callers,     \* requests and jobs that run at a time
    NoCart,
    MaxFaults,   \* bound: statements that fail, or whose answer is lost
    Setups       \* the carts at first, and how often each operation is asked for

CartIds == Guests \cup Own
Edits == {"add", "describe", "update", "remove", "coupon", "uncoupon"}
Ops == Edits \cup {"claim", "recover"}
Row == [owner : {"guest", "customer"}, cur : {1, 2}, items : [Variants -> Nat], ver : Nat,
        merged : Guests \cup {NoCart}, coupon : BOOLEAN, mailed : BOOLEAN]

ASSUME CartsAssumption ==
    /\ Guests \cap Own = {} /\ NoCart \notin CartIds \cup Row /\ MaxFaults \in Nat
    /\ IsFiniteSet(CartIds) /\ Variants # {}
    /\ \A s \in Setups : /\ s.rows \in [CartIds -> Row \cup {NoCart}] /\ s.ops \in [Ops -> Nat]
                         /\ \A c \in CartIds : s.rows[c] # NoCart => s.rows[c].merged = NoCart

VARIABLES
    cart,     \* carts and cart_items, by id
    values,   \* extension_values: the lines <<cart, variant>> that have any
    call,     \* what each caller is doing
    asked,    \* bound: requests still to come, by operation
    faults,
    want,     \* history: the units put into carts, less those taken out or dropped
    given,    \* history: the lines that were given custom values, less those whose removal has begun
    moved,    \* history: the guest carts whose lines a claim has merged
    mails,    \* history: recovery mails, by cart
    mishap    \* history: what a delete, a save or a purge has done to the work of others

rows == <<cart, values>>
history == <<want, given, moved, mails, mishap>>
vars == <<rows, call, asked, faults, history>>

Idle == [op |-> "none"]
Free(w) == call[w] = Idle
At(w, pc) == ~Free(w) /\ call[w].pc = pc
Goto(w, pc) == call' = [call EXCEPT ![w].pc = pc]
End(w) == call' = [call EXCEPT ![w] = Idle]

Fault == faults < MaxFaults /\ faults' = faults + 1
NoFault == UNCHANGED faults

Live(c) == cart[c] # NoCart
Owned(c) == Live(c) /\ cart[c].owner = "customer"
Lines(row) == {v \in Variants : row.items[v] > 0}
Note(ms) == mishap' = mishap \cup ms

Init ==
    /\ \E s \in Setups :
          /\ cart = s.rows /\ asked = s.ops
          /\ want = [v \in Variants |-> SumFunction([c \in CartIds |-> IF s.rows[c] = NoCart THEN 0 ELSE s.rows[c].items[v]])]
          /\ values = {l \in CartIds \X Variants : s.rows[l[1]] # NoCart /\ s.rows[l[1]].items[l[2]] > 0}
    /\ given = values /\ moved = {} /\ mishap = {}
    /\ call = [w \in Callers |-> Idle] /\ faults = 0
    /\ mails = [c \in CartIds |-> 0]

Begin(w, op, pc, c, v, as) ==
    /\ Free(w) /\ asked[op] > 0
    /\ asked' = [asked EXCEPT ![op] = @ - 1]
    /\ call' = [call EXCEPT ![w] = [op |-> op, pc |-> pc, cart |-> c, variant |-> v, as |-> as, seen |-> NoCart,
                                    own |-> NoCart, ownSeen |-> NoCart, drop |-> {}, coupon |-> FALSE]]
    /\ UNCHANGED <<rows, faults, history>>

Fails(w) == Fault /\ End(w) /\ UNCHANGED <<rows, asked, history>>
Refuses(w) == NoFault /\ End(w) /\ UNCHANGED <<rows, asked, history>>

------------------------------------------------------------------------------
(* Rows *)

\* ON CONFLICT DO UPDATE ... WHERE carts.version = EXCLUDED.version.  Where the row is
\* gone there is no conflict, and so no comparison: it is inserted again.
Current(c, ver) == Live(c) => cart[c].ver = ver

Saved(c, row) ==
    [cart EXCEPT ![c] = IF Live(c) THEN [row EXCEPT !.ver = @ + 1, !.mailed = cart[c].mailed]
                        ELSE [row EXCEPT !.mailed = FALSE]]

\* Save: it is refused, it fails, or it is applied; the answer of an applied one may
\* still be lost, which the request cannot tell from a failure.
Save(w, c, row, pc) ==
    \/ ~Current(c, row.ver) /\ Refuses(w)
    \/ Fails(w)
    \/ /\ Current(c, row.ver) /\ cart' = Saved(c, row)
       /\ UNCHANGED <<values, asked, mails>>
       /\ \/ NoFault /\ (IF pc = "done" THEN End(w) ELSE Goto(w, pc))
          \/ Fault /\ End(w)

\* Delete, which looks at nothing but the id.
Deleted(c) == [cart EXCEPT ![c] = NoCart]
Changed(c, row) == Live(c) /\ cart[c].ver # row.ver

\* The marker of an earlier merge is overwritten by the next, or goes with its cart,
\* while the guest cart it speaks of can still be claimed.
Claimable(h) == Live(h) \/ \E u \in Callers : ~Free(u) /\ call[u].op = "claim" /\ call[u].cart = h
Forgets(c, g) == {m \in {"forgotten"} : Live(c) /\ cart[c].merged \notin {NoCart, g} /\ Claimable(cart[c].merged)}

------------------------------------------------------------------------------
(* Edits *)

\* currentCart: the cart of the visitor's cookie, or an active cart of the customer.
BeginEdit(w, op, c, v) == Live(c) /\ Begin(w, op, "read", c, v, cart[c].owner)

\* No request or row knows this id.
Unused(c) ==
    /\ ~Live(c) /\ mails[c] = 0 /\ \A v \in Variants : <<c, v>> \notin values \cup given
    /\ \A u \in Callers : ~Free(u) => c \notin {call[u].cart, call[u].own}

\* loadOrCreateStorefrontCart: a customer without a cart gets one.
BeginFirst(w, c, v) ==
    /\ \A k \in CartIds : ~Owned(k)
    /\ c \in Own /\ Unused(c)
    /\ Begin(w, "add", "create", c, v, "customer")

CreateCart(w) ==
    LET c == call[w].cart IN
    /\ At(w, "create")
    /\ \/ /\ NoFault
          /\ \E cur \in {1, 2} :
                cart' = [cart EXCEPT ![c] = [owner |-> "customer", cur |-> cur, items |-> [v \in Variants |-> 0], ver |-> 1,
                                             merged |-> NoCart, coupon |-> FALSE, mailed |-> FALSE]]
          /\ Goto(w, "read") /\ UNCHANGED <<values, asked, history>>
       \/ Fails(w)

\* The copy after the edit.
Edited(row, op, v) ==
    CASE op \in {"add", "describe"} -> [row EXCEPT !.items[v] = @ + 1]
      [] op = "update" -> [row EXCEPT !.items[v] = 2]
      [] op = "remove" -> [row EXCEPT !.items[v] = 0]
      [] op = "coupon" -> [row EXCEPT !.coupon = TRUE]
      [] op = "uncoupon" -> [row EXCEPT !.coupon = FALSE]

\* FindByID: the cart must still be there and be the requester's, and a line to change
\* must be in it; stock, prices or a validator may refuse the edit.  Custom values are
\* written, and those of a line that is to go are deleted, before the save: a removal
\* that is then refused leaves its line in the cart without them.
ReadCart(w) ==
    LET c == call[w].cart  op == call[w].op IN
    /\ At(w, "read")
    /\ \/ /\ Live(c) /\ cart[c].owner = call[w].as
          /\ op \in {"update", "remove"} => cart[c].items[call[w].variant] > 0
          /\ call' = [call EXCEPT ![w].seen = cart[c], ![w].pc = IF op \in {"describe", "remove"} THEN "values" ELSE "save"]
          /\ UNCHANGED <<rows, asked, faults, history>>
       \/ Refuses(w)

WriteValues(w) ==
    LET line == <<call[w].cart, call[w].variant>> IN
    /\ At(w, "values")
    /\ \/ /\ NoFault /\ Goto(w, "save")
          /\ \/ /\ call[w].op = "describe" /\ values' = values \cup {line} /\ given' = given \cup {line}
                /\ Note({m \in {"late"} : \E u \in Callers \ {w} : At(u, "merge") /\ call[u].cart = call[w].cart})
             \/ /\ call[w].op = "remove" /\ values' = values \ {line} /\ given' = given \ {line}
                /\ Note({m \in {"purged"} : \E u \in Callers \ {w} : ~Free(u) /\ call[u].own = call[w].cart})
          /\ UNCHANGED <<cart, asked, want, moved, mails>>
       \/ Fails(w)

SaveEdit(w) ==
    LET c == call[w].cart
        row == Edited(call[w].seen, call[w].op, call[w].variant) IN
    /\ At(w, "save") /\ call[w].op \in Edits
    /\ Save(w, c, row, "done")
    /\ IF cart' = cart THEN UNCHANGED history
       ELSE /\ want' = [v \in Variants |-> want[v] + row.items[v] - call[w].seen.items[v]]
            /\ Note({m \in {"revived"} : ~Live(c)} \cup {m \in {"overtaken"} : c \in moved})
            /\ UNCHANGED <<given, moved, mails>>

------------------------------------------------------------------------------
(* The claim of a visitor's cart *)

\* Login: syncStorefrontGuestCart claims the cart of the cookie, which stays until a
\* claim has succeeded.
BeginClaim(w, g) == g \in Guests /\ Begin(w, "claim", "guest", g, CHOOSE v \in Variants : TRUE, "customer")

ReadGuest(w) ==
    LET g == call[w].cart IN
    /\ At(w, "guest")
    /\ \/ ~Live(g) /\ Refuses(w)
       \/ /\ Live(g) /\ call' = [call EXCEPT ![w].seen = cart[g], ![w].pc = IF Owned(g) THEN "tidy" ELSE "own"]
          /\ UNCHANGED <<rows, asked, faults, history>>
       \/ Fails(w)

\* Mutant: the marker of an earlier merge is not looked at.
NeverMerged(k, g) == FALSE
\* This cart already holds the lines of that guest cart.
AlreadyMerged(k, g) == cart[k].merged = g

\* What follows from the cart that FindActiveByCustomerID has returned.
ClaimStep(k, g, seen) ==
    CASE AlreadyMerged(k, g) -> "reread"
      [] ~AlreadyMerged(k, g) /\ cart[k].cur = seen.cur -> "check"
      [] ~AlreadyMerged(k, g) /\ cart[k].cur # seen.cur /\ Lines(cart[k]) = {} -> "delOwn"
      [] ~AlreadyMerged(k, g) /\ cart[k].cur # seen.cur /\ Lines(cart[k]) # {} /\ Lines(seen) = {} -> "delGuest"
      [] OTHER -> "refuse"

\* FindActiveByCustomerID returns any one of the customer's carts: with two of them it
\* may not be the one that holds the lines, and it may be the claimed cart itself.
FindOwn(w) ==
    LET g == call[w].cart IN
    /\ At(w, "own")
    /\ \/ /\ \A k \in CartIds : ~Owned(k)
          /\ Goto(w, "check") /\ UNCHANGED <<rows, asked, faults, history>>
       \/ \E k \in CartIds :
             LET step == ClaimStep(k, g, call[w].seen) IN
             /\ Owned(k) /\ NoFault
             /\ IF step = "refuse" THEN End(w)
                ELSE call' = [call EXCEPT ![w].own = k, ![w].ownSeen = cart[k], ![w].pc = step]
             /\ Note({m \in {"itself"} : k = g}
                     \cup {m \in {"strayed"} : \E o \in CartIds \ {k} : Owned(o) /\ cart[o].merged = g})
             /\ UNCHANGED <<rows, asked, want, given, moved, mails>>
       \/ Fails(w)

\* An empty cart in another currency gives way.
DeleteEmpty(w) ==
    LET mine == At(w, "delOwn")
        c == IF mine THEN call[w].own ELSE call[w].cart
        read == IF mine THEN call[w].ownSeen ELSE call[w].seen IN
    /\ At(w, "delOwn") \/ At(w, "delGuest")
    /\ \/ /\ NoFault /\ cart' = Deleted(c) /\ Note({m \in {"overtaken"} : Changed(c, read)} \cup Forgets(c, NoCart))
          /\ IF mine THEN call' = [call EXCEPT ![w].own = NoCart, ![w].ownSeen = NoCart, ![w].pc = "check"] ELSE End(w)
          /\ UNCHANGED <<values, asked, want, given, moved, mails>>
       \/ Fails(w)

\* unclaimableGuestLines drops lines that cannot be bought any more; a merge is refused
\* if a line is bound to another unit in the customer's cart.
CheckLines(w) ==
    LET merges == call[w].own # NoCart IN
    /\ At(w, "check")
    /\ \/ \E drop \in SUBSET Lines(call[w].seen), eligible \in BOOLEAN :
             /\ call' = [call EXCEPT ![w].drop = drop, ![w].coupon = eligible /\ call[w].seen.coupon,
                                     ![w].pc = IF merges THEN "copy" ELSE "assign"]
             /\ UNCHANGED <<rows, asked, faults, history>>
       \/ merges /\ Refuses(w)
       \/ Fails(w)

Kept(w) == Lines(call[w].seen) \ call[w].drop

\* Mutant: the values stay with the guest's line.
LeftBehind(g, k, vs) == values
\* CopyTarget, line by line.
Copied(g, k, vs) == values \cup {<<k, v>> : v \in {u \in vs : <<g, u>> \in values}}

\* The copies are committed one by one, before the save.
CopyValues(w) ==
    LET g == call[w].cart  k == call[w].own IN
    /\ At(w, "copy")
    /\ \E done \in SUBSET Kept(w) :
          /\ values' = Copied(g, k, done)
          /\ \/ done = Kept(w) /\ NoFault /\ Goto(w, "merge")
             \/ done # Kept(w) /\ Fault /\ End(w)
    /\ UNCHANGED <<cart, asked, history>>

\* The units of the lines that were dropped are gone with the customer's knowledge.
LessDropped(w) == [v \in Variants |-> want[v] - (IF v \in call[w].drop THEN call[w].seen.items[v] ELSE 0)]

Assign(w) ==
    LET g == call[w].cart
        row == [call[w].seen EXCEPT !.owner = "customer", !.items = [v \in Variants |-> IF v \in Kept(w) THEN @[v] ELSE 0]] IN
    /\ At(w, "assign")
    /\ Save(w, g, row, "tidy")
    /\ IF cart' = cart THEN UNCHANGED history
       ELSE /\ want' = LessDropped(w) /\ Note({m \in {"revived"} : ~Live(g)} \cup {m \in {"strayed"} : g \in moved})
            /\ given' = given \ ({g} \X call[w].drop) /\ UNCHANGED <<moved, mails>>

Merge(w) ==
    LET g == call[w].cart  k == call[w].own
        row == [call[w].ownSeen EXCEPT
                  !.items = [v \in Variants |-> @[v] + (IF v \in Kept(w) THEN call[w].seen.items[v] ELSE 0)],
                  !.coupon = @ \/ call[w].coupon, !.merged = g] IN
    /\ At(w, "merge")
    /\ Save(w, k, row, "reread")
    /\ IF cart' = cart THEN UNCHANGED history
       ELSE /\ want' = LessDropped(w) /\ moved' = moved \cup {g}
            /\ given' = given \cup {<<k, v>> : v \in {u \in Kept(w) : <<g, u>> \in given}}
            /\ Note({m \in {"revived"} : ~Live(k)} \cup Forgets(k, g)
                    \cup {m \in {"overtaken"} : Changed(g, call[w].seen) \/ (~Live(g) /\ g \notin moved)}
                    \cup {m \in {"strayed"} : \E o \in CartIds \ {k} : Owned(o) /\ cart[o].merged = g})
            /\ UNCHANGED mails

\* finishAssignedGuestCleanup: values of lines that are not in the copy are deleted, one
\* line after the other.
TidyAssigned(w) ==
    LET c == call[w].cart
        orphans == {v \in Variants : <<c, v>> \in values} \ Kept(w) IN
    /\ At(w, "tidy")
    /\ \E done \in SUBSET orphans :
          /\ values' = values \ ({c} \X done)
          /\ \/ done = orphans /\ NoFault
             \/ done # orphans /\ Fault
          /\ Note({m \in {"purged"} : \/ ({c} \X done) \cap given # {}
                                    \/ \E u \in Callers \ {w} : ~Free(u) /\ call[u].own = c})
    /\ End(w) /\ UNCHANGED <<cart, asked, want, given, moved, mails>>

\* finishMergedGuestCleanup reads the guest cart again, deletes the values of its lines
\* and then the cart.
RereadGuest(w) ==
    LET g == call[w].cart IN
    /\ At(w, "reread")
    /\ \/ ~Live(g) /\ Refuses(w)
       \/ /\ Live(g) /\ call' = [call EXCEPT ![w].seen = cart[g], ![w].pc = "purge"]
          /\ UNCHANGED <<rows, asked, faults, history>>
       \/ Fails(w)

PurgeValues(w) ==
    LET g == call[w].cart  vs == Lines(call[w].seen) IN
    /\ At(w, "purge")
    /\ \E done \in SUBSET vs :
          /\ values' = values \ ({g} \X done)
          /\ \/ done = vs /\ NoFault /\ Goto(w, "delete")
             \/ done # vs /\ Fault /\ End(w)
    /\ UNCHANGED <<cart, asked, history>>

DeleteMerged(w) ==
    LET g == call[w].cart IN
    /\ At(w, "delete")
    /\ \/ /\ NoFault /\ cart' = Deleted(g) /\ End(w)
          /\ UNCHANGED <<values, asked, history>>
       \/ Fails(w)

------------------------------------------------------------------------------
(* The recovery mail *)

\* FindRecoveryCandidates: the job takes the stale carts one after the other; any cart
\* may be stale by then.
BeginRecovery(w, c) ==
    /\ Owned(c) /\ Lines(cart[c]) # {} /\ ~cart[c].mailed
    /\ Begin(w, "recover", "mark", c, CHOOSE v \in Variants : TRUE, "customer")

\* Mutant: the cart is marked whether or not it is already.
MarkAgain(c) == Live(c)
\* UPDATE ... WHERE id = $1 AND recovery_email_sent_at IS NULL
Markable(c) == Live(c) /\ ~cart[c].mailed

MarkRecoveryEmailSent(w) ==
    LET c == call[w].cart IN
    /\ At(w, "mark")
    /\ \/ ~Markable(c) /\ Refuses(w)
       \/ Fails(w)
       \/ /\ Markable(c) /\ cart' = [cart EXCEPT ![c].mailed = TRUE]
          /\ \/ NoFault /\ Goto(w, "mail")
             \/ Fault /\ End(w)
          /\ UNCHANGED <<values, asked, history>>

\* The mail job is enqueued; an answer may be lost.
EnqueueMail(w) ==
    /\ At(w, "mail")
    /\ \/ /\ NoFault \/ Fault
          /\ End(w) /\ mails' = [mails EXCEPT ![call[w].cart] = @ + 1]
          /\ UNCHANGED <<rows, asked, want, given, moved, mishap>>
       \/ Fails(w)

------------------------------------------------------------------------------
Edit(w) == CreateCart(w) \/ ReadCart(w) \/ WriteValues(w) \/ SaveEdit(w)
ClaimGuestCart(w) ==
    \/ ReadGuest(w) \/ FindOwn(w) \/ DeleteEmpty(w) \/ CheckLines(w) \/ CopyValues(w) \/ Assign(w) \/ Merge(w)
    \/ TidyAssigned(w) \/ RereadGuest(w) \/ PurgeValues(w) \/ DeleteMerged(w)

Next ==
    \E w \in Callers :
        \/ \E op \in Edits, c \in CartIds, v \in Variants : BeginEdit(w, op, c, v)
        \/ \E c \in CartIds, v \in Variants : BeginFirst(w, c, v)
        \/ \E g \in Guests : BeginClaim(w, g)
        \/ \E c \in CartIds : BeginRecovery(w, c)
        \/ Edit(w) \/ ClaimGuestCart(w) \/ MarkRecoveryEmailSent(w) \/ EnqueueMail(w)

Spec == Init /\ [][Next]_vars

------------------------------------------------------------------------------
(* Properties *)

\* The crossings that lose or double units, and all of them.
Losses == {"overtaken", "revived", "strayed", "itself", "forgotten"}
Mishaps == Losses \cup {"purged", "late"}

\* What a request may be doing.
Places == {"create", "read", "values", "save", "guest", "own", "delOwn", "delGuest", "check", "copy", "assign", "merge",
           "tidy", "reread", "purge", "delete", "mark", "mail"}
Copies == Row \cup {NoCart}
Requests == [op : Ops, pc : Places, cart : CartIds, variant : Variants, as : {"guest", "customer"}, seen : Copies,
             own : CartIds \cup {NoCart}, ownSeen : Copies, drop : SUBSET Variants, coupon : BOOLEAN]

TypeOK ==
    /\ cart \in [CartIds -> Copies]
    /\ call \in [Callers -> {Idle} \cup Requests]
    /\ values \subseteq CartIds \X Variants /\ given \subseteq CartIds \X Variants
    /\ asked \in [Ops -> Nat] /\ faults \in 0..MaxFaults
    /\ want \in [Variants -> Int] /\ moved \subseteq Guests /\ mails \in [CartIds -> Nat]
    /\ mishap \subseteq Mishaps

\* The carts the customer or the visitor will see again.
Counted == {c \in CartIds : Live(c) /\ c \notin moved}
Units(v) == SumFunction([c \in CartIds |-> IF c \in Counted THEN cart[c].items[v] ELSE 0])

\* Units that were put into a cart are in exactly one cart until they are taken out or
\* dropped, however edits, claims and jobs cross, fail and are repeated.  Left out are
\* the crossings that the code does lose: a delete or a merge that hits an edit
\* (overtaken), a save that re-inserts a deleted cart (revived), two claims that take
\* one cart to two carts of the customer (strayed), a claim that finds the cart itself
\* (itself), or a merge whose marker is gone before its guest cart (forgotten).
UnitsConserved ==
    mishap \cap Losses = {} => \A v \in Variants : Units(v) = want[v]

\* A line keeps the custom values it was given, through a claim that assigns or merges
\* its cart and fails or is repeated at any statement.  Left out are the line whose own
\* removal has deleted its values, whether or not the removal is then saved (it is out
\* of given from there on); a removal during a claim, or the cleanup of an assigned
\* cart, that deletes the values of a line another request is just saving (purged); and
\* values written after a claim has copied them (late).
ValuesFollowLine ==
    mishap = {} => \A c \in Counted : \A v \in Lines(cart[c]) : <<c, v>> \in given => <<c, v>> \in values

\* A customer gets one recovery mail per cart, however many jobs run at once.
OneRecoveryMail == "revived" \notin mishap => \A c \in CartIds : mails[c] <= 1
==============================================================================
