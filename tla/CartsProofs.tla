---------------------------- MODULE CartsProofs ------------------------------
(***************************************************************************)
(* Proofs about Carts: types, one recovery mail per cart, the conservation  *)
(* of units and the custom values of lines.  Each statement of a request    *)
(* has a lemma that says what it does (...Effect); the invariants are       *)
(* proved from these.  TInv is types and the shape of requests; XInv says   *)
(* that a cart being created is unknown; MInv is about mails; RInv, of runs *)
(* without a noted loss, relates the copies that requests hold to the rows, *)
(* and the markers of merges to the guest carts that can still be claimed;  *)
(* UInv and VInv are the conservation of units and of values.               *)
(***************************************************************************)
EXTENDS Carts, SumTheorems, FiniteSetTheorems, TLAPS

------------------------------------------------------------------------------
(* Invariants *)

\* A request has read the rows that its next statement uses, and a merge is only
\* cleaned up, and a marker only set, when the lines have been moved.
Claiming == {"own", "delOwn", "delGuest", "check", "copy", "assign", "merge"}
Cleaning == {"reread", "purge", "delete"}
Shape(q) ==
    /\ q.pc \in {"create", "read", "values", "save"} => q.op \in Edits
    /\ q.pc = "create" => q.seen = NoCart
    /\ q.pc \in {"values", "save"} => q.seen # NoCart
    /\ q.pc \in Claiming => q.op = "claim" /\ q.cart \in Guests /\ q.seen # NoCart /\ q.seen.owner = "guest"
    /\ q.pc \in Cleaning => q.cart \in moved
    /\ q.pc \in {"guest", "tidy"} => q.op = "claim" /\ q.cart \in Guests
    /\ q.pc \in {"tidy", "purge", "delete"} => q.seen # NoCart
    /\ q.pc \in {"delOwn", "copy", "merge"} => q.own # NoCart
    /\ q.pc \in {"create", "read", "values", "save", "guest", "own", "assign", "tidy", "mark", "mail"} => q.own = NoCart
    /\ q.pc \in {"check", "copy", "merge"} /\ q.own # NoCart => q.ownSeen.merged # q.cart
    /\ q.pc = "delOwn" => Lines(q.ownSeen) = {}
    /\ q.pc = "delGuest" => Lines(q.seen) = {}
    /\ (q.own = NoCart) <=> (q.ownSeen = NoCart)
    /\ q.ownSeen # NoCart => q.ownSeen.owner = "customer"
MarksMoved(row) == row # NoCart => row.merged \in moved \cup {NoCart}
Shapes ==
    /\ \A c \in CartIds : MarksMoved(cart[c])
    /\ \A w \in Callers : ~Free(w) => Shape(call[w]) /\ MarksMoved(call[w].seen) /\ MarksMoved(call[w].ownSeen)
TInv == TypeOK /\ Shapes

\* A cart about to be created is known to nobody else.
New(w) ==
    At(w, "create") =>
        LET c == call[w].cart IN
        /\ c \in Own /\ ~Live(c) /\ mails[c] = 0
        /\ \A v \in Variants : <<c, v>> \notin values \cup given
        /\ \A u \in Callers \ {w} : ~Free(u) => c \notin {call[u].cart, call[u].own}
XInv == \A w \in Callers : New(w)

\* Mails
Mailing(w) ==
    At(w, "mail") =>
        LET c == call[w].cart IN
        /\ mails[c] = 0 /\ (Live(c) => cart[c].mailed)
        /\ \A u \in Callers \ {w} : At(u, "mail") => call[u].cart # c
Mailed(c) == mails[c] <= 1 /\ (mails[c] = 1 /\ Live(c) => cart[c].mailed)
MInv == "revived" \notin mishap => (\A w \in Callers : Mailing(w)) /\ \A c \in CartIds : Mailed(c)

\* Copies
Same(a, b) == a.items = b.items /\ a.owner = b.owner /\ a.merged = b.merged
Fresh(c, row) == row # NoCart /\ c # NoCart /\ Live(c) => row.ver <= cart[c].ver /\ (row.ver = cart[c].ver => Same(cart[c], row))
Reads(w) ==
    ~Free(w) =>
        /\ Fresh(call[w].cart, call[w].seen) /\ Fresh(call[w].own, call[w].ownSeen)
        /\ call[w].own # call[w].cart
        /\ call[w].own # NoCart /\ Live(call[w].own) => cart[call[w].own].owner = "customer"
Guest(c) == Live(c) => /\ c \in moved => cart[c].owner = "guest"
                       /\ cart[c].owner = "guest" => cart[c].merged = NoCart
Remembered(g) ==
    \/ \E k \in CartIds : Owned(k) /\ cart[k].merged = g
    \/ /\ ~Live(g)
       /\ \A w \in Callers : ~Free(w) /\ call[w].cart = g => call[w].pc \notin Claiming
Clean == mishap \cap Losses = {}
RInv == Clean =>
    /\ \A w \in Callers : Reads(w)
    /\ \A c \in CartIds : Guest(c)
    /\ \A g \in moved : Remembered(g)

\* Values
Followed == \A c \in CartIds \ moved, v \in Variants : <<c, v>> \in given => <<c, v>> \in values
Following(w) ==
    At(w, "merge") =>
        LET g == call[w].cart  k == call[w].own IN
        Live(k) /\ Live(g) /\ g \notin moved /\ cart[g].ver = call[w].seen.ver =>
            \A v \in Kept(w) : <<g, v>> \in given => <<k, v>> \in values
VInv == mishap = {} => Followed /\ \A w \in Callers : Following(w)

------------------------------------------------------------------------------
(* Requests *)

\* What Shapes asks of one request.
Good(q) == Shape(q) /\ MarksMoved(q.seen) /\ MarksMoved(q.ownSeen)

\* A request under way is a record of its type.
LEMMA RequestType ==
    ASSUME TInv, NEW w \in Callers, ~Free(w)
    PROVE  call[w] \in Requests /\ Good(call[w])
BY DEF TInv, TypeOK, Shapes, Free, Good

\* An idle caller is not a request.
LEMMA IdleType == Idle \notin Requests
<1> SUFFICES ASSUME Idle \in Requests PROVE FALSE
  OBVIOUS
<1>1. Idle.op \in Ops
  BY DEF Requests
<1> QED
  BY <1>1 DEF Idle, Ops, Edits

\* More moved carts leave a request as good as it was.
LEMMA GoodKept ==
    ASSUME NEW q, Good(q), moved \subseteq moved'
    PROVE  Good(q)'
BY DEF Good, Shape, MarksMoved, Lines

\* A step of one caller that leaves a good request and no marker of a cart that was
\* not moved keeps the shapes.
LEMMA ShapesStep ==
    ASSUME TInv, NEW w \in Callers, NEW n, call' = [call EXCEPT ![w] = n],
           n = Idle \/ (n \in Requests /\ Good(n)'),
           moved \subseteq moved', \A c \in CartIds : MarksMoved(cart[c])'
    PROVE  /\ call' \in [Callers -> {Idle} \cup Requests] /\ Shapes'
           /\ call'[w] = n /\ \A x \in Callers \ {w} : call'[x] = call[x]
<1>1. call' \in [Callers -> {Idle} \cup Requests] /\ call'[w] = n /\ \A x \in Callers \ {w} : call'[x] = call[x]
  BY DEF TInv, TypeOK
<1>2. ASSUME NEW x \in Callers, call'[x] # Idle PROVE Good(call[x])'
  <2>1. CASE x = w
    BY <1>1, <1>2, <2>1 DEF Good, Shape, MarksMoved, Lines
  <2>2. CASE x # w
    <3>1. PICK q : q = call[x]
      OBVIOUS
    <3>2. Good(q)
      BY <1>1, <1>2, <2>2, <3>1, RequestType DEF Free
    <3>3. Good(q)'
      BY <3>2, GoodKept
    <3>4. call'[x] = q
      BY <1>1, <2>2, <3>1
    <3> QED
      BY <3>3, <3>4 DEF Good, Shape, MarksMoved, Lines
  <2> QED
    BY <2>1, <2>2
<1> QED
  BY <1>1, <1>2 DEF Shapes, Free, Good

\* A cart that is not written, and one that is, keep their markers.
LEMMA MarksKept ==
    ASSUME TInv, moved \subseteq moved', cart' = cart
    PROVE  \A c \in CartIds : MarksMoved(cart[c])'
BY DEF TInv, Shapes, MarksMoved

\* The rows that a save writes.
LEMMA SavedEffect ==
    ASSUME TypeOK, NEW c \in CartIds, NEW row \in Row, Current(c, row.ver), cart' = Saved(c, row)
    PROVE  /\ cart' \in [CartIds -> Copies] /\ cart' # cart
           /\ cart'[c] \in Row /\ cart'[c] # NoCart
           /\ cart'[c].items = row.items /\ cart'[c].owner = row.owner /\ cart'[c].merged = row.merged
           /\ Live(c) => row.ver = cart[c].ver /\ cart'[c].ver = cart[c].ver + 1 /\ cart'[c].mailed = cart[c].mailed
           /\ \A k \in CartIds \ {c} : cart'[k] = cart[k]
<1>1. NoCart \notin Row
  BY CartsAssumption
<1>2. CASE Live(c)
  <2>1. cart[c] \in Row /\ cart[c].ver \in Nat /\ cart[c].mailed \in BOOLEAN
    BY <1>2 DEF TypeOK, Live, Copies, Row
  <2>2. cart'[c] = [row EXCEPT !.ver = row.ver + 1, !.mailed = cart[c].mailed] /\ \A k \in CartIds \ {c} : cart'[k] = cart[k]
    BY <1>2 DEF Saved, TypeOK
  <2>3. row.ver = cart[c].ver
    BY <1>2 DEF Current
  <2>4. /\ cart'[c] \in Row /\ cart'[c].ver = cart[c].ver + 1 /\ cart'[c].mailed = cart[c].mailed
        /\ cart'[c].items = row.items /\ cart'[c].owner = row.owner /\ cart'[c].merged = row.merged
    <3> DEFINE r == [row EXCEPT !.ver = row.ver + 1, !.mailed = cart[c].mailed]
    <3>1. /\ r.ver = row.ver + 1 /\ r.mailed = cart[c].mailed
          /\ r.items = row.items /\ r.owner = row.owner /\ r.merged = row.merged
      BY DEF Row
    <3>2. r \in Row
      <4>1. PICK b \in BOOLEAN : b = cart[c].mailed
        BY <2>1
      <4>2. PICK k \in Nat : k = row.ver + 1
        BY DEF Row
      <4>3. [row EXCEPT !.ver = k] \in Row
        BY DEF Row
      <4>4. [[row EXCEPT !.ver = k] EXCEPT !.mailed = b] \in Row
        BY <4>3 DEF Row
      <4> QED
        BY <4>1, <4>2, <4>4
    <3>3. cart'[c] = r
      BY <2>2
    <3> HIDE DEF r
    <3> QED
      BY <2>3, <3>1, <3>2, <3>3
  <2>5. cart' # cart
    BY <2>1, <2>4
  <2>6. cart' \in [CartIds -> Copies]
    BY <2>2, <2>4 DEF Saved, TypeOK, Copies
  <2> QED
    BY <1>1, <2>2, <2>3, <2>4, <2>5, <2>6
<1>3. CASE ~Live(c)
  <2>2. cart'[c] = [row EXCEPT !.mailed = FALSE] /\ \A k \in CartIds \ {c} : cart'[k] = cart[k]
    BY <1>3 DEF Saved, TypeOK
  <2>4. /\ cart'[c] \in Row
        /\ cart'[c].items = row.items /\ cart'[c].owner = row.owner /\ cart'[c].merged = row.merged
    BY <2>2 DEF Row
  <2>5. cart' # cart
    BY <1>1, <1>3, <2>4 DEF Live
  <2>6. cart' \in [CartIds -> Copies]
    BY <2>2, <2>4 DEF Saved, TypeOK, Copies
  <2> QED
    BY <1>1, <1>3, <2>2, <2>4, <2>5, <2>6
<1> QED
  BY <1>2, <1>3

\* A save changes nothing, or the row.
LEMMA SaveCases ==
    ASSUME TInv, NEW w \in Callers, NEW c \in CartIds, NEW row \in Row, NEW pc, Save(w, c, row, pc)
    PROVE  /\ faults' \in 0..MaxFaults
           /\ \/ cart' = cart /\ values' = values /\ asked' = asked /\ mails' = mails /\ End(w) /\ UNCHANGED history
              \/ /\ Current(c, row.ver) /\ cart' = Saved(c, row) /\ cart' # cart
                 /\ values' = values /\ asked' = asked /\ mails' = mails
                 /\ End(w) \/ (pc # "done" /\ Goto(w, pc))
<1>1. faults' \in 0..MaxFaults
  BY CartsAssumption DEF Save, Refuses, Fails, Fault, NoFault, TInv, TypeOK
<1>2. CASE Current(c, row.ver) /\ cart' = Saved(c, row)
  <2>1. cart' # cart
    BY <1>2, SavedEffect DEF TInv
  <2> QED
    BY <1>1, <1>2, <2>1 DEF Save, Refuses, Fails, rows, history
<1>3. CASE ~(Current(c, row.ver) /\ cart' = Saved(c, row))
  BY <1>1, <1>3 DEF Save, Refuses, Fails, rows, history
<1> QED
  BY <1>2, <1>3

\* The end of a request.
LEMMA EndKeeps ==
    ASSUME TInv, NEW w \in Callers, End(w), moved \subseteq moved', \A c \in CartIds : MarksMoved(cart[c])'
    PROVE  call' \in [Callers -> {Idle} \cup Requests] /\ Shapes'
<1>1. call' = [call EXCEPT ![w] = Idle]
  BY DEF End
<1> QED
  BY <1>1, ShapesStep

\* Its next place.
LEMMA GotoIs ==
    ASSUME TInv, NEW w \in Callers, ~Free(w), NEW pc \in Places, Goto(w, pc)
    PROVE  \E n \in Requests :
              /\ call' = [call EXCEPT ![w] = n]
              /\ n.op = call[w].op /\ n.pc = pc /\ n.cart = call[w].cart /\ n.variant = call[w].variant /\ n.as = call[w].as
              /\ n.seen = call[w].seen /\ n.own = call[w].own /\ n.ownSeen = call[w].ownSeen /\ n.drop = call[w].drop
<1> DEFINE n == [call[w] EXCEPT !.pc = pc]
<1>1. call[w] \in Requests
  BY RequestType
<1>2. /\ n \in Requests
      /\ n.op = call[w].op /\ n.pc = pc /\ n.cart = call[w].cart /\ n.variant = call[w].variant /\ n.as = call[w].as
      /\ n.seen = call[w].seen /\ n.own = call[w].own /\ n.ownSeen = call[w].ownSeen /\ n.drop = call[w].drop
  BY <1>1 DEF Requests
<1>3. call' = [call EXCEPT ![w] = n]
  BY DEF Goto
<1> QED
  BY <1>2, <1>3

\* A request that fails or is refused changes nothing.
LEMMA StopKeeps ==
    ASSUME TInv, NEW w \in Callers, Fails(w) \/ Refuses(w)
    PROVE  TInv'
<1>1. End(w) /\ UNCHANGED <<cart, values, asked, want, given, moved, mails, mishap>>
  BY DEF Fails, Refuses, rows, history
<1>2. faults' \in 0..MaxFaults
  BY CartsAssumption DEF Fails, Refuses, Fault, NoFault, TInv, TypeOK
<1>3. call' \in [Callers -> {Idle} \cup Requests] /\ Shapes'
  BY <1>1, EndKeeps, MarksKept
<1> QED
  BY <1>1, <1>2, <1>3 DEF TInv, TypeOK

------------------------------------------------------------------------------
(* Types *)

\* TInv holds at first.
LEMMA InitTInv == Init => TInv
<1> SUFFICES ASSUME Init PROVE TInv
  OBVIOUS
<1>1. PICK s \in Setups :
        /\ cart = s.rows /\ asked = s.ops
        /\ want = [v \in Variants |-> SumFunction([c \in CartIds |-> IF s.rows[c] = NoCart THEN 0 ELSE s.rows[c].items[v]])]
        /\ values = {l \in CartIds \X Variants : s.rows[l[1]] # NoCart /\ s.rows[l[1]].items[l[2]] > 0}
  BY DEF Init
<1>2. /\ cart \in [CartIds -> Copies] /\ asked \in [Ops -> Nat]
      /\ \A c \in CartIds : cart[c] # NoCart => cart[c].merged = NoCart
  BY <1>1, CartsAssumption DEF Copies
<1>3. want \in [Variants -> Int]
  <2> SUFFICES ASSUME NEW v \in Variants
               PROVE  SumFunction([c \in CartIds |-> IF s.rows[c] = NoCart THEN 0 ELSE s.rows[c].items[v]]) \in Int
    BY <1>1
  <2> DEFINE f == [c \in CartIds |-> IF s.rows[c] = NoCart THEN 0 ELSE s.rows[c].items[v]]
  <2>1. \A c \in CartIds : f[c] \in Int
    BY <1>1, <1>2 DEF Copies, Row
  <2>2. DOMAIN f = CartIds
    OBVIOUS
  <2> HIDE DEF f
  <2>3. SumFunctionOnSet(f, CartIds) \in Int
    BY <2>1, SumInt, CartsAssumption
  <2>4. SumFunction(f) \in Int
    BY <2>2, <2>3 DEF SumFunction
  <2> QED
    BY <2>4 DEF f
<1>4. /\ values \subseteq CartIds \X Variants /\ given \subseteq CartIds \X Variants
      /\ faults \in 0..MaxFaults /\ moved \subseteq Guests /\ mails \in [CartIds -> Nat] /\ mishap \subseteq Mishaps
      /\ call \in [Callers -> {Idle} \cup Requests]
  BY <1>1, CartsAssumption DEF Init
<1>5. Shapes
  BY <1>2 DEF Shapes, MarksMoved, Init, Free
<1> QED
  BY <1>2, <1>3, <1>4, <1>5 DEF TInv, TypeOK

\* A request that begins.
LEMMA BeginIs ==
    ASSUME TInv, NEW w \in Callers, NEW op \in Ops, NEW pc \in Places, NEW c \in CartIds, NEW v \in Variants,
           NEW as \in {"guest", "customer"}, Begin(w, op, pc, c, v, as)
    PROVE  /\ Free(w) /\ UNCHANGED <<cart, values, faults, want, given, moved, mails, mishap>> /\ asked' \in [Ops -> Nat]
           /\ \E n \in Requests :
                /\ call' = [call EXCEPT ![w] = n]
                /\ n.op = op /\ n.pc = pc /\ n.cart = c /\ n.variant = v /\ n.as = as
                /\ n.seen = NoCart /\ n.own = NoCart /\ n.ownSeen = NoCart
<1> DEFINE n == [op |-> op, pc |-> pc, cart |-> c, variant |-> v, as |-> as, seen |-> NoCart,
                 own |-> NoCart, ownSeen |-> NoCart, drop |-> {}, coupon |-> FALSE]
<1>1. n \in Requests
  BY DEF Requests, Copies
<1>2. call' = [call EXCEPT ![w] = n]
  BY DEF Begin
<1>3. asked' \in [Ops -> Nat]
  BY DEF Begin, TInv, TypeOK
<1> QED
  BY <1>1, <1>2, <1>3 DEF Begin, rows, history

\* The variant of a request that needs none is one all the same.
LEMMA SomeVariant == (CHOOSE v \in Variants : TRUE) \in Variants
BY CartsAssumption

\* The requests that begin.
LEMMA Begins ==
    ASSUME TInv, NEW w \in Callers,
           \/ \E op \in Edits, c \in CartIds, v \in Variants : BeginEdit(w, op, c, v)
           \/ \E c \in CartIds, v \in Variants : BeginFirst(w, c, v)
           \/ \E g \in Guests : BeginClaim(w, g)
           \/ \E c \in CartIds : BeginRecovery(w, c)
    PROVE  /\ Free(w) /\ UNCHANGED <<cart, values, faults, want, given, moved, mails, mishap>> /\ asked' \in [Ops -> Nat]
           /\ \E n \in Requests :
                /\ call' = [call EXCEPT ![w] = n]
                /\ n.seen = NoCart /\ n.own = NoCart /\ n.ownSeen = NoCart
                /\ \/ n.pc = "read" /\ n.op \in Edits /\ Live(n.cart)
                   \/ n.pc = "create" /\ n.op = "add" /\ n.cart \in Own /\ Unused(n.cart)
                   \/ n.pc = "guest" /\ n.op = "claim" /\ n.cart \in Guests
                   \/ n.pc = "mark" /\ n.op = "recover" /\ Live(n.cart)
<1>1. ASSUME NEW op \in Edits, NEW c \in CartIds, NEW v \in Variants, BeginEdit(w, op, c, v)
      PROVE  Begin(w, op, "read", c, v, cart[c].owner) /\ cart[c].owner \in {"guest", "customer"} /\ Live(c) /\ op \in Ops
  BY <1>1 DEF BeginEdit, TInv, TypeOK, Copies, Row, Live, Ops
<1>2. ASSUME NEW c \in CartIds, NEW v \in Variants, BeginFirst(w, c, v)
      PROVE  Begin(w, "add", "create", c, v, "customer") /\ c \in Own /\ Unused(c)
  BY <1>2 DEF BeginFirst
<1>3. ASSUME NEW g \in Guests, BeginClaim(w, g)
      PROVE  Begin(w, "claim", "guest", g, CHOOSE v \in Variants : TRUE, "customer") /\ g \in CartIds
  BY <1>3 DEF BeginClaim, CartIds
<1>4. ASSUME NEW c \in CartIds, BeginRecovery(w, c)
      PROVE  Begin(w, "recover", "mark", c, CHOOSE v \in Variants : TRUE, "customer") /\ Live(c)
  BY <1>4 DEF BeginRecovery, Owned
<1>5. {"read", "create", "guest", "mark"} \subseteq Places /\ {"add", "claim", "recover"} \subseteq Ops
  BY DEF Places, Ops, Edits
<1>6. CASE \E op \in Edits, c \in CartIds, v \in Variants : BeginEdit(w, op, c, v)
  <2>1. PICK op \in Edits, c \in CartIds, v \in Variants : BeginEdit(w, op, c, v)
    BY <1>6
  <2>2. PICK as \in {"guest", "customer"} : as = cart[c].owner
    BY <1>1, <2>1
  <2>3. Begin(w, op, "read", c, v, as) /\ Live(c) /\ op \in Ops
    BY <1>1, <2>1, <2>2
  <2>4. /\ Free(w) /\ UNCHANGED <<cart, values, faults, want, given, moved, mails, mishap>> /\ asked' \in [Ops -> Nat]
        /\ \E n \in Requests :
              /\ call' = [call EXCEPT ![w] = n]
              /\ n.op = op /\ n.pc = "read" /\ n.cart = c /\ n.seen = NoCart /\ n.own = NoCart /\ n.ownSeen = NoCart
    <3>1. op \in Ops /\ "read" \in Places /\ Begin(w, op, "read", c, v, as)
      BY <1>5, <2>3
    <3>2. CASE as = "guest"
      BY <3>1, <3>2, BeginIs
    <3>3. CASE as = "customer"
      BY <3>1, <3>3, BeginIs
    <3> QED
      BY <3>2, <3>3
  <2> QED
    BY <2>3, <2>4
<1>7. CASE \E c \in CartIds, v \in Variants : BeginFirst(w, c, v)
  <2>1. PICK c \in CartIds, v \in Variants : BeginFirst(w, c, v)
    BY <1>7
  <2>2. Begin(w, "add", "create", c, v, "customer") /\ c \in Own /\ Unused(c)
    BY <1>2, <2>1
  <2>3. /\ Free(w) /\ UNCHANGED <<cart, values, faults, want, given, moved, mails, mishap>> /\ asked' \in [Ops -> Nat]
        /\ \E n \in Requests :
              /\ call' = [call EXCEPT ![w] = n]
              /\ n.op = "add" /\ n.pc = "create" /\ n.cart = c /\ n.seen = NoCart /\ n.own = NoCart /\ n.ownSeen = NoCart
    BY <1>5, <2>2, BeginIs
  <2> QED
    BY <2>2, <2>3
<1>8. CASE \E g \in Guests : BeginClaim(w, g)
  <2>1. PICK c \in Guests : BeginClaim(w, c)
    BY <1>8
  <2>2. PICK v \in Variants : Begin(w, "claim", "guest", c, v, "customer") /\ c \in CartIds
    BY <1>3, <2>1, SomeVariant
  <2>3. /\ Free(w) /\ UNCHANGED <<cart, values, faults, want, given, moved, mails, mishap>> /\ asked' \in [Ops -> Nat]
        /\ \E n \in Requests :
              /\ call' = [call EXCEPT ![w] = n]
              /\ n.op = "claim" /\ n.pc = "guest" /\ n.cart = c /\ n.seen = NoCart /\ n.own = NoCart /\ n.ownSeen = NoCart
    BY <1>5, <2>2, BeginIs
  <2> QED
    BY <2>2, <2>3
<1>9. CASE \E c \in CartIds : BeginRecovery(w, c)
  <2>1. PICK c \in CartIds : BeginRecovery(w, c)
    BY <1>9
  <2>2. PICK v \in Variants : Begin(w, "recover", "mark", c, v, "customer") /\ Live(c)
    BY <1>4, <2>1, SomeVariant
  <2>3. /\ Free(w) /\ UNCHANGED <<cart, values, faults, want, given, moved, mails, mishap>> /\ asked' \in [Ops -> Nat]
        /\ \E n \in Requests :
              /\ call' = [call EXCEPT ![w] = n]
              /\ n.op = "recover" /\ n.pc = "mark" /\ n.cart = c /\ n.seen = NoCart /\ n.own = NoCart /\ n.ownSeen = NoCart
    BY <1>5, <2>2, BeginIs
  <2> QED
    BY <2>2, <2>3
<1> QED
  BY <1>6, <1>7, <1>8, <1>9

------------------------------------------------------------------------------
(* What each statement of a request does *)

\* The request goes on as n; everything it knows is as before.
Goes(w, n) ==
    /\ n \in Requests /\ call' = [call EXCEPT ![w] = n]
    /\ n.op = call[w].op /\ n.cart = call[w].cart /\ n.variant = call[w].variant
Keeps(w, n) == n.seen = call[w].seen /\ n.own = call[w].own /\ n.ownSeen = call[w].ownSeen /\ n.drop = call[w].drop
Stops(w) == Fails(w) \/ Refuses(w)

\* A request that only moves to its next place keeps what it knows.
LEMMA GotoGoes ==
    ASSUME TInv, NEW w \in Callers, ~Free(w), NEW pc \in Places, Goto(w, pc)
    PROVE  \E n : Goes(w, n) /\ Keeps(w, n) /\ n.pc = pc
BY GotoIs DEF Goes, Keeps

\* CreateCart inserts an empty cart of the customer under the id of the request.
LEMMA CreateEffect ==
    ASSUME TInv, NEW w \in Callers, CreateCart(w), ~Stops(w)
    PROVE  /\ At(w, "create") /\ UNCHANGED <<values, asked, faults, want, given, moved, mails, mishap>>
           /\ \E row \in Row : /\ cart' = [cart EXCEPT ![call[w].cart] = row]
                               /\ row.owner = "customer" /\ row.items = [v \in Variants |-> 0] /\ row.merged = NoCart
           /\ \E n : Goes(w, n) /\ Keeps(w, n) /\ n.pc = "read"
<1>1. PICK cur \in {1, 2} :
        cart' = [cart EXCEPT ![call[w].cart] = [owner |-> "customer", cur |-> cur, items |-> [v \in Variants |-> 0], ver |-> 1,
                                                merged |-> NoCart, coupon |-> FALSE, mailed |-> FALSE]]
  BY DEF CreateCart, Stops
<1>2. At(w, "create") /\ Goto(w, "read") /\ UNCHANGED <<values, asked, faults, want, given, moved, mails, mishap>>
  BY DEF CreateCart, Stops, NoFault, history
<1>3. [owner |-> "customer", cur |-> cur, items |-> [v \in Variants |-> 0], ver |-> 1,
       merged |-> NoCart, coupon |-> FALSE, mailed |-> FALSE] \in Row
  BY DEF Row
<1>4. \E n : Goes(w, n) /\ Keeps(w, n) /\ n.pc = "read"
  BY <1>2, GotoGoes DEF At, Places
<1> QED
  BY <1>1, <1>2, <1>3, <1>4

\* A statement that only reads.
ReadsOnly(w, n) ==
    Goes(w, n) /\ UNCHANGED <<cart, values, asked, faults, want, given, moved, mails>> /\ n.drop \subseteq Variants

\* FindByID of an edit: a copy of the row is read.
LEMMA ReadCartEffect ==
    ASSUME TInv, NEW w \in Callers, ReadCart(w), ~Stops(w)
    PROVE  /\ At(w, "read") /\ mishap' = mishap /\ Live(call[w].cart)
           /\ \E n : /\ ReadsOnly(w, n) /\ n.pc \in {"values", "save"}
                     /\ n.seen = cart[call[w].cart] /\ n.own = call[w].own /\ n.ownSeen = call[w].ownSeen
<1> DEFINE c == call[w].cart
           pc == IF call[w].op \in {"describe", "remove"} THEN "values" ELSE "save"
           n == [call[w] EXCEPT !.seen = cart[c], !.pc = pc]
<1>1. At(w, "read") /\ Live(c) /\ UNCHANGED <<cart, values, asked, faults, want, given, moved, mails, mishap>>
  BY DEF ReadCart, Stops, rows, history
<1>2. call' = [call EXCEPT ![w].seen = cart[c], ![w].pc = pc]
  BY DEF ReadCart, Stops
<1>3. call' = [call EXCEPT ![w] = n]
  BY <1>2 DEF TInv, TypeOK
<1>4. call[w] \in Requests /\ cart[c] \in Copies /\ pc \in Places
  BY <1>1, RequestType DEF At, TInv, TypeOK, Requests, Places
<1>5. /\ n \in Requests /\ n.op = call[w].op /\ n.cart = c /\ n.variant = call[w].variant /\ n.pc = pc
      /\ n.seen = cart[c] /\ n.own = call[w].own /\ n.ownSeen = call[w].ownSeen
  BY <1>4 DEF Requests
<1>6. n.drop \subseteq Variants
  BY <1>5 DEF Requests
<1> QED
  BY <1>1, <1>3, <1>5, <1>6 DEF ReadsOnly, Goes

\* The custom values of one line are written, or deleted.
LEMMA WriteValuesEffect ==
    ASSUME TInv, NEW w \in Callers, WriteValues(w), ~Stops(w)
    PROVE  /\ At(w, "values") /\ UNCHANGED <<cart, asked, faults, want, moved, mails>>
           /\ \E n : Goes(w, n) /\ Keeps(w, n) /\ n.pc = "save"
           /\ LET line == <<call[w].cart, call[w].variant>> IN
              \/ /\ values' = values \cup {line} /\ given' = given \cup {line}
                 /\ Note({m \in {"late"} : \E u \in Callers \ {w} : At(u, "merge") /\ call[u].cart = call[w].cart})
              \/ /\ values' = values \ {line} /\ given' = given \ {line}
                 /\ Note({m \in {"purged"} : \E u \in Callers \ {w} : ~Free(u) /\ call[u].own = call[w].cart})
<1>1. At(w, "values") /\ Goto(w, "save") /\ UNCHANGED <<cart, asked, faults, want, moved, mails>>
  BY DEF WriteValues, Stops, NoFault
<1>2. \E n : Goes(w, n) /\ Keeps(w, n) /\ n.pc = "save"
  BY <1>1, GotoGoes DEF At, Places
<1> QED
  BY <1>1, <1>2 DEF WriteValues, Stops

\* The row of c is replaced.
SavesRow(c, row) ==
    /\ row \in Row /\ Current(c, row.ver) /\ cart' = Saved(c, row) /\ cart' # cart
    /\ values' = values /\ asked' = asked /\ mails' = mails /\ faults' \in 0..MaxFaults

\* An edit changes items and coupon of the copy.
LEMMA EditedType ==
    ASSUME NEW row \in Row, NEW op \in Edits, NEW v \in Variants
    PROVE  LET e == Edited(row, op, v) IN
           e \in Row /\ e.owner = row.owner /\ e.merged = row.merged /\ e.ver = row.ver
<1>1. CASE op \in {"add", "describe"}
  <2>1. Edited(row, op, v) = [row EXCEPT !.items[v] = row.items[v] + 1]
    BY <1>1 DEF Edited
  <2> QED
    BY <2>1 DEF Row
<1>2. CASE op = "update"
  <2>1. Edited(row, op, v) = [row EXCEPT !.items[v] = 2]
    BY <1>2 DEF Edited
  <2> QED
    BY <2>1 DEF Row
<1>3. CASE op = "remove"
  <2>1. Edited(row, op, v) = [row EXCEPT !.items[v] = 0]
    BY <1>3 DEF Edited
  <2> QED
    BY <2>1 DEF Row
<1>4. CASE op = "coupon"
  <2>1. Edited(row, op, v) = [row EXCEPT !.coupon = TRUE]
    BY <1>4 DEF Edited
  <2> QED
    BY <2>1 DEF Row
<1>5. CASE op = "uncoupon"
  <2>1. Edited(row, op, v) = [row EXCEPT !.coupon = FALSE]
    BY <1>5 DEF Edited
  <2> QED
    BY <2>1 DEF Row
<1> QED
  BY <1>1, <1>2, <1>3, <1>4, <1>5 DEF Edits

\* A copy is a row.
LEMMA CopyType ==
    ASSUME TInv, NEW w \in Callers, ~Free(w)
    PROVE  /\ call[w].seen # NoCart => call[w].seen \in Row
           /\ call[w].ownSeen # NoCart => call[w].ownSeen \in Row
           /\ call[w].cart \in CartIds /\ call[w].variant \in Variants /\ call[w].own \in CartIds \cup {NoCart}
           /\ call[w].drop \subseteq Variants
<1>1. call[w] \in Requests
  BY RequestType
<1> QED
  BY <1>1 DEF Requests, Copies

\* An edit that is saved replaces the row of its cart and is counted in want.
LEMMA SaveEditEffect ==
    ASSUME TInv, NEW w \in Callers, SaveEdit(w), ~Stops(w)
    PROVE  /\ At(w, "save") /\ End(w) /\ UNCHANGED <<given, moved>>
           /\ \E row : /\ SavesRow(call[w].cart, row)
                       /\ row.owner = call[w].seen.owner /\ row.merged = call[w].seen.merged /\ row.ver = call[w].seen.ver
                       /\ want' = [v \in Variants |-> want[v] + row.items[v] - call[w].seen.items[v]]
           /\ Note({m \in {"revived"} : ~Live(call[w].cart)} \cup {m \in {"overtaken"} : call[w].cart \in moved})
<1> DEFINE row == Edited(call[w].seen, call[w].op, call[w].variant)
<1>1. At(w, "save") /\ ~Free(w) /\ call[w].op \in Edits
  BY DEF SaveEdit, At
<1>2. call[w].seen \in Row /\ call[w].cart \in CartIds /\ call[w].variant \in Variants
  BY <1>1, CopyType, RequestType DEF Good, Shape, At
<1>3. row \in Row /\ row.owner = call[w].seen.owner /\ row.merged = call[w].seen.merged /\ row.ver = call[w].seen.ver
  BY <1>1, <1>2, EditedType
<1>4. Save(w, call[w].cart, row, "done")
  BY DEF SaveEdit
<1>5. /\ Current(call[w].cart, row.ver) /\ cart' = Saved(call[w].cart, row) /\ UNCHANGED <<values, asked, mails>> /\ End(w)
  BY <1>4 DEF Save, Stops
<1>6. cart' # cart /\ faults' \in 0..MaxFaults
  <2> HIDE DEF row
  <2>1. cart' # cart
    BY <1>2, <1>3, <1>5, SavedEffect DEF TInv
  <2>2. faults' \in 0..MaxFaults
    BY <1>2, <1>3, <1>4, SaveCases
  <2> QED
    BY <2>1, <2>2
<1>7. /\ want' = [v \in Variants |-> want[v] + row.items[v] - call[w].seen.items[v]]
      /\ Note({m \in {"revived"} : ~Live(call[w].cart)} \cup {m \in {"overtaken"} : call[w].cart \in moved})
      /\ UNCHANGED <<given, moved>>
  BY <1>6 DEF SaveEdit
<1>8. SavesRow(call[w].cart, row)
  BY <1>3, <1>5, <1>6 DEF SavesRow
<1> HIDE DEF row
<1> QED
  BY <1>1, <1>3, <1>5, <1>7, <1>8

\* A claim reads the guest cart, which a visitor still has or which is assigned already.
LEMMA ReadGuestEffect ==
    ASSUME TInv, NEW w \in Callers, ReadGuest(w), ~Stops(w)
    PROVE  /\ At(w, "guest") /\ mishap' = mishap /\ Live(call[w].cart)
           /\ \E n : /\ ReadsOnly(w, n) /\ n.seen = cart[call[w].cart] /\ n.own = call[w].own /\ n.ownSeen = call[w].ownSeen
                     /\ n.pc = "tidy" \/ (n.pc = "own" /\ n.seen.owner = "guest")
<1> DEFINE c == call[w].cart
           pc == IF Owned(c) THEN "tidy" ELSE "own"
           n == [call[w] EXCEPT !.seen = cart[c], !.pc = pc]
<1>1. At(w, "guest") /\ Live(c) /\ UNCHANGED <<cart, values, asked, faults, want, given, moved, mails, mishap>>
  BY DEF ReadGuest, Stops, rows, history
<1>2. call' = [call EXCEPT ![w].seen = cart[c], ![w].pc = pc]
  BY DEF ReadGuest, Stops
<1>3. call' = [call EXCEPT ![w] = n]
  BY <1>2 DEF TInv, TypeOK
<1>4. call[w] \in Requests /\ cart[c] \in Copies /\ pc \in Places
  BY <1>1, RequestType DEF At, TInv, TypeOK, Requests, Places
<1>5. /\ n \in Requests /\ n.op = call[w].op /\ n.cart = c /\ n.variant = call[w].variant /\ n.pc = pc
      /\ n.seen = cart[c] /\ n.own = call[w].own /\ n.ownSeen = call[w].ownSeen
  BY <1>4 DEF Requests
<1>6. n.drop \subseteq Variants
  BY <1>5 DEF Requests
<1>7. n.pc = "tidy" \/ (n.pc = "own" /\ n.seen.owner = "guest")
  BY <1>1, <1>4, <1>5 DEF Owned, Live, Copies, Row
<1> QED
  BY <1>1, <1>3, <1>5, <1>6, <1>7 DEF ReadsOnly, Goes

\* The cleanup of a merge reads the guest cart again.
LEMMA RereadEffect ==
    ASSUME TInv, NEW w \in Callers, RereadGuest(w), ~Stops(w)
    PROVE  /\ At(w, "reread") /\ mishap' = mishap /\ Live(call[w].cart)
           /\ \E n : /\ ReadsOnly(w, n) /\ n.seen = cart[call[w].cart] /\ n.own = call[w].own /\ n.ownSeen = call[w].ownSeen
                     /\ n.pc = "purge"
<1> DEFINE c == call[w].cart
           n == [call[w] EXCEPT !.seen = cart[c], !.pc = "purge"]
<1>1. At(w, "reread") /\ Live(c) /\ UNCHANGED <<cart, values, asked, faults, want, given, moved, mails, mishap>>
  BY DEF RereadGuest, Stops, rows, history
<1>2. call' = [call EXCEPT ![w].seen = cart[c], ![w].pc = "purge"]
  BY DEF RereadGuest, Stops
<1>3. call' = [call EXCEPT ![w] = n]
  BY <1>2 DEF TInv, TypeOK
<1>4. call[w] \in Requests /\ cart[c] \in Copies /\ "purge" \in Places
  BY <1>1, RequestType DEF At, TInv, TypeOK, Requests, Places
<1>5. /\ n \in Requests /\ n.op = call[w].op /\ n.cart = c /\ n.variant = call[w].variant /\ n.pc = "purge"
      /\ n.seen = cart[c] /\ n.own = call[w].own /\ n.ownSeen = call[w].ownSeen
  BY <1>4 DEF Requests
<1>6. n.drop \subseteq Variants
  BY ZenonT(30), <1>5 DEF Requests
<1> QED
  BY <1>1, <1>3, <1>5, <1>6 DEF ReadsOnly, Goes

\* A claim finds a cart of the customer, or none, and goes where that cart's marker,
\* currency and lines send it.
LEMMA FindOwnEffect ==
    ASSUME TInv, NEW w \in Callers, FindOwn(w), ~Stops(w)
    PROVE  LET g == call[w].cart IN
           /\ At(w, "own") /\ UNCHANGED <<cart, values, asked, faults, want, given, moved, mails>>
           /\ \/ mishap' = mishap /\ \E n : ReadsOnly(w, n) /\ Keeps(w, n) /\ n.pc = "check"
              \/ \E k \in CartIds :
                   /\ Owned(k)
                   /\ Note({m \in {"itself"} : k = g}
                           \cup {m \in {"strayed"} : \E o \in CartIds \ {k} : Owned(o) /\ cart[o].merged = g})
                   /\ \/ End(w)
                      \/ \E n : /\ ReadsOnly(w, n) /\ n.seen = call[w].seen /\ n.own = k /\ n.ownSeen = cart[k]
                                /\ \/ n.pc = "reread" /\ cart[k].merged = g
                                   \/ n.pc = "check" /\ cart[k].merged # g
                                   \/ n.pc = "delOwn" /\ Lines(cart[k]) = {}
                                   \/ n.pc = "delGuest" /\ Lines(call[w].seen) = {}
<1> DEFINE g == call[w].cart
<1>1. At(w, "own") /\ ~Free(w) /\ call[w] \in Requests
  BY RequestType DEF FindOwn, At
<1>2. CASE Goto(w, "check") /\ UNCHANGED <<rows, asked, faults, history>>
  <2>1. PICK n : Goes(w, n) /\ Keeps(w, n) /\ n.pc = "check"
    BY <1>1, <1>2, GotoGoes DEF Places
  <2>2. n.drop \subseteq Variants
    BY <2>1 DEF Goes, Requests
  <2> QED
    BY <1>1, <1>2, <2>1, <2>2 DEF ReadsOnly, rows, history
<1>3. ASSUME NEW k \in CartIds,
             LET step == ClaimStep(k, g, call[w].seen) IN
             /\ Owned(k) /\ NoFault
             /\ IF step = "refuse" THEN End(w)
                ELSE call' = [call EXCEPT ![w].own = k, ![w].ownSeen = cart[k], ![w].pc = step]
             /\ Note({m \in {"itself"} : k = g}
                     \cup {m \in {"strayed"} : \E o \in CartIds \ {k} : Owned(o) /\ cart[o].merged = g})
             /\ UNCHANGED <<rows, asked, want, given, moved, mails>>
      PROVE  /\ UNCHANGED <<cart, values, asked, faults, want, given, moved, mails>>
             /\ Owned(k)
             /\ Note({m \in {"itself"} : k = g}
                     \cup {m \in {"strayed"} : \E o \in CartIds \ {k} : Owned(o) /\ cart[o].merged = g})
             /\ \/ End(w)
                \/ \E n : /\ ReadsOnly(w, n) /\ n.seen = call[w].seen /\ n.own = k /\ n.ownSeen = cart[k]
                          /\ \/ n.pc = "reread" /\ cart[k].merged = g
                             \/ n.pc = "check" /\ cart[k].merged # g
                             \/ n.pc = "delOwn" /\ Lines(cart[k]) = {}
                             \/ n.pc = "delGuest" /\ Lines(call[w].seen) = {}
  <2> DEFINE step == ClaimStep(k, g, call[w].seen)
             n == [call[w] EXCEPT !.own = k, !.ownSeen = cart[k], !.pc = step]
  <2>1. UNCHANGED <<cart, values, asked, faults, want, given, moved, mails>>
    BY <1>3 DEF rows, NoFault
  <2>2. CASE step = "refuse"
    BY <1>3, <2>1, <2>2
  <2>3. CASE step # "refuse"
    <3>1. \/ step = "reread" /\ cart[k].merged = g
          \/ step = "check" /\ cart[k].merged # g
          \/ step = "delOwn" /\ Lines(cart[k]) = {}
          \/ step = "delGuest" /\ Lines(call[w].seen) = {}
      BY <2>3 DEF ClaimStep, AlreadyMerged
    <3>2. step \in Places /\ cart[k] \in Copies
      BY <3>1 DEF Places, TInv, TypeOK
    <3> HIDE DEF step
    <3>3. call' = [call EXCEPT ![w].own = k, ![w].ownSeen = cart[k], ![w].pc = step]
      BY <1>3, <2>3 DEF step
    <3>4. call' = [call EXCEPT ![w] = n]
      BY <3>3 DEF TInv, TypeOK
    <3>5. /\ n \in Requests /\ n.op = call[w].op /\ n.cart = g /\ n.variant = call[w].variant /\ n.pc = step
          /\ n.seen = call[w].seen /\ n.own = k /\ n.ownSeen = cart[k]
      BY <1>1, <3>2 DEF Requests
    <3>6. n.drop \subseteq Variants
      BY <3>5 DEF Requests
    <3>7. ReadsOnly(w, n)
      BY <2>1, <3>4, <3>5, <3>6 DEF ReadsOnly, Goes
    <3> HIDE DEF n
    <3> QED
      BY <1>3, <2>1, <3>1, <3>5, <3>7
  <2> QED
    BY <2>2, <2>3
<1> QED
  BY ZenonT(30), <1>1, <1>2, <1>3 DEF FindOwn, Stops

\* The empty cart in another currency is deleted.
LEMMA DeleteEmptyEffect ==
    ASSUME TInv, NEW w \in Callers, DeleteEmpty(w), ~Stops(w)
    PROVE  /\ UNCHANGED <<values, asked, faults, want, given, moved, mails>>
           /\ \/ /\ At(w, "delOwn") /\ cart' = Deleted(call[w].own)
                 /\ Note({m \in {"overtaken"} : Changed(call[w].own, call[w].ownSeen)} \cup Forgets(call[w].own, NoCart))
                 /\ \E n : Goes(w, n) /\ n.seen = call[w].seen /\ n.own = NoCart /\ n.ownSeen = NoCart /\ n.pc = "check"
              \/ /\ At(w, "delGuest") /\ cart' = Deleted(call[w].cart)
                 /\ Note({m \in {"overtaken"} : Changed(call[w].cart, call[w].seen)} \cup Forgets(call[w].cart, NoCart))
                 /\ End(w)
<1>1. ~Free(w) /\ call[w] \in Requests
  BY RequestType DEF DeleteEmpty, At
<1>2. UNCHANGED <<values, asked, faults, want, given, moved, mails>>
  BY DEF DeleteEmpty, Stops, NoFault
<1>3. CASE At(w, "delOwn")
  <2> DEFINE n == [call[w] EXCEPT !.own = NoCart, !.ownSeen = NoCart, !.pc = "check"]
  <2>1. /\ cart' = Deleted(call[w].own)
        /\ Note({m \in {"overtaken"} : Changed(call[w].own, call[w].ownSeen)} \cup Forgets(call[w].own, NoCart))
        /\ call' = [call EXCEPT ![w].own = NoCart, ![w].ownSeen = NoCart, ![w].pc = "check"]
    BY <1>3 DEF DeleteEmpty, Stops
  <2>2. call' = [call EXCEPT ![w] = n]
    BY <2>1 DEF TInv, TypeOK
  <2>3. /\ n \in Requests /\ n.op = call[w].op /\ n.cart = call[w].cart /\ n.variant = call[w].variant /\ n.pc = "check"
        /\ n.seen = call[w].seen /\ n.own = NoCart /\ n.ownSeen = NoCart
    BY <1>1 DEF Requests, Copies, Places
  <2>4. Goes(w, n)
    BY <2>2, <2>3 DEF Goes
  <2> HIDE DEF n
  <2> QED
    BY <1>2, <1>3, <2>1, <2>3, <2>4
<1>4. CASE ~At(w, "delOwn")
  BY <1>2, <1>4 DEF DeleteEmpty, Stops
<1> QED
  BY <1>3, <1>4

\* Lines to drop are chosen; what was read stays.
LEMMA CheckLinesEffect ==
    ASSUME TInv, NEW w \in Callers, CheckLines(w), ~Stops(w)
    PROVE  /\ At(w, "check") /\ mishap' = mishap
           /\ \E n : /\ ReadsOnly(w, n) /\ n.seen = call[w].seen /\ n.own = call[w].own /\ n.ownSeen = call[w].ownSeen
                     /\ IF call[w].own # NoCart THEN n.pc = "copy" ELSE n.pc = "assign"
<1>1. At(w, "check") /\ ~Free(w) /\ call[w] \in Requests
  BY RequestType DEF CheckLines, At
<1>2. PICK drop \in SUBSET Lines(call[w].seen), eligible \in BOOLEAN :
        /\ call' = [call EXCEPT ![w].drop = drop, ![w].coupon = eligible /\ call[w].seen.coupon,
                                ![w].pc = IF call[w].own # NoCart THEN "copy" ELSE "assign"]
        /\ UNCHANGED <<rows, asked, faults, history>>
  BY DEF CheckLines, Stops
<1> DEFINE pc == IF call[w].own # NoCart THEN "copy" ELSE "assign"
<1>3. PICK b \in BOOLEAN : b = (eligible /\ call[w].seen.coupon)
  OBVIOUS
<1> DEFINE n == [call[w] EXCEPT !.drop = drop, !.coupon = b, !.pc = pc]
<1>4. call' = [call EXCEPT ![w].drop = drop, ![w].coupon = b, ![w].pc = pc]
  BY <1>2, <1>3
<1>5. call' = [call EXCEPT ![w] = n]
  BY <1>4 DEF TInv, TypeOK
<1>6. drop \subseteq Variants /\ pc \in Places
  BY DEF Lines, Places
<1>7. /\ n.op = call[w].op /\ n.cart = call[w].cart /\ n.variant = call[w].variant /\ n.pc = pc
      /\ n.seen = call[w].seen /\ n.own = call[w].own /\ n.ownSeen = call[w].ownSeen /\ n.drop = drop
  BY <1>1 DEF Requests
<1>8. n \in Requests
  <2>1. [[call[w] EXCEPT !.drop = drop] EXCEPT !.pc = pc] \in Requests
    BY <1>1, <1>6 DEF Requests
  <2>2. [[[call[w] EXCEPT !.drop = drop] EXCEPT !.pc = pc] EXCEPT !.coupon = b] \in Requests
    BY <2>1 DEF Requests
  <2>3. n = [[[call[w] EXCEPT !.drop = drop] EXCEPT !.pc = pc] EXCEPT !.coupon = b]
    BY <1>1 DEF Requests
  <2> QED
    BY <2>2, <2>3
<1>9. ReadsOnly(w, n)
  BY <1>2, <1>5, <1>6, <1>7, <1>8 DEF ReadsOnly, Goes, rows, history
<1> QED
  BY <1>1, <1>2, <1>7, <1>9 DEF history

\* Copies of values are added for the cart of the customer; if the claim goes on, for
\* every line that it keeps.
LEMMA CopyValuesEffect ==
    ASSUME TInv, NEW w \in Callers, CopyValues(w)
    PROVE  LET g == call[w].cart  k == call[w].own IN
           /\ At(w, "copy") /\ UNCHANGED <<cart, asked, want, given, moved, mails, mishap>> /\ faults' \in 0..MaxFaults
           /\ values \subseteq values' /\ values' \subseteq values \cup ({k} \X Variants)
           /\ \/ End(w)
              \/ /\ \A v \in Kept(w) : <<g, v>> \in values => <<k, v>> \in values'
                 /\ \E n : Goes(w, n) /\ Keeps(w, n) /\ n.pc = "merge"
<1> DEFINE g == call[w].cart  k == call[w].own
<1>1. At(w, "copy") /\ ~Free(w) /\ UNCHANGED <<cart, asked, want, given, moved, mails, mishap>>
  BY DEF CopyValues, At, history
<1>2. PICK done \in SUBSET Kept(w) :
        /\ values' = Copied(g, k, done)
        /\ \/ done = Kept(w) /\ NoFault /\ Goto(w, "merge")
           \/ done # Kept(w) /\ Fault /\ End(w)
  BY DEF CopyValues
<1>3. faults' \in 0..MaxFaults
  BY <1>2, CartsAssumption DEF Fault, NoFault, TInv, TypeOK
<1>4. values \subseteq values' /\ values' \subseteq values \cup ({k} \X Variants)
  <2>1. values' = values \cup {<<k, v>> : v \in {u \in done : <<g, u>> \in values}}
    BY <1>2 DEF Copied
  <2>2. done \subseteq Variants
    BY DEF Kept, Lines
  <2>3. ASSUME NEW l \in values' PROVE l \in values \cup ({k} \X Variants)
    <3>1. CASE l \notin values
      <4>1. PICK v \in done : l = <<k, v>>
        BY <2>1, <2>3, <3>1
      <4> QED
        BY <2>2, <4>1
    <3> QED
      BY <3>1
  <2> QED
    BY <2>1, <2>3
<1>5. CASE Goto(w, "merge") /\ done = Kept(w)
  <2>1. \A v \in Kept(w) : <<g, v>> \in values => <<k, v>> \in values'
    BY <1>2, <1>5 DEF Copied
  <2>2. \E n : Goes(w, n) /\ Keeps(w, n) /\ n.pc = "merge"
    BY <1>1, <1>5, GotoGoes DEF Places
  <2> QED
    BY <1>1, <1>3, <1>4, <2>1, <2>2
<1> QED
  BY <1>1, <1>2, <1>3, <1>4, <1>5

\* A save that is applied.
LEMMA SaveApplied ==
    ASSUME TInv, NEW w \in Callers, ~Free(w), NEW c \in CartIds, NEW row \in Row, NEW pc \in Places,
           Save(w, c, row, pc), pc # "done", ~Stops(w)
    PROVE  SavesRow(c, row) /\ (End(w) \/ \E n : Goes(w, n) /\ Keeps(w, n) /\ n.pc = pc)
<1>1. Current(c, row.ver) /\ cart' = Saved(c, row) /\ UNCHANGED <<values, asked, mails>> /\ (End(w) \/ Goto(w, pc))
  BY DEF Save, Stops
<1>2. cart' # cart
  BY <1>1, SavedEffect DEF TInv
<1>3. faults' \in 0..MaxFaults
  BY SaveCases
<1>4. SavesRow(c, row)
  BY <1>1, <1>2, <1>3 DEF SavesRow
<1>5. End(w) \/ \E n : Goes(w, n) /\ Keeps(w, n) /\ n.pc = pc
  BY <1>1, GotoGoes
<1> QED
  BY <1>4, <1>5

\* An assignment that is saved gives the guest cart to the customer with the lines kept.
LEMMA AssignEffect ==
    ASSUME TInv, NEW w \in Callers, Assign(w), ~Stops(w)
    PROVE  LET g == call[w].cart IN
           /\ At(w, "assign") /\ moved' = moved
           /\ \E row : /\ SavesRow(g, row)
                       /\ row.owner = "customer" /\ row.merged = call[w].seen.merged /\ row.ver = call[w].seen.ver
                       /\ row.items = [v \in Variants |-> IF v \in Kept(w) THEN call[w].seen.items[v] ELSE 0]
           /\ want' = LessDropped(w) /\ given' = given \ ({g} \X call[w].drop)
           /\ Note({m \in {"revived"} : ~Live(g)} \cup {m \in {"strayed"} : g \in moved})
           /\ End(w) \/ \E n : Goes(w, n) /\ Keeps(w, n) /\ n.pc = "tidy"
<1> DEFINE g == call[w].cart
           items == [v \in Variants |-> IF v \in Kept(w) THEN call[w].seen.items[v] ELSE 0]
           row == [call[w].seen EXCEPT !.owner = "customer", !.items = items]
<1>1. At(w, "assign") /\ ~Free(w)
  BY DEF Assign, At
<1>2. call[w].seen \in Row /\ g \in CartIds
  BY <1>1, CopyType, RequestType DEF Good, Shape, At, Claiming
<1>3. items \in [Variants -> Nat]
  BY <1>2 DEF Row
<1>4. Save(w, g, row, "tidy") /\ (cart' # cart => /\ want' = LessDropped(w) /\ given' = given \ ({g} \X call[w].drop) /\ moved' = moved
                                               /\ Note({m \in {"revived"} : ~Live(g)} \cup {m \in {"strayed"} : g \in moved}))
  BY <1>2 DEF Assign
<1> HIDE DEF items
<1>5. row \in Row /\ row.owner = "customer" /\ row.merged = call[w].seen.merged /\ row.ver = call[w].seen.ver /\ row.items = items
  BY <1>2, <1>3 DEF Row
<1> HIDE DEF row
<1>6. SavesRow(g, row) /\ (End(w) \/ \E n : Goes(w, n) /\ Keeps(w, n) /\ n.pc = "tidy")
  BY <1>1, <1>2, <1>4, <1>5, SaveApplied DEF Places
<1>7. cart' # cart
  BY <1>6 DEF SavesRow
<1> QED
  BY <1>1, <1>4, <1>5, <1>6, <1>7 DEF items

\* A merge that is saved adds the lines kept to the cart of the customer and sets the
\* marker.
LEMMA MergeEffect ==
    ASSUME TInv, NEW w \in Callers, Merge(w), ~Stops(w)
    PROVE  LET g == call[w].cart  k == call[w].own IN
           /\ At(w, "merge") /\ moved' = moved \cup {g} /\ g \in Guests /\ k \in CartIds
           /\ \E row : /\ SavesRow(k, row)
                       /\ row.owner = "customer" /\ row.merged = g /\ row.ver = call[w].ownSeen.ver
                       /\ row.items = [v \in Variants |-> call[w].ownSeen.items[v] + (IF v \in Kept(w) THEN call[w].seen.items[v] ELSE 0)]
           /\ want' = LessDropped(w) /\ given' = given \cup {<<k, v>> : v \in {u \in Kept(w) : <<g, u>> \in given}}
           /\ Note({m \in {"revived"} : ~Live(k)} \cup Forgets(k, g)
                    \cup {m \in {"overtaken"} : Changed(g, call[w].seen) \/ (~Live(g) /\ g \notin moved)}
                    \cup {m \in {"strayed"} : \E o \in CartIds \ {k} : Owned(o) /\ cart[o].merged = g})
           /\ End(w) \/ \E n : Goes(w, n) /\ Keeps(w, n) /\ n.pc = "reread"
<1> DEFINE g == call[w].cart  k == call[w].own  old == call[w].ownSeen
           items == [v \in Variants |-> old.items[v] + (IF v \in Kept(w) THEN call[w].seen.items[v] ELSE 0)]
<1>1. At(w, "merge") /\ ~Free(w) /\ call[w] \in Requests /\ Good(call[w])
  BY RequestType DEF Merge, At
<1>2. call[w].seen \in Row /\ g \in Guests /\ g \in CartIds /\ k \in CartIds /\ old \in Row /\ old.owner = "customer"
  BY <1>1, CopyType DEF Good, Shape, At, Claiming
<1>3. items \in [Variants -> Nat]
  BY <1>2 DEF Row
<1>4. PICK b \in BOOLEAN : b = (old.coupon \/ call[w].coupon)
  OBVIOUS
<1> DEFINE row == [old EXCEPT !.items = items, !.coupon = b, !.merged = g]
<1>5. /\ Save(w, k, row, "reread")
      /\ cart' # cart =>
           /\ want' = LessDropped(w) /\ given' = given \cup {<<k, v>> : v \in {u \in Kept(w) : <<g, u>> \in given}} /\ moved' = moved \cup {g}
           /\ Note({m \in {"revived"} : ~Live(k)} \cup Forgets(k, g)
                    \cup {m \in {"overtaken"} : Changed(g, call[w].seen) \/ (~Live(g) /\ g \notin moved)}
                    \cup {m \in {"strayed"} : \E o \in CartIds \ {k} : Owned(o) /\ cart[o].merged = g})
  BY <1>2, <1>4 DEF Merge
<1> HIDE DEF items
<1>6. row.owner = "customer" /\ row.merged = g /\ row.ver = old.ver /\ row.items = items
  BY <1>2 DEF Row
<1>7. row \in Row
  <2>1. [[old EXCEPT !.items = items] EXCEPT !.merged = g] \in Row
    BY <1>2, <1>3 DEF Row
  <2>2. [[[old EXCEPT !.items = items] EXCEPT !.merged = g] EXCEPT !.coupon = b] \in Row
    BY <2>1 DEF Row
  <2>3. row = [[[old EXCEPT !.items = items] EXCEPT !.merged = g] EXCEPT !.coupon = b]
    BY <1>2 DEF Row
  <2> QED
    BY <2>2, <2>3
<1> HIDE DEF row
<1>8. SavesRow(k, row) /\ (End(w) \/ \E n : Goes(w, n) /\ Keeps(w, n) /\ n.pc = "reread")
  BY <1>1, <1>2, <1>5, <1>7, SaveApplied DEF Places
<1>9. cart' # cart
  BY <1>8 DEF SavesRow
<1> QED
  BY <1>1, <1>2, <1>5, <1>6, <1>8, <1>9 DEF items

\* The cleanup of an assigned cart deletes values of this cart only.
LEMMA TidyEffect ==
    ASSUME TInv, NEW w \in Callers, TidyAssigned(w)
    PROVE  LET c == call[w].cart IN
           /\ At(w, "tidy") /\ End(w) /\ UNCHANGED <<cart, asked, want, given, moved, mails>> /\ faults' \in 0..MaxFaults
           /\ \E done \in SUBSET Variants :
                 /\ values' = values \ ({c} \X done)
                 /\ Note({m \in {"purged"} : \/ ({c} \X done) \cap given # {}
                                             \/ \E u \in Callers \ {w} : ~Free(u) /\ call[u].own = c})
<1> DEFINE c == call[w].cart
           orphans == {v \in Variants : <<c, v>> \in values} \ Kept(w)
<1>1. PICK done \in SUBSET orphans :
          /\ values' = values \ ({c} \X done)
          /\ \/ done = orphans /\ NoFault
             \/ done # orphans /\ Fault
          /\ Note({m \in {"purged"} : \/ ({c} \X done) \cap given # {}
                                    \/ \E u \in Callers \ {w} : ~Free(u) /\ call[u].own = c})
  BY DEF TidyAssigned
<1>2. faults' \in 0..MaxFaults
  BY <1>1, CartsAssumption DEF Fault, NoFault, TInv, TypeOK
<1>3. done \in SUBSET Variants
  OBVIOUS
<1> QED
  BY <1>1, <1>2, <1>3 DEF TidyAssigned

\* The cleanup of a merge deletes values of the guest cart only.
LEMMA PurgeEffect ==
    ASSUME TInv, NEW w \in Callers, PurgeValues(w)
    PROVE  LET g == call[w].cart IN
           /\ At(w, "purge") /\ UNCHANGED <<cart, asked, want, given, moved, mails, mishap>> /\ faults' \in 0..MaxFaults
           /\ \E done \in SUBSET Variants : values' = values \ ({g} \X done)
           /\ End(w) \/ \E n : Goes(w, n) /\ Keeps(w, n) /\ n.pc = "delete"
<1> DEFINE g == call[w].cart
           vs == Lines(call[w].seen)
<1>1. PICK done \in SUBSET vs :
          /\ values' = values \ ({g} \X done)
          /\ \/ done = vs /\ NoFault /\ Goto(w, "delete")
             \/ done # vs /\ Fault /\ End(w)
  BY DEF PurgeValues
<1>2. At(w, "purge") /\ ~Free(w) /\ UNCHANGED <<cart, asked, want, given, moved, mails, mishap>>
  BY DEF PurgeValues, At, history
<1>3. faults' \in 0..MaxFaults
  BY <1>1, CartsAssumption DEF Fault, NoFault, TInv, TypeOK
<1>4. done \in SUBSET Variants
  BY DEF Lines
<1>5. End(w) \/ \E n : Goes(w, n) /\ Keeps(w, n) /\ n.pc = "delete"
  BY <1>1, <1>2, GotoGoes DEF Places
<1> QED
  BY <1>1, <1>2, <1>3, <1>4, <1>5

\* The merged guest cart is deleted.
LEMMA DeleteMergedEffect ==
    ASSUME TInv, NEW w \in Callers, DeleteMerged(w), ~Stops(w)
    PROVE  /\ At(w, "delete") /\ End(w) /\ cart' = Deleted(call[w].cart)
           /\ UNCHANGED <<values, asked, faults, want, given, moved, mails, mishap>>
BY DEF DeleteMerged, Stops, NoFault, history

\* A cart is marked as mailed and is otherwise as it was.
LEMMA MarkEffect ==
    ASSUME TInv, NEW w \in Callers, MarkRecoveryEmailSent(w), ~Stops(w)
    PROVE  LET c == call[w].cart IN
           /\ At(w, "mark") /\ Markable(c) /\ UNCHANGED <<values, asked, want, given, moved, mails, mishap>>
           /\ faults' \in 0..MaxFaults
           /\ cart' \in [CartIds -> Copies] /\ cart'[c] \in Row /\ \A k \in CartIds \ {c} : cart'[k] = cart[k]
           /\ cart'[c].mailed = TRUE /\ Same(cart'[c], cart[c]) /\ cart'[c].ver = cart[c].ver
           /\ End(w) \/ \E n : Goes(w, n) /\ Keeps(w, n) /\ n.pc = "mail"
<1> DEFINE c == call[w].cart
<1>1. /\ At(w, "mark") /\ ~Free(w) /\ Markable(c) /\ cart' = [cart EXCEPT ![c].mailed = TRUE]
      /\ (NoFault /\ Goto(w, "mail")) \/ (Fault /\ End(w))
      /\ UNCHANGED <<values, asked, want, given, moved, mails, mishap>>
  BY DEF MarkRecoveryEmailSent, Stops, At, history
<1>2. faults' \in 0..MaxFaults
  BY <1>1, CartsAssumption DEF Fault, NoFault, TInv, TypeOK
<1>3. End(w) \/ \E n : Goes(w, n) /\ Keeps(w, n) /\ n.pc = "mail"
  BY <1>1, GotoGoes DEF Places
<1>4. c \in CartIds /\ cart[c] \in Row
  BY <1>1, CopyType DEF Markable, Live, TInv, TypeOK, Copies
<1>5. /\ cart'[c] = [cart[c] EXCEPT !.mailed = TRUE] /\ \A k \in CartIds \ {c} : cart'[k] = cart[k]
      /\ DOMAIN cart' = CartIds /\ cart' = [k \in CartIds |-> cart'[k]]
  BY <1>1, <1>4 DEF TInv, TypeOK
<1>6. cart'[c] \in Row /\ cart'[c].mailed = TRUE /\ Same(cart'[c], cart[c]) /\ cart'[c].ver = cart[c].ver
  BY <1>4, <1>5 DEF Row, Same
<1>7. cart' \in [CartIds -> Copies]
  BY <1>5, <1>6 DEF TInv, TypeOK, Copies
<1> QED
  BY <1>1, <1>2, <1>3, <1>5, <1>6, <1>7

\* One more mail of this cart is enqueued.
LEMMA MailEffect ==
    ASSUME TInv, NEW w \in Callers, EnqueueMail(w), ~Stops(w)
    PROVE  /\ At(w, "mail") /\ End(w) /\ mails' = [mails EXCEPT ![call[w].cart] = @ + 1] /\ faults' \in 0..MaxFaults
           /\ UNCHANGED <<cart, values, asked, want, given, moved, mishap>>
<1>1. faults' \in 0..MaxFaults
  BY CartsAssumption DEF EnqueueMail, Stops, Fault, NoFault, TInv, TypeOK
<1> QED
  BY <1>1 DEF EnqueueMail, Stops, rows

------------------------------------------------------------------------------
(* Types are kept *)

\* A request that goes on as a good one keeps the shapes.
LEMMA GoesKeeps ==
    ASSUME TInv, NEW w \in Callers, NEW n, Goes(w, n), Good(n), moved \subseteq moved', \A c \in CartIds : MarksMoved(cart[c])'
    PROVE  call' \in [Callers -> {Idle} \cup Requests] /\ Shapes'
<1>1. Good(n)'
  BY GoodKept
<1> QED
  BY <1>1, ShapesStep DEF Goes

\* The rows after a save.
LEMMA SaveMarks ==
    ASSUME TInv, NEW c \in CartIds, NEW row, SavesRow(c, row), moved \subseteq moved', row.merged \in moved' \cup {NoCart}
    PROVE  cart' \in [CartIds -> Copies] /\ \A k \in CartIds : MarksMoved(cart[k])'
<1>1. /\ cart' \in [CartIds -> Copies] /\ cart'[c].merged = row.merged
      /\ \A k \in CartIds \ {c} : cart'[k] = cart[k]
  BY SavedEffect DEF SavesRow, TInv
<1>2. ASSUME NEW k \in CartIds PROVE MarksMoved(cart[k])'
  BY <1>1 DEF MarksMoved, TInv, Shapes
<1> QED
  BY <1>1, <1>2

\* The rows after a delete.
LEMMA DeletedEffect ==
    ASSUME TInv, NEW c \in CartIds, cart' = Deleted(c), moved' = moved
    PROVE  /\ cart' \in [CartIds -> Copies] /\ cart'[c] = NoCart /\ \A k \in CartIds \ {c} : cart'[k] = cart[k]
           /\ \A k \in CartIds : MarksMoved(cart[k])'
<1>1. cart' \in [CartIds -> Copies] /\ cart'[c] = NoCart /\ \A k \in CartIds \ {c} : cart'[k] = cart[k]
  BY DEF Deleted, TInv, TypeOK, Copies
<1>2. ASSUME NEW k \in CartIds PROVE MarksMoved(cart[k])'
  BY <1>1 DEF MarksMoved, TInv, Shapes
<1> QED
  BY <1>1, <1>2

\* Mishaps are only added.
LEMMA NoteType ==
    ASSUME TInv, NEW ms, Note(ms), ms \subseteq Mishaps
    PROVE  mishap' \subseteq Mishaps
BY DEF Note, TInv, TypeOK

\* Forgets notes one mishap.
LEMMA ForgetsType == \A c, g : Forgets(c, g) \subseteq {"forgotten"}
BY DEF Forgets

\* TInv is kept by requests that begin ...
LEMMA StepTBegin ==
    ASSUME TInv, NEW w \in Callers,
           \/ \E op \in Edits, c \in CartIds, v \in Variants : BeginEdit(w, op, c, v)
           \/ \E c \in CartIds, v \in Variants : BeginFirst(w, c, v)
           \/ \E g \in Guests : BeginClaim(w, g)
           \/ \E c \in CartIds : BeginRecovery(w, c)
    PROVE  TInv'
<1>1. PICK n \in Requests :
        /\ call' = [call EXCEPT ![w] = n]
        /\ n.seen = NoCart /\ n.own = NoCart /\ n.ownSeen = NoCart
        /\ \/ n.pc = "read" /\ n.op \in Edits /\ Live(n.cart)
           \/ n.pc = "create" /\ n.op = "add" /\ n.cart \in Own /\ Unused(n.cart)
           \/ n.pc = "guest" /\ n.op = "claim" /\ n.cart \in Guests
           \/ n.pc = "mark" /\ n.op = "recover" /\ Live(n.cart)
  BY Begins
<1>2. UNCHANGED <<cart, values, faults, want, given, moved, mails, mishap>> /\ asked' \in [Ops -> Nat]
  BY Begins
<1>3. Good(n)
  BY <1>1 DEF Good, Shape, MarksMoved, Claiming, Cleaning, Edits
<1>4. Good(n)'
  BY <1>2, <1>3, GoodKept
<1>5. call' \in [Callers -> {Idle} \cup Requests] /\ Shapes'
  BY <1>1, <1>2, <1>4, MarksKept, ShapesStep
<1> QED
  BY <1>2, <1>5 DEF TInv, TypeOK

\* ... by the statements of edits ...
LEMMA StepTEdit ==
    ASSUME TInv, NEW w \in Callers, Edit(w), ~Stops(w)
    PROVE  TInv'
<1>1. CASE CreateCart(w)
  <2>1. At(w, "create") /\ ~Free(w) /\ UNCHANGED <<values, asked, faults, want, given, moved, mails, mishap>>
    BY <1>1, CreateEffect DEF At
  <2>2. PICK row \in Row : /\ cart' = [cart EXCEPT ![call[w].cart] = row] /\ row.merged = NoCart
    BY <1>1, CreateEffect
  <2>3. PICK n : Goes(w, n) /\ Keeps(w, n) /\ n.pc = "read"
    BY <1>1, CreateEffect
  <2>4. call[w] \in Requests /\ Good(call[w]) /\ call[w].cart \in CartIds
    BY <2>1, RequestType, CopyType
  <2>5. cart' \in [CartIds -> Copies] /\ \A k \in CartIds : MarksMoved(cart[k])'
    BY <2>1, <2>2, <2>4 DEF TInv, TypeOK, Copies, MarksMoved, Shapes
  <2>6. Good(n)
    BY <2>1, <2>3, <2>4 DEF Good, Shape, Keeps, Goes, At, Claiming, Cleaning
  <2>7. call' \in [Callers -> {Idle} \cup Requests] /\ Shapes'
    BY <2>1, <2>3, <2>5, <2>6, GoesKeeps
  <2> QED
    BY <2>1, <2>5, <2>7 DEF TInv, TypeOK
<1>2. CASE ReadCart(w)
  <2>1. At(w, "read") /\ ~Free(w) /\ mishap' = mishap /\ Live(call[w].cart)
    BY <1>2, ReadCartEffect DEF At
  <2>2. PICK n : /\ ReadsOnly(w, n) /\ n.pc \in {"values", "save"}
                 /\ n.seen = cart[call[w].cart] /\ n.own = call[w].own /\ n.ownSeen = call[w].ownSeen
    BY <1>2, ReadCartEffect
  <2>3. call[w] \in Requests /\ Good(call[w]) /\ call[w].cart \in CartIds
    BY <2>1, RequestType, CopyType
  <2>4. call[w].op \in Edits
    BY <2>1, <2>3 DEF Good, Shape, At
  <2>5. Good(n)
    BY <2>1, <2>2, <2>3, <2>4 DEF Good, Shape, ReadsOnly, Goes, At, Live, Claiming, Cleaning, TInv, Shapes
  <2>6. call' \in [Callers -> {Idle} \cup Requests] /\ Shapes'
    BY <2>2, <2>5, GoesKeeps, MarksKept DEF ReadsOnly
  <2> QED
    BY <2>1, <2>2, <2>6 DEF TInv, TypeOK, ReadsOnly
<1>3. CASE WriteValues(w)
  <2>1. At(w, "values") /\ ~Free(w) /\ UNCHANGED <<cart, asked, faults, want, moved, mails>>
    BY <1>3, WriteValuesEffect DEF At
  <2>2. PICK n : Goes(w, n) /\ Keeps(w, n) /\ n.pc = "save"
    BY <1>3, WriteValuesEffect
  <2>3. call[w] \in Requests /\ Good(call[w]) /\ call[w].cart \in CartIds /\ call[w].variant \in Variants
    BY <2>1, RequestType, CopyType
  <2>4. Good(n)
    BY <2>1, <2>2, <2>3 DEF Good, Shape, Keeps, Goes, At, Claiming, Cleaning
  <2>5. call' \in [Callers -> {Idle} \cup Requests] /\ Shapes'
    BY <2>1, <2>2, <2>4, GoesKeeps, MarksKept
  <2>6. values' \subseteq CartIds \X Variants /\ given' \subseteq CartIds \X Variants
    <3> DEFINE line == <<call[w].cart, call[w].variant>>
    <3>1. line \in CartIds \X Variants
      BY <2>3
    <3>2. (values' = values \cup {line} /\ given' = given \cup {line}) \/ (values' = values \ {line} /\ given' = given \ {line})
      BY <1>3, WriteValuesEffect
    <3> HIDE DEF line
    <3> QED
      BY <3>1, <3>2 DEF TInv, TypeOK
  <2>7. mishap' \subseteq Mishaps
    BY <1>3, WriteValuesEffect DEF Note, TInv, TypeOK, Mishaps
  <2> QED
    BY <2>1, <2>5, <2>6, <2>7 DEF TInv, TypeOK
<1>4. CASE SaveEdit(w)
  <2>1. At(w, "save") /\ ~Free(w) /\ End(w) /\ UNCHANGED <<given, moved>>
    BY <1>4, SaveEditEffect DEF At
  <2>2. PICK row : /\ SavesRow(call[w].cart, row)
                   /\ row.owner = call[w].seen.owner /\ row.merged = call[w].seen.merged
                   /\ want' = [v \in Variants |-> want[v] + row.items[v] - call[w].seen.items[v]]
    BY <1>4, SaveEditEffect
  <2>3. call[w] \in Requests /\ Good(call[w]) /\ call[w].cart \in CartIds /\ call[w].seen \in Row
    BY <2>1, RequestType, CopyType DEF Good, Shape, At
  <2>4. row.merged \in moved' \cup {NoCart}
    BY <2>1, <2>2, <2>3, CartsAssumption DEF Good, MarksMoved
  <2>5. cart' \in [CartIds -> Copies] /\ \A k \in CartIds : MarksMoved(cart[k])'
    BY <2>1, <2>2, <2>3, <2>4, SaveMarks
  <2>6. call' \in [Callers -> {Idle} \cup Requests] /\ Shapes'
    BY <2>1, <2>5, EndKeeps
  <2>7. want' \in [Variants -> Int]
    BY <2>2, <2>3 DEF SavesRow, Row, TInv, TypeOK
  <2>8. mishap' \subseteq Mishaps
    BY <1>4, SaveEditEffect DEF Note, TInv, TypeOK, Mishaps, Losses
  <2> QED
    BY <2>1, <2>2, <2>5, <2>6, <2>7, <2>8 DEF TInv, TypeOK, SavesRow
<1> QED
  BY <1>1, <1>2, <1>3, <1>4 DEF Edit

\* ... by the reads of a claim ...
LEMMA StepTRead ==
    ASSUME TInv, NEW w \in Callers, ReadGuest(w) \/ RereadGuest(w) \/ FindOwn(w) \/ CheckLines(w), ~Stops(w)
    PROVE  TInv'
<1>1. CASE ReadGuest(w)
  <2>1. At(w, "guest") /\ ~Free(w) /\ mishap' = mishap /\ Live(call[w].cart)
    BY <1>1, ReadGuestEffect DEF At
  <2>2. PICK n : /\ ReadsOnly(w, n) /\ n.seen = cart[call[w].cart] /\ n.own = call[w].own /\ n.ownSeen = call[w].ownSeen
                 /\ n.pc = "tidy" \/ (n.pc = "own" /\ n.seen.owner = "guest")
    BY <1>1, ReadGuestEffect
  <2>3. call[w] \in Requests /\ Good(call[w]) /\ call[w].cart \in CartIds
    BY <2>1, RequestType, CopyType
  <2>4. Good(n)
    BY <2>1, <2>2, <2>3 DEF Good, Shape, ReadsOnly, Goes, At, Live, Claiming, Cleaning, TInv, Shapes
  <2>5. call' \in [Callers -> {Idle} \cup Requests] /\ Shapes'
    BY <2>2, <2>4, GoesKeeps, MarksKept DEF ReadsOnly
  <2> QED
    BY <2>1, <2>2, <2>5 DEF TInv, TypeOK, ReadsOnly
<1>2. CASE RereadGuest(w)
  <2>1. At(w, "reread") /\ ~Free(w) /\ mishap' = mishap /\ Live(call[w].cart)
    BY <1>2, RereadEffect DEF At
  <2>2. PICK n : /\ ReadsOnly(w, n) /\ n.seen = cart[call[w].cart] /\ n.own = call[w].own /\ n.ownSeen = call[w].ownSeen
                 /\ n.pc = "purge"
    BY <1>2, RereadEffect
  <2>3. call[w] \in Requests /\ Good(call[w]) /\ call[w].cart \in CartIds
    BY <2>1, RequestType, CopyType
  <2>4. Good(n)
    BY <2>1, <2>2, <2>3 DEF Good, Shape, ReadsOnly, Goes, At, Live, Claiming, Cleaning, TInv, Shapes
  <2>5. call' \in [Callers -> {Idle} \cup Requests] /\ Shapes'
    BY <2>2, <2>4, GoesKeeps, MarksKept DEF ReadsOnly
  <2> QED
    BY <2>1, <2>2, <2>5 DEF TInv, TypeOK, ReadsOnly
<1>3. CASE FindOwn(w)
  <2>1. At(w, "own") /\ ~Free(w) /\ UNCHANGED <<cart, values, asked, faults, want, given, moved, mails>>
    BY <1>3, FindOwnEffect DEF At
  <2>2. call[w] \in Requests /\ Good(call[w]) /\ call[w].cart \in CartIds
    BY <2>1, RequestType, CopyType
  <2>3. CASE mishap' = mishap /\ \E n : ReadsOnly(w, n) /\ Keeps(w, n) /\ n.pc = "check"
    <3>1. PICK n : ReadsOnly(w, n) /\ Keeps(w, n) /\ n.pc = "check"
      BY <2>3
    <3>2. Good(n)
      BY <2>1, <2>2, <3>1 DEF Good, Shape, ReadsOnly, Goes, Keeps, At, Claiming, Cleaning
    <3>3. call' \in [Callers -> {Idle} \cup Requests] /\ Shapes'
      BY <3>1, <3>2, GoesKeeps, MarksKept DEF ReadsOnly
    <3> QED
      BY <2>1, <2>3, <3>3 DEF TInv, TypeOK
  <2>4. ASSUME NEW k \in CartIds, Owned(k),
               Note({m \in {"itself"} : k = call[w].cart}
                    \cup {m \in {"strayed"} : \E o \in CartIds \ {k} : Owned(o) /\ cart[o].merged = call[w].cart}),
               \/ End(w)
               \/ \E n : /\ ReadsOnly(w, n) /\ n.seen = call[w].seen /\ n.own = k /\ n.ownSeen = cart[k]
                         /\ \/ n.pc = "reread" /\ cart[k].merged = call[w].cart
                            \/ n.pc = "check" /\ cart[k].merged # call[w].cart
                            \/ n.pc = "delOwn" /\ Lines(cart[k]) = {}
                            \/ n.pc = "delGuest" /\ Lines(call[w].seen) = {}
        PROVE  TInv'
    <3>1. mishap' \subseteq Mishaps
      BY <2>4 DEF Note, TInv, TypeOK, Mishaps, Losses
    <3>2. CASE End(w)
      BY <2>1, <3>1, <3>2, EndKeeps, MarksKept DEF TInv, TypeOK
    <3>3. ASSUME NEW n, ReadsOnly(w, n), n.seen = call[w].seen, n.own = k, n.ownSeen = cart[k],
                 \/ n.pc = "reread" /\ cart[k].merged = call[w].cart
                 \/ n.pc = "check" /\ cart[k].merged # call[w].cart
                 \/ n.pc = "delOwn" /\ Lines(cart[k]) = {}
                 \/ n.pc = "delGuest" /\ Lines(call[w].seen) = {}
          PROVE  TInv'
      <4>1. k # NoCart /\ cart[k] # NoCart /\ cart[k].owner = "customer" /\ MarksMoved(cart[k])
        BY <2>4, CartsAssumption DEF Owned, Live, TInv, Shapes
      <4>2. n.pc = "reread" => call[w].cart \in moved
        BY <3>3, <4>1, CartsAssumption, <2>2 DEF MarksMoved
      <4>3. /\ call[w].op = "claim" /\ call[w].cart \in Guests /\ call[w].seen # NoCart /\ call[w].seen.owner = "guest"
            /\ MarksMoved(call[w].seen) /\ n.op = call[w].op /\ n.cart = call[w].cart
        BY <2>1, <2>2, <3>3 DEF Good, Shape, At, Claiming, ReadsOnly, Goes
      <4>4. Shape(n)
        BY <3>3, <4>1, <4>2, <4>3 DEF Shape, Claiming, Cleaning
      <4>5. Good(n)
        BY <3>3, <4>1, <4>3, <4>4 DEF Good
      <4>6. call' \in [Callers -> {Idle} \cup Requests] /\ Shapes'
        BY <3>3, <4>5, GoesKeeps, MarksKept DEF ReadsOnly
      <4> QED
        BY <2>1, <3>1, <4>6 DEF TInv, TypeOK
    <3> QED
      BY <2>4, <3>2, <3>3
  <2> QED
    BY <1>3, <2>3, <2>4, FindOwnEffect
<1>4. CASE CheckLines(w)
  <2>1. At(w, "check") /\ ~Free(w) /\ mishap' = mishap
    BY <1>4, CheckLinesEffect DEF At
  <2>2. PICK n : /\ ReadsOnly(w, n) /\ n.seen = call[w].seen /\ n.own = call[w].own /\ n.ownSeen = call[w].ownSeen
                 /\ IF call[w].own # NoCart THEN n.pc = "copy" ELSE n.pc = "assign"
    BY <1>4, CheckLinesEffect
  <2>3. call[w] \in Requests /\ Good(call[w]) /\ call[w].cart \in CartIds
    BY <2>1, RequestType, CopyType
  <2>4. Good(n)
    BY <2>1, <2>2, <2>3 DEF Good, Shape, ReadsOnly, Goes, At, Claiming, Cleaning
  <2>5. call' \in [Callers -> {Idle} \cup Requests] /\ Shapes'
    BY <2>2, <2>4, GoesKeeps, MarksKept DEF ReadsOnly
  <2> QED
    BY <2>1, <2>2, <2>5 DEF TInv, TypeOK, ReadsOnly
<1> QED
  BY <1>1, <1>2, <1>3, <1>4

\* ... by its writes of rows ...
LEMMA StepTWrite ==
    ASSUME TInv, NEW w \in Callers, Assign(w) \/ Merge(w) \/ DeleteEmpty(w) \/ DeleteMerged(w), ~Stops(w)
    PROVE  TInv'
<1>1. CASE Assign(w)
  <2>1. At(w, "assign") /\ ~Free(w) /\ moved' = moved /\ want' = LessDropped(w) /\ given' = given \ ({call[w].cart} \X call[w].drop)
    BY <1>1, AssignEffect DEF At
  <2>2. PICK row : SavesRow(call[w].cart, row) /\ row.merged = call[w].seen.merged
    BY <1>1, AssignEffect
  <2>3. call[w] \in Requests /\ Good(call[w]) /\ call[w].cart \in CartIds /\ call[w].seen \in Row
    BY <2>1, RequestType, CopyType DEF Good, Shape, At, Claiming
  <2>4. row.merged \in moved' \cup {NoCart}
    BY <2>1, <2>2, <2>3, CartsAssumption DEF Good, MarksMoved
  <2>5. cart' \in [CartIds -> Copies] /\ \A k \in CartIds : MarksMoved(cart[k])'
    BY <2>1, <2>2, <2>3, <2>4, SaveMarks
  <2>6. call' \in [Callers -> {Idle} \cup Requests] /\ Shapes'
    <3>1. CASE End(w)
      BY <2>1, <2>5, <3>1, EndKeeps
    <3>2. ASSUME NEW n, Goes(w, n), Keeps(w, n), n.pc = "tidy"
          PROVE  call' \in [Callers -> {Idle} \cup Requests] /\ Shapes'
      <4>1. Good(n)
        BY <2>1, <2>3, <3>2 DEF Good, Shape, Keeps, Goes, At, Claiming, Cleaning
      <4> QED
        BY <2>1, <2>5, <3>2, <4>1, GoesKeeps
    <3> QED
      BY <1>1, <3>1, <3>2, AssignEffect
  <2>7. want' \in [Variants -> Int]
    BY <2>1, <2>3 DEF LessDropped, Row, TInv, TypeOK
  <2>8. mishap' \subseteq Mishaps
    BY <1>1, AssignEffect DEF Note, TInv, TypeOK, Mishaps, Losses
  <2> QED
    BY <2>1, <2>2, <2>5, <2>6, <2>7, <2>8 DEF TInv, TypeOK, SavesRow
<1>2. CASE Merge(w)
  <2> DEFINE g == call[w].cart  k == call[w].own
  <2>1. /\ At(w, "merge") /\ ~Free(w) /\ moved' = moved \cup {g} /\ want' = LessDropped(w) /\ g \in Guests /\ k \in CartIds
        /\ given' = given \cup {<<k, v>> : v \in {u \in Kept(w) : <<g, u>> \in given}}
    BY <1>2, MergeEffect DEF At
  <2>2. PICK row : SavesRow(k, row) /\ row.merged = g
    BY <1>2, MergeEffect
  <2>3. call[w] \in Requests /\ Good(call[w]) /\ call[w].cart \in CartIds /\ call[w].seen \in Row
    BY <2>1, RequestType, CopyType DEF Good, Shape, At, Claiming
  <2>5. cart' \in [CartIds -> Copies] /\ \A c \in CartIds : MarksMoved(cart[c])'
    BY <2>1, <2>2, SaveMarks
  <2>6. call' \in [Callers -> {Idle} \cup Requests] /\ Shapes'
    <3>1. CASE End(w)
      BY <2>1, <2>5, <3>1, EndKeeps
    <3>2. ASSUME NEW n, Goes(w, n), Keeps(w, n), n.pc = "reread"
          PROVE  call' \in [Callers -> {Idle} \cup Requests] /\ Shapes'
      <4>1. MarksMoved(n.seen) /\ MarksMoved(n.ownSeen) /\ n.cart \in moved'
        BY <2>1, <2>3, <3>2 DEF Good, Keeps, Goes
      <4>2. Good(n)'
        <5>1. MarksMoved(n.seen)' /\ MarksMoved(n.ownSeen)'
          BY <2>1, <4>1 DEF MarksMoved
        <5>2. /\ n.own # NoCart /\ n.own = call[w].own /\ n.ownSeen = call[w].ownSeen
              /\ n.ownSeen # NoCart /\ n.ownSeen.owner = "customer"
          BY <2>1, <2>3, <3>2 DEF Good, Shape, Keeps, At
        <5>3. Shape(n)'
          BY <3>2, <4>1, <5>2 DEF Shape, Claiming, Cleaning
        <5> QED
          BY <5>1, <5>3 DEF Good
      <4> QED
        BY <2>1, <2>5, <3>2, <4>2, ShapesStep DEF Goes
    <3> QED
      BY <1>2, <3>1, <3>2, MergeEffect
  <2>7. want' \in [Variants -> Int]
    BY <2>1, <2>3 DEF LessDropped, Row, TInv, TypeOK
  <2>8. mishap' \subseteq Mishaps
    BY ZenonT(30), <1>2, MergeEffect, ForgetsType DEF Note, TInv, TypeOK, Mishaps, Losses
  <2>9. given' \subseteq CartIds \X Variants
    <3>1. Kept(w) \subseteq Variants
      BY DEF Kept, Lines
    <3>2. {<<k, v>> : v \in {u \in Kept(w) : <<g, u>> \in given}} \subseteq CartIds \X Variants
      <4> SUFFICES ASSUME NEW l \in {<<k, v>> : v \in {u \in Kept(w) : <<g, u>> \in given}} PROVE l \in CartIds \X Variants
        OBVIOUS
      <4>1. PICK v \in Kept(w) : l = <<k, v>>
        OBVIOUS
      <4> QED
        BY <2>1, <3>1, <4>1
    <3> QED
      BY <2>1, <3>2 DEF TInv, TypeOK
  <2>10. moved' \subseteq Guests
    BY <2>1 DEF TInv, TypeOK
  <2> QED
    BY <2>2, <2>5, <2>6, <2>7, <2>8, <2>9, <2>10 DEF TInv, TypeOK, SavesRow
<1>3. CASE DeleteEmpty(w)
  <2>1. UNCHANGED <<values, asked, faults, want, given, moved, mails>> /\ ~Free(w)
    BY <1>3, DeleteEmptyEffect DEF At
  <2>2. call[w] \in Requests /\ Good(call[w]) /\ call[w].cart \in CartIds
    BY <2>1, RequestType, CopyType
  <2>3. mishap' \subseteq Mishaps
    BY <1>3, DeleteEmptyEffect, ForgetsType DEF Note, TInv, TypeOK, Mishaps, Losses
  <2>4. CASE At(w, "delOwn") /\ cart' = Deleted(call[w].own)
             /\ \E n : Goes(w, n) /\ n.seen = call[w].seen /\ n.own = NoCart /\ n.ownSeen = NoCart /\ n.pc = "check"
    <3>1. PICK n : Goes(w, n) /\ n.seen = call[w].seen /\ n.own = NoCart /\ n.ownSeen = NoCart /\ n.pc = "check"
      BY <2>4
    <3>2. call[w].own \in CartIds
      BY <2>1, <2>2, <2>4, CopyType DEF Good, Shape, At
    <3>3. cart' \in [CartIds -> Copies] /\ \A c \in CartIds : MarksMoved(cart[c])'
      BY <2>1, <2>4, <3>2, DeletedEffect
    <3>4. Good(n)
      BY <2>2, <2>4, <3>1 DEF Good, Shape, Goes, At, Claiming, Cleaning, MarksMoved
    <3>5. call' \in [Callers -> {Idle} \cup Requests] /\ Shapes'
      BY <2>1, <3>1, <3>3, <3>4, GoesKeeps
    <3> QED
      BY <2>1, <2>3, <3>3, <3>5 DEF TInv, TypeOK
  <2>5. CASE cart' = Deleted(call[w].cart) /\ End(w)
    <3>3. cart' \in [CartIds -> Copies] /\ \A c \in CartIds : MarksMoved(cart[c])'
      BY <2>1, <2>2, <2>5, DeletedEffect
    <3>5. call' \in [Callers -> {Idle} \cup Requests] /\ Shapes'
      BY <2>1, <2>5, <3>3, EndKeeps
    <3> QED
      BY <2>1, <2>3, <3>3, <3>5 DEF TInv, TypeOK
  <2> QED
    BY <1>3, <2>4, <2>5, DeleteEmptyEffect
<1>4. CASE DeleteMerged(w)
  <2>1. End(w) /\ ~Free(w) /\ cart' = Deleted(call[w].cart) /\ UNCHANGED <<values, asked, faults, want, given, moved, mails, mishap>>
    BY <1>4, DeleteMergedEffect DEF At
  <2>2. cart' \in [CartIds -> Copies] /\ \A c \in CartIds : MarksMoved(cart[c])'
    BY <2>1, DeletedEffect, CopyType
  <2>3. call' \in [Callers -> {Idle} \cup Requests] /\ Shapes'
    BY <2>1, <2>2, EndKeeps
  <2> QED
    BY <2>1, <2>2, <2>3 DEF TInv, TypeOK
<1> QED
  BY <1>1, <1>2, <1>3, <1>4

\* ... and by its writes of values, and by the recovery job.
LEMMA StepTRest ==
    ASSUME TInv, NEW w \in Callers, ~Stops(w),
           CopyValues(w) \/ TidyAssigned(w) \/ PurgeValues(w) \/ MarkRecoveryEmailSent(w) \/ EnqueueMail(w)
    PROVE  TInv'
<1>1. CASE CopyValues(w)
  <2>1. /\ At(w, "copy") /\ ~Free(w) /\ UNCHANGED <<cart, asked, want, given, moved, mails, mishap>> /\ faults' \in 0..MaxFaults
        /\ values' \subseteq values \cup ({call[w].own} \X Variants)
    BY <1>1, CopyValuesEffect DEF At
  <2>2. call[w] \in Requests /\ Good(call[w]) /\ call[w].own \in CartIds
    BY <2>1, RequestType, CopyType DEF Good, Shape, At
  <2>3. values' \subseteq CartIds \X Variants
    BY <2>1, <2>2 DEF TInv, TypeOK
  <2>4. call' \in [Callers -> {Idle} \cup Requests] /\ Shapes'
    <3>1. CASE End(w)
      BY <2>1, <3>1, EndKeeps, MarksKept
    <3>2. ASSUME NEW n, Goes(w, n), Keeps(w, n), n.pc = "merge"
          PROVE  call' \in [Callers -> {Idle} \cup Requests] /\ Shapes'
      <4>1. Good(n)
        BY <2>1, <2>2, <3>2 DEF Good, Shape, Keeps, Goes, At, Claiming, Cleaning
      <4> QED
        BY <2>1, <3>2, <4>1, GoesKeeps, MarksKept
    <3> QED
      BY <1>1, <3>1, <3>2, CopyValuesEffect
  <2> QED
    BY <2>1, <2>3, <2>4 DEF TInv, TypeOK
<1>2. CASE TidyAssigned(w)
  <2>1. End(w) /\ UNCHANGED <<cart, asked, want, given, moved, mails>> /\ faults' \in 0..MaxFaults /\ values' \subseteq values
    BY <1>2, TidyEffect
  <2>2. mishap' \subseteq Mishaps
    BY <1>2, TidyEffect DEF Note, TInv, TypeOK, Mishaps
  <2>3. call' \in [Callers -> {Idle} \cup Requests] /\ Shapes'
    BY <2>1, EndKeeps, MarksKept
  <2> QED
    BY <2>1, <2>2, <2>3 DEF TInv, TypeOK
<1>3. CASE PurgeValues(w)
  <2>1. At(w, "purge") /\ ~Free(w) /\ UNCHANGED <<cart, asked, want, given, moved, mails, mishap>> /\ faults' \in 0..MaxFaults /\ values' \subseteq values
    BY <1>3, PurgeEffect DEF At
  <2>2. call[w] \in Requests /\ Good(call[w])
    BY <2>1, RequestType
  <2>3. call' \in [Callers -> {Idle} \cup Requests] /\ Shapes'
    <3>1. CASE End(w)
      BY <2>1, <3>1, EndKeeps, MarksKept
    <3>2. ASSUME NEW n, Goes(w, n), Keeps(w, n), n.pc = "delete"
          PROVE  call' \in [Callers -> {Idle} \cup Requests] /\ Shapes'
      <4>1. Good(n)
        BY <2>1, <2>2, <3>2 DEF Good, Shape, Keeps, Goes, At, Claiming, Cleaning
      <4> QED
        BY <2>1, <3>2, <4>1, GoesKeeps, MarksKept
    <3> QED
      BY <1>3, <3>1, <3>2, PurgeEffect
  <2> QED
    BY <2>1, <2>3 DEF TInv, TypeOK
<1>4. CASE MarkRecoveryEmailSent(w)
  <2>1. /\ At(w, "mark") /\ ~Free(w) /\ Markable(call[w].cart) /\ UNCHANGED <<values, asked, want, given, moved, mails, mishap>>
        /\ faults' \in 0..MaxFaults /\ cart' \in [CartIds -> Copies]
    BY <1>4, MarkEffect DEF At
  <2>2. call[w] \in Requests /\ Good(call[w]) /\ call[w].cart \in CartIds
    BY <2>1, RequestType, CopyType
  <2>3. \A c \in CartIds : MarksMoved(cart[c])'
    <3>1. /\ \A k \in CartIds \ {call[w].cart} : cart'[k] = cart[k]
          /\ cart'[call[w].cart].merged = cart[call[w].cart].merged
      BY <1>4, MarkEffect DEF Same
    <3> QED
      BY <2>1, <2>2, <3>1 DEF MarksMoved, TInv, Shapes, Markable, Live
  <2>4. call' \in [Callers -> {Idle} \cup Requests] /\ Shapes'
    <3>1. CASE End(w)
      BY <2>1, <2>3, <3>1, EndKeeps
    <3>2. ASSUME NEW n, Goes(w, n), Keeps(w, n), n.pc = "mail"
          PROVE  call' \in [Callers -> {Idle} \cup Requests] /\ Shapes'
      <4>1. Good(n)
        BY <2>1, <2>2, <3>2 DEF Good, Shape, Keeps, Goes, At, Claiming, Cleaning
      <4> QED
        BY <2>1, <2>3, <3>2, <4>1, GoesKeeps
    <3> QED
      BY <1>4, <3>1, <3>2, MarkEffect
  <2> QED
    BY <2>1, <2>4 DEF TInv, TypeOK
<1>5. CASE EnqueueMail(w)
  <2>1. /\ At(w, "mail") /\ ~Free(w) /\ End(w) /\ mails' = [mails EXCEPT ![call[w].cart] = @ + 1] /\ faults' \in 0..MaxFaults
        /\ UNCHANGED <<cart, values, asked, want, given, moved, mishap>>
    BY <1>5, MailEffect DEF At
  <2>2. call' \in [Callers -> {Idle} \cup Requests] /\ Shapes'
    BY <2>1, EndKeeps, MarksKept
  <2>3. mails' \in [CartIds -> Nat]
    <3>1. PICK c \in CartIds : c = call[w].cart
      BY <2>1, CopyType
    <3>2. mails' = [mails EXCEPT ![c] = mails[c] + 1] /\ mails \in [CartIds -> Nat] /\ mails[c] + 1 \in Nat
      BY <2>1, <3>1 DEF TInv, TypeOK
    <3> QED
      BY <3>2
  <2> QED
    BY <2>1, <2>2, <2>3 DEF TInv, TypeOK
<1> QED
  BY <1>1, <1>2, <1>3, <1>4, <1>5

\* TInv is inductive.
LEMMA StepTInv == TInv /\ [Next]_vars => TInv'
<1> SUFFICES ASSUME TInv, [Next]_vars PROVE TInv'
  OBVIOUS
<1>1. CASE UNCHANGED vars
  BY <1>1 DEF vars, rows, history, TInv, TypeOK, Shapes, Shape, MarksMoved, Lines, Free
<1>2. ASSUME NEW w \in Callers,
             \/ \E op \in Edits, c \in CartIds, v \in Variants : BeginEdit(w, op, c, v)
             \/ \E c \in CartIds, v \in Variants : BeginFirst(w, c, v)
             \/ \E g \in Guests : BeginClaim(w, g)
             \/ \E c \in CartIds : BeginRecovery(w, c)
             \/ Edit(w) \/ ClaimGuestCart(w) \/ MarkRecoveryEmailSent(w) \/ EnqueueMail(w)
      PROVE  TInv'
  <2>1. CASE Stops(w)
    BY <2>1, StopKeeps DEF Stops
  <2> QED
    BY <1>2, <2>1, StepTBegin, StepTEdit, StepTRead, StepTWrite, StepTRest DEF ClaimGuestCart
<1> QED
  BY <1>1, <1>2 DEF Next

\* Every row, request and history variable keeps its type, for any number of carts,
\* variants and callers.
THEOREM TypeCorrect == Spec => []TypeOK
<1>1. Spec => []TInv
  BY InitTInv, StepTInv, PTL DEF Spec
<1>2. TInv => TypeOK
  BY DEF TInv
<1> QED
  BY <1>1, <1>2, PTL

------------------------------------------------------------------------------
(* What a statement leaves alone *)

\* A request that ends leaves the others alone.
LEMMA EndIs ==
    ASSUME TInv, NEW w \in Callers, End(w)
    PROVE  call'[w] = Idle /\ \A u \in Callers \ {w} : call'[u] = call[u]
BY DEF End, TInv, TypeOK

\* So does one that goes on.
LEMMA GoesIs ==
    ASSUME TInv, NEW w \in Callers, NEW n, Goes(w, n)
    PROVE  call'[w] = n /\ n # Idle /\ n \in Requests /\ \A u \in Callers \ {w} : call'[u] = call[u]
BY IdleType DEF Goes, TInv, TypeOK

\* A request touches the rows and values of its own two carts only.
Untouched(c) ==
    /\ cart'[c] = cart[c] /\ mails'[c] = mails[c]
    /\ \A v \in Variants : (<<c, v>> \in values' <=> <<c, v>> \in values) /\ (<<c, v>> \in given' <=> <<c, v>> \in given)

\* It stops, or goes on with the same carts or with another that it has found.
GoesOn(w) ==
    \/ End(w)
    \/ \E n : Goes(w, n) /\ n.pc # "create" /\ (n.own \in {call[w].own, NoCart} \/ (n.own \in CartIds /\ Live(n.own)))

Working(w) == Edit(w) \/ ClaimGuestCart(w) \/ MarkRecoveryEmailSent(w) \/ EnqueueMail(w)

\* A statement that fails or refuses ends the request and changes no row.
LEMMA StopsIs ==
    ASSUME NEW w \in Callers, Stops(w)
    PROVE  End(w) /\ UNCHANGED <<cart, values, asked, want, given, moved, mails, mishap>>
BY DEF Stops, Fails, Refuses, rows, history

\* A request that is under way touches its own two carts only.
LEMMA Footprint ==
    ASSUME TInv, NEW w \in Callers, Working(w)
    PROVE  ~Free(w) /\ GoesOn(w) /\ \A c \in CartIds : c \notin {call[w].cart, call[w].own} => Untouched(c)
<1>0. ~Free(w)
  BY ZenonT(30) DEF Working, Edit, ClaimGuestCart, CreateCart, ReadCart, WriteValues, SaveEdit, ReadGuest, FindOwn, DeleteEmpty, CheckLines,
         CopyValues, Assign, Merge, TidyAssigned, RereadGuest, PurgeValues, DeleteMerged, MarkRecoveryEmailSent, EnqueueMail, At
<1>1. CASE Stops(w)
  BY <1>0, <1>1, StopsIs DEF GoesOn, Untouched
<1>2. call[w].cart \in CartIds /\ call[w].own \in CartIds \cup {NoCart} /\ NoCart \notin CartIds /\ call[w].variant \in Variants
  BY <1>0, CopyType, CartsAssumption
<1>3. CASE CreateCart(w) /\ ~Stops(w)
  BY <1>0, <1>2, <1>3, CreateEffect DEF GoesOn, Untouched, Keeps, TInv, TypeOK
<1>4. CASE (ReadCart(w) \/ ReadGuest(w) \/ RereadGuest(w) \/ CheckLines(w)) /\ ~Stops(w)
  <2>1. PICK n : ReadsOnly(w, n) /\ n.own = call[w].own /\ n.pc # "create"
    BY <1>4, ReadCartEffect, ReadGuestEffect, RereadEffect, CheckLinesEffect
  <2> QED
    BY <1>0, <2>1 DEF ReadsOnly, GoesOn, Untouched
<1>5. CASE WriteValues(w) /\ ~Stops(w)
  <2>1. GoesOn(w)
    BY <1>5, WriteValuesEffect DEF GoesOn, Keeps
  <2> DEFINE line == <<call[w].cart, call[w].variant>>
  <2>2. /\ cart' = cart /\ mails' = mails
        /\ (values' = values \cup {line} /\ given' = given \cup {line}) \/ (values' = values \ {line} /\ given' = given \ {line})
    BY <1>5, WriteValuesEffect
  <2>3. ASSUME NEW c \in CartIds, c \notin {call[w].cart, call[w].own} PROVE Untouched(c)
    BY <2>2, <2>3 DEF Untouched
  <2> QED
    BY <1>0, <2>1, <2>3
<1>6. CASE SaveEdit(w) /\ ~Stops(w)
  <2>1. End(w) /\ given' = given /\ \E row : SavesRow(call[w].cart, row)
    BY <1>6, SaveEditEffect
  <2> QED
    BY <1>0, <1>2, <2>1, SavedEffect DEF SavesRow, GoesOn, Untouched, TInv
<1>7. CASE FindOwn(w) /\ ~Stops(w)
  <2>1. UNCHANGED <<cart, values, given, mails>>
    BY <1>7, FindOwnEffect
  <2>2. GoesOn(w)
    <3>1. \/ \E n : ReadsOnly(w, n) /\ Keeps(w, n) /\ n.pc = "check"
          \/ \E k \in CartIds :
               /\ Owned(k)
               /\ \/ End(w)
                  \/ \E n : /\ ReadsOnly(w, n) /\ n.own = k
                            /\ n.pc \in {"reread", "check", "delOwn", "delGuest"}
      BY <1>7, FindOwnEffect
    <3> QED
      BY <3>1 DEF GoesOn, ReadsOnly, Keeps, Owned
  <2> QED
    BY <1>0, <2>1, <2>2 DEF Untouched
<1>8. CASE DeleteEmpty(w) /\ ~Stops(w)
  <2>1. UNCHANGED <<values, given, mails, moved>> /\ (cart' = Deleted(call[w].own) \/ cart' = Deleted(call[w].cart)) /\ GoesOn(w)
    BY <1>8, DeleteEmptyEffect DEF GoesOn
  <2> QED
    BY <1>0, <2>1 DEF Untouched, Deleted, TInv, TypeOK
<1>9. CASE CopyValues(w) /\ ~Stops(w)
  <2>1. /\ UNCHANGED <<cart, given, mails>> /\ values \subseteq values' /\ values' \subseteq values \cup ({call[w].own} \X Variants)
        /\ GoesOn(w)
    BY <1>9, CopyValuesEffect DEF GoesOn, Keeps
  <2>2. ASSUME NEW c \in CartIds, c \notin {call[w].cart, call[w].own} PROVE Untouched(c)
    BY <2>1, <2>2 DEF Untouched
  <2> QED
    BY <1>0, <2>1, <2>2
<1>10. CASE Assign(w) /\ ~Stops(w)
  <2>1. GoesOn(w) /\ given' = given \ ({call[w].cart} \X call[w].drop) /\ \E row : SavesRow(call[w].cart, row)
    BY <1>10, AssignEffect DEF GoesOn, Keeps
  <2>2. ASSUME NEW c \in CartIds, c \notin {call[w].cart, call[w].own} PROVE Untouched(c)
    BY <1>2, <2>1, <2>2, SavedEffect DEF SavesRow, Untouched, TInv
  <2> QED
    BY <1>0, <2>1, <2>2
<1>11. CASE Merge(w) /\ ~Stops(w)
  <2> DEFINE new == {<<call[w].own, v>> : v \in {u \in Kept(w) : <<call[w].cart, u>> \in given}}
  <2>1. GoesOn(w) /\ given' = given \cup new /\ call[w].own \in CartIds
    BY <1>11, MergeEffect DEF GoesOn, Keeps
  <2>1a. PICK row : SavesRow(call[w].own, row)
    BY <1>11, MergeEffect
  <2>2. ASSUME NEW c \in CartIds, c \notin {call[w].cart, call[w].own} PROVE Untouched(c)
    <3>1. \A v : <<c, v>> \notin new
      BY <2>2
    <3> HIDE DEF new
    <3>2. cart'[c] = cart[c] /\ mails' = mails /\ values' = values
      BY <2>1, <2>1a, <2>2, SavedEffect DEF SavesRow, TInv
    <3> QED
      BY <2>1, <3>1, <3>2 DEF Untouched
  <2> QED
    BY <1>0, <2>1, <2>2
<1>12. CASE (TidyAssigned(w) \/ PurgeValues(w)) /\ ~Stops(w)
  <2>1. PICK done \in SUBSET Variants : values' = values \ ({call[w].cart} \X done)
    BY <1>12, TidyEffect, PurgeEffect
  <2>2. UNCHANGED <<cart, given, mails>> /\ GoesOn(w)
    BY <1>12, TidyEffect, PurgeEffect DEF GoesOn, Keeps
  <2>3. ASSUME NEW c \in CartIds, c \notin {call[w].cart, call[w].own} PROVE Untouched(c)
    BY <2>1, <2>2, <2>3 DEF Untouched
  <2> QED
    BY <1>0, <2>2, <2>3
<1>13. CASE DeleteMerged(w) /\ ~Stops(w)
  <2>1. UNCHANGED <<values, given, mails>> /\ cart' = Deleted(call[w].cart) /\ End(w)
    BY <1>13, DeleteMergedEffect
  <2> QED
    BY <1>0, <2>1 DEF Untouched, Deleted, GoesOn, TInv, TypeOK
<1>14. CASE MarkRecoveryEmailSent(w) /\ ~Stops(w)
  <2>1. /\ UNCHANGED <<values, given, mails>> /\ (End(w) \/ \E n : Goes(w, n) /\ Keeps(w, n) /\ n.pc = "mail")
        /\ \A k \in CartIds \ {call[w].cart} : cart'[k] = cart[k]
    BY <1>14, MarkEffect
  <2> QED
    BY <1>0, <2>1 DEF Untouched, GoesOn, Keeps
<1>15. CASE EnqueueMail(w) /\ ~Stops(w)
  <2>1. UNCHANGED <<cart, values, given>> /\ mails' = [mails EXCEPT ![call[w].cart] = @ + 1] /\ End(w)
    BY <1>15, MailEffect
  <2> QED
    BY <1>0, <2>1 DEF Untouched, GoesOn, TInv, TypeOK
<1> QED
  BY <1>1, <1>3, <1>4, <1>5, <1>6, <1>7, <1>8, <1>9, <1>10, <1>11, <1>12, <1>13, <1>14, <1>15 DEF Working, Edit, ClaimGuestCart

------------------------------------------------------------------------------
(* A new cart is known to nobody *)

\* XInv holds at first.
LEMMA InitXInv == Init => XInv
BY DEF Init, XInv, New, At, Free

\* New(w), for a request q that is about to create its cart.
NewFor(w, q) ==
    LET c == q.cart IN
    /\ c \in Own /\ ~Live(c) /\ mails[c] = 0
    /\ \A v \in Variants : <<c, v>> \notin values \cup given
    /\ \A u \in Callers \ {w} : ~Free(u) => c \notin {call[u].cart, call[u].own}

\* XInv is kept: a request knows only carts that it was asked about or has found live.
LEMMA StepXInv == TInv /\ TInv' /\ XInv /\ [Next]_vars => XInv'
<1> SUFFICES ASSUME TInv, TInv', XInv, [Next]_vars PROVE XInv'
  OBVIOUS
<1>0. \A c \in Own : c \in CartIds /\ c \notin Guests /\ c # NoCart
  BY CartsAssumption DEF CartIds
<1>1. CASE UNCHANGED vars
  BY <1>1 DEF vars, rows, history, XInv, New, At, Free, Live
<1>2. ASSUME NEW w \in Callers,
             \/ \E op \in Edits, c \in CartIds, v \in Variants : BeginEdit(w, op, c, v)
             \/ \E c \in CartIds, v \in Variants : BeginFirst(w, c, v)
             \/ \E g \in Guests : BeginClaim(w, g)
             \/ \E c \in CartIds : BeginRecovery(w, c)
      PROVE  XInv'
  <2>1. PICK n \in Requests :
          /\ call' = [call EXCEPT ![w] = n]
          /\ n.own = NoCart
          /\ \/ n.pc = "read" /\ Live(n.cart)
             \/ n.pc = "create" /\ n.cart \in Own /\ Unused(n.cart)
             \/ n.pc = "guest" /\ n.cart \in Guests
             \/ n.pc = "mark" /\ Live(n.cart)
    BY <1>2, Begins
  <2>2. Free(w) /\ UNCHANGED <<cart, values, faults, want, given, moved, mails, mishap>>
    BY <1>2, Begins
  <2>3. call'[w] = n /\ \A u \in Callers \ {w} : call'[u] = call[u]
    BY <2>1 DEF TInv, TypeOK
  <2>4. ASSUME NEW x \in Callers, At(x, "create")' PROVE NewFor(x, call[x])'
    <3>1. CASE x = w
      BY <2>1, <2>2, <2>3, <2>4, <3>1 DEF NewFor, At, Unused, Live, Free
    <3>2. CASE x # w
      <4>1. At(x, "create") /\ call'[x] = call[x]
        BY <2>3, <2>4, <3>2 DEF At, Free
      <4>2. NewFor(x, call[x])
        BY <4>1 DEF XInv, New, NewFor
      <4>3. n.cart # call[x].cart /\ n.own # call[x].cart
        BY <1>0, <2>1, <4>1, <4>2 DEF NewFor, Unused, At
      <4> QED
        BY <2>2, <2>3, <3>2, <4>1, <4>2, <4>3 DEF NewFor, Free, Live
    <3> QED
      BY <3>1, <3>2
  <2> QED
    BY <2>4 DEF XInv, New, NewFor
<1>3. ASSUME NEW w \in Callers, Working(w) PROVE XInv'
  <2>1. ~Free(w) /\ GoesOn(w) /\ \A c \in CartIds : c \notin {call[w].cart, call[w].own} => Untouched(c)
    BY <1>3, Footprint
  <2>2. \A u \in Callers \ {w} : call'[u] = call[u]
    BY <2>1, EndIs, GoesIs DEF GoesOn
  <2>3. ~Free(w)' => /\ call'[w].pc # "create" /\ call'[w].cart = call[w].cart
                     /\ call'[w].own \in {call[w].own, NoCart} \/ (call'[w].own \in CartIds /\ Live(call'[w].own))
    <3>1. CASE End(w)
      BY <3>1, EndIs DEF Free
    <3>2. ASSUME NEW n, Goes(w, n), n.pc # "create",
                 n.own \in {call[w].own, NoCart} \/ (n.own \in CartIds /\ Live(n.own))
          PROVE  /\ call'[w].pc # "create" /\ call'[w].cart = call[w].cart
                 /\ call'[w].own \in {call[w].own, NoCart} \/ (call'[w].own \in CartIds /\ Live(call'[w].own))
      BY <3>2, GoesIs DEF Goes
    <3> QED
      BY <2>1, <3>1, <3>2 DEF GoesOn
  <2>4. ASSUME NEW x \in Callers, At(x, "create")' PROVE NewFor(x, call[x])'
    <3>1. x # w
      BY <2>3, <2>4 DEF At
    <3>2. At(x, "create") /\ call'[x] = call[x]
      BY <2>2, <2>4, <3>1 DEF At, Free
    <3>3. NewFor(x, call[x])
      BY <3>2 DEF XInv, New, NewFor
    <3>4. call[x].cart \in CartIds /\ call[x].cart # NoCart /\ call[x].cart \notin {call[w].cart, call[w].own}
      BY <1>0, <2>1, <3>1, <3>3 DEF NewFor
    <3>5. Untouched(call[x].cart)
      BY <2>1, <3>4
    <3>6. ~Free(w)' => call[x].cart \notin {call'[w].cart, call'[w].own}
      BY <2>3, <3>3, <3>4 DEF NewFor
    <3> QED
      BY <2>2, <3>1, <3>2, <3>3, <3>5, <3>6 DEF NewFor, Untouched, Free, Live
  <2> QED
    BY <2>4 DEF XInv, New, NewFor
<1> QED
  BY <1>1, <1>2, <1>3 DEF Next, Working

------------------------------------------------------------------------------
(* One recovery mail *)

\* MInv holds at first.
LEMMA InitMInv == Init => MInv
BY DEF Init, MInv, Mailing, Mailed, At, Free

\* The marks of the rows that are there afterwards, for all statements but the one
\* that marks.
MarksStay(w) ==
    \A c \in CartIds : Live(c)' => \/ Live(c) /\ cart'[c].mailed = cart[c].mailed
                                   \/ "revived" \in mishap'
                                   \/ At(w, "create") /\ c = call[w].cart

\* An applied save keeps the mark or is noted.
LEMMA SavedMark ==
    ASSUME TInv, NEW w \in Callers, NEW c \in CartIds, NEW row, SavesRow(c, row), ~Live(c) => "revived" \in mishap'
    PROVE  MarksStay(w)
BY SavedEffect DEF SavesRow, MarksStay, TInv, Live

\* No statement but the one that marks changes the mark of a row that stays, unless it
\* brings a deleted cart back.
LEMMA MarkFrame ==
    ASSUME TInv, NEW w \in Callers, Working(w), ~Stops(w), ~MarkRecoveryEmailSent(w), ~EnqueueMail(w)
    PROVE  /\ MarksStay(w) /\ mails' = mails /\ mishap \subseteq mishap'
           /\ End(w) \/ \E n : Goes(w, n) /\ n.pc # "mail"
<1>0. ~Free(w) /\ call[w].cart \in CartIds
  BY Footprint, CopyType
<1>3. CASE CreateCart(w)
  <2>1. PICK row \in Row : cart' = [cart EXCEPT ![call[w].cart] = row]
    BY <1>3, CreateEffect
  <2>2. At(w, "create") /\ UNCHANGED <<mails, mishap>> /\ \E n : Goes(w, n) /\ n.pc # "mail"
    BY <1>3, CreateEffect
  <2> QED
    BY <2>1, <2>2 DEF MarksStay, TInv, TypeOK, Live
<1>4. CASE ReadCart(w) \/ ReadGuest(w) \/ RereadGuest(w) \/ CheckLines(w)
  <2>1. PICK n : ReadsOnly(w, n) /\ mishap' = mishap /\ n.pc # "mail"
    BY <1>4, ReadCartEffect, ReadGuestEffect, RereadEffect, CheckLinesEffect
  <2> QED
    BY <2>1 DEF ReadsOnly, MarksStay, Live
<1>5. CASE WriteValues(w)
  <2>1. cart' = cart /\ mails' = mails /\ mishap \subseteq mishap' /\ \E n : Goes(w, n) /\ n.pc # "mail"
    BY <1>5, WriteValuesEffect DEF Note
  <2> QED
    BY <2>1 DEF MarksStay, Live
<1>6. CASE SaveEdit(w)
  <2>1. /\ End(w) /\ \E row : SavesRow(call[w].cart, row)
        /\ Note({m \in {"revived"} : ~Live(call[w].cart)} \cup {m \in {"overtaken"} : call[w].cart \in moved})
    BY <1>6, SaveEditEffect
  <2>2. mishap \subseteq mishap' /\ (~Live(call[w].cart) => "revived" \in mishap')
    BY <2>1 DEF Note
  <2> QED
    BY <1>0, <2>1, <2>2, SavedMark DEF SavesRow
<1>7. CASE FindOwn(w)
  <2>1. UNCHANGED <<cart, mails>> /\ mishap \subseteq mishap' /\ (End(w) \/ \E n : Goes(w, n) /\ n.pc # "mail")
    BY <1>7, FindOwnEffect DEF Note, ReadsOnly
  <2> QED
    BY <2>1 DEF MarksStay, Live
<1>8. CASE DeleteEmpty(w)
  <2>1. /\ UNCHANGED <<mails, moved>> /\ (cart' = Deleted(call[w].own) \/ cart' = Deleted(call[w].cart)) /\ mishap \subseteq mishap'
        /\ End(w) \/ \E n : Goes(w, n) /\ n.pc # "mail"
    BY <1>8, DeleteEmptyEffect DEF Note
  <2> QED
    BY <2>1 DEF MarksStay, Deleted, TInv, TypeOK, Live
<1>9. CASE CopyValues(w)
  <2>1. UNCHANGED <<cart, mails, mishap>> /\ (End(w) \/ \E n : Goes(w, n) /\ n.pc # "mail")
    BY <1>9, CopyValuesEffect
  <2> QED
    BY <2>1 DEF MarksStay, Live
<1>10. CASE Assign(w)
  <2>1. /\ End(w) \/ \E n : Goes(w, n) /\ n.pc # "mail"
        /\ \E row : SavesRow(call[w].cart, row)
        /\ Note({m \in {"revived"} : ~Live(call[w].cart)} \cup {m \in {"strayed"} : call[w].cart \in moved})
    BY <1>10, AssignEffect
  <2>2. mishap \subseteq mishap' /\ (~Live(call[w].cart) => "revived" \in mishap')
    BY <2>1 DEF Note
  <2> QED
    BY <1>0, <2>1, <2>2, SavedMark DEF SavesRow
<1>11. CASE Merge(w)
  <2>1. /\ End(w) \/ \E n : Goes(w, n) /\ n.pc # "mail"
        /\ call[w].own \in CartIds /\ \E row : SavesRow(call[w].own, row)
    BY <1>11, MergeEffect
  <2>2. mishap \subseteq mishap' /\ (~Live(call[w].own) => "revived" \in mishap')
    BY <1>11, MergeEffect DEF Note
  <2> QED
    BY <2>1, <2>2, SavedMark DEF SavesRow
<1>12. CASE TidyAssigned(w)
  <2>1. UNCHANGED <<cart, mails>> /\ mishap \subseteq mishap' /\ End(w)
    BY <1>12, TidyEffect DEF Note
  <2> QED
    BY <2>1 DEF MarksStay, Live
<1>13. CASE PurgeValues(w)
  <2>1. UNCHANGED <<cart, mails, mishap>> /\ (End(w) \/ \E n : Goes(w, n) /\ n.pc # "mail")
    BY <1>13, PurgeEffect
  <2> QED
    BY <2>1 DEF MarksStay, Live
<1>14. CASE DeleteMerged(w)
  <2>1. UNCHANGED <<mails, mishap>> /\ cart' = Deleted(call[w].cart) /\ End(w)
    BY <1>14, DeleteMergedEffect
  <2> QED
    BY <2>1 DEF MarksStay, Deleted, TInv, TypeOK, Live
<1> QED
  BY <1>3, <1>4, <1>5, <1>6, <1>7, <1>8, <1>9, <1>10, <1>11, <1>12, <1>13, <1>14 DEF Working, Edit, ClaimGuestCart

\* MInv is kept: the UPDATE marks a cart that is not marked, and whoever marks it mails it.
LEMMA StepMInv == TInv /\ TInv' /\ XInv /\ MInv /\ [Next]_vars => MInv'
<1> SUFFICES ASSUME TInv, TInv', XInv, MInv, [Next]_vars, "revived" \notin mishap'
             PROVE  (\A x \in Callers : Mailing(x)') /\ \A c \in CartIds : Mailed(c)'
  BY DEF MInv
<1>1. CASE UNCHANGED vars
  BY <1>1 DEF vars, rows, history, MInv, Mailing, Mailed, At, Free, Live
<1>2. ASSUME NEW w \in Callers, call' = [call EXCEPT ![w] = Idle] \/ \E n \in Requests : call' = [call EXCEPT ![w] = n] /\ n.pc # "mail",
             UNCHANGED <<cart, mails, mishap>>
      PROVE  (\A x \in Callers : Mailing(x)') /\ \A c \in CartIds : Mailed(c)'
  <2>1. \A x \in Callers : At(x, "mail")' => At(x, "mail") /\ call'[x] = call[x]
    BY <1>2 DEF TInv, TypeOK, At, Free
  <2> QED
    BY <1>2, <2>1 DEF MInv, Mailing, Mailed, Live
<1>3. ASSUME NEW w \in Callers,
             \/ \E op \in Edits, c \in CartIds, v \in Variants : BeginEdit(w, op, c, v)
             \/ \E c \in CartIds, v \in Variants : BeginFirst(w, c, v)
             \/ \E g \in Guests : BeginClaim(w, g)
             \/ \E c \in CartIds : BeginRecovery(w, c)
      PROVE  (\A x \in Callers : Mailing(x)') /\ \A c \in CartIds : Mailed(c)'
  <2>1. UNCHANGED <<cart, mails, mishap>> /\ \E n \in Requests : call' = [call EXCEPT ![w] = n] /\ n.pc # "mail"
    BY <1>3, Begins
  <2> QED
    BY <1>2, <2>1
<1>4. ASSUME NEW w \in Callers, Working(w)
      PROVE  (\A x \in Callers : Mailing(x)') /\ \A c \in CartIds : Mailed(c)'
  <2>0. ~Free(w) /\ call[w].cart \in CartIds /\ GoesOn(w)
    BY <1>4, Footprint, CopyType
  <2>1. CASE Stops(w)
    BY <1>2, <2>1, StopsIs DEF End
  <2>2. CASE ~Stops(w) /\ ~MarkRecoveryEmailSent(w) /\ ~EnqueueMail(w)
    <3>1. /\ MarksStay(w) /\ mails' = mails /\ mishap \subseteq mishap'
          /\ End(w) \/ \E n : Goes(w, n) /\ n.pc # "mail"
      BY <1>4, <2>2, MarkFrame
    <3>2. \A x \in Callers : At(x, "mail")' => At(x, "mail") /\ call'[x] = call[x]
      BY <3>1, EndIs, GoesIs DEF At, Free
    <3>3. \A c \in CartIds : Live(c)' => \/ Live(c) /\ cart'[c].mailed = cart[c].mailed
                                         \/ mails[c] = 0 /\ \A x \in Callers : At(x, "mail") => call[x].cart # c
      <4> SUFFICES ASSUME NEW c \in CartIds, Live(c)', At(w, "create"), c = call[w].cart
                   PROVE  mails[c] = 0 /\ \A x \in Callers : At(x, "mail") => call[x].cart # c
        BY <3>1 DEF MarksStay
      <4> QED
        BY DEF XInv, New, At
    <3> QED
      BY <3>1, <3>2, <3>3, CopyType DEF MInv, Mailing, Mailed, Live, At
  <2>3. CASE MarkRecoveryEmailSent(w) /\ ~Stops(w)
    <3> DEFINE c == call[w].cart
    <3>1. /\ At(w, "mark") /\ Live(c) /\ cart[c].mailed # TRUE /\ UNCHANGED <<mails, mishap>> /\ cart'[c].mailed = TRUE
          /\ \A k \in CartIds \ {c} : cart'[k] = cart[k]
          /\ End(w) \/ \E n : Goes(w, n) /\ n.pc = "mail"
      BY <2>3, MarkEffect DEF Markable
    <3>2. mails[c] = 0 /\ \A x \in Callers : At(x, "mail") => call[x].cart # c
      <4>1. mails[c] <= 1 /\ mails[c] # 1 /\ mails[c] \in Nat
        BY <2>0, <3>1 DEF MInv, Mailed, TInv, TypeOK
      <4>2. mails[c] = 0
        BY <4>1
      <4> QED
        BY <3>1, <4>2 DEF MInv, Mailing
    <3>3. \A u \in Callers \ {w} : call'[u] = call[u]
      BY <3>1, EndIs, GoesIs
    <3>4. At(w, "mail")' => call'[w].cart = c
      BY <3>1, EndIs, GoesIs DEF At, Free, Goes
    <3>5. \A x \in Callers \ {w} : At(x, "mail")' => At(x, "mail") /\ call'[x].cart = call[x].cart /\ call[x].cart \in CartIds
      BY <3>3, CopyType DEF At, Free
    <3>6. \A x \in Callers : Mailing(x)'
      BY <2>0, <3>1, <3>2, <3>3, <3>4, <3>5 DEF MInv, Mailing, Live
    <3>7. \A k \in CartIds : Mailed(k)'
      BY <2>0, <3>1, <3>2 DEF MInv, Mailed, Live
    <3> QED
      BY <3>6, <3>7
  <2>4. CASE EnqueueMail(w) /\ ~Stops(w)
    <3> DEFINE c == call[w].cart
    <3>1. At(w, "mail") /\ End(w) /\ mails' = [mails EXCEPT ![c] = mails[c] + 1] /\ UNCHANGED <<cart, mishap>>
      BY <2>4, MailEffect
    <3>2. mails[c] = 0 /\ (Live(c) => cart[c].mailed) /\ \A u \in Callers \ {w} : At(u, "mail") => call[u].cart # c
      BY <3>1 DEF MInv, Mailing
    <3>3. mails'[c] = 1 /\ \A k \in CartIds \ {c} : mails'[k] = mails[k]
      BY <2>0, <3>1, <3>2 DEF TInv, TypeOK
    <3>4. \A x \in Callers : At(x, "mail")' => x # w /\ At(x, "mail") /\ call'[x].cart = call[x].cart /\ call[x].cart \in CartIds
      BY <3>1, EndIs, CopyType DEF At, Free
    <3>5. \A x \in Callers : Mailing(x)'
      BY <3>1, <3>2, <3>3, <3>4 DEF MInv, Mailing, Live
    <3>6. \A k \in CartIds : Mailed(k)'
      BY <3>1, <3>2, <3>3 DEF MInv, Mailed, Live
    <3> QED
      BY <3>5, <3>6
  <2> QED
    BY <2>1, <2>2, <2>3, <2>4
<1> QED
  BY <1>1, <1>3, <1>4 DEF Next, Working

\* A customer gets at most one recovery mail per cart, however many jobs run at once, as
\* long as no save brings a deleted cart back without its mark.
THEOREM OneMailCorrect == Spec => []OneRecoveryMail
<1>1. Spec => [](TInv /\ XInv /\ MInv)
  BY InitTInv, StepTInv, InitXInv, StepXInv, InitMInv, StepMInv, PTL DEF Spec
<1>2. MInv => OneRecoveryMail
  BY DEF MInv, OneRecoveryMail, Mailed
<1> QED
  BY <1>1, <1>2, PTL

------------------------------------------------------------------------------
(* Copies, owners and markers *)

\* RInv holds at first.
LEMMA InitRInv == Init => RInv
<1> SUFFICES ASSUME Init PROVE RInv
  OBVIOUS
<1>1. moved = {} /\ \A w \in Callers : Free(w)
  BY DEF Init, Free
<1>2. \A c \in CartIds : cart[c] # NoCart => cart[c].merged = NoCart
  BY CartsAssumption DEF Init
<1> QED
  BY <1>1, <1>2 DEF RInv, Reads, Guest, Live

\* Mishaps are never forgotten.
LEMMA CleanBefore ==
    ASSUME mishap \subseteq mishap', Clean'
    PROVE  Clean
BY DEF Clean

\* In a clean run an edit is saved over the row it has read.
LEMMA CleanEdit ==
    ASSUME TInv, RInv, Clean', NEW w \in Callers, SaveEdit(w), ~Stops(w)
    PROVE  LET c == call[w].cart IN Clean /\ Live(c) /\ c \notin moved /\ Same(cart[c], call[w].seen)
<1> DEFINE c == call[w].cart
<1>1. At(w, "save") /\ ~Free(w) /\ Note({m \in {"revived"} : ~Live(c)} \cup {m \in {"overtaken"} : c \in moved})
  BY SaveEditEffect DEF At
<1>2. PICK row : SavesRow(c, row) /\ row.ver = call[w].seen.ver
  BY SaveEditEffect
<1>3. mishap \subseteq mishap' /\ (~Live(c) => "revived" \in mishap') /\ (c \in moved => "overtaken" \in mishap')
  BY <1>1 DEF Note
<1>4. Clean /\ Live(c) /\ c \notin moved
  BY <1>3, CleanBefore DEF Clean, Losses
<1>5. cart[c].ver = call[w].seen.ver
  BY <1>2, <1>4 DEF SavesRow, Current
<1>6. call[w].seen # NoCart /\ c # NoCart
  BY <1>1, RequestType, CopyType, CartsAssumption DEF Good, Shape, At
<1> QED
  BY <1>1, <1>4, <1>5, <1>6 DEF RInv, Reads, Fresh

\* So is an assignment.
LEMMA CleanAssign ==
    ASSUME TInv, RInv, Clean', NEW w \in Callers, Assign(w), ~Stops(w)
    PROVE  LET g == call[w].cart IN Clean /\ Live(g) /\ g \notin moved /\ Same(cart[g], call[w].seen)
<1> DEFINE c == call[w].cart
<1>1. At(w, "assign") /\ ~Free(w) /\ Note({m \in {"revived"} : ~Live(c)} \cup {m \in {"strayed"} : c \in moved})
  BY AssignEffect DEF At
<1>2. PICK row : SavesRow(c, row) /\ row.ver = call[w].seen.ver
  BY AssignEffect
<1>3. mishap \subseteq mishap' /\ (~Live(c) => "revived" \in mishap') /\ (c \in moved => "strayed" \in mishap')
  BY <1>1 DEF Note
<1>4. Clean /\ Live(c) /\ c \notin moved
  BY <1>3, CleanBefore DEF Clean, Losses
<1>5. cart[c].ver = call[w].seen.ver
  BY <1>2, <1>4 DEF SavesRow, Current
<1>6. call[w].seen # NoCart /\ c # NoCart
  BY <1>1, RequestType, CopyType, CartsAssumption DEF Good, Shape, At, Claiming
<1> QED
  BY <1>1, <1>4, <1>5, <1>6 DEF RInv, Reads, Fresh

\* A merge finds both carts as they were read, and the guest cart was not moved before.
LEMMA CleanMerge ==
    ASSUME TInv, RInv, Clean', NEW w \in Callers, Merge(w), ~Stops(w)
    PROVE  LET g == call[w].cart  k == call[w].own IN
           /\ Clean /\ g # k /\ Owned(k) /\ k \notin moved /\ Same(cart[k], call[w].ownSeen) /\ cart[k].merged # g
           /\ Live(g) /\ g \notin moved /\ Same(cart[g], call[w].seen) /\ cart[g].ver = call[w].seen.ver /\ cart[g].owner = "guest"
           /\ Live(k) /\ cart[k].merged \notin {NoCart, g} => ~Claimable(cart[k].merged)
<1> DEFINE g == call[w].cart  k == call[w].own
<1>1. At(w, "merge") /\ ~Free(w) /\ g \in Guests /\ k \in CartIds
  BY MergeEffect DEF At
<1>2. PICK row : SavesRow(k, row) /\ row.ver = call[w].ownSeen.ver
  BY MergeEffect
<1>3. /\ mishap \subseteq mishap' /\ (~Live(k) => "revived" \in mishap')
      /\ (Changed(g, call[w].seen) \/ (~Live(g) /\ g \notin moved)) => "overtaken" \in mishap'
      /\ (\E o \in CartIds \ {k} : Owned(o) /\ cart[o].merged = g) => "strayed" \in mishap'
      /\ Forgets(k, g) \subseteq mishap'
  BY MergeEffect DEF Note
<1>4. /\ Clean /\ Live(k) /\ ~Changed(g, call[w].seen) /\ (Live(g) \/ g \in moved)
      /\ \A o \in CartIds \ {k} : ~(Owned(o) /\ cart[o].merged = g)
  BY <1>3, CleanBefore DEF Clean, Losses
<1>5. cart[k].merged \notin {NoCart, g} => ~Claimable(cart[k].merged)
  BY <1>3, <1>4 DEF Clean, Losses, Forgets
<1>6. Good(call[w]) /\ call[w] \in Requests /\ g \in CartIds /\ NoCart \notin CartIds
  BY <1>1, RequestType, CopyType, CartsAssumption
<1>7. /\ call[w].ownSeen # NoCart /\ call[w].ownSeen.merged # g
      /\ call[w].seen # NoCart /\ call[w].seen.owner = "guest"
  BY <1>1, <1>6 DEF Good, Shape, At, Claiming
<1>8. Reads(w)
  BY <1>4, <1>1 DEF RInv
<1>9. g # k /\ cart[k].owner = "customer" /\ Same(cart[k], call[w].ownSeen)
  <2>1. cart[k].ver = call[w].ownSeen.ver
    BY <1>2, <1>4 DEF SavesRow, Current
  <2> QED
    BY <1>1, <1>4, <1>6, <1>7, <1>8, <2>1 DEF Reads, Fresh
<1>10. Owned(k) /\ cart[k].merged # g /\ k \notin moved
  BY <1>1, <1>4, <1>7, <1>9 DEF Owned, Same, RInv, Guest
<1>11. g \notin moved
  <2> SUFFICES ASSUME g \in moved PROVE FALSE
    OBVIOUS
  <2>1. Remembered(g)
    BY <1>4 DEF RInv
  <2>2. ~ \E o \in CartIds : Owned(o) /\ cart[o].merged = g
    BY <1>4, <1>10
  <2> QED
    BY <1>1, <2>1, <2>2 DEF Remembered, At, Claiming
<1>12. Live(g) /\ cart[g].ver = call[w].seen.ver
  BY <1>4, <1>11 DEF Changed
<1>13. Same(cart[g], call[w].seen)
  BY <1>1, <1>6, <1>7, <1>8, <1>12 DEF Reads, Fresh
<1>14. cart[g].owner = "guest"
  BY <1>7, <1>13 DEF Same
<1> QED
  BY <1>4, <1>5, <1>9, <1>10, <1>11, <1>12, <1>13, <1>14

\* A cart that gives way is empty, and no guest cart is forgotten with it.
LEMMA CleanDelete ==
    ASSUME TInv, RInv, Clean', NEW w \in Callers, DeleteEmpty(w), ~Stops(w)
    PROVE  \E c \in CartIds :
              /\ Clean /\ cart' = Deleted(c)
              /\ Live(c) => Lines(cart[c]) = {} /\ (cart[c].merged # NoCart => ~Claimable(cart[c].merged))
<1>1. ~Free(w)
  BY DeleteEmptyEffect DEF At
<1>2. Good(call[w]) /\ call[w] \in Requests /\ call[w].cart \in CartIds /\ NoCart \notin CartIds
  BY <1>1, RequestType, CopyType, CartsAssumption
<1>3. ASSUME NEW c \in CartIds, NEW row, cart' = Deleted(c), row # NoCart, Lines(row) = {}, Fresh(c, row) \/ ~Clean,
             Note({m \in {"overtaken"} : Changed(c, row)} \cup Forgets(c, NoCart))
      PROVE  /\ Clean /\ cart' = Deleted(c)
             /\ Live(c) => Lines(cart[c]) = {} /\ (cart[c].merged # NoCart => ~Claimable(cart[c].merged))
  <2>1. mishap \subseteq mishap' /\ (Changed(c, row) => "overtaken" \in mishap') /\ Forgets(c, NoCart) \subseteq mishap'
    BY <1>3 DEF Note
  <2>2. Clean /\ ~Changed(c, row) /\ Forgets(c, NoCart) = {}
    BY <2>1, CleanBefore, ForgetsType DEF Clean, Losses
  <2>3. Live(c) => Same(cart[c], row)
    BY <1>2, <1>3, <2>2 DEF Changed, Fresh
  <2>4. Live(c) => Lines(cart[c]) = {}
    BY <1>3, <2>3 DEF Same, Lines
  <2>5. Live(c) /\ cart[c].merged # NoCart => ~Claimable(cart[c].merged)
    BY <2>2 DEF Forgets
  <2> QED
    BY <1>3, <2>2, <2>4, <2>5
<1>4. CASE At(w, "delOwn") /\ cart' = Deleted(call[w].own)
           /\ Note({m \in {"overtaken"} : Changed(call[w].own, call[w].ownSeen)} \cup Forgets(call[w].own, NoCart))
  <2>1. call[w].own \in CartIds /\ call[w].ownSeen # NoCart /\ Lines(call[w].ownSeen) = {}
    BY <1>1, <1>2, <1>4, CopyType DEF Good, Shape, At
  <2>2. Fresh(call[w].own, call[w].ownSeen) \/ ~Clean
    BY <1>1 DEF RInv, Reads
  <2> QED
    BY <1>3, <1>4, <2>1, <2>2
<1>5. CASE At(w, "delGuest") /\ cart' = Deleted(call[w].cart)
           /\ Note({m \in {"overtaken"} : Changed(call[w].cart, call[w].seen)} \cup Forgets(call[w].cart, NoCart))
  <2>1. call[w].seen # NoCart /\ Lines(call[w].seen) = {}
    BY <1>2, <1>5 DEF Good, Shape, At, Claiming
  <2>2. Fresh(call[w].cart, call[w].seen) \/ ~Clean
    BY <1>1 DEF RInv, Reads
  <2> QED
    BY <1>2, <1>3, <1>5, <2>1, <2>2
<1> QED
  BY <1>4, <1>5, DeleteEmptyEffect

\* What a statement may do to a row in a clean run: create, delete or change it.
Created(w, c) == /\ At(w, "create") /\ c = call[w].cart /\ c \in Own /\ ~Live(c)
                 /\ cart'[c] # NoCart /\ cart'[c].owner = "customer" /\ cart'[c].merged = NoCart
ChangedRow(c) ==
    /\ Live(c) /\ cart'[c] \in Row /\ cart'[c] # NoCart
    /\ cart'[c].ver = cart[c].ver + 1 \/ (cart'[c].ver = cart[c].ver /\ Same(cart'[c], cart[c]))
    /\ cart'[c].owner = "customer" \/ Same(cart'[c], cart[c]) \/ (cart'[c].owner = cart[c].owner /\ cart'[c].merged = cart[c].merged)
    /\ c \in moved => cart'[c].owner = cart[c].owner
RowStep(w, c) == cart'[c] = cart[c] \/ cart'[c] = NoCart \/ Created(w, c) \/ ChangedRow(c)

\* A marker stays, or is about a guest cart that nobody can claim any more.
MarkerStep(c) ==
    Owned(c) /\ cart[c].merged # NoCart =>
        (Owned(c)' /\ cart'[c].merged = cart[c].merged) \/ ~Claimable(cart[c].merged)

\* What a request knows afterwards.
Learns(w) ==
    \/ End(w)
    \/ \E n :
         /\ Goes(w, n)
         /\ n.seen = call[w].seen \/ (n.seen = cart[n.cart] /\ cart' = cart)
         /\ \/ n.own = call[w].own /\ n.ownSeen = call[w].ownSeen
            \/ n.own = NoCart
            \/ n.own \in CartIds /\ n.own # n.cart /\ Owned(n.own) /\ n.ownSeen = cart[n.own] /\ cart' = cart
         /\ n.pc \in Claiming => call[w].pc \in Claiming \/ Live(n.cart)

CleanStep(w) ==
    /\ Clean /\ Learns(w) /\ (moved' = moved \/ (Merge(w) /\ ~Stops(w)))
    /\ \A c \in CartIds : RowStep(w, c) /\ MarkerStep(c)

\* Rows that do not change take a step of no kind.
LEMMA SameRows ==
    ASSUME NEW w \in Callers, cart' = cart
    PROVE  \A c \in CartIds : RowStep(w, c) /\ MarkerStep(c)
BY DEF RowStep, MarkerStep, Owned, Live

\* The statements that write no row ...
LEMMA CleanReads ==
    ASSUME TInv, XInv, RInv, Clean', NEW w \in Callers, ~Stops(w),
           \/ ReadCart(w) \/ ReadGuest(w) \/ RereadGuest(w) \/ CheckLines(w) \/ FindOwn(w)
           \/ WriteValues(w) \/ CopyValues(w) \/ TidyAssigned(w) \/ PurgeValues(w) \/ EnqueueMail(w)
    PROVE  CleanStep(w)
<1>0. ~Free(w) /\ call[w].cart \in CartIds
  BY Footprint, CopyType DEF Working, Edit, ClaimGuestCart
<1>1. CASE ReadCart(w) \/ ReadGuest(w) \/ RereadGuest(w) \/ CheckLines(w)
  <2>1. PICK n : /\ ReadsOnly(w, n) /\ mishap' = mishap /\ n.own = call[w].own /\ n.ownSeen = call[w].ownSeen
                 /\ n.seen = cart[call[w].cart] \/ n.seen = call[w].seen
                 /\ n.pc \in Claiming => call[w].pc \in Claiming \/ Live(call[w].cart)
    BY <1>1, ReadCartEffect, ReadGuestEffect, RereadEffect, CheckLinesEffect DEF Claiming, At
  <2>2. Learns(w) /\ moved' = moved /\ cart' = cart
    BY <2>1 DEF Learns, ReadsOnly, Goes
  <2> QED
    BY <2>1, <2>2, SameRows DEF CleanStep, Clean
<1>2. CASE FindOwn(w)
  <2>1. UNCHANGED <<cart, moved>> /\ mishap \subseteq mishap' /\ At(w, "own")
    BY <1>2, FindOwnEffect DEF Note
  <2>2. CASE \E n : ReadsOnly(w, n) /\ Keeps(w, n) /\ n.pc = "check"
    <3>1. Learns(w)
      BY <2>1, <2>2 DEF Learns, ReadsOnly, Keeps, Claiming, At
    <3> QED
      BY <2>1, <3>1, SameRows, CleanBefore DEF CleanStep
  <2>3. ASSUME NEW k \in CartIds, Owned(k),
               Note({m \in {"itself"} : k = call[w].cart}
                           \cup {m \in {"strayed"} : \E o \in CartIds \ {k} : Owned(o) /\ cart[o].merged = call[w].cart}),
               End(w) \/ \E n : ReadsOnly(w, n) /\ n.seen = call[w].seen /\ n.own = k /\ n.ownSeen = cart[k]
        PROVE  CleanStep(w)
    <3>1. k # call[w].cart
      <4>1. k = call[w].cart => "itself" \in mishap'
        BY <2>3 DEF Note
      <4> QED
        BY <4>1 DEF Clean, Losses
    <3>2. Learns(w)
      BY <2>1, <2>3, <3>1 DEF Learns, ReadsOnly, Goes, Claiming, At
    <3> QED
      BY <2>1, <3>2, SameRows, CleanBefore DEF CleanStep
  <2> QED
    BY <1>2, <2>2, <2>3, FindOwnEffect
<1>3. CASE WriteValues(w)
  <2>1. UNCHANGED <<cart, moved>> /\ mishap \subseteq mishap' /\ \E n : Goes(w, n) /\ Keeps(w, n) /\ n.pc = "save"
    BY <1>3, WriteValuesEffect DEF Note
  <2>2. Learns(w)
    BY <2>1 DEF Learns, Keeps, Claiming
  <2> QED
    BY <2>1, <2>2, SameRows, CleanBefore DEF CleanStep
<1>4. CASE CopyValues(w)
  <2>1. At(w, "copy") /\ UNCHANGED <<cart, moved, mishap>> /\ (End(w) \/ \E n : Goes(w, n) /\ Keeps(w, n) /\ n.pc = "merge")
    BY <1>4, CopyValuesEffect
  <2>2. Learns(w)
    BY <2>1 DEF Learns, Keeps, Claiming, At
  <2> QED
    BY <2>1, <2>2, SameRows, CleanBefore DEF CleanStep
<1>5. CASE TidyAssigned(w)
  <2>1. UNCHANGED <<cart, moved>> /\ mishap \subseteq mishap' /\ End(w)
    BY <1>5, TidyEffect DEF Note
  <2> QED
    BY <2>1, SameRows, CleanBefore DEF CleanStep, Learns
<1>6. CASE PurgeValues(w)
  <2>1. At(w, "purge") /\ UNCHANGED <<cart, moved, mishap>> /\ (End(w) \/ \E n : Goes(w, n) /\ Keeps(w, n) /\ n.pc = "delete")
    BY <1>6, PurgeEffect
  <2>2. Learns(w)
    BY <2>1 DEF Learns, Keeps, Claiming, At
  <2> QED
    BY <2>1, <2>2, SameRows, CleanBefore DEF CleanStep
<1>7. CASE EnqueueMail(w)
  <2>1. UNCHANGED <<cart, moved, mishap>> /\ End(w)
    BY <1>7, MailEffect
  <2> QED
    BY <2>1, SameRows, CleanBefore DEF CleanStep, Learns
<1> QED
  BY <1>1, <1>2, <1>3, <1>4, <1>5, <1>6, <1>7

\* ... and those that do, as steps of a clean run.
LEMMA CleanWrites ==
    ASSUME TInv, XInv, RInv, Clean', NEW w \in Callers, ~Stops(w),
           \/ CreateCart(w) \/ SaveEdit(w) \/ DeleteEmpty(w) \/ Assign(w) \/ Merge(w) \/ DeleteMerged(w)
           \/ MarkRecoveryEmailSent(w)
    PROVE  CleanStep(w)
<1>0. ~Free(w) /\ call[w].cart \in CartIds /\ NoCart \notin CartIds
  BY Footprint, CopyType, CartsAssumption DEF Working, Edit, ClaimGuestCart
<1>1. CASE CreateCart(w)
  <2>1. PICK row \in Row : cart' = [cart EXCEPT ![call[w].cart] = row] /\ row.owner = "customer" /\ row.merged = NoCart
    BY <1>1, CreateEffect
  <2>2. At(w, "create") /\ UNCHANGED <<moved, mishap>> /\ \E n : Goes(w, n) /\ Keeps(w, n) /\ n.pc = "read"
    BY <1>1, CreateEffect
  <2>3. call[w].cart \in Own /\ ~Live(call[w].cart) /\ row # NoCart
    BY <2>2, CartsAssumption DEF XInv, New
  <2>4. Learns(w)
    BY <2>2 DEF Learns, Keeps, Claiming
  <2>5. cart'[call[w].cart] = row /\ \A c \in CartIds \ {call[w].cart} : cart'[c] = cart[c]
    BY <1>0, <2>1 DEF TInv, TypeOK
  <2>6. \A c \in CartIds : RowStep(w, c) /\ MarkerStep(c)
    BY <2>1, <2>2, <2>3, <2>5 DEF RowStep, Created, MarkerStep, Owned, Live
  <2> QED
    BY <2>2, <2>4, <2>6, CleanBefore DEF CleanStep
<1>2. CASE SaveEdit(w)
  <2> DEFINE c == call[w].cart
  <2>1. End(w) /\ moved' = moved
    BY <1>2, SaveEditEffect
  <2>2. PICK row : SavesRow(c, row) /\ row.owner = call[w].seen.owner /\ row.merged = call[w].seen.merged
    BY <1>2, SaveEditEffect
  <2>3. Clean /\ Live(c) /\ Same(cart[c], call[w].seen)
    BY <1>2, CleanEdit
  <2>4. /\ cart'[c] \in Row /\ cart'[c] # NoCart /\ cart'[c].ver = cart[c].ver + 1
        /\ cart'[c].owner = row.owner /\ cart'[c].merged = row.merged /\ \A k \in CartIds \ {c} : cart'[k] = cart[k]
    BY <1>0, <2>2, <2>3, SavedEffect DEF SavesRow, TInv
  <2>5. cart'[c].owner = cart[c].owner /\ cart'[c].merged = cart[c].merged
    BY <2>2, <2>3, <2>4 DEF Same
  <2>6. \A k \in CartIds : RowStep(w, k) /\ MarkerStep(k)
    BY <2>3, <2>4, <2>5 DEF RowStep, ChangedRow, MarkerStep, Owned, Live
  <2> QED
    BY <2>1, <2>3, <2>6 DEF CleanStep, Learns
<1>3. CASE Assign(w)
  <2> DEFINE c == call[w].cart
  <2>1. At(w, "assign") /\ moved' = moved /\ (End(w) \/ \E n : Goes(w, n) /\ Keeps(w, n) /\ n.pc = "tidy")
    BY <1>3, AssignEffect
  <2>2. PICK row : SavesRow(c, row) /\ row.owner = "customer" /\ row.merged = call[w].seen.merged
    BY <1>3, AssignEffect
  <2>3. Clean /\ Live(c) /\ Same(cart[c], call[w].seen) /\ c \notin moved
    BY <1>3, CleanAssign
  <2>4. /\ cart'[c] \in Row /\ cart'[c] # NoCart /\ cart'[c].ver = cart[c].ver + 1
        /\ cart'[c].owner = row.owner /\ cart'[c].merged = row.merged /\ \A k \in CartIds \ {c} : cart'[k] = cart[k]
    BY <1>0, <2>2, <2>3, SavedEffect DEF SavesRow, TInv
  <2>5. cart'[c].owner = "customer" /\ cart'[c].merged = cart[c].merged
    BY <2>2, <2>3, <2>4 DEF Same
  <2>6. \A k \in CartIds : RowStep(w, k) /\ MarkerStep(k)
    BY <2>3, <2>4, <2>5 DEF RowStep, ChangedRow, MarkerStep, Owned, Live
  <2>7. Learns(w)
    BY <2>1 DEF Learns, Keeps, Claiming
  <2> QED
    BY <2>1, <2>3, <2>6, <2>7 DEF CleanStep
<1>4. CASE Merge(w)
  <2> DEFINE g == call[w].cart  c == call[w].own
  <2>1. At(w, "merge") /\ c \in CartIds /\ (End(w) \/ \E n : Goes(w, n) /\ Keeps(w, n) /\ n.pc = "reread")
    BY <1>4, MergeEffect
  <2>2. PICK row : SavesRow(c, row) /\ row.owner = "customer" /\ row.merged = g
    BY <1>4, MergeEffect
  <2>3. /\ Clean /\ Owned(c) /\ Live(c) /\ c \notin moved
        /\ cart[c].merged \notin {NoCart, g} => ~Claimable(cart[c].merged)
    BY <1>4, CleanMerge DEF Owned
  <2>4. /\ cart'[c] \in Row /\ cart'[c] # NoCart /\ cart'[c].ver = cart[c].ver + 1
        /\ cart'[c].owner = row.owner /\ cart'[c].merged = row.merged /\ \A k \in CartIds \ {c} : cart'[k] = cart[k]
    BY <2>1, <2>2, <2>3, SavedEffect DEF SavesRow, TInv
  <2>5. cart'[c].owner = "customer" /\ cart'[c].merged = g /\ cart[c].owner = "customer"
    BY <2>2, <2>3, <2>4 DEF Owned
  <2>6. \A k \in CartIds : RowStep(w, k) /\ MarkerStep(k)
    BY <2>3, <2>4, <2>5 DEF RowStep, ChangedRow, MarkerStep, Owned, Live
  <2>7. Learns(w)
    BY <2>1 DEF Learns, Keeps, Claiming
  <2> QED
    BY <1>4, <2>1, <2>3, <2>6, <2>7 DEF CleanStep
<1>5. CASE DeleteEmpty(w)
  <2>1. PICK c \in CartIds :
              /\ Clean /\ cart' = Deleted(c)
              /\ Live(c) => (cart[c].merged # NoCart => ~Claimable(cart[c].merged))
    BY <1>5, CleanDelete
  <2>2. cart'[c] = NoCart /\ \A k \in CartIds \ {c} : cart'[k] = cart[k]
    BY <2>1 DEF Deleted, TInv, TypeOK
  <2>3. \A k \in CartIds : RowStep(w, k) /\ MarkerStep(k)
    BY <2>1, <2>2 DEF RowStep, MarkerStep, Owned, Live
  <2>4. moved' = moved /\ Learns(w)
    BY <1>5, DeleteEmptyEffect DEF Learns, At, Claiming
  <2> QED
    BY <2>1, <2>3, <2>4 DEF CleanStep
<1>6. CASE DeleteMerged(w)
  <2> DEFINE c == call[w].cart
  <2>1. At(w, "delete") /\ UNCHANGED <<moved, mishap>> /\ cart' = Deleted(c) /\ End(w)
    BY <1>6, DeleteMergedEffect
  <2>2. cart'[c] = NoCart /\ \A k \in CartIds \ {c} : cart'[k] = cart[k]
    BY <1>0, <2>1 DEF Deleted, TInv, TypeOK
  <2>3. c \in moved /\ Clean
    BY <1>0, <2>1, RequestType, CleanBefore DEF Good, Shape, At, Cleaning
  <2>4. ~Owned(c)
    BY <1>0, <2>3 DEF RInv, Guest, Owned
  <2>5. \A k \in CartIds : RowStep(w, k) /\ MarkerStep(k)
    BY <2>2, <2>4 DEF RowStep, MarkerStep, Owned, Live
  <2> QED
    BY <2>1, <2>3, <2>5 DEF CleanStep, Learns
<1>7. CASE MarkRecoveryEmailSent(w)
  <2> DEFINE c == call[w].cart
  <2>1. /\ At(w, "mark") /\ Live(c) /\ UNCHANGED <<moved, mishap>> /\ (End(w) \/ \E n : Goes(w, n) /\ Keeps(w, n) /\ n.pc = "mail")
        /\ cart'[c] \in Row /\ Same(cart'[c], cart[c]) /\ cart'[c].ver = cart[c].ver
        /\ \A k \in CartIds \ {c} : cart'[k] = cart[k]
    BY <1>7, MarkEffect DEF Markable
  <2>2. Learns(w)
    BY <2>1 DEF Learns, Keeps, Claiming
  <2>3. cart'[c] # NoCart
    BY <2>1, CartsAssumption
  <2>4. \A k \in CartIds : RowStep(w, k) /\ MarkerStep(k)
    BY <2>1, <2>3 DEF RowStep, ChangedRow, Same, MarkerStep, Owned, Live
  <2> QED
    BY <2>1, <2>2, <2>4, CleanBefore DEF CleanStep
<1> QED
  BY <1>1, <1>2, <1>3, <1>4, <1>5, <1>6, <1>7

\* A copy that is not newer than its row stays so.
LEMMA FreshKept ==
    ASSUME TInv, NEW w \in Callers, NEW c \in CartIds, RowStep(w, c), ~Created(w, c), NEW row \in Copies, Fresh(c, row)
    PROVE  Fresh(c, row)'
<1> SUFFICES ASSUME row # NoCart, cart'[c] # NoCart
             PROVE  row.ver <= cart'[c].ver /\ (row.ver = cart'[c].ver => Same(cart'[c], row))
  BY DEF Fresh, Live, Same
<1>1. row \in Row /\ row.ver \in Nat /\ c # NoCart
  BY CartsAssumption DEF Copies, Row
<1>2. CASE cart'[c] = cart[c]
  BY <1>1, <1>2 DEF Fresh, Live
<1>3. CASE ChangedRow(c)
  <2>1. cart[c] \in Row /\ cart[c].ver \in Nat /\ row.ver <= cart[c].ver /\ (row.ver = cart[c].ver => Same(cart[c], row))
    BY <1>1, <1>3 DEF ChangedRow, TInv, TypeOK, Copies, Row, Live, Fresh
  <2> QED
    BY <1>1, <1>3, <2>1 DEF ChangedRow, Same
<1> QED
  BY <1>2, <1>3 DEF RowStep

\* Reads(w), for a request q.
ReadsFor(q) ==
    /\ Fresh(q.cart, q.seen) /\ Fresh(q.own, q.ownSeen)
    /\ q.own # q.cart
    /\ q.own # NoCart /\ Live(q.own) => cart[q.own].owner = "customer"

\* A request whose carts nobody creates keeps what it knows.
LEMMA ReadsKept ==
    ASSUME TInv, NEW w \in Callers, \A c \in CartIds : RowStep(w, c), NEW q \in Requests, ReadsFor(q),
           ~Created(w, q.cart), ~Created(w, q.own)
    PROVE  ReadsFor(q)'
<1>1. q.cart \in CartIds /\ q.own \in CartIds \cup {NoCart} /\ q.seen \in Copies /\ q.ownSeen \in Copies /\ NoCart \notin CartIds
  BY CartsAssumption DEF Requests
<1>2. Fresh(q.cart, q.seen)'
  BY <1>1, FreshKept DEF ReadsFor
<1>3. Fresh(q.own, q.ownSeen)'
  <2>1. CASE q.own = NoCart
    BY <2>1 DEF Fresh
  <2>2. CASE q.own \in CartIds
    BY <1>1, <2>2, FreshKept DEF ReadsFor
  <2> QED
    BY <1>1, <2>1, <2>2
<1>4. q.own # NoCart /\ Live(q.own)' => cart'[q.own].owner = "customer"
  <2> SUFFICES ASSUME q.own # NoCart, Live(q.own)' PROVE cart'[q.own].owner = "customer"
    OBVIOUS
  <2>1. RowStep(w, q.own)
    BY <1>1
  <2> QED
    BY <2>1 DEF RowStep, ChangedRow, Live, ReadsFor, Same
<1> QED
  BY <1>2, <1>3, <1>4 DEF ReadsFor

\* What requests know of rows stays true of them.
LEMMA StepReads ==
    ASSUME TInv, TInv', XInv, RInv, NEW w \in Callers, ~Free(w), CleanStep(w)
    PROVE  \A x \in Callers : Reads(x)'
<1>1. \A u \in Callers \ {w} : call'[u] = call[u]
  BY EndIs, GoesIs DEF CleanStep, Learns
<1>2. \A c \in CartIds : RowStep(w, c)
  BY DEF CleanStep
<1>3. ASSUME NEW q, q \in Requests, ReadsFor(q), ~Created(w, q.cart), ~Created(w, q.own) PROVE ReadsFor(q)'
  BY <1>2, <1>3, ReadsKept
<1>4. ASSUME NEW x \in Callers \ {w}, ~Free(x) PROVE ReadsFor(call[x])'
  <2>1. PICK q \in Requests : q = call[x]
    BY <1>4, RequestType
  <2>2. ReadsFor(q)
    BY <1>4, <2>1 DEF CleanStep, RInv, Reads, ReadsFor
  <2>3. ~Created(w, q.cart) /\ ~Created(w, q.own)
    BY <1>4, <2>1 DEF Created, XInv, New, At
  <2>4. ReadsFor(q)'
    BY <1>3, <2>2, <2>3
  <2>5. call'[x] = q
    BY <1>1, <2>1
  <2> QED
    BY <2>4, <2>5 DEF ReadsFor, Fresh, Live, Same
<1>5. ASSUME ~End(w) PROVE ReadsFor(call[w])'
  <2>1. PICK n :
         /\ Goes(w, n)
         /\ n.seen = call[w].seen \/ (n.seen = cart[n.cart] /\ cart' = cart)
         /\ \/ n.own = call[w].own /\ n.ownSeen = call[w].ownSeen
            \/ n.own = NoCart
            \/ n.own \in CartIds /\ n.own # n.cart /\ Owned(n.own) /\ n.ownSeen = cart[n.own] /\ cart' = cart
    BY <1>5 DEF CleanStep, Learns
  <2>2. call'[w] = n /\ n \in Requests
    BY <2>1, GoesIs
  <2>3. call[w] \in Requests /\ Good(call[w]) /\ ReadsFor(call[w])
    BY RequestType DEF CleanStep, RInv, Reads, ReadsFor
  <2>4. n.cart = call[w].cart /\ n.cart \in CartIds /\ NoCart \notin CartIds
    BY <2>1, <2>2, CartsAssumption DEF Goes, Requests
  <2>5. CASE At(w, "create")
    <3>1. call[w].seen = NoCart /\ call[w].own = NoCart
      BY <2>3, <2>5 DEF Good, Shape, At
    <3>2. n.seen = NoCart \/ (n.seen = cart[n.cart] /\ cart' = cart)
      BY <2>1, <3>1
    <3>3. n.own = NoCart \/ (n.own \in CartIds /\ n.own # n.cart /\ Owned(n.own) /\ n.ownSeen = cart[n.own] /\ cart' = cart)
      BY <2>1, <3>1
    <3>4. cart \in [CartIds -> Copies]
      BY DEF TInv, TypeOK
    <3>5. Fresh(n.cart, n.seen)'
      BY <2>4, <3>2, <3>4 DEF Fresh, Live, Same, Copies, Row
    <3>6. Fresh(n.own, n.ownSeen)'
      BY <2>4, <3>3, <3>4 DEF Fresh, Live, Same, Copies, Row
    <3>7. ReadsFor(n)'
      BY <2>4, <3>3, <3>5, <3>6 DEF ReadsFor, Owned, Live
    <3> QED
      BY <2>2, <3>7 DEF ReadsFor, Fresh, Live, Same
  <2>6. CASE ~At(w, "create")
    <3>1. \A c \in CartIds : ~Created(w, c)
      BY <2>6 DEF Created
    <3>2. PICK q \in Requests : q = call[w]
      BY <2>3
    <3>3. q.cart \in CartIds /\ (q.own \in CartIds \/ q.own = NoCart)
      BY DEF Requests
    <3>4. ReadsFor(q)'
      BY <1>3, <2>3, <2>6, <3>2 DEF Created
    <3>5. cart \in [CartIds -> Copies]
      BY DEF TInv, TypeOK
    <3>6. Fresh(n.cart, n.seen)'
      <4>1. CASE n.seen = cart[n.cart] /\ cart' = cart
        BY <2>4, <3>5, <4>1 DEF Fresh, Live, Same, Copies, Row
      <4>2. CASE n.seen = q.seen
        BY <2>4, <3>2, <3>4, <4>2 DEF ReadsFor
      <4> QED
        BY <2>1, <3>2, <4>1, <4>2
    <3>7. /\ Fresh(n.own, n.ownSeen)' /\ n.own # n.cart
          /\ n.own # NoCart /\ Live(n.own)' => cart'[n.own].owner = "customer"
      <4>1. CASE n.own = q.own /\ n.ownSeen = q.ownSeen
        BY <2>4, <3>2, <3>4, <4>1 DEF ReadsFor
      <4>2. CASE n.own = NoCart
        BY <2>4, <4>2 DEF Fresh
      <4>3. CASE n.own \in CartIds /\ n.own # n.cart /\ Owned(n.own) /\ n.ownSeen = cart[n.own] /\ cart' = cart
        BY <3>5, <4>3 DEF Fresh, Live, Same, Copies, Row, Owned
      <4> QED
        BY <2>1, <3>2, <4>1, <4>2, <4>3
    <3>8. ReadsFor(n)'
      BY <3>6, <3>7 DEF ReadsFor
    <3> QED
      BY <2>2, <3>8 DEF ReadsFor, Fresh, Live, Same
  <2> QED
    BY <2>5, <2>6
<1>6. End(w) => Free(w)'
  BY EndIs DEF Free
<1>7. ASSUME NEW x \in Callers, ~Free(x)' PROVE ReadsFor(call[x])'
  <2>1. CASE x = w
    BY <1>5, <1>6, <1>7, <2>1
  <2>2. CASE x # w
    BY <1>1, <1>4, <1>7, <2>2 DEF Free
  <2> QED
    BY <2>1, <2>2
<1> QED
  BY <1>7 DEF Reads, ReadsFor

\* A moved cart stays the visitor's, and no visitor's cart carries a marker.
LEMMA StepGuest ==
    ASSUME TInv, TInv', RInv, Clean', NEW w \in Callers, CleanStep(w)
    PROVE  \A c \in CartIds : Guest(c)'
<1> SUFFICES ASSUME NEW c \in CartIds, cart'[c] # NoCart
             PROVE  /\ c \in moved' => cart'[c].owner = "guest"
                    /\ cart'[c].owner = "guest" => cart'[c].merged = NoCart
  BY DEF Guest, Live
<1>1. RowStep(w, c) /\ Clean
  BY DEF CleanStep
<1>2. Live(c) => Guest(c) /\ cart[c] \in Row
  BY <1>1 DEF RInv, TInv, TypeOK, Copies, Live
<1>3. /\ c \in moved => cart'[c].owner = "guest"
      /\ cart'[c].owner = "guest" => cart'[c].merged = NoCart
  <2>1. CASE cart'[c] = cart[c]
    BY <1>2, <2>1 DEF Guest, Live
  <2>2. CASE Created(w, c)
    BY <2>2, CartsAssumption DEF Created, TInv, TypeOK
  <2>3. CASE ChangedRow(c)
    <3>1. Guest(c) /\ Live(c)
      BY <1>2, <2>3 DEF ChangedRow
    <3> QED
      BY <2>3, <3>1 DEF ChangedRow, Guest, Same
  <2> QED
    BY <1>1, <2>1, <2>2, <2>3 DEF RowStep
<1>4. ASSUME Merge(w), ~Stops(w), c \in moved', c \notin moved PROVE cart'[c].owner = "guest"
  <2> DEFINE g == call[w].cart  k == call[w].own
  <2>1. moved' = moved \cup {g} /\ k \in CartIds /\ \E row : SavesRow(k, row)
    BY <1>4, MergeEffect
  <2>2. g # k /\ Live(g) /\ cart[g].owner = "guest"
    BY <1>4, CleanMerge
  <2>3. c = g /\ cart'[g] = cart[g]
    BY <1>4, <2>1, <2>2, SavedEffect DEF SavesRow, TInv
  <2> QED
    BY <2>2, <2>3
<1> QED
  BY <1>3, <1>4 DEF CleanStep

\* A moved cart stays remembered: by its marker or by being out of reach.
LEMMA StepRemembered ==
    ASSUME TInv, TInv', RInv, Clean', NEW w \in Callers, ~Free(w), CleanStep(w)
    PROVE  \A g \in moved' : Remembered(g)'
<1> SUFFICES ASSUME NEW g \in moved' PROVE Remembered(g)'
  OBVIOUS
<1>0. \A u \in Callers \ {w} : call'[u] = call[u]
  BY EndIs, GoesIs DEF CleanStep, Learns
<1>1. ~Free(w)' => /\ call'[w].op = call[w].op /\ call'[w].cart = call[w].cart
                   /\ call'[w].pc \in Claiming => call[w].pc \in Claiming \/ Live(call[w].cart)
  <2>1. CASE End(w)
    BY <2>1, EndIs DEF Free
  <2>2. ASSUME NEW n, Goes(w, n), n.pc \in Claiming => call[w].pc \in Claiming \/ Live(n.cart)
        PROVE  /\ call'[w].op = call[w].op /\ call'[w].cart = call[w].cart
               /\ call'[w].pc \in Claiming => call[w].pc \in Claiming \/ Live(call[w].cart)
    BY <2>2, GoesIs DEF Goes
  <2> QED
    BY <2>1, <2>2 DEF CleanStep, Learns
<1>2. g \in Guests /\ g \in CartIds /\ g \notin Own /\ g # NoCart
  BY CartsAssumption DEF TInv, TypeOK, CartIds
<1>3. ~Live(g) => ~Live(g)'
  BY <1>2 DEF CleanStep, RowStep, Created, ChangedRow, Live
<1>4. CASE g \in moved
  <2>1. Remembered(g)
    BY <1>4 DEF RInv, CleanStep
  <2>2. ASSUME NEW k \in CartIds, Owned(k), cart[k].merged = g PROVE Remembered(g)'
    <3>1. (Owned(k)' /\ cart'[k].merged = g) \/ ~Claimable(g)
      BY <1>2, <2>2 DEF CleanStep, MarkerStep
    <3>2. CASE Owned(k)' /\ cart'[k].merged = g
      BY <3>2 DEF Remembered, Owned, Live
    <3>3. CASE ~Claimable(g)
      <4>1. ~Live(g)'
        BY <1>3, <3>3 DEF Claimable
      <4>2. ASSUME NEW x \in Callers, ~Free(x)', call'[x].cart = g, call'[x].pc \in Claiming PROVE FALSE
        <5>1. call'[x].op = "claim"
          BY <4>2 DEF TInv, Shapes, Shape, Free
        <5>2. ~Free(x) /\ call[x].op = "claim" /\ call[x].cart = g
          BY <1>0, <1>1, <4>2, <5>1 DEF Free
        <5> QED
          BY <3>3, <5>2 DEF Claimable
      <4> QED
        BY <4>1, <4>2 DEF Remembered, Free, Live
    <3> QED
      BY <3>1, <3>2, <3>3
  <2>3. CASE ~Live(g) /\ \A x \in Callers : ~Free(x) /\ call[x].cart = g => call[x].pc \notin Claiming
    <3>1. ~Live(g)'
      BY <1>3, <2>3
    <3>2. ASSUME NEW x \in Callers, ~Free(x)', call'[x].cart = g PROVE call'[x].pc \notin Claiming
      BY <1>0, <1>1, <2>3, <3>2 DEF Free
    <3> QED
      BY <3>1, <3>2 DEF Remembered, Free, Live
  <2> QED
    BY <2>1, <2>2, <2>3 DEF Remembered
<1>5. CASE g \notin moved
  <2>1. Merge(w) /\ ~Stops(w)
    BY <1>5 DEF CleanStep
  <2>2. moved' = moved \cup {call[w].cart} /\ call[w].own \in CartIds
    BY <2>1, MergeEffect
  <2>3. PICK row : SavesRow(call[w].own, row) /\ row.owner = "customer" /\ row.merged = call[w].cart
    BY <2>1, MergeEffect
  <2>4. LET k == call[w].own IN cart'[k] # NoCart /\ cart'[k].owner = "customer" /\ cart'[k].merged = call[w].cart
    BY <2>2, <2>3, SavedEffect DEF SavesRow, TInv
  <2>5. PICK k \in CartIds : cart'[k] # NoCart /\ cart'[k].owner = "customer" /\ cart'[k].merged = g
    BY <1>5, <2>2, <2>4
  <2> QED
    BY <2>5 DEF Remembered, Owned, Live
<1> QED
  BY <1>4, <1>5

\* A step of the requests that are under way, in a run that is still clean after it.
LEMMA CleanWorks ==
    ASSUME TInv, XInv, RInv, Clean', NEW w \in Callers, Working(w)
    PROVE  CleanStep(w)
<1>1. CASE Stops(w)
  <2>1. End(w) /\ UNCHANGED <<cart, moved, mishap>>
    BY <1>1, StopsIs
  <2> QED
    BY <2>1, SameRows, CleanBefore DEF CleanStep, Learns
<1>2. CASE ~Stops(w)
  BY <1>2, CleanReads, CleanWrites DEF Working, Edit, ClaimGuestCart
<1> QED
  BY <1>1, <1>2

\* RInv is inductive together with TInv and XInv.
LEMMA StepRInv == TInv /\ TInv' /\ XInv /\ RInv /\ [Next]_vars => RInv'
<1> SUFFICES ASSUME TInv, TInv', XInv, RInv, [Next]_vars, Clean'
             PROVE  (\A x \in Callers : Reads(x)') /\ (\A c \in CartIds : Guest(c)') /\ \A g \in moved' : Remembered(g)'
  BY DEF RInv
<1>1. CASE UNCHANGED vars
  BY <1>1 DEF vars, rows, history, RInv, Clean, Reads, Fresh, Same, Guest, Remembered, Owned, Free, Live
<1>2. ASSUME NEW w \in Callers,
             \/ \E op \in Edits, c \in CartIds, v \in Variants : BeginEdit(w, op, c, v)
             \/ \E c \in CartIds, v \in Variants : BeginFirst(w, c, v)
             \/ \E g \in Guests : BeginClaim(w, g)
             \/ \E c \in CartIds : BeginRecovery(w, c)
      PROVE  (\A x \in Callers : Reads(x)') /\ (\A c \in CartIds : Guest(c)') /\ \A g \in moved' : Remembered(g)'
  <2>1. UNCHANGED <<cart, moved, mishap>>
    BY <1>2, Begins
  <2>2. PICK n \in Requests :
          /\ call' = [call EXCEPT ![w] = n] /\ n.seen = NoCart /\ n.own = NoCart /\ n.ownSeen = NoCart
          /\ n.pc \in {"read", "create", "guest", "mark"}
    BY <1>2, Begins
  <2>3. call'[w] = n /\ n.cart # NoCart /\ n.pc \notin Claiming /\ \A u \in Callers \ {w} : call'[u] = call[u]
    BY <2>2, CartsAssumption DEF TInv, TypeOK, Requests, Claiming
  <2>4. Clean
    BY <2>1 DEF Clean
  <2>5. \A x \in Callers : Reads(x)'
    BY <2>1, <2>2, <2>3, <2>4 DEF RInv, Reads, Fresh, Same, Free, Live
  <2>6. \A c \in CartIds : Guest(c)'
    BY <2>1, <2>4 DEF RInv, Guest, Live
  <2>7. \A g \in moved' : Remembered(g)'
    BY <2>1, <2>3, <2>4 DEF RInv, Remembered, Owned, Free, Live
  <2> QED
    BY <2>5, <2>6, <2>7
<1>3. ASSUME NEW w \in Callers, Working(w)
      PROVE  (\A x \in Callers : Reads(x)') /\ (\A c \in CartIds : Guest(c)') /\ \A g \in moved' : Remembered(g)'
  <2>1. CleanStep(w) /\ ~Free(w)
    BY <1>3, CleanWorks, Footprint
  <2> QED
    BY <2>1, StepReads, StepGuest, StepRemembered
<1> QED
  BY <1>1, <1>2, <1>3 DEF Next, Working

------------------------------------------------------------------------------
(* Units *)

\* What a cart adds to the units of a variant.
InCart(c, v) == IF c \in Counted THEN cart[c].items[v] ELSE 0
UInv == UnitsConserved

\* What a cart adds is a number, before ...
LEMMA InCartType == TypeOK => \A c \in CartIds, v \in Variants : InCart(c, v) \in Int
<1> SUFFICES ASSUME TypeOK, NEW c \in CartIds, NEW v \in Variants PROVE InCart(c, v) \in Int
  OBVIOUS
<1>1. Live(c) => cart[c] \in Row
  BY DEF TypeOK, Live, Copies
<1> QED
  BY <1>1 DEF InCart, Counted, Row

\* ... and after a step.
LEMMA InCartNext == TypeOK' => \A c \in CartIds, v \in Variants : InCart(c, v)' \in Int
<1> SUFFICES ASSUME TypeOK', NEW c \in CartIds, NEW v \in Variants PROVE InCart(c, v)' \in Int
  OBVIOUS
<1>1. cart'[c] # NoCart => cart'[c] \in Row
  BY DEF TypeOK, Copies
<1> QED
  BY <1>1 DEF InCart, Counted, Live, Row

\* Units as a sum of what the carts add, before ...
LEMMA UnitsIs == \A v \in Variants : Units(v) = SumFunctionOnSet([c \in CartIds |-> InCart(c, v)], CartIds)
<1> SUFFICES ASSUME NEW v \in Variants PROVE Units(v) = SumFunctionOnSet([c \in CartIds |-> InCart(c, v)], CartIds)
  OBVIOUS
<1>1. DOMAIN [c \in CartIds |-> InCart(c, v)] = CartIds
  OBVIOUS
<1> QED
  BY <1>1 DEF Units, SumFunction, InCart

\* ... and after a step.
LEMMA UnitsNext == \A v \in Variants : Units(v)' = SumFunctionOnSet([c \in CartIds |-> InCart(c, v)'], CartIds)
<1> SUFFICES ASSUME NEW v \in Variants PROVE Units(v)' = SumFunctionOnSet([c \in CartIds |-> InCart(c, v)'], CartIds)
  OBVIOUS
<1>1. DOMAIN [c \in CartIds |-> InCart(c, v)'] = CartIds
  OBVIOUS
<1> QED
  BY <1>1 DEF Units, SumFunction, InCart

\* The sum stays if no cart adds more or less,
LEMMA UnitsSame ==
    ASSUME NEW v \in Variants, \A c \in CartIds : InCart(c, v)' = InCart(c, v)
    PROVE  Units(v)' = Units(v)
BY UnitsIs, UnitsNext

\* and it changes by the one or two carts that do.
LEMMA UnitsChange ==
    ASSUME TypeOK, TypeOK', NEW v \in Variants, NEW y \in CartIds, NEW z \in CartIds,
           \A c \in CartIds \ {y, z} : InCart(c, v)' = InCart(c, v)
    PROVE  /\ Units(v) \in Int
           /\ y = z => Units(v)' = Units(v) + InCart(y, v)' - InCart(y, v)
           /\ y # z => Units(v)' = Units(v) + InCart(y, v)' - InCart(y, v) + InCart(z, v)' - InCart(z, v)
<1>1. PICK f : f = [c \in CartIds |-> InCart(c, v)]
  OBVIOUS
<1>2. PICK g : g = [c \in CartIds |-> InCart(c, v)']
  OBVIOUS
<1>3. Units(v) = SumFunctionOnSet(f, CartIds) /\ Units(v)' = SumFunctionOnSet(g, CartIds)
  BY <1>1, <1>2, UnitsIs, UnitsNext
<1>4. \A c \in CartIds : f[c] = InCart(c, v) /\ g[c] = InCart(c, v)'
  BY <1>1, <1>2
<1>5. \A c \in CartIds : f[c] \in Int /\ g[c] \in Int
  <2>1. \A c \in CartIds : InCart(c, v) \in Int
    BY InCartType
  <2>2. \A c \in CartIds : InCart(c, v)' \in Int
    BY InCartNext
  <2> QED
    BY <1>4, <2>1, <2>2
<1>6. IsFiniteSet(CartIds)
  BY CartsAssumption
<1>7. \A c \in CartIds \ {y, z} : g[c] = f[c]
  BY <1>4
<1>8. SumFunctionOnSet(f, CartIds) \in Int
  BY <1>5, <1>6, SumInt
<1>9. CASE y = z
  <2>1. \A c \in CartIds \ {y} : g[c] = f[c]
    BY <1>7, <1>9
  <2>2. SumFunctionOnSet(g, CartIds) = SumFunctionOnSet(f, CartIds) + g[y] - f[y]
    BY <1>5, <1>6, <2>1, SumChange
  <2> QED
    BY <1>3, <1>4, <1>8, <1>9, <2>2
<1>10. CASE y # z
  <2>1. SumFunctionOnSet(g, CartIds) = SumFunctionOnSet(f, CartIds) + g[y] - f[y] + g[z] - f[z]
    BY <1>5, <1>6, <1>7, <1>10, SumChangeTwo
  <2> QED
    BY <1>3, <1>4, <1>8, <1>10, <2>1
<1> QED
  BY <1>9, <1>10

\* UInv holds at first.
LEMMA InitUInv == Init => UInv
<1> SUFFICES ASSUME Init, NEW v \in Variants PROVE Units(v) = want[v]
  BY DEF UInv, UnitsConserved
<1>1. PICK s \in Setups :
        cart = s.rows
        /\ want = [x \in Variants |-> SumFunction([c \in CartIds |-> IF s.rows[c] = NoCart THEN 0 ELSE s.rows[c].items[x]])]
  BY DEF Init
<1>2. moved = {}
  BY DEF Init
<1>3. [c \in CartIds |-> IF c \in Counted THEN cart[c].items[v] ELSE 0]
        = [c \in CartIds |-> IF s.rows[c] = NoCart THEN 0 ELSE s.rows[c].items[v]]
  BY <1>1, <1>2 DEF Counted, Live
<1> QED
  BY <1>1, <1>3 DEF Units

\* A cart whose row and place have not changed adds what it did.
LEMMA InCartSame ==
    ASSUME NEW c \in CartIds, NEW v \in Variants,
           \/ cart'[c] = cart[c] /\ (c \in moved' <=> c \in moved)
           \/ Live(c) /\ cart'[c] # NoCart /\ cart'[c].items = cart[c].items /\ (c \in moved' <=> c \in moved)
    PROVE  InCart(c, v)' = InCart(c, v)
BY DEF InCart, Counted, Live

\* UInv is kept: each statement changes the sum and want by the same number of units.
LEMMA StepUInv == TInv /\ TInv' /\ XInv /\ RInv /\ UInv /\ [Next]_vars => UInv'
<1> SUFFICES ASSUME TInv, TInv', XInv, RInv, UInv, [Next]_vars, Clean', NEW v \in Variants
             PROVE  Units(v)' = want'[v]
  BY DEF UInv, UnitsConserved, Clean
<1>0. TypeOK /\ TypeOK' /\ want[v] \in Int
  BY DEF TInv, TypeOK
<1>1. ASSUME cart' = cart, moved' = moved, want' = want, Clean PROVE Units(v)' = want'[v]
  <2>1. Units(v) = want[v]
    BY <1>1 DEF UInv, UnitsConserved, Clean
  <2>2. \A c \in CartIds : InCart(c, v)' = InCart(c, v)
    BY <1>1, InCartSame
  <2> QED
    BY <1>1, <2>1, <2>2, UnitsSame
<1>2. CASE UNCHANGED vars
  BY <1>1, <1>2 DEF vars, rows, history, Clean
<1>3. ASSUME NEW w \in Callers,
             \/ \E op \in Edits, c \in CartIds, x \in Variants : BeginEdit(w, op, c, x)
             \/ \E c \in CartIds, x \in Variants : BeginFirst(w, c, x)
             \/ \E g \in Guests : BeginClaim(w, g)
             \/ \E c \in CartIds : BeginRecovery(w, c)
      PROVE  Units(v)' = want'[v]
  <2>1. UNCHANGED <<cart, moved, want, mishap>>
    BY <1>3, Begins
  <2> QED
    BY <1>1, <2>1 DEF Clean
<1>4. ASSUME NEW w \in Callers, Working(w) PROVE Units(v)' = want'[v]
  <2>0. ~Free(w) /\ Clean /\ call[w].cart \in CartIds /\ NoCart \notin CartIds /\ NoCart \notin Row
    BY <1>4, CleanWorks, Footprint, CopyType, CartsAssumption DEF CleanStep
  <2>1. Units(v) = want[v]
    BY <2>0 DEF UInv, UnitsConserved, Clean
  \* One row is written.
  <2>2. ASSUME NEW c \in CartIds, \A k \in CartIds \ {c} : cart'[k] = cart[k], moved' = moved
        PROVE  Units(v) \in Int /\ Units(v)' = Units(v) + InCart(c, v)' - InCart(c, v)
    <3>1. \A k \in CartIds \ {c, c} : InCart(k, v)' = InCart(k, v)
      BY <2>2, InCartSame
    <3> QED
      BY <1>0, <3>1, UnitsChange
  <2>3. CASE Stops(w)
    BY <1>1, <2>0, <2>3, StopsIs
  <2>4. CASE ~Stops(w) /\ (ReadCart(w) \/ ReadGuest(w) \/ RereadGuest(w) \/ CheckLines(w))
    <3>1. \E n : ReadsOnly(w, n)
      BY <2>4, ReadCartEffect, ReadGuestEffect, RereadEffect, CheckLinesEffect
    <3> QED
      BY <1>1, <2>0, <3>1 DEF ReadsOnly
  <2>5. CASE ~Stops(w) /\ (FindOwn(w) \/ WriteValues(w) \/ CopyValues(w) \/ TidyAssigned(w) \/ PurgeValues(w) \/ EnqueueMail(w))
    <3>1. UNCHANGED <<cart, moved, want>>
      BY <2>5, FindOwnEffect, WriteValuesEffect, CopyValuesEffect, TidyEffect, PurgeEffect, MailEffect
    <3> QED
      BY <1>1, <2>0, <3>1
  <2>6. CASE ~Stops(w) /\ CreateCart(w)
    <3>0. PICK c \in CartIds : c = call[w].cart
      BY <2>0
    <3>1. PICK row \in Row : cart' = [cart EXCEPT ![c] = row] /\ row.items = [x \in Variants |-> 0]
      BY <3>0, <2>6, CreateEffect
    <3>2. At(w, "create") /\ UNCHANGED <<moved, want>>
      BY <3>0, <2>6, CreateEffect
    <3>3. ~Live(c)
      BY <3>0, <3>2 DEF XInv, New
    <3>4. cart'[c] = row /\ \A k \in CartIds \ {c} : cart'[k] = cart[k]
      BY <3>0, <2>0, <3>1 DEF TInv, TypeOK
    <3>5. InCart(c, v) = 0 /\ InCart(c, v)' = 0
      BY <3>0, <3>1, <3>3, <3>4 DEF InCart, Counted
    <3> QED
      BY <3>0, <2>0, <2>1, <2>2, <3>2, <3>4, <3>5
  <2>7. CASE ~Stops(w) /\ SaveEdit(w)
    <3>0. PICK c \in CartIds : c = call[w].cart
      BY <2>0
    <3> DEFINE seen == call[w].seen
    <3>1. moved' = moved
      BY <3>0, <2>7, SaveEditEffect
    <3>2. PICK row : SavesRow(c, row) /\ want' = [x \in Variants |-> want[x] + row.items[x] - seen.items[x]]
      BY <3>0, <2>7, SaveEditEffect
    <3>3. Live(c) /\ c \notin moved /\ Same(cart[c], seen)
      BY <3>0, <2>7, CleanEdit
    <3>4. cart'[c] # NoCart /\ cart'[c].items = row.items /\ \A k \in CartIds \ {c} : cart'[k] = cart[k]
      BY <3>0, <2>0, <3>2, SavedEffect DEF SavesRow, TInv
    <3>5. InCart(c, v) = seen.items[v] /\ InCart(c, v)' = row.items[v]
      BY <3>0, <2>0, <3>1, <3>3, <3>4 DEF InCart, Counted, Live, Same
    <3>6. Units(v)' = Units(v) + row.items[v] - seen.items[v]
      BY <3>0, <2>0, <2>2, <3>1, <3>4, <3>5
    <3> QED
      BY <3>0, <2>1, <3>2, <3>6
  <2>8. CASE ~Stops(w) /\ Assign(w)
    <3>0. PICK c \in CartIds : c = call[w].cart
      BY <2>0
    <3> DEFINE seen == call[w].seen
    <3>1. At(w, "assign") /\ moved' = moved /\ want' = LessDropped(w)
      BY <3>0, <2>8, AssignEffect
    <3>2. PICK row : SavesRow(c, row) /\ row.items = [x \in Variants |-> IF x \in Kept(w) THEN seen.items[x] ELSE 0]
      BY <3>0, <2>8, AssignEffect
    <3>3. Live(c) /\ c \notin moved /\ Same(cart[c], seen)
      BY <3>0, <2>8, CleanAssign
    <3>4. cart'[c] # NoCart /\ cart'[c].items = row.items /\ \A k \in CartIds \ {c} : cart'[k] = cart[k]
      BY <3>0, <2>0, <3>2, SavedEffect DEF SavesRow, TInv
    <3>5. InCart(c, v) = seen.items[v] /\ InCart(c, v)' = IF v \in Kept(w) THEN seen.items[v] ELSE 0
      BY <3>0, <2>0, <3>1, <3>2, <3>3, <3>4 DEF InCart, Counted, Live, Same
    <3>6. Units(v) \in Int /\ Units(v)' = Units(v) + (IF v \in Kept(w) THEN seen.items[v] ELSE 0) - seen.items[v]
      BY <3>0, <2>0, <2>2, <3>1, <3>4, <3>5
    <3>7. want'[v] = want[v] - (IF v \in call[w].drop THEN seen.items[v] ELSE 0)
      BY <3>0, <3>1 DEF LessDropped
    <3>8. seen.items[v] \in Nat /\ (v \in Kept(w) <=> seen.items[v] > 0 /\ v \notin call[w].drop)
      BY <3>0, <2>0, <3>1, CopyType, RequestType DEF Good, Shape, At, Claiming, Row, Kept, Lines
    <3> QED
      BY <3>0, <2>1, <3>6, <3>7, <3>8
  <2>9. CASE ~Stops(w) /\ Merge(w)
    <3>0. PICK g \in CartIds, k \in CartIds : g = call[w].cart /\ k = call[w].own
      BY <2>0, <2>9, MergeEffect
    <3> DEFINE seen == call[w].seen  own == call[w].ownSeen
               add == IF v \in Kept(w) THEN seen.items[v] ELSE 0
    <3>1. At(w, "merge") /\ moved' = moved \cup {g} /\ want' = LessDropped(w) /\ k \in CartIds
      BY <3>0, <2>9, MergeEffect
    <3>2. PICK row : /\ SavesRow(k, row)
                     /\ row.items = [x \in Variants |-> own.items[x] + (IF x \in Kept(w) THEN seen.items[x] ELSE 0)]
      BY <3>0, <2>9, MergeEffect
    <3>3. /\ g # k /\ Live(k) /\ k \notin moved /\ Same(cart[k], own)
          /\ Live(g) /\ g \notin moved /\ Same(cart[g], seen)
      BY <3>0, <2>9, CleanMerge DEF Owned
    <3>4. cart'[k] # NoCart /\ cart'[k].items = row.items /\ \A c \in CartIds \ {k} : cart'[c] = cart[c]
      BY <3>0, <3>1, <3>2, SavedEffect DEF SavesRow, TInv
    <3>5. InCart(k, v) = own.items[v] /\ InCart(k, v)' = own.items[v] + add
      BY <3>0, <3>1, <3>2, <3>3, <3>4 DEF InCart, Counted, Live, Same
    <3>6. InCart(g, v) = seen.items[v] /\ InCart(g, v)' = 0
      BY <3>0, <2>0, <3>1, <3>3 DEF InCart, Counted, Live, Same
    <3>7. \A c \in CartIds \ {k, g} : InCart(c, v)' = InCart(c, v)
      BY <3>0, <3>1, <3>4, InCartSame
    <3>8. Units(v) \in Int /\ Units(v)' = Units(v) + (own.items[v] + add) - own.items[v] + 0 - seen.items[v]
      BY ZenonT(30), <3>0, <1>0, <2>0, <3>1, <3>3, <3>5, <3>6, <3>7, UnitsChange
    <3>9. want'[v] = want[v] - (IF v \in call[w].drop THEN seen.items[v] ELSE 0)
      BY <3>0, <3>1 DEF LessDropped
    <3>10. /\ seen.items[v] \in Nat /\ own.items[v] \in Nat
           /\ v \in Kept(w) <=> seen.items[v] > 0 /\ v \notin call[w].drop
      BY <3>0, <2>0, <3>1, CopyType, RequestType DEF Good, Shape, At, Claiming, Row, Kept, Lines
    <3> QED
      BY <3>0, <2>1, <3>8, <3>9, <3>10
  <2>10. CASE ~Stops(w) /\ DeleteEmpty(w)
    <3>1. UNCHANGED <<moved, want>>
      BY <2>10, DeleteEmptyEffect
    <3>2. PICK c \in CartIds : cart' = Deleted(c) /\ (Live(c) => Lines(cart[c]) = {})
      BY <2>10, CleanDelete
    <3>3. cart'[c] = NoCart /\ \A k \in CartIds \ {c} : cart'[k] = cart[k]
      BY <3>2 DEF Deleted, TInv, TypeOK
    <3>4. Live(c) => cart[c].items[v] = 0
      <4>1. Live(c) => cart[c] \in Row
        BY DEF TInv, TypeOK, Live, Copies
      <4> QED
        BY <3>2, <4>1 DEF Lines, Row
    <3>5. InCart(c, v) = 0 /\ InCart(c, v)' = 0
      BY <3>3, <3>4 DEF InCart, Counted, Live
    <3> QED
      BY <2>1, <2>2, <3>1, <3>3, <3>5
  <2>11. CASE ~Stops(w) /\ DeleteMerged(w)
    <3>0. PICK c \in CartIds : c = call[w].cart
      BY <2>0
    <3>1. At(w, "delete") /\ UNCHANGED <<moved, want>> /\ cart' = Deleted(c)
      BY <3>0, <2>11, DeleteMergedEffect
    <3>2. cart'[c] = NoCart /\ \A k \in CartIds \ {c} : cart'[k] = cart[k]
      BY <3>0, <2>0, <3>1 DEF Deleted, TInv, TypeOK
    <3>3. c \in moved
      BY <3>0, <2>0, <3>1, RequestType DEF Good, Shape, At, Cleaning
    <3>4. InCart(c, v) = 0 /\ InCart(c, v)' = 0
      BY <3>0, <3>1, <3>3 DEF InCart, Counted
    <3> QED
      BY <3>0, <2>0, <2>1, <2>2, <3>1, <3>2, <3>4
  <2>12. CASE ~Stops(w) /\ MarkRecoveryEmailSent(w)
    <3> DEFINE c == call[w].cart
    <3>1. /\ Live(c) /\ UNCHANGED <<moved, want>> /\ cart'[c] \in Row /\ cart'[c].items = cart[c].items
          /\ \A k \in CartIds \ {c} : cart'[k] = cart[k]
      BY <2>12, MarkEffect DEF Markable, Same
    <3>2. \A k \in CartIds : InCart(k, v)' = InCart(k, v)
      BY <2>0, <3>1, InCartSame
    <3> QED
      BY <2>1, <3>1, <3>2, UnitsSame
  <2> QED
    BY <1>4, <2>3, <2>4, <2>5, <2>6, <2>7, <2>8, <2>9, <2>10, <2>11, <2>12 DEF Working, Edit, ClaimGuestCart
<1> QED
  BY <1>2, <1>3, <1>4 DEF Next, Working

\* Units are in exactly one cart until they are taken out or dropped, for any number of
\* carts and of edits, claims and retries that cross, unless a crossing that the code is
\* known to lose has been noted.
THEOREM UnitsCorrect == Spec => []UnitsConserved
<1>1. Spec => [](TInv /\ XInv /\ RInv /\ UInv)
  BY InitTInv, StepTInv, InitXInv, StepXInv, InitRInv, StepRInv, InitUInv, StepUInv, PTL DEF Spec
<1>2. UInv => UnitsConserved
  BY DEF UInv
<1> QED
  BY <1>1, <1>2, PTL

------------------------------------------------------------------------------
(* Custom values *)

\* VInv holds at first.
LEMMA InitVInv == Init => VInv
BY DEF Init, VInv, Followed, Following, At, Free

\* Following(w), for a request q.
FollowingFor(q) ==
    Live(q.own) /\ Live(q.cart) /\ q.cart \notin moved /\ cart[q.cart].ver = q.seen.ver =>
        \A v \in Lines(q.seen) \ q.drop : <<q.cart, v>> \in given => <<q.own, v>> \in values

\* Following in terms of the request.
LEMMA FollowingIs == \A w \in Callers : Following(w) <=> (At(w, "merge") => FollowingFor(call[w]))
BY DEF Following, FollowingFor, Kept

\* A merge that is about to be saved still finds its copies, whatever another caller does.
LEMMA FollowKept ==
    ASSUME TInv, XInv, RInv, NEW w \in Callers, CleanStep(w), moved \subseteq moved',
           NEW x \in Callers \ {w}, At(x, "merge"), NEW q, q = call[x], FollowingFor(q),
           \A v \in Variants : <<q.cart, v>> \in given' => <<q.cart, v>> \in given \/ cart'[q.cart].ver = cart[q.cart].ver + 1,
           Live(q.own) => \A v \in Variants : <<q.own, v>> \in values => <<q.own, v>> \in values'
    PROVE  FollowingFor(q)'
<1>1. ~Free(x) /\ q \in Requests /\ Good(q) /\ NoCart \notin CartIds
  BY RequestType, CartsAssumption DEF At
<1>2. q.cart \in CartIds /\ q.own \in CartIds /\ q.seen \in Row /\ q.seen.ver \in Nat
  BY <1>1, CopyType DEF At, Good, Shape, Claiming, Row
<1>3. ~Created(w, q.cart) /\ ~Created(w, q.own)
  BY <1>1 DEF Created, XInv, New, At
<1>4. Fresh(q.cart, q.seen)
  BY <1>1 DEF CleanStep, RInv, Reads
<1> SUFFICES ASSUME cart'[q.own] # NoCart, cart'[q.cart] # NoCart, q.cart \notin moved', cart'[q.cart].ver = q.seen.ver,
                    NEW v \in Lines(q.seen) \ q.drop, <<q.cart, v>> \in given'
             PROVE  <<q.own, v>> \in values'
  BY DEF FollowingFor, Live, Lines
<1>5. Live(q.own) /\ Live(q.cart) /\ q.cart \notin moved
  BY <1>2, <1>3 DEF CleanStep, RowStep, ChangedRow, Live
<1>6. cart[q.cart].ver \in Nat /\ q.seen.ver <= cart[q.cart].ver
  BY <1>2, <1>4, <1>5, CartsAssumption DEF Fresh, TInv, TypeOK, Copies, Row, Live
<1>7. cart'[q.cart].ver # cart[q.cart].ver + 1
  BY <1>2, <1>6
<1>8. cart[q.cart].ver = q.seen.ver
  BY <1>2, <1>3, <1>5, <1>7 DEF CleanStep, RowStep, ChangedRow, Live
<1>9. v \in Variants
  BY DEF Lines
<1>10. <<q.cart, v>> \in given
  BY <1>7, <1>9
<1>11. <<q.own, v>> \in values
  BY <1>5, <1>8, <1>10 DEF FollowingFor
<1> QED
  BY <1>5, <1>9, <1>11

\* Mishaps are only added.
LEMMA MishapGrows ==
    ASSUME TInv, NEW w \in Callers, Working(w)
    PROVE  mishap \subseteq mishap'
<1>1. CASE Stops(w)
  BY <1>1, StopsIs
<1>2. CASE ~Stops(w) /\ ~MarkRecoveryEmailSent(w) /\ ~EnqueueMail(w)
  BY <1>2, MarkFrame
<1>3. CASE ~Stops(w) /\ (MarkRecoveryEmailSent(w) \/ EnqueueMail(w))
  BY <1>3, MarkEffect, MailEffect
<1> QED
  BY <1>1, <1>2, <1>3

\* VInv is kept: a merge saves only lines whose values it has copied, and a cleanup only
\* deletes values of lines that were dropped or moved.
LEMMA StepVInv == TInv /\ TInv' /\ XInv /\ RInv /\ VInv /\ [Next]_vars => VInv'
<1> SUFFICES ASSUME TInv, TInv', XInv, RInv, VInv, [Next]_vars, mishap' = {}
             PROVE  Followed' /\ \A x \in Callers : Following(x)'
  BY DEF VInv
<1>0. Clean'
  BY DEF Clean
<1>1. CASE UNCHANGED vars
  BY <1>1 DEF vars, rows, history, VInv, Followed, Following, Kept, Lines, At, Free, Live
<1>2. ASSUME NEW w \in Callers,
             \/ \E op \in Edits, c \in CartIds, v \in Variants : BeginEdit(w, op, c, v)
             \/ \E c \in CartIds, v \in Variants : BeginFirst(w, c, v)
             \/ \E g \in Guests : BeginClaim(w, g)
             \/ \E c \in CartIds : BeginRecovery(w, c)
      PROVE  Followed' /\ \A x \in Callers : Following(x)'
  <2>1. UNCHANGED <<cart, values, given, moved, mishap>>
    BY <1>2, Begins
  <2>2. PICK n \in Requests : call' = [call EXCEPT ![w] = n] /\ n.pc # "merge"
    BY <1>2, Begins
  <2>3. \A x \in Callers : At(x, "merge")' => At(x, "merge") /\ call'[x] = call[x]
    BY <2>2 DEF TInv, TypeOK, At, Free
  <2> QED
    BY <2>1, <2>3 DEF VInv, Followed, Following, Kept, Lines, Live
<1>3. ASSUME NEW w \in Callers, Working(w) PROVE Followed' /\ \A x \in Callers : Following(x)'
  <2>0. CleanStep(w) /\ ~Free(w) /\ call[w].cart \in CartIds /\ call[w].own \in CartIds \cup {NoCart}
    BY <1>0, <1>3, CleanWorks, Footprint, CopyType
  <2>1. mishap \subseteq mishap' /\ moved \subseteq moved'
    <3>1. mishap \subseteq mishap'
      BY <1>3, MishapGrows
    <3>2. moved \subseteq moved'
      BY <2>0, MergeEffect DEF CleanStep
    <3> QED
      BY <3>1, <3>2
  <2>2. Followed /\ \A x \in Callers : Following(x)
    BY <2>1 DEF VInv
  <2>3. \A u \in Callers \ {w} : call'[u] = call[u]
    BY <2>0, EndIs, GoesIs DEF CleanStep, Learns
  \* The merges of others.
  <2>4. ASSUME NEW x \in Callers \ {w}, At(x, "merge")',
               LET q == call[x] IN
               /\ \A v \in Variants : <<q.cart, v>> \in given' => <<q.cart, v>> \in given \/ cart'[q.cart].ver = cart[q.cart].ver + 1
               /\ Live(q.own) => \A v \in Variants : <<q.own, v>> \in values => <<q.own, v>> \in values'
        PROVE  Following(x)'
    <3>1. At(x, "merge")
      BY <2>3, <2>4 DEF At, Free
    <3>2. PICK q : q = call[x]
      OBVIOUS
    <3>3. FollowingFor(q)
      BY <2>2, <3>1, <3>2, FollowingIs
    <3>4. FollowingFor(q)'
      BY <2>0, <2>1, <2>4, <3>1, <3>2, <3>3, FollowKept
    <3>5. call'[x] = q
      BY <2>3, <3>2
    <3> QED
      BY <3>4, <3>5 DEF Following, FollowingFor, Kept, Lines, Live
  <2>5. ASSUME UNCHANGED <<values, given>>, End(w) \/ \E n : Goes(w, n) /\ n.pc # "merge"
        PROVE  Followed' /\ \A x \in Callers : Following(x)'
    <3>1. Followed'
      BY <2>1, <2>2, <2>5 DEF Followed
    <3>2. ~At(w, "merge")'
      BY <2>5, EndIs, GoesIs DEF At, Free
    <3>3. ASSUME NEW x \in Callers PROVE Following(x)'
      <4>1. CASE ~At(x, "merge")'
        BY <4>1 DEF Following
      <4>2. CASE At(x, "merge")'
        BY <2>4, <2>5, <3>2, <4>2
      <4> QED
        BY <4>1, <4>2
    <3> QED
      BY <3>1, <3>3
  <2>6. CASE Stops(w)
    BY <2>5, <2>6, StopsIs
  <2>7. CASE ~Stops(w) /\ (ReadCart(w) \/ ReadGuest(w) \/ RereadGuest(w) \/ CheckLines(w))
    <3>1. \E n : ReadsOnly(w, n) /\ n.pc # "merge"
      BY <2>7, ReadCartEffect, ReadGuestEffect, RereadEffect, CheckLinesEffect
    <3> QED
      BY <2>5, <3>1 DEF ReadsOnly
  <2>8. CASE ~Stops(w) /\ (FindOwn(w) \/ CreateCart(w) \/ DeleteEmpty(w) \/ EnqueueMail(w))
    <3>1. UNCHANGED <<values, given>> /\ (End(w) \/ \E n : Goes(w, n) /\ n.pc # "merge")
      BY <2>8, FindOwnEffect, CreateEffect, DeleteEmptyEffect, MailEffect DEF ReadsOnly
    <3> QED
      BY <2>5, <3>1
  <2>9. CASE ~Stops(w) /\ (SaveEdit(w) \/ DeleteMerged(w) \/ MarkRecoveryEmailSent(w))
    <3>1. UNCHANGED <<values, given>> /\ (End(w) \/ \E n : Goes(w, n) /\ n.pc # "merge")
      BY <2>9, SaveEditEffect, DeleteMergedEffect, MarkEffect DEF SavesRow
    <3> QED
      BY <2>5, <3>1
  <2>10. CASE ~Stops(w) /\ WriteValues(w)
    <3> DEFINE line == <<call[w].cart, call[w].variant>>
    <3>1. cart' = cart /\ moved' = moved /\ \E n : Goes(w, n) /\ n.pc = "save"
      BY <2>10, WriteValuesEffect
    <3>2. ~At(w, "merge")'
      BY <3>1, GoesIs DEF At
    <3>3. CASE /\ values' = values \cup {line} /\ given' = given \cup {line}
               /\ Note({m \in {"late"} : \E u \in Callers \ {w} : At(u, "merge") /\ call[u].cart = call[w].cart})
      <4>1. ~ \E u \in Callers \ {w} : At(u, "merge") /\ call[u].cart = call[w].cart
        BY <3>3 DEF Note
      <4>2. Followed'
        BY <2>2, <3>1, <3>3 DEF Followed
      <4>3. ASSUME NEW x \in Callers \ {w}, At(x, "merge")' PROVE Following(x)'
        <5>1. At(x, "merge")
          BY <2>3, <4>3 DEF At, Free
        <5>2. call[x].cart # call[w].cart
          BY <4>1, <5>1
        <5>3. \A v \in Variants : <<call[x].cart, v>> \in given' => <<call[x].cart, v>> \in given
          BY <3>3, <5>2
        <5>4. \A v \in Variants : <<call[x].own, v>> \in values => <<call[x].own, v>> \in values'
          BY <3>3
        <5> QED
          BY <2>4, <4>3, <5>3, <5>4
      <4> QED
        BY <3>2, <4>2, <4>3 DEF Following
    <3>4. CASE /\ values' = values \ {line} /\ given' = given \ {line}
               /\ Note({m \in {"purged"} : \E u \in Callers \ {w} : ~Free(u) /\ call[u].own = call[w].cart})
      <4>1. ~ \E u \in Callers \ {w} : ~Free(u) /\ call[u].own = call[w].cart
        BY <3>4 DEF Note
      <4>2. Followed'
        BY <2>2, <3>1, <3>4 DEF Followed
      <4>3. ASSUME NEW x \in Callers \ {w}, At(x, "merge")' PROVE Following(x)'
        <5>1. At(x, "merge") /\ ~Free(x)
          BY <2>3, <4>3 DEF At, Free
        <5>2. call[x].own # call[w].cart
          BY <4>1, <5>1
        <5>3. \A v \in Variants : <<call[x].cart, v>> \in given' => <<call[x].cart, v>> \in given
          BY <3>4
        <5>4. \A v \in Variants : <<call[x].own, v>> \in values => <<call[x].own, v>> \in values'
          BY <3>4, <5>2
        <5> QED
          BY <2>4, <4>3, <5>3, <5>4
      <4> QED
        BY <3>2, <4>2, <4>3 DEF Following
    <3> QED
      BY <2>10, <3>3, <3>4, WriteValuesEffect
  <2>11. CASE ~Stops(w) /\ CopyValues(w)
    <3>1. UNCHANGED <<cart, given, moved>> /\ values \subseteq values'
      BY <2>11, CopyValuesEffect
    <3>2. Followed'
      BY <2>2, <3>1 DEF Followed
    <3>3. ASSUME NEW x \in Callers \ {w}, At(x, "merge")' PROVE Following(x)'
      BY <2>4, <3>1, <3>3
    <3>4. CASE End(w)
      BY <3>2, <3>3, <3>4, EndIs DEF Following, At, Free
    <3>5. ASSUME NEW n, Goes(w, n), Keeps(w, n), \A v \in Kept(w) : <<call[w].cart, v>> \in values => <<call[w].own, v>> \in values'
          PROVE  Following(w)'
      <4>1. call'[w] = n
        BY <3>5, GoesIs
      <4>2. \A v \in Kept(w) : v \in Variants /\ (call[w].cart \notin moved /\ <<call[w].cart, v>> \in given => <<call[w].cart, v>> \in values)
        BY <2>0, <2>2 DEF Followed, Kept, Lines
      <4>3. FollowingFor(n)'
        BY <3>1, <3>5, <4>2 DEF FollowingFor, Goes, Keeps, Kept, Lines
      <4> QED
        BY <4>1, <4>3 DEF Following, FollowingFor, Kept, Lines, Live
    <3> QED
      BY <2>11, <3>2, <3>3, <3>4, <3>5, CopyValuesEffect DEF Following
  <2>12. CASE ~Stops(w) /\ Assign(w)
    <3>1. moved' = moved /\ values' = values /\ given' \subseteq given /\ (End(w) \/ \E n : Goes(w, n) /\ n.pc = "tidy")
      BY <2>12, AssignEffect DEF SavesRow
    <3>2. Followed'
      BY <2>2, <3>1 DEF Followed
    <3>3. ~At(w, "merge")'
      BY <3>1, EndIs, GoesIs DEF At, Free
    <3>4. ASSUME NEW x \in Callers \ {w}, At(x, "merge")' PROVE Following(x)'
      BY <2>4, <3>1, <3>4
    <3> QED
      BY <3>2, <3>3, <3>4 DEF Following
  <2>13. CASE ~Stops(w) /\ Merge(w)
    <3>0. PICK g, k : g = call[w].cart /\ k = call[w].own
      OBVIOUS
    <3> DEFINE new == {<<k, v>> : v \in {u \in Kept(w) : <<g, u>> \in given}}
    <3>1. /\ At(w, "merge") /\ moved' = moved \cup {g} /\ given' = given \cup new /\ k \in CartIds
          /\ End(w) \/ \E n : Goes(w, n) /\ n.pc = "reread"
      BY ZenonT(30), <2>13, <3>0, MergeEffect
    <3>2. PICK row : SavesRow(k, row)
      BY <2>13, <3>0, MergeEffect
    <3>3. Live(k) /\ Live(g) /\ g \notin moved /\ cart[g].ver = call[w].seen.ver
      BY <1>0, <2>13, <3>0, CleanMerge DEF Owned
    <3>4. values' = values /\ cart'[k].ver = cart[k].ver + 1
      BY <3>1, <3>2, <3>3, SavedEffect DEF SavesRow, TInv
    <3>5. new \subseteq values
      BY <2>2, <3>0, <3>1, <3>3 DEF Following
    <3>6. \A c, v : <<c, v>> \in new => c = k
      OBVIOUS
    <3> HIDE DEF new
    <3>7. Followed'
      BY <2>2, <3>1, <3>4, <3>5 DEF Followed
    <3>8. ~At(w, "merge")'
      BY <3>1, EndIs, GoesIs DEF At, Free
    <3>9. ASSUME NEW x \in Callers \ {w}, At(x, "merge")' PROVE Following(x)'
      <4>1. \A v \in Variants : <<call[x].cart, v>> \in given' =>
                <<call[x].cart, v>> \in given \/ cart'[call[x].cart].ver = cart[call[x].cart].ver + 1
        BY <3>1, <3>4, <3>6
      <4> QED
        BY <2>4, <3>4, <3>9, <4>1
    <3> QED
      BY <3>7, <3>8, <3>9 DEF Following
  <2>14. CASE ~Stops(w) /\ TidyAssigned(w)
    <3>1. PICK done \in SUBSET Variants :
            /\ values' = values \ ({call[w].cart} \X done)
            /\ Note({m \in {"purged"} : \/ ({call[w].cart} \X done) \cap given # {}
                                        \/ \E u \in Callers \ {w} : ~Free(u) /\ call[u].own = call[w].cart})
      BY <2>14, TidyEffect
    <3>2. ({call[w].cart} \X done) \cap given = {} /\ ~ \E u \in Callers \ {w} : ~Free(u) /\ call[u].own = call[w].cart
      BY <3>1 DEF Note
    <3>3. End(w) /\ UNCHANGED <<cart, given, moved>>
      BY <2>14, TidyEffect
    <3>4. Followed'
      BY <2>2, <3>1, <3>2, <3>3 DEF Followed
    <3>5. ~At(w, "merge")'
      BY <3>3, EndIs DEF At, Free
    <3>6. ASSUME NEW x \in Callers \ {w}, At(x, "merge")' PROVE Following(x)'
      <4>1. At(x, "merge") /\ ~Free(x)
        BY <2>3, <3>6 DEF At, Free
      <4>2. call[x].own # call[w].cart
        BY <3>2, <4>1
      <4>3. \A v \in Variants : <<call[x].own, v>> \in values => <<call[x].own, v>> \in values'
        BY <3>1, <4>2
      <4> QED
        BY <2>4, <3>3, <3>6, <4>3
    <3> QED
      BY <3>4, <3>5, <3>6 DEF Following
  <2>15. CASE ~Stops(w) /\ PurgeValues(w)
    <3>1. PICK done \in SUBSET Variants : values' = values \ ({call[w].cart} \X done)
      BY <2>15, PurgeEffect
    <3>2. At(w, "purge") /\ UNCHANGED <<cart, given, moved>> /\ (End(w) \/ \E n : Goes(w, n) /\ n.pc = "delete")
      BY <2>15, PurgeEffect
    <3>3. call[w].cart \in moved
      BY <2>0, <3>2, RequestType DEF Good, Shape, At, Cleaning
    <3>4. Followed'
      BY <2>2, <3>1, <3>2, <3>3 DEF Followed
    <3>5. ~At(w, "merge")'
      BY <3>2, EndIs, GoesIs DEF At, Free
    <3>6. ASSUME NEW x \in Callers \ {w}, At(x, "merge")' PROVE Following(x)'
      <4>1. At(x, "merge") /\ ~Free(x)
        BY <2>3, <3>6 DEF At, Free
      <4>2. call[x].own \in CartIds /\ call[x].own # NoCart /\ (Live(call[x].own) => cart[call[x].own].owner = "customer")
        BY <2>0, <4>1, CopyType, RequestType DEF Good, Shape, At, CleanStep, RInv, Reads
      <4>3. Live(call[x].own) => call[x].own # call[w].cart
        BY <2>0, <3>3, <4>2 DEF CleanStep, RInv, Guest
      <4>4. Live(call[x].own) => \A v \in Variants : <<call[x].own, v>> \in values => <<call[x].own, v>> \in values'
        BY <3>1, <4>3
      <4> QED
        BY <2>4, <3>2, <3>6, <4>4
    <3> QED
      BY <3>4, <3>5, <3>6 DEF Following
  <2> QED
    BY <1>3, <2>6, <2>7, <2>8, <2>9, <2>10, <2>11, <2>12, <2>13, <2>14, <2>15 DEF Working, Edit, ClaimGuestCart
<1> QED
  BY <1>1, <1>2, <1>3 DEF Next, Working

\* A line keeps the custom values it was given through any claim that assigns or merges
\* its cart, fails or is repeated, unless a mishap has been noted.
THEOREM ValuesCorrect == Spec => []ValuesFollowLine
<1>1. Spec => [](TInv /\ XInv /\ RInv /\ VInv)
  BY InitTInv, StepTInv, InitXInv, StepXInv, InitRInv, StepRInv, InitVInv, StepVInv, PTL DEF Spec
<1>2. TInv /\ VInv => ValuesFollowLine
  BY DEF VInv, Followed, ValuesFollowLine, Counted, Lines
<1> QED
  BY <1>1, <1>2, PTL
==============================================================================
