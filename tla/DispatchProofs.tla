--------------------------- MODULE DispatchProofs ----------------------------
(***************************************************************************)
(* Theorems of Dispatch.                                                    *)
(***************************************************************************)
EXTENDS Dispatch, SumTheorems, SequenceTheorems

------------------------------------------------------------------------------
(* Counting *)

One(p) == IF p THEN 1 ELSE 0
Count(s, j) == Cardinality({i \in DOMAIN s : s[i] = j})

\* The number of elements when only w may have come or gone.
LEMMA CardinalityChange ==
    ASSUME NEW S, NEW T, NEW w, IsFiniteSet(S), S \ {w} = T \ {w}
    PROVE  /\ IsFiniteSet(T) /\ Cardinality(S) \in Nat /\ Cardinality(T) \in Nat
           /\ Cardinality(T) = Cardinality(S) - One(w \in S) + One(w \in T)
<1>1. IsFiniteSet(S \ {w}) /\ Cardinality(S \ {w}) = Cardinality(S) - One(w \in S) /\ Cardinality(S) \in Nat
  BY FS_RemoveElement, FS_CardinalityType DEF One
<1>2. CASE w \in T
  <2>1. T = (S \ {w}) \cup {w} /\ w \notin S \ {w}
    BY <1>2
  <2>2. IsFiniteSet((S \ {w}) \cup {w}) /\ Cardinality((S \ {w}) \cup {w}) = Cardinality(S \ {w}) + 1
    BY <1>1, FS_AddElement
  <2> QED
    BY <1>1, <1>2, <2>1, <2>2, FS_CardinalityType DEF One
<1>3. CASE w \notin T
  <2>1. T = S \ {w}
    BY <1>3
  <2> QED
    BY <1>1, <1>3, <2>1, FS_CardinalityType DEF One
<1> QED
  BY <1>2, <1>3

\* What Min of the community module FiniteSetsExt returns for a finite set.
LEMMA MinExists ==
    ASSUME NEW S \in SUBSET Nat, IsFiniteSet(S), S # {}
    PROVE  Min(S) \in S /\ \A x \in S : Min(S) <= x
<1> DEFINE P == {T \in SUBSET S : T = {} \/ \E m \in T : \A x \in T : m <= x}
<1>1. ASSUME NEW T \in SUBSET S, \A x \in T : T \ {x} \in P
      PROVE  T \in P
  <2>1. CASE T = {}
    BY <2>1
  <2>2. CASE T # {}
    <3>1. PICK x \in T : TRUE
      BY <2>2
    <3>2. CASE T \ {x} = {}
      <4>1. \A y \in T : x <= y
        BY <3>1, <3>2
      <4> QED
        BY <3>1, <4>1
    <3>3. CASE T \ {x} # {}
      <4>1. PICK m \in T \ {x} : \A y \in T \ {x} : m <= y
        BY <1>1, <3>1, <3>3
      <4>2. \/ \A y \in T : m <= y
            \/ \A y \in T : x <= y
        BY <3>1, <4>1
      <4> QED
        BY <3>1, <4>1, <4>2
    <3> QED
      BY <3>2, <3>3
  <2> QED
    BY <2>1, <2>2
<1>2. S \in P
  <2> HIDE DEF P
  <2> QED
    BY <1>1, SetInduction
<1> QED
  BY <1>2 DEF Min

\* An element counts in two sequences as often as in one after the other.
LEMMA CountConcat ==
    ASSUME NEW U, NEW a \in Seq(U), NEW b \in Seq(U), NEW j
    PROVE  /\ Count(a, j) \in Nat /\ Count(b, j) \in Nat
           /\ Count(a \o b, j) = Count(a, j) + Count(b, j)
<1> DEFINE A == {i \in DOMAIN a : a[i] = j}
           B == {i \in DOMAIN b : b[i] = j}
           C == {i \in DOMAIN (a \o b) : (a \o b)[i] = j}
           D == {i \in C : i > Len(a)}
           f == [i \in B |-> i + Len(a)]
<1>1. /\ DOMAIN a = 1..Len(a) /\ DOMAIN b = 1..Len(b) /\ Len(a) \in Nat /\ Len(b) \in Nat
      /\ DOMAIN (a \o b) = 1..(Len(a) + Len(b))
      /\ \A i \in 1..(Len(a) + Len(b)) : (a \o b)[i] = IF i <= Len(a) THEN a[i] ELSE b[i - Len(a)]
  OBVIOUS
<1>2. IsFiniteSet(A) /\ IsFiniteSet(B) /\ IsFiniteSet(C) /\ IsFiniteSet(D)
  <2>1. IsFiniteSet(1..Len(a)) /\ IsFiniteSet(1..Len(b)) /\ IsFiniteSet(1..(Len(a) + Len(b)))
    BY <1>1, FS_Interval
  <2>2. A \subseteq 1..Len(a) /\ B \subseteq 1..Len(b) /\ C \subseteq 1..(Len(a) + Len(b)) /\ D \subseteq C
    BY <1>1
  <2> HIDE DEF A, B, C, D
  <2> QED
    BY <2>1, <2>2, FS_Subset
<1>3. f \in Bijection(B, D)
  <2>1. f \in [B -> D]
    BY <1>1
  <2>2. \A x, y \in B : f[x] = f[y] => x = y
    BY <1>1
  <2>3. \A d \in D : d - Len(a) \in B /\ f[d - Len(a)] = d
    BY <1>1
  <2> HIDE DEF B, D, f
  <2> QED
    <3>1. f \in Injection(B, D)
      BY <2>1, <2>2 DEF Injection, IsInjective
    <3>2. f \in Surjection(B, D)
      BY <2>1, <2>3 DEF Surjection
    <3> QED
      BY <3>1, <3>2 DEF Bijection
<1>4. Cardinality(D) = Cardinality(B)
  <2> HIDE DEF B, D, f
  <2> QED
    BY <1>2, <1>3, FS_Bijection DEF ExistsBijection
<1>5. C = A \cup D /\ A \cap D = {}
  BY <1>1
<1>6. Cardinality(C) = Cardinality(A) + Cardinality(D)
  <2>1. Cardinality(A \cap D) = 0
    BY <1>5, FS_EmptySet
  <2> HIDE DEF A, D, C
  <2>2. Cardinality(A \cup D) = Cardinality(A) + Cardinality(D) - Cardinality(A \cap D)
    BY <1>2, FS_Union
  <2>3. Cardinality(A) \in Nat /\ Cardinality(D) \in Nat
    BY <1>2, FS_CardinalityType
  <2> QED
    BY <1>5, <2>1, <2>2, <2>3
<1> QED
  <2> HIDE DEF A, B, C, D
  <2>1. Cardinality(A) \in Nat /\ Cardinality(B) \in Nat
    BY <1>2, FS_CardinalityType
  <2>2. Count(a, j) = Cardinality(A) /\ Count(b, j) = Cardinality(B) /\ Count(a \o b, j) = Cardinality(C)
    BY DEF Count, A, B, C
  <2> QED
    BY <1>4, <1>6, <2>1, <2>2

\* LPUSH adds one.
LEMMA CountPush ==
    ASSUME NEW U, NEW s \in Seq(U), NEW k \in U, NEW j
    PROVE  /\ <<k>> \o s \in Seq(U)
           /\ Count(s, j) \in Nat /\ Count(<<k>> \o s, j) \in Nat
           /\ Count(<<k>> \o s, j) = Count(s, j) + One(k = j)
<1>1. <<k>> \in Seq(U)
  OBVIOUS
<1>2. Count(<<k>>, j) = One(k = j)
  <2>1. CASE k = j
    <3>1. {i \in DOMAIN <<k>> : <<k>>[i] = j} = {1}
      BY <2>1
    <3> QED
      BY <2>1, <3>1, FS_Singleton DEF Count, One
  <2>2. CASE k # j
    <3>1. {i \in DOMAIN <<k>> : <<k>>[i] = j} = {}
      BY <2>2
    <3> QED
      BY <2>2, <3>1, FS_EmptySet DEF Count, One
  <2> QED
    BY <2>1, <2>2
<1>3. Count(<<k>> \o s, j) = Count(<<k>>, j) + Count(s, j) /\ Count(s, j) \in Nat
  BY <1>1, CountConcat
<1>4. <<k>> \o s \in Seq(U)
  BY <1>1
<1> QED
  BY <1>2, <1>3, <1>4 DEF One

\* RPOPLPUSH takes the last one.
LEMMA CountPop ==
    ASSUME NEW U, NEW s \in Seq(U), s # <<>>, NEW j
    PROVE  /\ Front(s) \in Seq(U) /\ Last(s) \in U
           /\ Count(s, j) \in Nat /\ Count(Front(s), j) \in Nat
           /\ Count(Front(s), j) = Count(s, j) - One(Last(s) = j)
<1> DEFINE S == {i \in DOMAIN s : s[i] = j}
           T == {i \in DOMAIN Front(s) : Front(s)[i] = j}
<1>1. Len(s) \in Nat /\ Len(s) > 0 /\ DOMAIN s = 1..Len(s)
  OBVIOUS
<1>2. Last(s) \in U
  BY <1>1 DEF Last
<1>3. Front(s) \in Seq(U) /\ DOMAIN Front(s) = 1..(Len(s) - 1) /\ \A i \in 1..(Len(s) - 1) : Front(s)[i] = s[i]
  BY <1>1 DEF Front
<1>4. S \ {Len(s)} = T \ {Len(s)} /\ (Len(s) \in S <=> Last(s) = j) /\ Len(s) \notin T
  BY <1>1, <1>3 DEF Last
<1>5. IsFiniteSet(S)
  <2>1. IsFiniteSet(1..Len(s)) /\ S \subseteq 1..Len(s)
    BY <1>1, FS_Interval
  <2> HIDE DEF S
  <2> QED
    BY <2>1, FS_Subset
<1>6. Cardinality(S) \in Nat /\ Cardinality(T) \in Nat /\ Cardinality(T) = Cardinality(S) - One(Len(s) \in S) + One(Len(s) \in T)
  <2> HIDE DEF S, T
  <2> QED
    BY <1>4, <1>5, CardinalityChange
<1>7. Count(s, j) = Cardinality(S) /\ Count(Front(s), j) = Cardinality(T)
  BY DEF Count
<1> QED
  <2> HIDE DEF S, T
  <2> QED
    BY <1>2, <1>3, <1>4, <1>6, <1>7 DEF One

\* SetToSeq lists each element of a set once.
LEMMA CountSet ==
    ASSUME NEW U, NEW D \in SUBSET U, IsFiniteSet(D), NEW j
    PROVE  /\ SetToSeq(D) \in Seq(U)
           /\ Count(SetToSeq(D), j) \in Nat
           /\ Count(SetToSeq(D), j) <= One(j \in D)
<1> DEFINE n == Cardinality(D)
           f == SetToSeq(D)
           A == {i \in DOMAIN f : f[i] = j}
<1>1. n \in Nat /\ ExistsBijection(1..n, D)
  BY FS_CardinalityType
<1>2. f \in [1..n -> D] /\ IsInjective(f)
  <2>1. \E g \in [1..n -> D] : IsInjective(g)
    BY <1>1 DEF ExistsBijection, Bijection, Injection, IsInjective
  <2> QED
    BY <2>1 DEF SetToSeq
<1>3. f \in Seq(U) /\ DOMAIN f = 1..n
  BY <1>1, <1>2
<1>4. \A i, k \in A : i = k
  BY <1>2, <1>3 DEF IsInjective
<1>5. A # {} => j \in D
  BY <1>2
<1>6. IsFiniteSet(A) /\ Cardinality(A) \in Nat
  <2>1. IsFiniteSet(1..n) /\ A \subseteq 1..n
    BY <1>1, <1>3, FS_Interval
  <2> HIDE DEF A
  <2> QED
    BY <2>1, FS_Subset, FS_CardinalityType
<1>7. Cardinality(A) <= One(j \in D)
  <2> HIDE DEF A
  <2>1. CASE A = {}
    BY <2>1, FS_EmptySet DEF One
  <2>2. CASE A # {}
    <3>1. \E i : A = {i}
      BY <1>4, <2>2
    <3> QED
      BY <1>5, <2>2, <3>1, FS_Singleton DEF One
  <2> QED
    BY <2>1, <2>2
<1> QED
  BY <1>3, <1>6, <1>7 DEF Count

\* Promoted ids go in front.
LEMMA CountPromote ==
    ASSUME NEW U, NEW s \in Seq(U), NEW D \in SUBSET U, IsFiniteSet(D), NEW j
    PROVE  /\ SetToSeq(D) \o s \in Seq(U)
           /\ Count(s, j) \in Nat /\ Count(SetToSeq(D) \o s, j) \in Nat
           /\ Count(SetToSeq(D) \o s, j) <= Count(s, j) + One(j \in D)
<1>1. SetToSeq(D) \in Seq(U) /\ Count(SetToSeq(D), j) \in Nat /\ Count(SetToSeq(D), j) <= One(j \in D)
  BY CountSet
<1>2. Count(s, j) \in Nat /\ Count(SetToSeq(D) \o s, j) = Count(SetToSeq(D), j) + Count(s, j)
  BY <1>1, CountConcat
<1>3. SetToSeq(D) \o s \in Seq(U)
  BY <1>1, ConcatProperties
<1> QED
  BY <1>1, <1>2, <1>3 DEF One

------------------------------------------------------------------------------
(* Shipments *)

\* What a request has read of the shipment is still so when the version is.
SInv ==
    \A c \in Callers :
        caller[c] \in ShipmentCalls =>
            /\ caller[c].row.ver <= shipment.ver
            /\ caller[c].row.ver = shipment.ver => caller[c].row = shipment

------------------------------------------------------------------------------
(* The bus *)

Running == {h \in Slots : handler[h] # Idle}

\* The WaitGroup counts the handlers; who has looked at shuttingDown holds the
\* read lock until it has added its own, and nobody does once shutdown began.
BInv ==
    /\ wg = Cardinality(Running)
    /\ \A c \in Callers : CallerAt(c, "add") <=> c \in readers
    /\ phase # "up" => readers = {}
    /\ drained => phase # "up" /\ wg = 0

------------------------------------------------------------------------------
(* The jobs of a webhook *)

IsHook(h) == handler[h] \in HookHandlers

\* The publication n of order.paid has not been made, is with its publisher, or
\* with the handler that lists the endpoints.
CallerHas(c, n) == caller[c] \in PaidCalls /\ caller[c].n = n
HandlerHas(h, n) == IsHook(h) /\ handler[h].n = n

\* The handler has yet to enqueue the job.
ToEnqueue(h, j) == HandlerHas(h, j[2]) /\ (HandlerAt(h, "list") \/ j[1] \in handler[h].todo)
Unborn(j) == paid < j[2] \/ (\E c \in Callers : CallerHas(c, j[2])) \/ \E h \in Slots : ToEnqueue(h, j)

\* One publisher or handler has a publication.
OneHand ==
    /\ \A c \in Callers : caller[c] \in PaidCalls => caller[c].n <= paid
    /\ \A h \in Slots : IsHook(h) => handler[h].n <= paid
    /\ \A c, d \in Callers, n \in 1..MaxPaid : CallerHas(c, n) /\ CallerHas(d, n) => c = d
    /\ \A h, g \in Slots, n \in 1..MaxPaid : HandlerHas(h, n) /\ HandlerHas(g, n) => h = g
    /\ \A c \in Callers, h \in Slots, n \in 1..MaxPaid : ~(CallerHas(c, n) /\ HandlerHas(h, n))

\* A job is in one place: not enqueued yet, ready, delayed, or with one worker.
Placed(j) ==
    /\ Count(ready, j) <= 1
    /\ Count(ready, j) = 1 => j \notin delayed
    /\ \A w \in Workers : Job(w) = j => Count(ready, j) = 0 /\ j \notin delayed
    /\ \A w, x \in Workers : Job(w) = j /\ Job(x) = j => w = x
    /\ Unborn(j) => Count(ready, j) = 0 /\ j \notin delayed /\ (\A w \in Workers : Job(w) # j) /\ posts[j] = 0

\* The record counts the tries, and says whether one is left.
Counted(j) ==
    /\ posts[j] <= MaxRetries
    /\ \A h \in Slots : HandlerHas(h, j[2]) /\ HandlerAt(h, "push") /\ HookJob(h) = j => rec[j] = Fresh
    /\ Count(ready, j) = 1 \/ j \in delayed => posts[j] <= rec[j].attempts /\ rec[j].attempts < MaxRetries
    /\ \A w \in Workers : Job(w) = j =>
          /\ posts[j] <= rec[j].attempts /\ rec[j].attempts <= MaxRetries
          /\ worker[w].pc \in {"load", "save", "release", "requeue", "delay"} => rec[j].attempts < MaxRetries
          /\ worker[w].pc \in {"save", "record"} => Copy(w) = rec[j]
          /\ At(w, "handle") => posts[j] < rec[j].attempts

OnePlace == \A j \in Hooks : Placed(j)
TriesCounted == \A j \in Hooks : Counted(j)

------------------------------------------------------------------------------
(* The mail of a topic *)

\* A worker that will send the mail of t, unless it fails.
Sender(w, t) == Job(w) = t /\ (worker[w].pc \in {"load", "save", "handle", "release", "requeue"} \/ worker[w].failed)
Senders(t) == {w \in Workers : Sender(w, t)}

\* A handler that will enqueue it, or give up a claim for another to take.
Enqueuer(h, t) == (Mail(h, "save") \/ Mail(h, "push") \/ Mail(h, "release")) /\ Topic(h) = t
Enqueuers(t) == {h \in Slots : Enqueuer(h, t)}

\* The claim can be had without a fault.
ClaimFree(t) == Unclaimed(t) \/ claim[t].stale \/ (claim[t] = Pending /\ ~Working(t))

\* Mails sent, and those that may yet be sent, are paid for: by the first one or
\* by a fault.  A shutdown has paid for the claim it may orphan.
MailPaid(t) ==
    mails[t] + Count(ready, t) + One(t \in delayed) + Cardinality(Senders(t)) + Cardinality(Enqueuers(t))
        + One(ClaimFree(t)) + One(phase # "up") <= 1 + faults
MailsPaid == \A t \in Topics : MailPaid(t)

\* Only a try that failed is repeated.
Repeats == \A w \in Workers : At(w, "delay") => worker[w].failed
------------------------------------------------------------------------------
(* Types *)

NewMail(t) == [kind |-> "mail", pc |-> "order", topic |-> t]
NewHook(n) == [kind |-> "hook", pc |-> "list", n |-> n, todo |-> {}]
Handlers == MailHandlers \cup HookHandlers

BusTyped ==
    /\ caller \in [Callers -> {Idle} \cup ShipmentCalls \cup PaidCalls]
    /\ handler \in [Slots -> {Idle} \cup Handlers]
    /\ phase \in {"up", "closing", "cancelled"} /\ readers \subseteq Callers /\ drained \in BOOLEAN

QueueTyped ==
    /\ rec \in [Jobs -> Record] /\ ready \in Seq(Jobs) /\ processing \in [Jobs -> Nat] /\ delayed \subseteq Jobs
    /\ worker \in [Workers -> [pc : WorkerPc, job : Jobs \cup {NoJob}, copy : Record, failed : BOOLEAN]]
    /\ \A w \in Workers : Job(w) = NoJob <=> At(w, "poll")
    /\ faults \in 0..MaxFaults /\ workerFaults \in Nat

RowsTyped ==
    /\ shipment \in Shipments /\ up \in Setups /\ order \in {"live", "cancelled"}
    /\ claim \in [Topics -> [status : {"none", "pending", "completed"}, stale : BOOLEAN]]
    /\ active \subseteq Endpoints /\ paid \in 0..MaxPaid
    /\ mails \in [Topics -> Nat] /\ posts \in [Hooks -> Nat]

\* The parts of the type invariant.
LEMMA TypeParts == TypeOK <=> BusTyped /\ QueueTyped /\ RowsTyped /\ wg \in 0..Cardinality(Slots)
BY DEF TypeOK, BusTyped, QueueTyped, RowsTyped, Handlers

\* The free slots that Spawn fills: the lowest one, and the next one for a second
\* handler.
LEMMA Ranks ==
    ASSUME NEW F \in SUBSET Nat, IsFiniteSet(F), Cardinality(F) >= 1
    PROVE  \E m \in F :
              /\ Cardinality({g \in F : g <= m}) = 1
              /\ \A h \in F \ {m} : Cardinality({g \in F : g <= h}) \in Nat \ {0, 1}
              /\ Cardinality(F) >= 2 =>
                    \E k \in F \ {m} :
                        /\ Cardinality({g \in F : g <= k}) = 2
                        /\ \A h \in F \ {m, k} : Cardinality({g \in F : g <= h}) \in Nat \ {0, 1, 2}
<1> DEFINE R(h) == {g \in F : g <= h}
           m == Min(F)
           k == Min(F \ {m})
<1>1. F # {}
  BY FS_EmptySet
<1>2. m \in F /\ \A x \in F : m <= x
  <2> HIDE DEF m
  <2> QED
    BY <1>1, MinExists DEF m
<1>3. \A h \in F : R(h) \subseteq F /\ IsFiniteSet(R(h)) /\ Cardinality(R(h)) \in Nat
  <2>1. \A h \in F : R(h) \in SUBSET F
    OBVIOUS
  <2> HIDE DEF R
  <2> QED
    BY <2>1, FS_Subset, FS_CardinalityType
<1> HIDE DEF m, k
<1>4. Cardinality(R(m)) = 1
  <2>1. \A g \in F : g \in Nat /\ m \in Nat /\ m <= g
    BY <1>2
  <2>2. \A g \in F : g <= m <=> g = m
    BY <2>1
  <2>3. R(m) = {m}
    BY <1>2, <2>2
  <2> HIDE DEF R
  <2> QED
    BY <2>3, FS_Singleton
<1>5. ASSUME NEW h \in F \ {m} PROVE Cardinality(R(h)) \in Nat \ {0, 1}
  <2>1. {m} \cup {h} \in SUBSET R(h)
    BY <1>2
  <2> HIDE DEF R
  <2>2. IsFiniteSet({m}) /\ Cardinality({m}) = 1
    BY FS_Singleton
  <2>3. Cardinality({m} \cup {h}) = 2
    BY <2>2, FS_AddElement
  <2>4. IsFiniteSet(R(h)) /\ Cardinality(R(h)) \in Nat
    BY <1>3
  <2>5. Cardinality({m} \cup {h}) <= Cardinality(R(h))
    BY <2>1, <2>4, FS_Subset
  <2> QED
    BY <2>3, <2>4, <2>5
<1>6. ASSUME Cardinality(F) >= 2
      PROVE  \E i \in F \ {m} : Cardinality(R(i)) = 2 /\ \A h \in F \ {m, i} : Cardinality(R(h)) \in Nat \ {0, 1, 2}
  <2>1. IsFiniteSet(F \ {m}) /\ Cardinality(F \ {m}) = Cardinality(F) - 1 /\ Cardinality(F) \in Nat
    BY <1>2, FS_RemoveElement, FS_CardinalityType
  <2>2. F \ {m} # {}
    BY <1>6, <2>1, FS_EmptySet
  <2>3. k \in F \ {m} /\ \A x \in F \ {m} : k <= x
    BY <2>1, <2>2, MinExists DEF k
  <2>4. IsFiniteSet({m}) /\ Cardinality({m}) = 1
    BY FS_Singleton
  <2>5. IsFiniteSet({m} \cup {k}) /\ Cardinality({m} \cup {k}) = 2
    BY <2>3, <2>4, FS_AddElement
  <2>6. R(k) = {m} \cup {k}
    <3>1. \A g \in F : g \in Nat
      OBVIOUS
    <3>2. \A g \in F : g <= k <=> g = m \/ g = k
      BY <1>2, <2>3, <3>1
    <3> QED
      BY <1>2, <2>3, <3>2
  <2>7. ASSUME NEW h \in F \ {m, k} PROVE Cardinality(R(h)) \in Nat \ {0, 1, 2}
    <3>1. ({m} \cup {k}) \cup {h} \in SUBSET R(h)
      BY <1>2, <2>3
    <3> HIDE DEF R
    <3>2. Cardinality(({m} \cup {k}) \cup {h}) = 3
      BY <2>5, FS_AddElement
    <3>3. IsFiniteSet(R(h)) /\ Cardinality(R(h)) \in Nat
      BY <1>3
    <3>4. Cardinality(({m} \cup {k}) \cup {h}) <= Cardinality(R(h))
      BY <3>1, <3>3, FS_Subset
    <3> QED
      BY <3>2, <3>3, <3>4
  <2> HIDE DEF R
  <2> QED
    BY <2>3, <2>5, <2>6, <2>7
<1> QED
  BY <1>2, <1>4, <1>5, <1>6

\* What Spawn does: the handlers of the topic start in free slots.
SpawnEffect(c) ==
    /\ c \in Callers /\ CallerAt(c, "add")
    /\ \E m \in Slots :
          /\ handler[m] = Idle
          /\ \/ /\ caller[c] \in ShipmentCalls
                /\ handler' = [handler EXCEPT ![m] = NewMail(Shipped)] /\ wg' = wg + 1
             \/ /\ caller[c] \in PaidCalls
                /\ \E k \in Slots \ {m} :
                      /\ handler[k] = Idle
                      /\ handler' = [handler EXCEPT ![m] = NewMail(Paid), ![k] = NewHook(caller[c].n)]
                /\ wg' = wg + 2
    /\ readers' = readers \ {c} /\ EndCall(c)
    /\ UNCHANGED <<phase, drained>>

\* The goroutines of the subscribers, each in a slot of its own.
LEMMA SpawnStarts ==
    ASSUME BusTyped, NEW c \in Callers, SpawnHandlers(c)
    PROVE  SpawnEffect(c)
<1> DEFINE R(h) == Cardinality({g \in FreeSlots : g <= h})
           s == Subscribers(c)
<1>1. /\ CallerAt(c, "add") /\ Cardinality(FreeSlots) >= Len(s)
      /\ handler' = [h \in Slots |-> IF h \in FreeSlots /\ R(h) <= Len(s) THEN s[R(h)] ELSE handler[h]]
      /\ wg' = wg + Len(s) /\ readers' = readers \ {c} /\ EndCall(c) /\ UNCHANGED <<phase, drained>>
  BY DEF SpawnHandlers, Spawn, Add
<1>2. FreeSlots \subseteq Slots /\ FreeSlots \in SUBSET Nat /\ IsFiniteSet(FreeSlots) /\ Cardinality(FreeSlots) \in Nat
  <2>1. FreeSlots \in SUBSET Slots
    BY DEF FreeSlots
  <2> QED
    BY <2>1, BusAssumption, FS_Subset, FS_CardinalityType
<1>3. \A h \in FreeSlots : handler[h] = Idle
  BY DEF FreeSlots
<1>4. caller[c] \in ShipmentCalls \/ caller[c] \in PaidCalls
  BY <1>1 DEF BusTyped, CallerAt, Idle
<1>5. handler = [h \in Slots |-> handler[h]]
  BY DEF BusTyped
<1>6. CASE caller[c] \in ShipmentCalls
  <2>1. s = <<NewMail(Shipped)>> /\ Len(s) = 1
    BY <1>6 DEF Subscribers, ShipmentCalls, NewMail
  <2>2. PICK m \in FreeSlots : R(m) = 1 /\ \A h \in FreeSlots \ {m} : R(h) \in Nat \ {0, 1}
    BY <1>1, <1>2, <2>1, Ranks
  <2> HIDE DEF R, s
  <2>3. handler' = [handler EXCEPT ![m] = NewMail(Shipped)]
    BY <1>1, <1>2, <1>5, <2>1, <2>2
  <2> QED
    BY <1>1, <1>2, <1>3, <1>6, <2>1, <2>2, <2>3 DEF SpawnEffect
<1>7. CASE caller[c] \in PaidCalls
  <2>1. s = <<NewMail(Paid), NewHook(caller[c].n)>> /\ Len(s) = 2
    BY <1>7, DispatchAssumption DEF Subscribers, PaidCalls, NewMail, NewHook
  <2>2. PICK m \in FreeSlots : R(m) = 1 /\ (\A h \in FreeSlots \ {m} : R(h) \in Nat \ {0, 1}) /\ \E k \in FreeSlots \ {m} : R(k) = 2 /\ \A h \in FreeSlots \ {m, k} : R(h) \in Nat \ {0, 1, 2}
    <3>1. Cardinality(FreeSlots) >= 1 /\ Cardinality(FreeSlots) >= 2
      BY <1>1, <1>2, <2>1
    <3> HIDE DEF s
    <3>2. \E m \in FreeSlots :
              /\ R(m) = 1
              /\ \A h \in FreeSlots \ {m} : R(h) \in Nat \ {0, 1}
              /\ Cardinality(FreeSlots) >= 2 =>
                    \E k \in FreeSlots \ {m} : R(k) = 2 /\ \A h \in FreeSlots \ {m, k} : R(h) \in Nat \ {0, 1, 2}
      BY <1>2, <3>1, Ranks
    <3> QED
      BY <3>1, <3>2
  <2>3. PICK k \in FreeSlots \ {m} : R(k) = 2 /\ \A h \in FreeSlots \ {m, k} : R(h) \in Nat \ {0, 1, 2}
    BY <2>2
  <2> HIDE DEF R, s
  <2>4. handler' = [handler EXCEPT ![m] = NewMail(Paid), ![k] = NewHook(caller[c].n)]
    <3>1. s[1] = NewMail(Paid) /\ s[2] = NewHook(caller[c].n)
      BY <2>1
    <3>2. \A h \in FreeSlots : R(h) <= 2 <=> h \in {m, k}
      BY <2>2, <2>3
    <3>3. handler' = [h \in Slots |-> IF h = k THEN s[2] ELSE IF h = m THEN s[1] ELSE handler[h]]
      BY <1>1, <1>2, <2>1, <2>2, <2>3, <3>2
    <3> HIDE DEF NewMail, NewHook
    <3>4. [handler EXCEPT ![m] = NewMail(Paid), ![k] = NewHook(caller[c].n)]
             = [h \in Slots |-> IF h = k THEN NewHook(caller[c].n) ELSE IF h = m THEN NewMail(Paid) ELSE handler[h]]
      BY <1>2, <1>5, <2>2, <2>3
    <3> QED
      BY <3>1, <3>3, <3>4
  <2> QED
    BY <1>1, <1>2, <1>3, <1>7, <2>1, <2>2, <2>3, <2>4 DEF SpawnEffect
<1> QED
  BY <1>4, <1>6, <1>7
Calls == {Idle} \cup ShipmentCalls \cup PaidCalls

\* What becomes of a request that holds no read lock: it takes the lock while the
\* bus is up, and keeps the row and the publication it has.
CallMove(c, new) ==
    /\ caller' = [caller EXCEPT ![c] = new]
    /\ readers' = IF new.pc = "add" THEN readers \cup {c} ELSE readers
    /\ new.pc = "add" => phase = "up"
    /\ new \in ShipmentCalls => new.row = shipment \/ (caller[c] \in ShipmentCalls /\ new.row = caller[c].row)
    /\ new \in PaidCalls =>
          \/ caller[c] \in PaidCalls /\ new.n = caller[c].n /\ paid' = paid
          \/ new.n = paid + 1 /\ paid' = paid + 1
    /\ new \notin PaidCalls => paid' = paid

\* The shipment changes when the version is the one the request has read.
ShipmentMove(c) ==
    \/ shipment' = shipment
    \/ \E op \in DOMAIN Target :
          /\ caller[c] \in ShipmentCalls /\ caller[c].row.status = Source[op] /\ caller[c].row.ver = shipment.ver
          /\ shipment' = [status |-> Target[op], ver |-> shipment.ver + 1]

CallFrame == UNCHANGED <<handler, wg, phase, drained, queue, worker, up, order, claim, active, mails, posts, faults, workerFaults>>

CallEffect(c) ==
    /\ c \in Callers /\ ~CallerAt(c, "add")
    /\ \E new \in Calls : CallMove(c, new)
    /\ ShipmentMove(c) /\ shipment' \in Shipments /\ paid' \in 0..MaxPaid
    /\ CallFrame

Calling(c) ==
    (\E op \in DOMAIN Target : LoadShipment(c, op)) \/ PublishPaid(c) \/ CheckOrder(c) \/ UpdateShipment(c) \/ AdmitHandlers(c)

\* The steps of a request up to the lock.
LEMMA CallSteps ==
    ASSUME BusTyped, RowsTyped, NEW c \in Callers, Calling(c)
    PROVE  CallEffect(c)
<1>1. caller = [d \in Callers |-> caller[d]] /\ caller[c] \in Calls
  BY DEF BusTyped, Calls
<1>2. /\ DOMAIN Target = {"ship", "deliver", "cancel"} /\ Target["ship"] = "shipped" /\ Target["deliver"] = "delivered" /\ Target["cancel"] = "cancelled"
  BY DEF Target
<1>3. shipment \in Shipments /\ paid \in 0..MaxPaid /\ paid \in Nat /\ MaxPaid \in Nat /\ paid <= MaxPaid /\ shipment.ver \in Nat
  BY DispatchAssumption DEF RowsTyped, Shipments
<1>4. Shipped # Paid
  BY DispatchAssumption
<1>5. ASSUME NEW op \in DOMAIN Target, LoadShipment(c, op)
      PROVE  CallEffect(c)
  <2> DEFINE new == [pc |-> IF op = "cancel" THEN "update" ELSE "check", op |-> op, topic |-> Shipped, row |-> shipment]
  <2>1. new \in ShipmentCalls /\ new.pc # "add" /\ new.row = shipment
    BY <1>2, <1>3, <1>5 DEF ShipmentCalls
  <2>2. new \notin PaidCalls
    BY <1>4 DEF PaidCalls
  <2>3. caller' = [caller EXCEPT ![c] = new] /\ caller[c] = Idle
    BY <1>5 DEF LoadShipment, Free
  <2> HIDE DEF new
  <2>4. UNCHANGED readers /\ UNCHANGED shipment /\ UNCHANGED paid /\ CallFrame
    BY <1>5 DEF LoadShipment, NoFault, CallFrame, bus, outside, rows, history
  <2>5. CallMove(c, new) /\ new \in Calls
    BY <2>1, <2>2, <2>4, <2>3 DEF CallMove, Calls
  <2>6. ~CallerAt(c, "add") /\ ShipmentMove(c) /\ shipment' \in Shipments /\ paid' \in 0..MaxPaid
    BY <1>3, <2>3, <2>4 DEF CallerAt, Idle, ShipmentMove
  <2> QED
    BY <2>4, <2>5, <2>6 DEF CallEffect
<1>6. ASSUME PublishPaid(c)
      PROVE  CallEffect(c)
  <2> DEFINE new == [pc |-> "publish", topic |-> Paid, n |-> paid + 1]
  <2>1. new \in PaidCalls /\ new.pc # "add" /\ new.n = paid + 1
    BY <1>3, <1>6 DEF PaidCalls, PublishPaid
  <2>2. new \notin ShipmentCalls
    BY <1>4 DEF ShipmentCalls
  <2>3. caller' = [caller EXCEPT ![c] = new] /\ caller[c] = Idle
    BY <1>6 DEF PublishPaid, Free
  <2> HIDE DEF new
  <2>4. UNCHANGED readers /\ UNCHANGED shipment /\ CallFrame /\ paid' = paid + 1 /\ paid < MaxPaid
    BY <1>6 DEF PublishPaid, NoFault, CallFrame, bus, rows
  <2>5. CallMove(c, new) /\ new \in Calls
    BY <2>1, <2>2, <2>4, <2>3 DEF CallMove, Calls
  <2>6. ~CallerAt(c, "add") /\ ShipmentMove(c) /\ shipment' \in Shipments /\ paid' \in 0..MaxPaid
    BY <1>3, <2>3, <2>4 DEF CallerAt, Idle, ShipmentMove
  <2> QED
    BY <2>4, <2>5, <2>6 DEF CallEffect
<1>7. Idle \in Calls /\ Idle \notin ShipmentCalls /\ Idle \notin PaidCalls /\ Idle.pc = "idle"
  BY DEF Calls, Idle, ShipmentCalls, PaidCalls
<1>8. \/ caller[c] = Idle
      \/ caller[c] \in ShipmentCalls /\ caller[c] \notin PaidCalls
      \/ caller[c] \in PaidCalls /\ caller[c] \notin ShipmentCalls
  BY <1>1, <1>4 DEF Calls, ShipmentCalls, PaidCalls
<1>9. ASSUME NEW pc \in {"check", "update", "publish", "add"}, caller[c] \in ShipmentCalls
      PROVE  [caller[c] EXCEPT !.pc = pc] \in ShipmentCalls /\ [caller[c] EXCEPT !.pc = pc] \notin PaidCalls
             /\ [caller[c] EXCEPT !.pc = pc].row = caller[c].row /\ [caller[c] EXCEPT !.pc = pc].pc = pc
  BY <1>4, <1>9 DEF ShipmentCalls, PaidCalls
<1>10. ASSUME NEW pc \in {"publish", "add"}, caller[c] \in PaidCalls
      PROVE  [caller[c] EXCEPT !.pc = pc] \in PaidCalls /\ [caller[c] EXCEPT !.pc = pc] \notin ShipmentCalls
             /\ [caller[c] EXCEPT !.pc = pc].n = caller[c].n /\ [caller[c] EXCEPT !.pc = pc].pc = pc
  BY <1>4, <1>10 DEF ShipmentCalls, PaidCalls
<1>11. ASSUME CheckOrder(c)
      PROVE  CallEffect(c)
  <2>1. caller[c] \in ShipmentCalls
    BY <1>8, <1>11 DEF CheckOrder, CallerAt, Idle, PaidCalls
  <2>2. caller' = [caller EXCEPT ![c] = Idle] \/ \E pc \in {"publish", "update"} : caller' = [caller EXCEPT ![c] = [caller[c] EXCEPT !.pc = pc]]
    BY <1>11 DEF CheckOrder, EndCall, CallerGoto
  <2>3. \E new \in Calls \ PaidCalls : /\ caller' = [caller EXCEPT ![c] = new] /\ new.pc # "add"
                                       /\ new \in ShipmentCalls => new.row = caller[c].row
    BY <1>7, <1>9, <2>1, <2>2 DEF Calls
  <2>4. UNCHANGED readers /\ UNCHANGED shipment /\ UNCHANGED paid /\ CallFrame /\ CallerAt(c, "check")
    BY <1>11 DEF CheckOrder, NoFault, CallFrame, bus, outside, rows, history
  <2>5. \E new \in Calls : CallMove(c, new)
    BY <2>1, <2>3, <2>4 DEF CallMove
  <2>6. ~CallerAt(c, "add") /\ ShipmentMove(c) /\ shipment' \in Shipments /\ paid' \in 0..MaxPaid
    BY <1>3, <2>4 DEF CallerAt, ShipmentMove
  <2> QED
    BY <2>4, <2>5, <2>6 DEF CallEffect
<1>12. ASSUME UpdateShipment(c)
      PROVE  CallEffect(c)
  <2>1. caller[c] \in ShipmentCalls
    BY <1>8, <1>12 DEF UpdateShipment, CallerAt, Idle, PaidCalls
  <2>2. caller' = [caller EXCEPT ![c] = Idle] \/ caller' = [caller EXCEPT ![c] = [caller[c] EXCEPT !.pc = "publish"]]
    BY <1>12 DEF UpdateShipment, EndCall, CallerGoto
  <2>3. \E new \in Calls \ PaidCalls : /\ caller' = [caller EXCEPT ![c] = new] /\ new.pc # "add"
                                       /\ new \in ShipmentCalls => new.row = caller[c].row
    BY <1>7, <1>9, <2>1, <2>2 DEF Calls
  <2>4. /\ \/ shipment' = shipment
           \/ \E op \in DOMAIN Target :
                 /\ caller[c].row.status = Source[op] /\ caller[c].row.ver = shipment.ver
                 /\ shipment' = [status |-> Target[op], ver |-> shipment.ver + 1]
        /\ shipment' \in Shipments
    BY <1>2, <1>3, <1>12, <2>1 DEF UpdateShipment, SameVersion, ShipmentCalls, Shipments
  <2>5. UNCHANGED readers /\ UNCHANGED paid /\ CallFrame /\ CallerAt(c, "update")
    BY <1>12 DEF UpdateShipment, NoFault, CallFrame, bus, history
  <2>6. ShipmentMove(c)
    BY <2>1, <2>4 DEF ShipmentMove
  <2>7. \E new \in Calls : CallMove(c, new)
    BY <2>1, <2>3, <2>5 DEF CallMove
  <2>8. ~CallerAt(c, "add") /\ paid' \in 0..MaxPaid
    BY <1>3, <2>5 DEF CallerAt
  <2> QED
    BY <2>4, <2>5, <2>6, <2>7, <2>8 DEF CallEffect
<1>13. ASSUME AdmitHandlers(c)
      PROVE  CallEffect(c)
  <2>1. CallerAt(c, "publish") /\ UNCHANGED shipment /\ UNCHANGED paid /\ CallFrame
    BY <1>13 DEF AdmitHandlers, Admit, NoFault, CallFrame, outside, rows, history
  <2>2. \/ phase = "up" /\ readers' = readers \cup {c} /\ caller' = [caller EXCEPT ![c] = [caller[c] EXCEPT !.pc = "add"]]
        \/ readers' = readers /\ caller' = [caller EXCEPT ![c] = Idle]
    BY <1>13 DEF AdmitHandlers, Admit, CallerGoto, EndCall
  <2>3. caller[c] \in ShipmentCalls \/ caller[c] \in PaidCalls
    BY <1>7, <1>8, <2>1 DEF CallerAt
  <2>4. \E new \in Calls : CallMove(c, new)
    <3>1. CASE caller[c] \in ShipmentCalls
      BY <1>7, <1>9, <2>1, <2>2, <3>1 DEF Calls, CallMove
    <3>2. CASE caller[c] \in PaidCalls
      BY <1>7, <1>10, <2>1, <2>2, <3>2 DEF Calls, CallMove
    <3> QED
      BY <2>3, <3>1, <3>2
  <2> QED
    BY <1>3, <2>1, <2>4 DEF CallEffect, ShipmentMove, CallerAt
<1> QED
  BY <1>5, <1>6, <1>11, <1>12, <1>13 DEF Calling
\* What becomes of a handler: it goes on for the same subject, or returns.
HandlerMove(h, new) ==
    /\ handler' = [handler EXCEPT ![h] = new]
    /\ wg' = IF new = Idle THEN wg - 1 ELSE wg
    /\ \/ new = Idle
       \/ handler[h] \in MailHandlers /\ new \in MailHandlers /\ new.topic = handler[h].topic
       \/ handler[h] \in HookHandlers /\ new \in HookHandlers /\ new.n = handler[h].n

\* The e-mail handlers touch the claim, both kinds enqueue.
HandlerFrame == UNCHANGED <<caller, phase, readers, drained, processing, delayed, worker, up, shipment, order, active, paid, mails, posts>>

HandlerEffect(h) ==
    /\ h \in Slots /\ handler[h] \in Handlers
    /\ \E new \in {Idle} \cup Handlers : HandlerMove(h, new)
    /\ HandlerFrame

\* Idle is no handler, and the two kinds differ.
LEMMA Kinds ==
    /\ Idle \notin MailHandlers /\ Idle \notin HookHandlers /\ Idle \notin Handlers
    /\ \A x \in MailHandlers : x \notin HookHandlers /\ x.kind = "mail" /\ x.pc # "idle" /\ x.topic \in Topics
    /\ \A x \in HookHandlers : x \notin MailHandlers /\ x.kind = "hook" /\ x.pc # "idle" /\ x.n \in 1..MaxPaid /\ x.todo \subseteq Endpoints
BY DEF Idle, MailHandlers, HookHandlers, Handlers

\* Another point of the same handler.
LEMMA Gotos ==
    /\ \A x \in MailHandlers, pc \in {"order", "claim", "save", "push", "complete", "release"} :
          /\ [x EXCEPT !.pc = pc] = [kind |-> "mail", pc |-> pc, topic |-> x.topic]
          /\ [x EXCEPT !.pc = pc] \in MailHandlers
    /\ \A x \in HookHandlers, pc \in {"list", "save", "push"} :
          /\ [x EXCEPT !.pc = pc] = [kind |-> "hook", pc |-> pc, n |-> x.n, todo |-> x.todo]
          /\ [x EXCEPT !.pc = pc] \in HookHandlers
    /\ \A x \in HookHandlers, todo \in SUBSET Endpoints :
          /\ [x EXCEPT !.pc = "save", !.todo = todo] = [kind |-> "hook", pc |-> "save", n |-> x.n, todo |-> todo]
          /\ [x EXCEPT !.pc = "save", !.todo = todo] \in HookHandlers
<1>1. ASSUME NEW x \in MailHandlers, NEW pc \in {"order", "claim", "save", "push", "complete", "release"}
      PROVE  [x EXCEPT !.pc = pc] = [kind |-> "mail", pc |-> pc, topic |-> x.topic] /\ [x EXCEPT !.pc = pc] \in MailHandlers
  BY <1>1 DEF MailHandlers
<1>2. ASSUME NEW x \in HookHandlers, NEW pc \in {"list", "save", "push"}
      PROVE  [x EXCEPT !.pc = pc] = [kind |-> "hook", pc |-> pc, n |-> x.n, todo |-> x.todo] /\ [x EXCEPT !.pc = pc] \in HookHandlers
  BY <1>2 DEF HookHandlers
<1>3. ASSUME NEW x \in HookHandlers, NEW todo \in SUBSET Endpoints
      PROVE  /\ [x EXCEPT !.pc = "save", !.todo = todo] = [kind |-> "hook", pc |-> "save", n |-> x.n, todo |-> todo]
             /\ [x EXCEPT !.pc = "save", !.todo = todo] \in HookHandlers
  <2> DEFINE y == [kind |-> "hook", pc |-> "save", n |-> x.n, todo |-> todo]
             z == [x EXCEPT !.pc = "save", !.todo = todo]
  <2>1. x = [kind |-> x.kind, pc |-> x.pc, n |-> x.n, todo |-> x.todo] /\ x.kind = "hook" /\ x.n \in 1..MaxPaid
    BY DEF HookHandlers
  <2>2. z = y
    <3>1. [x EXCEPT !.pc = "save"] = [kind |-> "hook", pc |-> "save", n |-> x.n, todo |-> x.todo]
      BY <1>2
    <3>2. [[kind |-> "hook", pc |-> "save", n |-> x.n, todo |-> x.todo] EXCEPT !.todo = todo] = y
      OBVIOUS
    <3>3. z = [[x EXCEPT !.pc = "save"] EXCEPT !.todo = todo]
      BY <2>1
    <3> QED
      BY <3>1, <3>2, <3>3
  <2>3. y \in HookHandlers
    BY <2>1 DEF HookHandlers
  <2> QED
    BY <2>2, <2>3
<1> QED
  BY <1>1, <1>2, <1>3

MailStep(h) == ReadOrder(h) \/ TryInsert(h) \/ EnqueueSave(h) \/ EnqueuePush(h) \/ SettleClaim(h)
HookStep(h) == ListActive(h) \/ HookSave(h) \/ HookPush(h)

\* The steps of the handlers.
LEMMA HandlerSteps ==
    ASSUME BusTyped, RowsTyped, NEW h \in Slots, Handle(h)
    PROVE  HandlerEffect(h)
<1>1. handler[h] \in {Idle} \cup Handlers
  BY DEF BusTyped
<1>2. Idle.pc = "idle"
  BY DEF Idle
<1>3. ASSUME MailStep(h)
      PROVE  HandlerEffect(h)
  <2>1. \E pc \in {"order", "claim", "save", "push", "complete", "release"} : Mail(h, pc)
    BY <1>3 DEF MailStep, ReadOrder, TryInsert, EnqueueSave, EnqueuePush, SettleClaim
  <2>2. handler[h] \in MailHandlers
    BY <1>1, <1>2, <2>1, Kinds DEF Mail, HandlerAt, Handlers
  <2>3. HandlerFrame
    BY <1>3 DEF MailStep, ReadOrder, TryInsert, EnqueueSave, EnqueuePush, SettleClaim, keep, queue, lists, history, SaveNew, PushNew, HandlerFrame
  <2>4. \/ EndHandler(h)
        \/ UNCHANGED wg /\ \E pc \in {"claim", "save", "push", "complete", "release"} : HandlerGoto(h, pc)
    BY <1>3 DEF MailStep, ReadOrder, TryInsert, EnqueueSave, EnqueuePush, SettleClaim
  <2>5. \E new \in {Idle} \cup Handlers : HandlerMove(h, new)
    <3>1. CASE EndHandler(h)
      BY <3>1 DEF EndHandler, HandlerMove
    <3>2. ASSUME NEW pc \in {"claim", "save", "push", "complete", "release"}, HandlerGoto(h, pc), UNCHANGED wg
          PROVE  \E new \in {Idle} \cup Handlers : HandlerMove(h, new)
      <4> DEFINE new == [handler[h] EXCEPT !.pc = pc]
      <4>1a. new = [kind |-> "mail", pc |-> pc, topic |-> handler[h].topic] /\ new \in MailHandlers
        BY <2>2, Gotos
      <4>1b. handler' = [handler EXCEPT ![h] = new]
        BY <3>2 DEF HandlerGoto
      <4>1. new \in MailHandlers /\ new.topic = handler[h].topic /\ handler' = [handler EXCEPT ![h] = new]
        BY <4>1a, <4>1b
      <4> HIDE DEF new
      <4>2. new # Idle /\ new \in Handlers
        BY <4>1, Kinds DEF Handlers
      <4>3. HandlerMove(h, new)
        BY <2>2, <3>2, <4>1, <4>2 DEF HandlerMove
      <4> QED
        BY <4>2, <4>3
    <3> QED
      BY <2>4, <3>1, <3>2
  <2> QED
    BY <2>2, <2>3, <2>5 DEF HandlerEffect, Handlers
<1>4. ASSUME HookStep(h)
      PROVE  HandlerEffect(h)
  <2>1. \E pc \in {"list", "save", "push"} : Hook(h, pc)
    BY <1>4 DEF HookStep, ListActive, HookSave, HookPush
  <2>2. handler[h] \in HookHandlers
    BY <1>1, <1>2, <2>1, Kinds DEF Hook, HandlerAt, Handlers
  <2>3. HandlerFrame
    BY <1>4 DEF HookStep, ListActive, HookSave, HookPush, keep, queue, lists, history, SaveNew, PushNew, HandlerFrame
  <2>4. \/ EndHandler(h)
        \/ UNCHANGED wg /\ HandlerGoto(h, "push")
        \/ UNCHANGED wg /\ \E todo \in SUBSET Endpoints : handler' = [handler EXCEPT ![h].pc = "save", ![h].todo = todo]
    <3>1. active \in SUBSET Endpoints /\ handler[h].todo \ {Min(handler[h].todo)} \in SUBSET Endpoints
      BY <2>2, Kinds DEF RowsTyped
    <3> QED
      BY <1>4, <3>1 DEF HookStep, ListActive, HookSave, HookPush, NextHook
  <2>5. \E new \in {Idle} \cup Handlers : HandlerMove(h, new)
    <3>1. CASE EndHandler(h)
      BY <3>1 DEF EndHandler, HandlerMove
    <3>2. CASE UNCHANGED wg /\ HandlerGoto(h, "push")
      <4> DEFINE new == [handler[h] EXCEPT !.pc = "push"]
      <4>1a. new = [kind |-> "hook", pc |-> "push", n |-> handler[h].n, todo |-> handler[h].todo] /\ new \in HookHandlers
        BY <2>2, Gotos
      <4>1b. handler' = [handler EXCEPT ![h] = new]
        BY <3>2 DEF HandlerGoto
      <4>1. new \in HookHandlers /\ new.n = handler[h].n /\ handler' = [handler EXCEPT ![h] = new]
        BY <4>1a, <4>1b
      <4> HIDE DEF new
      <4>2. new # Idle /\ new \in Handlers
        BY <4>1, Kinds DEF Handlers
      <4>3. HandlerMove(h, new)
        BY <2>2, <3>2, <4>1, <4>2 DEF HandlerMove
      <4> QED
        BY <4>2, <4>3
    <3>3. ASSUME NEW todo \in SUBSET Endpoints, UNCHANGED wg,
                 handler' = [handler EXCEPT ![h].pc = "save", ![h].todo = todo]
          PROVE  \E new \in {Idle} \cup Handlers : HandlerMove(h, new)
      <4> DEFINE new == [kind |-> "hook", pc |-> "save", n |-> handler[h].n, todo |-> todo]
      <4>1. new \in HookHandlers /\ new.n = handler[h].n
        BY <2>2, Kinds DEF HookHandlers
      <4>1a. [handler[h] EXCEPT !.pc = "save", !.todo = todo] = new
        BY <2>2, Gotos
      <4>1b. handler' = [handler EXCEPT ![h] = [handler[h] EXCEPT !.pc = "save", !.todo = todo]]
        <5>1. handler = [g \in Slots |-> handler[g]]
          BY DEF BusTyped
        <5> QED
          BY <3>3, <5>1
      <4>2. handler' = [handler EXCEPT ![h] = new]
        BY <4>1a, <4>1b
      <4> HIDE DEF new
      <4>3. new # Idle /\ new \in Handlers
        BY <4>1, Kinds DEF Handlers
      <4>4. HandlerMove(h, new)
        BY <2>2, <3>3, <4>1, <4>2, <4>3 DEF HandlerMove
      <4> QED
        BY <4>3, <4>4
    <3> QED
      BY <2>4, <3>1, <3>2, <3>3
  <2> QED
    BY <2>2, <2>3, <2>5 DEF HandlerEffect, Handlers
<1> QED
  BY <1>3, <1>4 DEF Handle, MailStep, HookStep
\* A worker's record after a step.
To(w, pc, job, copy, failed) == worker' = [worker EXCEPT ![w] = [pc |-> pc, job |-> job, copy |-> copy, failed |-> failed]]
Failed(w) == worker[w].failed
ToPoll(w) == To(w, "poll", NoJob, NoRecord, FALSE)

\* The job goes to the worker.
Claims(w) ==
    /\ At(w, "poll") /\ ready # <<>> /\ ready' = Front(ready)
    /\ To(w, "load", Last(ready), NoRecord, FALSE)
    /\ UNCHANGED <<rec, delayed, mails, posts>>

\* The worker goes on with its job, having read the record at two points.
Stays(w) ==
    /\ \E pc \in WorkerPc, copy \in Record :
          /\ <<worker[w].pc, pc>> \in {<<"load", "save">>, <<"load", "release">>, <<"save", "release">>, <<"release", "requeue">>,
                                       <<"lrem", "reload">>, <<"reload", "record">>}
          /\ copy = IF pc \in {"save", "record"} THEN rec[Job(w)] ELSE Copy(w)
          /\ To(w, pc, Job(w), copy, Failed(w))
    /\ UNCHANGED <<rec, ready, delayed, mails, posts>>

\* It loses the job.
Drops(w) == ~At(w, "poll") /\ ToPoll(w) /\ UNCHANGED <<rec, ready, delayed, mails, posts>>

\* It counts the try.
Starts(w) ==
    /\ At(w, "save") /\ rec' = [rec EXCEPT ![Job(w)] = Started(Copy(w))]
    /\ To(w, "handle", Job(w), Copy(w), Failed(w))
    /\ UNCHANGED <<ready, delayed, mails, posts>>

\* It puts the job back on the list.
Requeues(w) ==
    /\ At(w, "requeue") /\ ready' = <<Job(w)>> \o ready /\ ToPoll(w)
    /\ UNCHANGED <<rec, delayed, mails, posts>>

\* It records the outcome.
Records(w) ==
    /\ At(w, "record") /\ rec' = [rec EXCEPT ![Job(w)] = Outcome(w)]
    /\ \/ Outcome(w).status = "pending" /\ To(w, "delay", Job(w), Copy(w), Failed(w))
       \/ ToPoll(w)
    /\ UNCHANGED <<ready, delayed, mails, posts>>

\* It has the job tried again later.
Delays(w) ==
    /\ At(w, "delay") /\ delayed' = delayed \cup {Job(w)} /\ ToPoll(w)
    /\ UNCHANGED <<rec, ready, mails, posts>>

\* It sends the e-mail, without knowing when it fails.
Sends(w) ==
    /\ At(w, "handle") /\ Job(w) \in Topics
    /\ \/ faults' = faults /\ mails' = [mails EXCEPT ![Job(w)] = @ + 1] /\ To(w, "lrem", Job(w), Copy(w), FALSE)
       \/ faults' = faults + 1 /\ mails' \in {mails, [mails EXCEPT ![Job(w)] = @ + 1]} /\ To(w, "lrem", Job(w), Copy(w), TRUE)
    /\ UNCHANGED <<rec, ready, delayed, posts>>

\* It asks the endpoint.
Delivers(w) ==
    /\ At(w, "handle") /\ Job(w) \in Hooks
    /\ posts' \in {posts, [posts EXCEPT ![Job(w)] = @ + 1]}
    /\ \E failed \in BOOLEAN : To(w, "lrem", Job(w), Copy(w), failed)
    /\ UNCHANGED <<rec, ready, delayed, mails>>

\* Delayed jobs fall due.
Promotes ==
    \E due \in SUBSET delayed :
        /\ delayed' = delayed \ due /\ ready' = SetToSeq(due) \o ready
        /\ UNCHANGED <<rec, worker, mails, posts>>

WorkFrame ==
    /\ UNCHANGED <<caller, handler, wg, phase, readers, drained, up, shipment, order, claim, active, paid>>
    /\ processing' \in [Jobs -> Nat]
    /\ faults' \in {faults, faults + 1} /\ faults' <= MaxFaults /\ workerFaults' \in {workerFaults, workerFaults + 1}

WorkMove(w) ==
    Claims(w) \/ Stays(w) \/ Drops(w) \/ Starts(w) \/ Requeues(w) \/ Records(w) \/ Delays(w) \/ Sends(w) \/ Delivers(w) \/ Promotes

WorkEffect(w) == w \in Workers /\ WorkMove(w) /\ WorkFrame

\* A record with one or two fields changed.
LEMMA WorkerRecords ==
    ASSUME NEW x \in [pc : WorkerPc, job : Jobs \cup {NoJob}, copy : Record, failed : BOOLEAN], NEW pc
    PROVE  /\ [x EXCEPT !.pc = pc] = [pc |-> pc, job |-> x.job, copy |-> x.copy, failed |-> x.failed]
           /\ \A copy : [x EXCEPT !.pc = pc, !.copy = copy] = [pc |-> pc, job |-> x.job, copy |-> copy, failed |-> x.failed]
           /\ \A failed : [x EXCEPT !.pc = pc, !.failed = failed] = [pc |-> pc, job |-> x.job, copy |-> x.copy, failed |-> failed]
<1> DEFINE y == [pc |-> pc, job |-> x.job, copy |-> x.copy, failed |-> x.failed]
<1>1. x = [pc |-> x.pc, job |-> x.job, copy |-> x.copy, failed |-> x.failed]
  OBVIOUS
<1>2. [x EXCEPT !.pc = pc] = y
  BY <1>1
<1>3. ASSUME NEW copy PROVE [x EXCEPT !.pc = pc, !.copy = copy] = [pc |-> pc, job |-> x.job, copy |-> copy, failed |-> x.failed]
  <2>1. [y EXCEPT !.copy = copy] = [pc |-> pc, job |-> x.job, copy |-> copy, failed |-> x.failed]
    OBVIOUS
  <2>2. [x EXCEPT !.pc = pc, !.copy = copy] = [[x EXCEPT !.pc = pc] EXCEPT !.copy = copy]
    BY <1>1
  <2> QED
    BY <1>2, <2>1, <2>2
<1>4. ASSUME NEW failed PROVE [x EXCEPT !.pc = pc, !.failed = failed] = [pc |-> pc, job |-> x.job, copy |-> x.copy, failed |-> failed]
  <2>1. [y EXCEPT !.failed = failed] = [pc |-> pc, job |-> x.job, copy |-> x.copy, failed |-> failed]
    OBVIOUS
  <2>2. [x EXCEPT !.pc = pc, !.failed = failed] = [[x EXCEPT !.pc = pc] EXCEPT !.failed = failed]
    BY <1>1
  <2> QED
    BY <1>2, <2>1, <2>2
<1> QED
  BY <1>2, <1>3, <1>4

\* The ways the model has of changing a worker's record.
LEMMA WorkerGotos ==
    ASSUME QueueTyped, NEW w \in Workers
    PROVE  /\ \A pc : Goto(w, pc) => To(w, pc, Job(w), Copy(w), Failed(w))
           /\ Poll(w) => ToPoll(w)
           /\ \A failed \in BOOLEAN : Return(w, failed) => To(w, "lrem", Job(w), Copy(w), failed)
           /\ \A pc, copy : worker' = [worker EXCEPT ![w].pc = pc, ![w].copy = copy] => To(w, pc, Job(w), copy, Failed(w))
<1>0. worker[w] \in [pc : WorkerPc, job : Jobs \cup {NoJob}, copy : Record, failed : BOOLEAN]
  BY DEF QueueTyped
<1>1. worker[w] = [pc |-> worker[w].pc, job |-> Job(w), copy |-> Copy(w), failed |-> Failed(w)]
  BY DEF QueueTyped, Job, Copy, Failed
<1>2. worker = [x \in Workers |-> worker[x]]
  BY DEF QueueTyped
<1>3. ASSUME NEW pc, Goto(w, pc) PROVE To(w, pc, Job(w), Copy(w), Failed(w))
  <2>1. [worker[w] EXCEPT !.pc = pc] = [pc |-> pc, job |-> Job(w), copy |-> Copy(w), failed |-> Failed(w)]
    BY <1>1
  <2> QED
    BY <1>3, <2>1 DEF Goto, To
<1>4. Poll(w) => ToPoll(w)
  BY DEF Poll, ToPoll, To, Polling
<1>5. ASSUME NEW failed \in BOOLEAN, Return(w, failed) PROVE To(w, "lrem", Job(w), Copy(w), failed)
  <2>1. [worker[w] EXCEPT !.pc = "lrem", !.failed = failed] = [pc |-> "lrem", job |-> Job(w), copy |-> Copy(w), failed |-> failed]
    BY <1>0, WorkerRecords DEF Job, Copy, Failed
  <2>2. worker' = [worker EXCEPT ![w] = [worker[w] EXCEPT !.pc = "lrem", !.failed = failed]]
    BY <1>2, <1>5 DEF Return
  <2> QED
    BY <2>1, <2>2 DEF To
<1>6. ASSUME NEW pc, NEW copy, worker' = [worker EXCEPT ![w].pc = pc, ![w].copy = copy] PROVE To(w, pc, Job(w), copy, Failed(w))
  <2>1. [worker[w] EXCEPT !.pc = pc, !.copy = copy] = [pc |-> pc, job |-> Job(w), copy |-> copy, failed |-> Failed(w)]
    <3> DEFINE x == worker[w]
    <3>1. \A c : [x EXCEPT !.pc = pc, !.copy = c] = [pc |-> pc, job |-> x.job, copy |-> c, failed |-> x.failed]
      <4> HIDE DEF x
      <4> QED
        BY <1>0, WorkerRecords DEF x
    <3>2. [x EXCEPT !.pc = pc, !.copy = copy] = [pc |-> pc, job |-> x.job, copy |-> copy, failed |-> x.failed]
      BY <3>1
    <3> QED
      BY <3>2 DEF Job, Failed
  <2>2. worker' = [worker EXCEPT ![w] = [worker[w] EXCEPT !.pc = pc, !.copy = copy]]
    BY <1>2, <1>6
  <2> QED
    BY <2>1, <2>2 DEF To
<1> QED
  BY <1>3, <1>4, <1>5, <1>6
WorkerStep(w) == RunJob(w) \/ PromoteDelayed(w) \/ LoseWorker(w)

\* The steps of the workers.
LEMMA WorkSteps ==
    ASSUME QueueTyped, RowsTyped, NEW w \in Workers, WorkerStep(w)
    PROVE  WorkEffect(w)
<1>1. /\ worker[w] \in [pc : WorkerPc, job : Jobs \cup {NoJob}, copy : Record, failed : BOOLEAN]
      /\ faults \in Nat /\ MaxFaults \in Nat /\ faults <= MaxFaults /\ workerFaults \in Nat
      /\ processing = [j \in Jobs |-> processing[j]] /\ \A j \in Jobs : processing[j] \in Nat
      /\ (Job(w) = NoJob <=> At(w, "poll")) /\ Copy(w) \in Record /\ \A j \in Jobs : rec[j] \in Record
  BY QueueAssumption DEF QueueTyped, Copy
<1>2. /\ \A pc : Goto(w, pc) => To(w, pc, Job(w), Copy(w), Failed(w))
      /\ Poll(w) => ToPoll(w)
      /\ \A failed \in BOOLEAN : Return(w, failed) => To(w, "lrem", Job(w), Copy(w), failed)
      /\ \A pc, copy : worker' = [worker EXCEPT ![w].pc = pc, ![w].copy = copy] => To(w, pc, Job(w), copy, Failed(w))
  BY WorkerGotos
<1>3. /\ NoFault => faults' = faults /\ workerFaults' = workerFaults
      /\ WorkerFault => faults' = faults + 1 /\ faults' <= MaxFaults /\ workerFaults' = workerFaults + 1
  BY <1>1 DEF NoFault, WorkerFault, Fault
<1> DEFINE Frame == UNCHANGED <<caller, handler, wg, phase, readers, drained, up, shipment, order, claim, active, paid>>
           Faults == faults' \in {faults, faults + 1} /\ faults' <= MaxFaults /\ workerFaults' \in {workerFaults, workerFaults + 1}
<1>4. /\ NoFault => Faults
      /\ WorkerFault => Faults
  BY <1>1, <1>3
<1>5. ASSUME QueueWork(w) \/ PromoteDelayed(w) \/ LoseWorker(w)
      PROVE  Frame /\ UNCHANGED <<mails, posts>>
  BY <1>5 DEF QueueWork, PromoteDelayed, LoseWorker, bus, outside, rows, history
<1>6. ASSUME Frame, Faults, processing' \in [Jobs -> Nat], WorkMove(w)
      PROVE  WorkEffect(w)
  BY <1>6 DEF WorkEffect, WorkFrame
<1> HIDE DEF Frame, Faults
<1>7. ASSUME QueueWork(w), Claim(w)
      PROVE  WorkEffect(w)
  <2> DEFINE j == Last(ready)
  <2>a. j \in Jobs
    <3>1. ready \in Seq(Jobs) /\ ready # <<>>
      BY <1>7 DEF Claim, QueueTyped
    <3>2. Len(ready) \in Nat /\ Len(ready) > 0
      BY <3>1
    <3> QED
      BY <3>1, <3>2 DEF Last
  <2>b. /\ At(w, "poll") /\ ready # <<>> /\ ready' = Front(ready) /\ UNCHANGED <<rec, delayed>>
         /\ processing' = [processing EXCEPT ![j] = @ + 1]
         /\ To(w, "load", j, NoRecord, FALSE)
    BY <1>7 DEF Claim, To
  <2> HIDE DEF j
  <2>1. Claims(w)
    BY <1>5, <1>7, <2>b DEF Claims, j
  <2>2. processing' \in [Jobs -> Nat] /\ NoFault
    BY <1>1, <1>7, <2>a, <2>b DEF Claim
  <2> QED
    BY <1>4, <1>5, <1>6, <1>7, <2>1, <2>2 DEF WorkMove
<1>8. ASSUME QueueWork(w), Load(w) \/ Reload(w)
      PROVE  WorkEffect(w)
  <2>1. At(w, "load") \/ At(w, "reload")
    BY <1>8 DEF Load, Reload
  <2>2. Job(w) \in Jobs
    BY <1>1, <2>1 DEF At, Job
  <2>3. Stays(w) \/ Drops(w)
    <3>1. CASE At(w, "load") /\ To(w, "save", Job(w), rec[Job(w)], Failed(w))
      BY <1>1, <1>5, <1>8, <2>2, <3>1 DEF Load, Reload, queue, lists, Stays, At, WorkerPc
    <3>2. CASE At(w, "load") /\ To(w, "release", Job(w), Copy(w), Failed(w))
      BY <1>1, <1>5, <1>8, <2>2, <3>2 DEF Load, Reload, queue, lists, Stays, At, WorkerPc
    <3>3. CASE At(w, "reload") /\ To(w, "record", Job(w), rec[Job(w)], Failed(w))
      BY <1>1, <1>5, <1>8, <2>2, <3>3 DEF Load, Reload, queue, lists, Stays, At, WorkerPc
    <3>4. CASE At(w, "reload") /\ ToPoll(w)
      BY <1>5, <1>8, <3>4 DEF Load, Reload, queue, lists, Drops, At
    <3> QED
      BY <1>2, <1>8, <3>1, <3>2, <3>3, <3>4 DEF Load, Reload
  <2>4. processing' \in [Jobs -> Nat]
    BY <1>1, <1>8 DEF Load, Reload, queue, lists
  <2>5. Faults
    BY <1>4, <1>8 DEF Load, Reload
  <2> QED
    BY <1>5, <1>6, <1>8, <2>3, <2>4, <2>5 DEF WorkMove
<1>9. ASSUME QueueWork(w), SaveClaim(w)
      PROVE  WorkEffect(w)
  <2>1. Stays(w) \/ Starts(w)
    <3>1. At(w, "save") /\ UNCHANGED <<ready, delayed, mails, posts>>
      BY <1>5, <1>9 DEF SaveClaim, lists
    <3>2. CASE rec' = rec /\ To(w, "release", Job(w), Copy(w), Failed(w))
      BY <1>1, <3>1, <3>2 DEF Stays, At, WorkerPc
    <3>3. CASE rec' = [rec EXCEPT ![Job(w)] = Started(Copy(w))] /\ To(w, "handle", Job(w), Copy(w), Failed(w))
      BY <3>1, <3>3 DEF Starts
    <3> QED
      BY <1>2, <1>9, <3>2, <3>3 DEF SaveClaim
  <2>2. processing' \in [Jobs -> Nat] /\ Faults
    BY <1>1, <1>4, <1>9 DEF SaveClaim, lists
  <2> QED
    BY <1>5, <1>6, <1>9, <2>1, <2>2 DEF WorkMove
<1>10. ASSUME QueueWork(w), Release(w)
      PROVE  WorkEffect(w)
  <2>1. Stays(w) \/ Drops(w)
    <3>1. At(w, "release") /\ UNCHANGED <<rec, ready, delayed, mails, posts>>
      BY <1>5, <1>10 DEF Release
    <3>2. CASE To(w, "requeue", Job(w), Copy(w), Failed(w))
      BY <1>1, <3>1, <3>2 DEF Stays, At, WorkerPc
    <3>3. CASE ToPoll(w)
      BY <3>1, <3>3 DEF Drops, At
    <3> QED
      BY <1>2, <1>10, <3>2, <3>3 DEF Release
  <2>2. processing' \in [Jobs -> Nat] /\ Faults
    BY <1>1, <1>4, <1>10 DEF Release, OnProcessing
  <2> QED
    BY <1>5, <1>6, <1>10, <2>1, <2>2 DEF WorkMove
<1>11. ASSUME QueueWork(w), Requeue(w)
      PROVE  WorkEffect(w)
  <2>1. Requeues(w) \/ Drops(w)
    BY <1>2, <1>5, <1>11 DEF Requeue, LPush, Requeues, Drops, At
  <2>2. processing' \in [Jobs -> Nat] /\ Faults
    BY <1>1, <1>4, <1>11 DEF Requeue
  <2> QED
    BY <1>5, <1>6, <1>11, <2>1, <2>2 DEF WorkMove
<1>12. ASSUME QueueWork(w), LRem(w)
      PROVE  WorkEffect(w)
  <2>1. Stays(w) \/ Drops(w)
    <3>1. At(w, "lrem") /\ UNCHANGED <<rec, ready, delayed, mails, posts>>
      BY <1>5, <1>12 DEF LRem
    <3>2. CASE To(w, "reload", Job(w), Copy(w), Failed(w))
      BY <1>1, <3>1, <3>2 DEF Stays, At, WorkerPc
    <3>3. CASE ToPoll(w)
      BY <3>1, <3>3 DEF Drops, At
    <3> QED
      BY <1>2, <1>12, <3>2, <3>3 DEF LRem
  <2>2. processing' \in [Jobs -> Nat] /\ Faults
    BY <1>1, <1>4, <1>12 DEF LRem, OnProcessing
  <2> QED
    BY <1>5, <1>6, <1>12, <2>1, <2>2 DEF WorkMove
<1>13. ASSUME QueueWork(w), RecordOutcome(w)
      PROVE  WorkEffect(w)
  <2>1. Records(w) \/ Drops(w)
    <3>1. At(w, "record") /\ UNCHANGED <<ready, delayed, mails, posts>>
      BY <1>5, <1>13 DEF RecordOutcome, lists
    <3>2. \/ rec' = [rec EXCEPT ![Job(w)] = Outcome(w)] /\ ToDelay(w)
          \/ rec' = rec /\ ToPoll(w)
      BY <1>2, <1>13 DEF RecordOutcome
    <3>3. ToDelay(w) => (Outcome(w).status = "pending" /\ To(w, "delay", Job(w), Copy(w), Failed(w))) \/ ToPoll(w)
      BY <1>2 DEF ToDelay
    <3>4. CASE rec' = rec /\ ToPoll(w)
      BY <3>1, <3>4 DEF Drops, At
    <3>5. CASE rec' = [rec EXCEPT ![Job(w)] = Outcome(w)] /\ ToDelay(w)
      BY <3>1, <3>3, <3>5 DEF Records
    <3> QED
      BY <3>2, <3>4, <3>5
  <2>2. processing' \in [Jobs -> Nat] /\ Faults
    BY <1>1, <1>4, <1>13 DEF RecordOutcome, lists
  <2> QED
    BY <1>5, <1>6, <1>13, <2>1, <2>2 DEF WorkMove
<1>14. ASSUME QueueWork(w), Delay(w)
      PROVE  WorkEffect(w)
  <2>1. Delays(w) \/ Drops(w)
    BY <1>2, <1>5, <1>14 DEF Delay, Delays, Drops, At
  <2>2. processing' \in [Jobs -> Nat] /\ Faults
    BY <1>1, <1>4, <1>14 DEF Delay
  <2> QED
    BY <1>5, <1>6, <1>14, <2>1, <2>2 DEF WorkMove
<1>15. ASSUME SendMail(w)
      PROVE  WorkEffect(w)
  <2>1. Sends(w)
    BY <1>2, <1>3, <1>15 DEF SendMail, Sends, queue, lists
  <2>2. processing' \in [Jobs -> Nat] /\ Faults /\ Frame
    BY <1>1, <1>4, <1>15 DEF SendMail, queue, lists, bus, rows, Frame
  <2> QED
    BY <1>6, <2>1, <2>2 DEF WorkMove
<1>16. ASSUME Deliver(w)
      PROVE  WorkEffect(w)
  <2>1. Delivers(w)
    BY <1>2, <1>16 DEF Deliver, Delivers, queue, lists
  <2>2. processing' \in [Jobs -> Nat] /\ Faults /\ Frame
    BY <1>1, <1>4, <1>16 DEF Deliver, queue, lists, bus, rows, Frame
  <2> QED
    BY <1>6, <2>1, <2>2 DEF WorkMove
<1>17. ASSUME PromoteDelayed(w)
      PROVE  WorkEffect(w)
  <2>1. Promotes
    BY <1>5, <1>17 DEF PromoteDelayed, Promote, Promotes
  <2>2. processing' \in [Jobs -> Nat] /\ Faults
    BY <1>1, <1>4, <1>17 DEF PromoteDelayed, Promote
  <2> QED
    BY <1>5, <1>6, <1>17, <2>1, <2>2 DEF WorkMove
<1>18. ASSUME LoseWorker(w)
      PROVE  WorkEffect(w)
  <2>1. Drops(w)
    BY <1>2, <1>5, <1>18 DEF LoseWorker, WorkerDies, Drops, queue, lists
  <2>2. processing' \in [Jobs -> Nat] /\ Faults
    BY <1>1, <1>4, <1>18 DEF LoseWorker, WorkerDies, queue, lists
  <2> QED
    BY <1>5, <1>6, <1>18, <2>1, <2>2 DEF WorkMove
<1>19. QueueWork(w) => Work(w)
  BY DEF QueueWork
<1> QED
  BY <1>7, <1>8, <1>9, <1>10, <1>11, <1>12, <1>13, <1>14, <1>15, <1>16, <1>17, <1>18, <1>19 DEF WorkerStep, RunJob, Work
\* The other steps: a handler of each subscriber, a claim that grows old, rows that
\* others write, the phases of a shutdown, and a new process.
SpawnFrame == UNCHANGED <<queue, worker, outside, faults, workerFaults>>

Ages(t) ==
    /\ t \in Topics /\ claim[t] = Pending /\ claim' = [claim EXCEPT ![t] = Stale]
    /\ (faults' = faults /\ ~Working(t)) \/ (faults' = faults + 1 /\ faults' <= MaxFaults)
    /\ UNCHANGED <<caller, handler, bus, queue, worker, up, shipment, order, active, history, workerFaults>>

RowsWritten ==
    /\ order' \in {order, "cancelled"} /\ active' \subseteq active
    /\ UNCHANGED <<caller, handler, bus, queue, worker, up, shipment, claim, history, faults, workerFaults>>

PhaseMoves ==
    /\ \/ phase = "up" /\ readers = {} /\ phase' = "closing" /\ drained' = drained /\ faults' = faults + 1 /\ faults' <= MaxFaults
       \/ phase # "up" /\ wg = 0 /\ phase' = phase /\ drained' = TRUE /\ faults' = faults
       \/ phase = "closing" /\ ~drained /\ phase' = "cancelled" /\ drained' = drained /\ faults' = faults
    /\ UNCHANGED <<caller, handler, wg, readers, queue, worker, outside, workerFaults>>

Restarts ==
    /\ Restarted
    /\ \/ (drained \/ phase = "cancelled") /\ faults' = faults
       \/ faults' = faults + 1 /\ faults' <= MaxFaults
    /\ UNCHANGED <<queue, worker, outside, workerFaults>>

\* What a step does.
Effect ==
    \/ \E c \in Callers : CallEffect(c) \/ (SpawnEffect(c) /\ SpawnFrame)
    \/ \E h \in Slots : Handle(h) /\ HandlerEffect(h)
    \/ \E w \in Workers : WorkEffect(w)
    \/ \E t \in Topics : Ages(t)
    \/ RowsWritten \/ PhaseMoves \/ Restarts

\* Every step has one of these effects.
LEMMA NextEffect ==
    ASSUME BusTyped, QueueTyped, RowsTyped, Next
    PROVE  Effect
<1>0. faults \in Nat /\ MaxFaults \in Nat
  BY QueueAssumption DEF QueueTyped
<1>1. /\ NoFault => faults' = faults /\ workerFaults' = workerFaults
      /\ ClientFault => faults' = faults + 1 /\ faults' <= MaxFaults /\ workerFaults' = workerFaults
  BY <1>0 DEF NoFault, ClientFault, Fault
<1>2. ASSUME NEW c \in Callers, Calling(c) PROVE Effect
  BY <1>2, CallSteps DEF Effect
<1>3. ASSUME NEW c \in Callers, SpawnHandlers(c) PROVE Effect
  <2>1. SpawnFrame
    BY <1>1, <1>3 DEF SpawnHandlers, SpawnFrame
  <2> QED
    BY <1>3, <2>1, SpawnStarts DEF Effect
<1>4. ASSUME NEW h \in Slots, Handle(h) PROVE Effect
  BY <1>4, HandlerSteps DEF Effect
<1>5. ASSUME NEW w \in Workers, WorkerStep(w) PROVE Effect
  BY <1>5, WorkSteps DEF Effect
<1>6. ASSUME NEW t \in Topics, GoStale(t) \/ Hang(t) PROVE Effect
  <2>2. Ages(t)
    <3>1. /\ claim[t] = Pending /\ claim' = [claim EXCEPT ![t] = Stale]
          /\ UNCHANGED <<caller, handler, bus, queue, worker, up, shipment, order, active, history>>
      BY <1>6 DEF GoStale, Hang, Age, SetClaim
    <3>2. (NoFault /\ ~Working(t)) \/ ClientFault
      BY <1>6 DEF GoStale, Hang
    <3>3. ((faults' = faults /\ ~Working(t)) \/ (faults' = faults + 1 /\ faults' <= MaxFaults)) /\ workerFaults' = workerFaults
      BY <1>1, <3>2
    <3> QED
      BY <3>1, <3>3 DEF Ages
  <2> QED
    BY <2>2 DEF Effect
<1>7. ASSUME CancelOrder \/ \E e \in Endpoints : Deactivate(e) PROVE Effect
  <2>1. RowsWritten
    BY <1>1, <1>7 DEF CancelOrder, Deactivate, RowsWritten
  <2> QED
    BY <2>1 DEF Effect
<1>8. ASSUME StartShutdown PROVE Effect
  <2>1. PhaseMoves
    BY <1>1, <1>8 DEF StartShutdown, BeginShutdown, LockFree, PhaseMoves
  <2> QED
    BY <2>1 DEF Effect
<1>9. ASSUME FinishShutdown PROVE Effect
  <2>1. PhaseMoves \/ Restarts
    BY <1>1, <1>9 DEF FinishShutdown, Drained, CancelStragglers, Exit, PhaseMoves, Restarts
  <2> QED
    BY <2>1 DEF Effect
<1>10. ASSUME Crash PROVE Effect
  <2>1. Restarts
    BY <1>1, <1>10 DEF Crash, Restarts
  <2> QED
    BY <2>1 DEF Effect
<1> QED
  BY <1>2, <1>3, <1>4, <1>5, <1>6, <1>7, <1>8, <1>9, <1>10 DEF Next, Calling, CallStep, WorkerStep

\* A handler that has listed the endpoints has one left.
ToDo == \A h \in Slots : handler[h] \in HookHandlers => HandlerAt(h, "list") \/ handler[h].todo # {}

Typed == BusTyped /\ QueueTyped /\ RowsTyped /\ ToDo

\* The worker's records and the queue keep their types.
LEMMA WorkTypes ==
    ASSUME QueueTyped, RowsTyped, NEW w \in Workers, WorkEffect(w)
    PROVE  QueueTyped' /\ RowsTyped'
<1> DEFINE Records0 == [pc : WorkerPc, job : Jobs \cup {NoJob}, copy : Record, failed : BOOLEAN]
<1>1. /\ worker \in [Workers -> Records0] /\ rec \in [Jobs -> Record] /\ ready \in Seq(Jobs) /\ delayed \subseteq Jobs
      /\ (\A x \in Workers : worker[x].job = NoJob <=> worker[x].pc = "poll")
      /\ Job(w) \in Jobs \cup {NoJob} /\ (Job(w) = NoJob <=> At(w, "poll")) /\ Copy(w) \in Record /\ Failed(w) \in BOOLEAN
      /\ \A j \in Jobs : rec[j] \in Record
  BY DEF QueueTyped, Job, Copy, Failed, At
<1>2. ASSUME NEW pc \in WorkerPc, NEW job \in Jobs \cup {NoJob}, NEW copy \in Record, NEW failed \in BOOLEAN,
             job = NoJob <=> pc = "poll", To(w, pc, job, copy, failed)
      PROVE  worker' \in [Workers -> Records0] /\ \A x \in Workers : worker'[x].job = NoJob <=> worker'[x].pc = "poll"
  <2> DEFINE r == [pc |-> pc, job |-> job, copy |-> copy, failed |-> failed]
  <2>1. r \in Records0 /\ (r.job = NoJob <=> r.pc = "poll")
    BY <1>2
  <2>2. worker' = [worker EXCEPT ![w] = r]
    BY <1>2 DEF To
  <2> HIDE DEF r, Records0
  <2> QED
    BY <1>1, <2>1, <2>2
<1>3. NoRecord \in Record /\ FALSE \in BOOLEAN /\ TRUE \in BOOLEAN
  BY DEF NoRecord, Record
<1>4. {"poll", "load", "save", "handle", "release", "requeue", "lrem", "reload", "record", "delay"} \subseteq WorkerPc
  BY DEF WorkerPc
<1> DEFINE WorkerTyped == worker \in [Workers -> Records0] /\ \A x \in Workers : worker[x].job = NoJob <=> worker[x].pc = "poll"
<1>5. /\ ToPoll(w) => WorkerTyped'
      /\ \A pc \in WorkerPc \ {"poll"}, copy \in Record, failed \in BOOLEAN :
            Job(w) \in Jobs /\ To(w, pc, Job(w), copy, failed) => WorkerTyped'
      /\ \A j \in Jobs : To(w, "load", j, NoRecord, FALSE) => WorkerTyped'
  <2>1. ToPoll(w) => WorkerTyped'
    BY <1>2, <1>3, <1>4 DEF ToPoll
  <2>2. ASSUME NEW pc \in WorkerPc \ {"poll"}, NEW copy \in Record, NEW failed \in BOOLEAN, Job(w) \in Jobs,
               To(w, pc, Job(w), copy, failed)
        PROVE  WorkerTyped'
    BY <1>2, <2>2, QueueAssumption
  <2>3. ASSUME NEW j \in Jobs, To(w, "load", j, NoRecord, FALSE)
        PROVE  WorkerTyped'
    BY <1>2, <1>3, <1>4, <2>3, QueueAssumption
  <2> QED
    BY <2>1, <2>2, <2>3
<1>6. mails \in [Topics -> Nat] /\ posts \in [Hooks -> Nat]
  BY DEF RowsTyped
<1>7. ~At(w, "poll") => Job(w) \in Jobs
  BY <1>1
<1> DEFINE Data == /\ rec' \in [Jobs -> Record] /\ ready' \in Seq(Jobs) /\ delayed' \subseteq Jobs
                   /\ mails' \in [Topics -> Nat] /\ posts' \in [Hooks -> Nat]
<1> HIDE DEF WorkerTyped, Records0
<1>8. WorkerTyped' /\ Data
  <2>1. CASE Claims(w)
    <3>1. Last(ready) \in Jobs /\ Front(ready) \in Seq(Jobs)
      BY <1>1, <2>1, CountPop DEF Claims
    <3> QED
      BY <1>1, <1>5, <1>6, <2>1, <3>1 DEF Claims
  <2>2. CASE Stays(w)
    <3>1. PICK pc \in WorkerPc, copy \in Record :
              /\ <<worker[w].pc, pc>> \in {<<"load", "save">>, <<"load", "release">>, <<"save", "release">>, <<"release", "requeue">>,
                                          <<"lrem", "reload">>, <<"reload", "record">>}
              /\ To(w, pc, Job(w), copy, Failed(w))
      BY <2>2 DEF Stays
    <3>2. pc # "poll" /\ worker[w].pc # "poll"
      BY <3>1
    <3> QED
      BY <1>1, <1>5, <1>6, <1>7, <2>2, <3>1, <3>2 DEF Stays, At
  <2>3. CASE Drops(w)
    BY <1>1, <1>5, <1>6, <2>3 DEF Drops
  <2>4. CASE Starts(w)
    <3>1. Started(Copy(w)) \in Record
      BY <1>1 DEF Started, Record
    <3>2. Job(w) \in Jobs
      BY <1>7, <2>4 DEF Starts, At
    <3> QED
      BY <1>1, <1>4, <1>5, <1>6, <2>4, <3>1, <3>2 DEF Starts
  <2>5. CASE Requeues(w)
    <3>1. Job(w) \in Jobs
      BY <1>7, <2>5 DEF Requeues, At
    <3>2. <<Job(w)>> \o ready \in Seq(Jobs)
      BY <1>1, <3>1, CountPush
    <3> QED
      BY <1>1, <1>5, <1>6, <2>5, <3>2 DEF Requeues
  <2>6. CASE Records(w)
    <3>1. Outcome(w) \in Record
      BY <1>1 DEF Outcome, Record
    <3>2. Job(w) \in Jobs
      BY <1>7, <2>6 DEF Records, At
    <3> QED
      BY <1>1, <1>4, <1>5, <1>6, <2>6, <3>1, <3>2 DEF Records
  <2>7. CASE Delays(w)
    <3>1. Job(w) \in Jobs
      BY <1>7, <2>7 DEF Delays, At
    <3> QED
      BY <1>1, <1>5, <1>6, <2>7, <3>1 DEF Delays
  <2>8. CASE Sends(w)
    <3>1. Job(w) \in Jobs
      BY <1>7, <2>8 DEF Sends, At
    <3>2. WorkerTyped'
      <4>1. \E failed \in BOOLEAN : To(w, "lrem", Job(w), Copy(w), failed)
        BY <1>3, <2>8 DEF Sends
      <4> QED
        BY <1>1, <1>4, <1>5, <3>1, <4>1, Zenon
    <3>3. mails' \in [Topics -> Nat]
      <4>1. mails' \in {mails, [mails EXCEPT ![Job(w)] = @ + 1]} /\ Job(w) \in Topics
        BY <2>8 DEF Sends
      <4>2. [mails EXCEPT ![Job(w)] = @ + 1] \in [Topics -> Nat]
        BY <1>6, <4>1
      <4> QED
        BY <1>6, <4>1, <4>2
    <3> QED
      BY <1>1, <1>6, <2>8, <3>2, <3>3 DEF Sends
  <2>9. CASE Delivers(w)
    <3>1. Job(w) \in Jobs
      BY <1>7, <2>9 DEF Delivers, At
    <3>2. WorkerTyped'
      BY <1>1, <1>4, <1>5, <2>9, <3>1 DEF Delivers
    <3>3. posts' \in [Hooks -> Nat]
      BY <1>6, <2>9 DEF Delivers
    <3> QED
      BY <1>1, <1>6, <2>9, <3>2, <3>3 DEF Delivers
  <2>10. CASE Promotes
    <3>1. PICK due \in SUBSET delayed : delayed' = delayed \ due /\ ready' = SetToSeq(due) \o ready
      BY <2>10 DEF Promotes
    <3>2. due \in SUBSET Jobs /\ IsFiniteSet(due)
      BY <1>1, QueueAssumption, FS_Subset
    <3>3. SetToSeq(due) \o ready \in Seq(Jobs)
      BY <1>1, <3>2, CountPromote
    <3> QED
      BY <1>1, <1>6, <2>10, <3>1, <3>3 DEF Promotes, WorkerTyped
  <2> QED
    BY <2>1, <2>2, <2>3, <2>4, <2>5, <2>6, <2>7, <2>8, <2>9, <2>10 DEF WorkEffect, WorkMove
<1>9. processing' \in [Jobs -> Nat] /\ faults' \in 0..MaxFaults /\ workerFaults' \in Nat
  BY QueueAssumption DEF WorkEffect, WorkFrame, QueueTyped
<1>10. QueueTyped'
  BY <1>8, <1>9 DEF QueueTyped, WorkerTyped, Records0, Job, At
<1>11. RowsTyped'
  BY <1>8 DEF RowsTyped, WorkEffect, WorkFrame
<1> QED
  BY <1>10, <1>11
MailAt(pc, t) == [kind |-> "mail", pc |-> pc, topic |-> t]
HookAt(pc, n, todo) == [kind |-> "hook", pc |-> pc, n |-> n, todo |-> todo]

\* The ways the model has of changing a handler's record.
LEMMA HandlerGotos ==
    ASSUME BusTyped, NEW h \in Slots
    PROVE  /\ handler[h] \in MailHandlers =>
                 \A pc \in {"order", "claim", "save", "push", "complete", "release"} :
                     HandlerGoto(h, pc) => handler' = [handler EXCEPT ![h] = MailAt(pc, handler[h].topic)]
           /\ handler[h] \in HookHandlers =>
                 /\ \A pc \in {"list", "save", "push"} :
                       HandlerGoto(h, pc) => handler' = [handler EXCEPT ![h] = HookAt(pc, handler[h].n, handler[h].todo)]
                 /\ \A todo \in SUBSET Endpoints :
                       handler' = [handler EXCEPT ![h].pc = "save", ![h].todo = todo]
                           => handler' = [handler EXCEPT ![h] = HookAt("save", handler[h].n, todo)]
<1>1. ASSUME handler[h] \in MailHandlers, NEW pc \in {"order", "claim", "save", "push", "complete", "release"}, HandlerGoto(h, pc)
      PROVE  handler' = [handler EXCEPT ![h] = MailAt(pc, handler[h].topic)]
  <2>1. [handler[h] EXCEPT !.pc = pc] = MailAt(pc, handler[h].topic)
    BY <1>1, Gotos DEF MailAt
  <2> QED
    BY <1>1, <2>1 DEF HandlerGoto
<1>2. ASSUME handler[h] \in HookHandlers, NEW pc \in {"list", "save", "push"}, HandlerGoto(h, pc)
      PROVE  handler' = [handler EXCEPT ![h] = HookAt(pc, handler[h].n, handler[h].todo)]
  <2>1. [handler[h] EXCEPT !.pc = pc] = HookAt(pc, handler[h].n, handler[h].todo)
    BY <1>2, Gotos DEF HookAt
  <2> QED
    BY <1>2, <2>1 DEF HandlerGoto
<1>3. ASSUME handler[h] \in HookHandlers, NEW todo \in SUBSET Endpoints, handler' = [handler EXCEPT ![h].pc = "save", ![h].todo = todo]
      PROVE  handler' = [handler EXCEPT ![h] = HookAt("save", handler[h].n, todo)]
  <2>1. [handler[h] EXCEPT !.pc = "save", !.todo = todo] = HookAt("save", handler[h].n, todo)
    BY <1>3, Gotos DEF HookAt
  <2>2. handler' = [handler EXCEPT ![h] = [handler[h] EXCEPT !.pc = "save", !.todo = todo]]
    <3>1. handler = [g \in Slots |-> handler[g]]
      BY DEF BusTyped
    <3> QED
      BY <1>3, <3>1
  <2> QED
    BY <2>1, <2>2
<1> QED
  BY <1>1, <1>2, <1>3

\* The job that a handler enqueues is for an endpoint of its list.
LEMMA HookJobs ==
    ASSUME Typed, NEW h \in Slots, handler[h] \in HookHandlers, ~HandlerAt(h, "list")
    PROVE  /\ Min(handler[h].todo) \in handler[h].todo
           /\ HookJob(h) \in Hooks /\ HookJob(h) \in Jobs
           /\ HookJob(h)[1] \in handler[h].todo /\ HookJob(h)[2] = handler[h].n
<1>1. handler[h].todo \subseteq Endpoints /\ handler[h].n \in 1..MaxPaid /\ handler[h].todo # {}
  BY Kinds DEF Typed, ToDo
<1>2. handler[h].todo \in SUBSET Nat /\ IsFiniteSet(handler[h].todo)
  BY <1>1, DispatchAssumption, FS_Subset
<1>3. Min(handler[h].todo) \in handler[h].todo
  BY <1>1, <1>2, MinExists
<1>4. HookJob(h) \in Hooks
  BY <1>1, <1>3 DEF HookJob, Hooks
<1> QED
  BY <1>3, <1>4, DispatchAssumption DEF HookJob

\* What the handlers write keeps its types.
LEMMA HandlerTypes ==
    ASSUME Typed, NEW h \in Slots, Handle(h), HandlerEffect(h)
    PROVE  QueueTyped' /\ RowsTyped'
<1>0. faults \in Nat /\ MaxFaults \in Nat /\ faults <= MaxFaults /\ workerFaults \in Nat /\ Fresh \in Record
  BY QueueAssumption DEF Typed, QueueTyped, Fresh, Record
<1>1. faults' \in 0..MaxFaults /\ workerFaults' \in Nat
  <2>1. NoFault \/ ClientFault
    BY DEF Handle, ReadOrder, TryInsert, EnqueueSave, EnqueuePush, SettleClaim, ListActive, HookSave, HookPush, CommandFails
  <2> QED
    BY <1>0, <2>1 DEF NoFault, ClientFault, Fault
<1>2. handler[h] \in {Idle} \cup MailHandlers \cup HookHandlers
  BY DEF Typed, BusTyped, Handlers
<1>3. UNCHANGED <<rec, ready>> \/ (\E j \in Jobs : SaveNew(j)) \/ \E j \in Jobs : PushNew(j)
  <2>1. CASE EnqueueSave(h) \/ EnqueuePush(h)
    <3>1. handler[h] \in MailHandlers
      BY <1>2, <2>1, Kinds DEF EnqueueSave, EnqueuePush, Mail, HandlerAt, Idle
    <3>2. Topic(h) \in Jobs
      BY <3>1, Kinds, DispatchAssumption DEF Topic
    <3> QED
      BY <2>1, <3>2 DEF EnqueueSave, EnqueuePush, queue, lists
  <2>2. CASE HookSave(h) \/ HookPush(h)
    <3>1. handler[h] \in HookHandlers /\ ~HandlerAt(h, "list")
      BY <1>2, <2>2, Kinds DEF HookSave, HookPush, Hook, HandlerAt, Idle
    <3>2. HookJob(h) \in Jobs
      BY <3>1, HookJobs
    <3> QED
      BY <2>2, <3>2 DEF HookSave, HookPush, queue, lists
  <2>3. CASE ReadOrder(h) \/ TryInsert(h) \/ SettleClaim(h) \/ ListActive(h)
    BY <2>3 DEF ReadOrder, TryInsert, SettleClaim, ListActive, queue, lists
  <2> QED
    BY <2>1, <2>2, <2>3 DEF Handle
<1>4. rec' \in [Jobs -> Record] /\ ready' \in Seq(Jobs)
  <2>1. ready \in Seq(Jobs) /\ rec \in [Jobs -> Record]
    BY DEF Typed, QueueTyped
  <2>2. CASE UNCHANGED <<rec, ready>>
    BY <2>1, <2>2
  <2>3. CASE \E j \in Jobs : SaveNew(j)
    BY <1>0, <2>1, <2>3 DEF SaveNew, lists
  <2>4. CASE \E j \in Jobs : PushNew(j)
    <3>1. PICK j \in Jobs : PushNew(j)
      BY <2>4
    <3>2. <<j>> \o ready \in Seq(Jobs)
      BY <2>1, CountPush
    <3> QED
      BY <2>1, <3>1, <3>2 DEF PushNew, LPush
  <2> QED
    BY <1>3, <2>2, <2>3, <2>4
<1>5. claim' \in [Topics -> [status : {"none", "pending", "completed"}, stale : BOOLEAN]]
  <2> DEFINE C == [status : {"none", "pending", "completed"}, stale : BOOLEAN]
  <2>1. claim \in [Topics -> C]
    BY DEF Typed, RowsTyped
  <2>2. NoClaim \in C /\ Pending \in C /\ [status |-> "completed", stale |-> FALSE] \in C
    BY DEF NoClaim, Pending
  <2>3. \/ claim' = claim
        \/ \E c \in C : claim' = [claim EXCEPT ![Topic(h)] = c]
    <3>1. CASE TryInsert(h)
      BY <2>2, <3>1 DEF TryInsert, SetClaim
    <3>2. CASE SettleClaim(h)
      <4>1. UNCHANGED claim \/ DropClaim(Topic(h))
            \/ claim' = [claim EXCEPT ![Topic(h)] = IF claim[Topic(h)] = NoClaim THEN claim[Topic(h)] ELSE [status |-> "completed", stale |-> FALSE]]
        BY <3>2 DEF SettleClaim
      <4> HIDE DEF C
      <4> QED
        BY <2>2, <4>1 DEF DropClaim, SetClaim
    <3>3. CASE ~TryInsert(h) /\ ~SettleClaim(h)
      BY <3>3 DEF Handle, ReadOrder, EnqueueSave, EnqueuePush, ListActive, HookSave, HookPush
    <3> QED
      BY <3>1, <3>2, <3>3
  <2> HIDE DEF C
  <2>4. claim' \in [Topics -> C]
    BY <2>1, <2>3
  <2> QED
    BY <2>4 DEF C
<1>6. QueueTyped'
  BY <1>1, <1>4 DEF Typed, QueueTyped, HandlerEffect, HandlerFrame, Job, At
<1>7. RowsTyped'
  BY <1>5 DEF Typed, RowsTyped, HandlerEffect, HandlerFrame
<1> QED
  BY <1>6, <1>7

\* A handler that has listed the endpoints goes on while one is left.
LEMMA HandlerToDo ==
    ASSUME Typed, NEW h \in Slots, Handle(h), HandlerEffect(h)
    PROVE  ToDo'
<1>1. handler \in [Slots -> {Idle} \cup MailHandlers \cup HookHandlers]
  BY DEF Typed, BusTyped, Handlers
<1>2. PICK new \in {Idle} \cup Handlers : HandlerMove(h, new)
  BY DEF HandlerEffect
<1>3. handler' = [handler EXCEPT ![h] = new]
  BY <1>2 DEF HandlerMove
<1>4. SUFFICES ASSUME new \in HookHandlers
               PROVE  new.pc = "list" \/ new.todo # {}
  BY <1>1, <1>3 DEF Typed, ToDo, HandlerAt
<1>5. handler[h] \in HookHandlers /\ new = handler'[h] /\ new # Idle
  BY <1>1, <1>2, <1>3, <1>4, Kinds DEF HandlerMove
<1>6. ListActive(h) \/ HookSave(h) \/ HookPush(h)
  BY <1>5, Kinds DEF Handle, ReadOrder, TryInsert, EnqueueSave, EnqueuePush, SettleClaim, Mail
<1>7. ~EndHandler(h)
  BY <1>1, <1>5 DEF EndHandler
<1>8. CASE ListActive(h)
  <2>1. active # {} /\ active \in SUBSET Endpoints /\ handler' = [handler EXCEPT ![h].pc = "save", ![h].todo = active]
    BY <1>7, <1>8 DEF ListActive, Typed, RowsTyped
  <2>2. new = HookAt("save", handler[h].n, active)
    <3>1. handler' = [handler EXCEPT ![h] = HookAt("save", handler[h].n, active)]
      BY <1>5, <2>1, HandlerGotos DEF Typed
    <3> QED
      BY <1>1, <1>5, <3>1
  <2> QED
    BY <2>1, <2>2 DEF HookAt
<1>9. CASE HookSave(h)
  <2>1. HandlerGoto(h, "push") /\ HandlerAt(h, "save")
    BY <1>7, <1>9 DEF HookSave, Hook
  <2>2. handler[h].todo # {}
    BY <1>5, <2>1 DEF Typed, ToDo, HandlerAt
  <2>3. new = HookAt("push", handler[h].n, handler[h].todo)
    <3>1. handler' = [handler EXCEPT ![h] = HookAt("push", handler[h].n, handler[h].todo)]
      BY <1>5, <2>1, HandlerGotos DEF Typed
    <3> QED
      BY <1>1, <1>5, <3>1
  <2> QED
    BY <2>2, <2>3 DEF HookAt
<1>10. CASE HookPush(h)
  <2> DEFINE rest == handler[h].todo \ {Min(handler[h].todo)}
  <2>1. rest # {} /\ rest \in SUBSET Endpoints /\ handler' = [handler EXCEPT ![h].pc = "save", ![h].todo = rest]
    BY <1>5, <1>7, <1>10, Kinds DEF HookPush, NextHook
  <2> HIDE DEF rest
  <2>2. new = HookAt("save", handler[h].n, rest)
    <3>1. handler' = [handler EXCEPT ![h] = HookAt("save", handler[h].n, rest)]
      BY <1>5, <2>1, HandlerGotos DEF Typed
    <3> QED
      BY <1>1, <1>5, <3>1
  <2> QED
    BY <2>1, <2>2 DEF HookAt
<1> QED
  BY <1>6, <1>8, <1>9, <1>10
\* Types are kept by every effect.
LEMMA EffectTyped ==
    ASSUME Typed, Effect
    PROVE  Typed'
<1>1. /\ BusTyped /\ QueueTyped /\ RowsTyped /\ ToDo
      /\ caller \in [Callers -> Calls] /\ handler \in [Slots -> {Idle} \cup Handlers]
      /\ Idle \in Calls /\ Idle \in {Idle} \cup Handlers
  BY DEF Typed, BusTyped, Calls
<1>2. ASSUME UNCHANGED <<rec, ready, processing, delayed, worker, faults, workerFaults>> PROVE QueueTyped'
  BY <1>1, <1>2 DEF QueueTyped, Job, At
<1>3. ASSUME UNCHANGED <<rec, ready, processing, delayed, worker>>, faults' \in {faults, faults + 1}, faults' <= MaxFaults, workerFaults' = workerFaults
      PROVE  QueueTyped'
  BY <1>1, <1>3, QueueAssumption DEF QueueTyped, Job, At
<1>4. ASSUME UNCHANGED handler PROVE ToDo'
  BY <1>1, <1>4 DEF ToDo, HandlerAt
<1>5. ASSUME NEW c \in Callers, CallEffect(c) PROVE Typed'
  <2>1. PICK new \in Calls : CallMove(c, new)
    BY <1>5 DEF CallEffect
  <2>2. caller' \in [Callers -> Calls] /\ readers' \subseteq Callers
    BY <1>1, <2>1 DEF CallMove, BusTyped
  <2>3. CallFrame /\ shipment' \in Shipments /\ paid' \in 0..MaxPaid
    BY <1>5 DEF CallEffect
  <2>4. BusTyped'
    BY <1>1, <2>2, <2>3 DEF BusTyped, CallFrame, Calls
  <2>5. RowsTyped'
    BY <1>1, <2>3 DEF RowsTyped, CallFrame
  <2>6. QueueTyped' /\ ToDo'
    BY <1>2, <1>4, <2>3 DEF CallFrame, queue, lists
  <2> QED
    BY <2>4, <2>5, <2>6 DEF Typed
<1>6. ASSUME NEW c \in Callers, SpawnEffect(c), SpawnFrame PROVE Typed'
  <2>1. caller[c] \in PaidCalls => caller[c].n \in 1..MaxPaid
    BY DEF PaidCalls
  <2>2. /\ NewMail(Shipped) \in MailHandlers /\ NewMail(Paid) \in MailHandlers
        /\ caller[c] \in PaidCalls => NewHook(caller[c].n) \in HookHandlers /\ NewHook(caller[c].n).pc = "list"
    BY <2>1 DEF NewMail, NewHook, MailHandlers, HookHandlers, Topics
  <2>3. /\ handler' \in [Slots -> {Idle} \cup Handlers]
        /\ \A h \in Slots : handler'[h] = handler[h] \/ handler'[h] \in MailHandlers \/ handler'[h].pc = "list"
    <3>1. PICK m \in Slots :
             \/ handler' = [handler EXCEPT ![m] = NewMail(Shipped)]
             \/ caller[c] \in PaidCalls /\ \E k \in Slots \ {m} : handler' = [handler EXCEPT ![m] = NewMail(Paid), ![k] = NewHook(caller[c].n)]
      BY <1>6 DEF SpawnEffect
    <3>2. CASE handler' = [handler EXCEPT ![m] = NewMail(Shipped)]
      BY <1>1, <2>2, <3>2 DEF Handlers
    <3>3. CASE caller[c] \in PaidCalls /\ \E k \in Slots \ {m} : handler' = [handler EXCEPT ![m] = NewMail(Paid), ![k] = NewHook(caller[c].n)]
      BY <1>1, <2>2, <3>3 DEF Handlers
    <3> QED
      BY <3>1, <3>2, <3>3
  <2>4. ToDo'
    BY <1>1, <2>3, Kinds DEF ToDo, HandlerAt
  <2>5. caller' \in [Callers -> Calls] /\ readers' \subseteq Callers /\ UNCHANGED <<phase, drained>>
    BY <1>1, <1>6 DEF SpawnEffect, EndCall, BusTyped
  <2>6. BusTyped'
    BY <1>1, <2>3, <2>5 DEF BusTyped, Calls
  <2>7. RowsTyped'
    BY <1>1, <1>6 DEF RowsTyped, SpawnFrame, outside, rows, history
  <2>8. QueueTyped'
    BY <1>2, <1>6 DEF SpawnFrame, queue, lists
  <2> QED
    BY <2>4, <2>6, <2>7, <2>8 DEF Typed
<1>7. ASSUME NEW h \in Slots, Handle(h), HandlerEffect(h) PROVE Typed'
  <2>1. PICK new \in {Idle} \cup Handlers : HandlerMove(h, new)
    BY <1>7 DEF HandlerEffect
  <2>2. BusTyped'
    BY <1>1, <1>7, <2>1 DEF BusTyped, HandlerMove, HandlerEffect, HandlerFrame
  <2> QED
    BY <1>7, <2>2, HandlerTypes, HandlerToDo DEF Typed
<1>8. ASSUME NEW w \in Workers, WorkEffect(w) PROVE Typed'
  <2>1. BusTyped' /\ ToDo'
    BY <1>1, <1>4, <1>8 DEF WorkEffect, WorkFrame, BusTyped
  <2> QED
    BY <1>1, <1>8, <2>1, WorkTypes DEF Typed
<1>9. ASSUME NEW t \in Topics, Ages(t) PROVE Typed'
  <2>1. BusTyped' /\ ToDo'
    BY <1>1, <1>4, <1>9 DEF Ages, BusTyped, bus
  <2>2. QueueTyped'
    <3>1. faults' \in {faults, faults + 1} /\ faults' <= MaxFaults
      BY <1>1, <1>9, QueueAssumption DEF Ages, QueueTyped
    <3> QED
      BY <1>3, <1>9, <3>1 DEF Ages, queue, lists
  <2>3. claim' \in [Topics -> [status : {"none", "pending", "completed"}, stale : BOOLEAN]]
    <3> DEFINE C == [status : {"none", "pending", "completed"}, stale : BOOLEAN]
    <3>1. Stale \in C /\ claim \in [Topics -> C]
      BY <1>1 DEF Stale, RowsTyped
    <3> HIDE DEF C
    <3>2. claim' \in [Topics -> C]
      BY <1>9, <3>1 DEF Ages
    <3> QED
      BY <3>2 DEF C
  <2>4. RowsTyped'
    BY <1>1, <1>9, <2>3 DEF Ages, RowsTyped, history
  <2> QED
    BY <2>1, <2>2, <2>4 DEF Typed
<1>10. ASSUME RowsWritten PROVE Typed'
  <2>1. BusTyped' /\ ToDo'
    BY <1>1, <1>4, <1>10 DEF RowsWritten, BusTyped, bus
  <2>2. QueueTyped'
    BY <1>2, <1>10 DEF RowsWritten, queue, lists
  <2>3. RowsTyped'
    BY <1>1, <1>10 DEF RowsWritten, RowsTyped, history
  <2> QED
    BY <2>1, <2>2, <2>3 DEF Typed
<1>11. ASSUME PhaseMoves PROVE Typed'
  <2>1. BusTyped' /\ ToDo'
    BY <1>1, <1>4, <1>11 DEF PhaseMoves, BusTyped
  <2>2. faults' \in {faults, faults + 1} /\ faults' <= MaxFaults
    BY <1>1, <1>11, QueueAssumption DEF PhaseMoves, QueueTyped
  <2>3. QueueTyped'
    BY <1>3, <1>11, <2>2 DEF PhaseMoves, queue, lists
  <2>4. RowsTyped'
    BY <1>1, <1>11 DEF PhaseMoves, RowsTyped, outside, rows, history
  <2> QED
    BY <2>1, <2>3, <2>4 DEF Typed
<1>12. ASSUME Restarts PROVE Typed'
  <2>1. BusTyped'
    BY <1>1, <1>12 DEF Restarts, Restarted, BusTyped, Calls
  <2>2. ToDo'
    BY <1>12, Kinds DEF Restarts, Restarted, ToDo
  <2>3. faults' \in {faults, faults + 1} /\ faults' <= MaxFaults
    BY <1>1, <1>12, QueueAssumption DEF Restarts, QueueTyped
  <2>4. QueueTyped'
    BY <1>3, <1>12, <2>3 DEF Restarts, queue, lists
  <2>5. RowsTyped'
    BY <1>1, <1>12 DEF Restarts, RowsTyped, outside, rows, history
  <2> QED
    BY <2>1, <2>2, <2>4, <2>5 DEF Typed
<1> QED
  BY <1>5, <1>6, <1>7, <1>8, <1>9, <1>10, <1>11, <1>12 DEF Effect
------------------------------------------------------------------------------
(* The WaitGroup *)

\* The handlers that run are finitely many.
LEMMA RunningFinite == IsFiniteSet(Running) /\ Cardinality(Running) \in 0..Cardinality(Slots) /\ Cardinality(Slots) \in Nat
<1>1. Running \in SUBSET Slots
  BY DEF Running
<1>2. IsFiniteSet(Slots) /\ Cardinality(Slots) \in Nat
  BY BusAssumption, FS_CardinalityType
<1>3. IsFiniteSet(Running) /\ Cardinality(Running) <= Cardinality(Slots)
  BY <1>1, <1>2, FS_Subset
<1>4. Cardinality(Running) \in Nat
  BY <1>3, FS_CardinalityType
<1> QED
  BY <1>2, <1>3, <1>4

\* The bus's invariant is kept.
LEMMA EffectCounted ==
    ASSUME Typed, BInv, Effect
    PROVE  BInv'
<1>1. /\ caller \in [Callers -> Calls] /\ handler \in [Slots -> {Idle} \cup Handlers]
      /\ readers \subseteq Callers
      /\ wg = Cardinality(Running) /\ wg \in Nat /\ IsFiniteSet(Running)
      /\ \A c \in Callers : caller[c].pc = "add" <=> c \in readers
      /\ (phase # "up" => readers = {}) /\ (drained => phase # "up" /\ wg = 0)
  BY RunningFinite DEF Typed, BusTyped, Calls, BInv, CallerAt
<1>2. ASSUME UNCHANGED <<caller, handler, wg, phase, readers, drained>> PROVE BInv'
  BY <1>1, <1>2 DEF BInv, Running, CallerAt
<1>3. Idle.pc = "idle"
  BY DEF Idle
<1>4. ASSUME NEW c \in Callers, CallEffect(c) PROVE BInv'
  <2>1. PICK new \in Calls : CallMove(c, new)
    BY <1>4 DEF CallEffect
  <2>2. UNCHANGED <<handler, wg, phase, drained>> /\ caller[c].pc # "add"
    BY <1>4 DEF CallEffect, CallFrame, CallerAt
  <2>3. /\ caller' = [caller EXCEPT ![c] = new]
        /\ readers' = IF new.pc = "add" THEN readers \cup {c} ELSE readers
        /\ new.pc = "add" => phase = "up"
    BY <2>1 DEF CallMove
  <2>4. \A d \in Callers : caller'[d].pc = "add" <=> d \in readers'
    BY <1>1, <2>2, <2>3
  <2>5. Running' = Running
    BY <2>2 DEF Running
  <2> QED
    BY <1>1, <2>2, <2>3, <2>4, <2>5 DEF BInv, CallerAt
<1>5. ASSUME NEW c \in Callers, SpawnEffect(c) PROVE BInv'
  <2>1. /\ caller' = [caller EXCEPT ![c] = Idle] /\ readers' = readers \ {c} /\ UNCHANGED <<phase, drained>>
        /\ caller[c].pc = "add"
    BY <1>5 DEF SpawnEffect, EndCall, CallerAt
  <2>2. \A d \in Callers : caller'[d].pc = "add" <=> d \in readers'
    BY <1>1, <1>3, <2>1
  <2>3. phase = "up" /\ ~drained
    BY <1>1, <2>1
  <2>4. wg' = Cardinality(Running')
    <3>1. \A t, n : NewMail(t) # Idle /\ NewHook(n) # Idle
      BY <1>3 DEF NewMail, NewHook
    <3>2. PICK m \in Slots :
              /\ handler[m] = Idle
              /\ \/ handler' = [handler EXCEPT ![m] = NewMail(Shipped)] /\ wg' = wg + 1
                 \/ /\ \E k \in Slots \ {m} :
                          /\ handler[k] = Idle
                          /\ handler' = [handler EXCEPT ![m] = NewMail(Paid), ![k] = NewHook(caller[c].n)]
                    /\ wg' = wg + 2
      BY <1>5 DEF SpawnEffect
    <3>3. CASE handler' = [handler EXCEPT ![m] = NewMail(Shipped)] /\ wg' = wg + 1
      <4>1. Running' = Running \cup {m} /\ m \notin Running
        BY <1>1, <3>1, <3>2, <3>3 DEF Running
      <4> QED
        BY <1>1, <3>3, <4>1, FS_AddElement
    <3>4. ASSUME NEW k \in Slots \ {m}, handler[k] = Idle, wg' = wg + 2,
                 handler' = [handler EXCEPT ![m] = NewMail(Paid), ![k] = NewHook(caller[c].n)]
          PROVE  wg' = Cardinality(Running')
      <4>1. \A h \in Slots : handler'[h] = IF h = k THEN NewHook(caller[c].n) ELSE IF h = m THEN NewMail(Paid) ELSE handler[h]
        BY <1>1, <3>4
      <4>2. Running' = (Running \cup {m}) \cup {k} /\ m \notin Running /\ k \notin Running \cup {m}
        <5>1. \A h \in Slots : handler'[h] # Idle <=> handler[h] # Idle \/ h = m \/ h = k
          BY <3>1, <3>2, <3>4, <4>1
        <5> QED
          BY <3>2, <3>4, <5>1 DEF Running
      <4>3. IsFiniteSet(Running \cup {m}) /\ Cardinality(Running \cup {m}) = wg + 1
        BY <1>1, <4>2, FS_AddElement
      <4>4. Cardinality((Running \cup {m}) \cup {k}) = wg + 2
        <5> DEFINE R == Running \cup {m}
        <5>1. IsFiniteSet(R) /\ Cardinality(R) = wg + 1 /\ k \notin R
          BY <4>2, <4>3
        <5> HIDE DEF R
        <5>2. Cardinality(R \cup {k}) = Cardinality(R) + 1
          BY <5>1, FS_AddElement
        <5>3. Cardinality(R \cup {k}) = wg + 2
          BY <1>1, <5>1, <5>2
        <5> QED
          BY <5>3 DEF R
      <4> QED
        BY <3>4, <4>2, <4>4
    <3> QED
      BY <3>2, <3>3, <3>4
  <2> QED
    BY <1>1, <2>1, <2>2, <2>3, <2>4 DEF BInv, CallerAt
<1>6. ASSUME NEW h \in Slots, HandlerEffect(h) PROVE BInv'
  <2>1. PICK new \in {Idle} \cup Handlers : HandlerMove(h, new)
    BY <1>6 DEF HandlerEffect
  <2>2. UNCHANGED <<caller, phase, readers, drained>> /\ handler[h] # Idle
    BY <1>6, Kinds DEF HandlerEffect, HandlerFrame
  <2>3. handler' = [handler EXCEPT ![h] = new] /\ wg' = IF new = Idle THEN wg - 1 ELSE wg
    BY <2>1 DEF HandlerMove
  <2>4. h \in Running
    BY <2>2 DEF Running
  <2>5. wg' = Cardinality(Running')
    <3>1. CASE new = Idle
      <4>1. Running' = Running \ {h}
        BY <1>1, <2>3, <3>1 DEF Running
      <4> QED
        BY <1>1, <2>3, <2>4, <3>1, <4>1, FS_RemoveElement
    <3>2. CASE new # Idle
      <4>1. Running' = Running
        BY <1>1, <2>2, <2>3, <3>2 DEF Running
      <4> QED
        BY <1>1, <2>3, <3>2, <4>1
    <3> QED
      BY <3>1, <3>2
  <2>6. wg # 0
    BY <1>1, <2>4, FS_EmptySet
  <2> QED
    BY <1>1, <2>2, <2>5, <2>6 DEF BInv, CallerAt
<1>7. ASSUME NEW w \in Workers, WorkEffect(w) PROVE BInv'
  BY <1>2, <1>7 DEF WorkEffect, WorkFrame
<1>8. ASSUME (\E t \in Topics : Ages(t)) \/ RowsWritten PROVE BInv'
  BY <1>2, <1>8 DEF Ages, RowsWritten, bus
<1>9. ASSUME PhaseMoves PROVE BInv'
  <2>1. Running' = Running /\ UNCHANGED <<caller, handler, wg, readers>>
    BY <1>9 DEF PhaseMoves, Running
  <2> QED
    BY <1>1, <1>9, <2>1 DEF PhaseMoves, BInv, CallerAt
<1>10. ASSUME Restarts PROVE BInv'
  <2>1. Running' = {}
    BY <1>10 DEF Restarts, Restarted, Running
  <2> QED
    BY <1>3, <1>10, <2>1, FS_EmptySet DEF Restarts, Restarted, BInv, CallerAt
<1> QED
  BY <1>4, <1>5, <1>6, <1>7, <1>8, <1>9, <1>10 DEF Effect

\* The first state.
LEMMA InitTyped == Init => Typed /\ BInv
<1> SUFFICES ASSUME Init PROVE Typed /\ BInv
  OBVIOUS
<1> USE DEF Init, BusInit, QueueInit
<1>1. Idle.pc = "idle"
  BY DEF Idle
<1>2. BusTyped /\ ToDo
  BY Kinds DEF BusTyped, ToDo
<1>3. QueueTyped
  <2>1. NoRecord \in Record /\ Polling \in [pc : WorkerPc, job : Jobs \cup {NoJob}, copy : Record, failed : BOOLEAN]
        /\ Polling.job = NoJob /\ Polling.pc = "poll"
    BY DEF NoRecord, Record, Polling, WorkerPc
  <2>2. ready \in Seq(Jobs)
    BY DEF Init
  <2> HIDE DEF Init
  <2> QED
    BY <2>1, <2>2, QueueAssumption DEF QueueTyped, Job, At, Init
<1>4. RowsTyped
  <2>1. NoClaim \in [status : {"none", "pending", "completed"}, stale : BOOLEAN]
    BY DEF NoClaim
  <2> QED
    BY <2>1, DispatchAssumption DEF RowsTyped, Shipments
<1>5. BInv
  <2>1. Running = {}
    BY DEF Running
  <2> QED
    BY <1>1, <2>1, FS_EmptySet DEF BInv, CallerAt
<1> QED
  BY <1>2, <1>3, <1>4, <1>5 DEF Typed

\* Types and the bus's invariant, along a step.
LEMMA StepTyped ==
    ASSUME Typed, BInv, [Next]_vars
    PROVE  Typed' /\ BInv'
<1>1. CASE Next
  <2>1. Effect
    BY <1>1, NextEffect DEF Typed
  <2> QED
    BY <2>1, EffectTyped, EffectCounted
<1>2. CASE UNCHANGED vars
  BY <1>2 DEF vars, bus, queue, lists, outside, rows, history, Typed, BusTyped, QueueTyped, RowsTyped, ToDo, BInv, Running, CallerAt,
              HandlerAt, Job, At
<1> QED
  BY <1>1, <1>2

\* Rows, lists, claims, goroutines and the WaitGroup have their types.
THEOREM TypeCorrect == Spec => []TypeOK
<1>1. Typed /\ BInv => TypeOK
  BY RunningFinite, TypeParts DEF Typed, BInv
<1> QED
  BY <1>1, InitTyped, StepTyped, PTL DEF Spec

\* Once Drain has seen the WaitGroup empty, no handler runs and none is admitted
\* (bus.go: who looks at shuttingDown adds to the WaitGroup before it unlocks).
THEOREM DrainCorrect == Spec => []NothingRunsAfterDrain
<1>1. Typed /\ BInv => NothingRunsAfterDrain
  <2>1. SUFFICES ASSUME Typed, BInv, drained PROVE \A h \in Slots : handler[h] = Idle
    BY DEF NothingRunsAfterDrain
  <2>2. Cardinality(Running) = 0
    BY <2>1 DEF BInv
  <2>3. Running = {}
    BY <2>2, RunningFinite, FS_EmptySet
  <2> QED
    BY <2>3 DEF Running
<1> QED
  BY <1>1, InitTyped, StepTyped, PTL DEF Spec

------------------------------------------------------------------------------
(* The status of a shipment *)

\* What a request has read is kept apart from what is written.
LEMMA EffectShipment ==
    ASSUME Typed, SInv, Effect
    PROVE  SInv' /\ (shipment'.status # shipment.status =>
                        \E op \in DOMAIN Target : shipment.status = Source[op] /\ shipment'.status = Target[op])
<1> DEFINE Forward == shipment'.status # shipment.status =>
                        \E op \in DOMAIN Target : shipment.status = Source[op] /\ shipment'.status = Target[op]
<1>1. /\ caller \in [Callers -> Calls] /\ shipment \in Shipments /\ shipment.ver \in Nat
      /\ Idle \notin ShipmentCalls
      /\ \A x \in ShipmentCalls : x.row \in Shipments /\ x.row.ver \in Nat
  BY DEF Typed, BusTyped, RowsTyped, Calls, Shipments, ShipmentCalls, Idle
<1>2. ASSUME UNCHANGED <<caller, shipment>> PROVE SInv' /\ Forward
  BY <1>2 DEF SInv
<1>3. ASSUME NEW c \in Callers, CallEffect(c) PROVE SInv' /\ Forward
  <2>1. PICK new \in Calls : CallMove(c, new)
    BY <1>3 DEF CallEffect
  <2>2. /\ caller' = [caller EXCEPT ![c] = new]
        /\ new \in ShipmentCalls => new.row = shipment \/ (caller[c] \in ShipmentCalls /\ new.row = caller[c].row)
    BY <2>1 DEF CallMove
  <2>3. CASE shipment' = shipment
    BY <1>1, <2>2, <2>3 DEF SInv
  <2>4. CASE shipment' # shipment
    <3>1. PICK op \in DOMAIN Target :
             /\ caller[c] \in ShipmentCalls /\ caller[c].row.status = Source[op] /\ caller[c].row.ver = shipment.ver
             /\ shipment' = [status |-> Target[op], ver |-> shipment.ver + 1]
      BY <1>3, <2>4 DEF CallEffect, ShipmentMove
    <3>2. shipment'.ver = shipment.ver + 1 /\ shipment'.status = Target[op]
      BY <3>1
    <3>3. shipment.status = Source[op]
      BY <3>1 DEF SInv
    <3>4. SInv'
      BY <1>1, <2>2, <3>2 DEF SInv
    <3> QED
      BY <3>2, <3>3, <3>4
  <2> QED
    BY <2>3, <2>4
<1>4. ASSUME NEW c \in Callers, SpawnEffect(c), SpawnFrame PROVE SInv' /\ Forward
  <2>1. caller' = [caller EXCEPT ![c] = Idle] /\ shipment' = shipment
    BY <1>4 DEF SpawnEffect, SpawnFrame, EndCall, outside, rows
  <2> QED
    BY <1>1, <2>1 DEF SInv
<1>5. ASSUME Restarts PROVE SInv' /\ Forward
  <2>1. caller' = [c \in Callers |-> Idle] /\ shipment' = shipment
    BY <1>5 DEF Restarts, Restarted, outside, rows
  <2> QED
    BY <1>1, <2>1 DEF SInv
<1>6. ASSUME (\E h \in Slots : HandlerEffect(h)) \/ (\E w \in Workers : WorkEffect(w)) \/ (\E t \in Topics : Ages(t)) \/ RowsWritten \/ PhaseMoves
      PROVE  SInv' /\ Forward
  <2>1. UNCHANGED <<caller, shipment>>
    BY <1>6 DEF HandlerEffect, HandlerFrame, WorkEffect, WorkFrame, Ages, RowsWritten, PhaseMoves, outside, rows
  <2> QED
    BY <1>2, <2>1
<1> QED
  BY <1>3, <1>4, <1>5, <1>6 DEF Effect

\* Requests that change a shipment from what they have read move it along its
\* states, one step at a time (shipping/service.go: the UPDATE is conditional on
\* updated_at).
THEOREM ShipmentForwardCorrect == Spec => ShipmentMovesForward
<1>1. Init => SInv
  BY Kinds DEF Init, BusInit, SInv, Idle, ShipmentCalls
<1>2. Typed /\ BInv /\ SInv /\ [Next]_vars =>
         SInv' /\ [shipment'.status # shipment.status =>
                      \E op \in DOMAIN Target : shipment.status = Source[op] /\ shipment'.status = Target[op]]_vars
  <2> SUFFICES ASSUME Typed, SInv, [Next]_vars
               PROVE  SInv' /\ (shipment'.status # shipment.status =>
                                  \E op \in DOMAIN Target : shipment.status = Source[op] /\ shipment'.status = Target[op])
    OBVIOUS
  <2>1. CASE Next
    <3>1. Effect
      BY <2>1, NextEffect DEF Typed
    <3> QED
      BY <3>1, EffectShipment
  <2>2. CASE UNCHANGED vars
    BY <2>2 DEF vars, outside, rows, SInv
  <2> QED
    BY <2>1, <2>2
<1> QED
  BY <1>1, <1>2, InitTyped, StepTyped, PTL DEF Spec, ShipmentMovesForward
------------------------------------------------------------------------------
(* The tries of a webhook *)

\* A worker's record after To.
LEMMA ToFields ==
    ASSUME QueueTyped, NEW w \in Workers, NEW pc, NEW job, NEW copy, NEW failed, To(w, pc, job, copy, failed)
    PROVE  /\ worker'[w].pc = pc /\ worker'[w].job = job /\ worker'[w].copy = copy /\ worker'[w].failed = failed
           /\ \A x \in Workers : x # w => worker'[x] = worker[x]
<1>1. worker \in [Workers -> [pc : WorkerPc, job : Jobs \cup {NoJob}, copy : Record, failed : BOOLEAN]]
  BY DEF QueueTyped
<1>2. worker' = [worker EXCEPT ![w] = [pc |-> pc, job |-> job, copy |-> copy, failed |-> failed]]
  BY DEF To
<1> QED
  BY <1>1, <1>2

\* A job of a webhook is neither no job nor a topic.
LEMMA HookIds == \A j \in Hooks : j \in Jobs /\ j # NoJob /\ j \notin Topics /\ j[1] \in Endpoints /\ j[2] \in 1..MaxPaid
BY DispatchAssumption, QueueAssumption DEF Hooks

\* The workers keep a job in one place and count its tries.
LEMMA WorkTries ==
    ASSUME Typed, NEW w \in Workers, WorkEffect(w), NEW j \in Hooks, Placed(j), Counted(j)
    PROVE  Placed(j)' /\ Counted(j)'
<1>1. /\ worker \in [Workers -> [pc : WorkerPc, job : Jobs \cup {NoJob}, copy : Record, failed : BOOLEAN]]
      /\ rec \in [Jobs -> Record] /\ ready \in Seq(Jobs) /\ delayed \subseteq Jobs
      /\ posts \in [Hooks -> Nat] /\ posts[j] \in Nat /\ rec[j] \in Record /\ rec[j].attempts \in Nat
      /\ j \in Jobs /\ j # NoJob /\ j \notin Topics
      /\ \A x \in Workers : worker[x].job = NoJob <=> worker[x].pc = "poll"
  BY HookIds DEF Typed, QueueTyped, RowsTyped, Record, Job, At
<1>2. Count(ready, j) \in Nat
  BY <1>1, CountPush
<1>3. MaxRetries \in Nat /\ MaxRetries > 0
  BY QueueAssumption
<1>4. UNCHANGED <<caller, handler, paid>> /\ Unborn(j)' = Unborn(j)
  BY DEF WorkEffect, WorkFrame, Unborn, CallerHas, HandlerHas, ToEnqueue, IsHook, HandlerAt
<1>5. /\ Count(ready, j) <= 1
      /\ Count(ready, j) = 1 => j \notin delayed
      /\ \A x \in Workers : worker[x].job = j => Count(ready, j) = 0 /\ j \notin delayed
      /\ \A x, y \in Workers : worker[x].job = j /\ worker[y].job = j => x = y
      /\ Unborn(j) => Count(ready, j) = 0 /\ j \notin delayed /\ (\A x \in Workers : worker[x].job # j) /\ posts[j] = 0
  BY DEF Placed, Job
<1>6. /\ posts[j] <= MaxRetries
      /\ \A h \in Slots : HandlerHas(h, j[2]) /\ HandlerAt(h, "push") /\ HookJob(h) = j => rec[j] = Fresh
      /\ Count(ready, j) = 1 \/ j \in delayed => posts[j] <= rec[j].attempts /\ rec[j].attempts < MaxRetries
      /\ \A x \in Workers : worker[x].job = j =>
            /\ posts[j] <= rec[j].attempts /\ rec[j].attempts <= MaxRetries
            /\ worker[x].pc \in {"load", "save", "release", "requeue", "delay"} => rec[j].attempts < MaxRetries
            /\ worker[x].pc \in {"save", "record"} => worker[x].copy = rec[j]
            /\ worker[x].pc = "handle" => posts[j] < rec[j].attempts
  BY DEF Counted, Job, Copy, At
<1>7. ASSUME /\ Count(ready', j) <= 1
             /\ Count(ready', j) = 1 => j \notin delayed'
             /\ \A x \in Workers : worker'[x].job = j => Count(ready', j) = 0 /\ j \notin delayed'
             /\ \A x, y \in Workers : worker'[x].job = j /\ worker'[y].job = j => x = y
             /\ Unborn(j) => Count(ready', j) = 0 /\ j \notin delayed' /\ (\A x \in Workers : worker'[x].job # j) /\ posts'[j] = 0
      PROVE  Placed(j)'
  BY <1>4, <1>7 DEF Placed, Job
<1>8. ASSUME /\ posts'[j] <= MaxRetries
             /\ Unborn(j) => rec'[j] = rec[j]
             /\ Count(ready', j) = 1 \/ j \in delayed' => posts'[j] <= rec'[j].attempts /\ rec'[j].attempts < MaxRetries
             /\ \A x \in Workers : worker'[x].job = j =>
                   /\ posts'[j] <= rec'[j].attempts /\ rec'[j].attempts <= MaxRetries
                   /\ worker'[x].pc \in {"load", "save", "release", "requeue", "delay"} => rec'[j].attempts < MaxRetries
                   /\ worker'[x].pc \in {"save", "record"} => worker'[x].copy = rec'[j]
                   /\ worker'[x].pc = "handle" => posts'[j] < rec'[j].attempts
      PROVE  Counted(j)'
  <2>1. \A h \in Slots : HandlerHas(h, j[2]) /\ HandlerAt(h, "push") /\ HookJob(h) = j => rec'[j] = Fresh
    <3>1. SUFFICES ASSUME NEW h \in Slots, HandlerHas(h, j[2]), HandlerAt(h, "push"), HookJob(h) = j
                   PROVE  Unborn(j)
      BY <1>6, <1>8
    <3>2. j[1] \in handler[h].todo
      BY <3>1, HookJobs DEF HandlerHas, IsHook, HandlerAt
    <3> QED
      BY <3>1, <3>2 DEF Unborn, ToEnqueue
  <2> QED
    BY <1>4, <1>8, <2>1 DEF Counted, Job, Copy, At, HandlerHas, IsHook, HandlerAt, HookJob
<1>9. ASSUME NEW pc, NEW job, NEW copy, NEW failed, To(w, pc, job, copy, failed)
      PROVE  /\ worker'[w].pc = pc /\ worker'[w].job = job /\ worker'[w].copy = copy
             /\ \A x \in Workers : x # w => worker'[x] = worker[x]
  BY <1>9, ToFields DEF Typed
<1>10. ToPoll(w) => worker'[w].pc = "poll" /\ worker'[w].job # j /\ \A x \in Workers : x # w => worker'[x] = worker[x]
  BY <1>1, <1>9 DEF ToPoll
<1>11. Copy(w) = worker[w].copy /\ Job(w) = worker[w].job
  BY DEF Copy, Job
<1> HIDE DEF Typed
<1>a. CASE Claims(w)
  <2>1. /\ Count(ready', j) \in Nat /\ Count(ready', j) = Count(ready, j) - One(Last(ready) = j)
        /\ UNCHANGED <<rec, delayed, posts>>
    <3>1. ready # <<>> /\ ready' = Front(ready) /\ UNCHANGED <<rec, delayed, posts>>
      BY <1>a DEF Claims
    <3>2. Count(Front(ready), j) \in Nat /\ Count(Front(ready), j) = Count(ready, j) - One(Last(ready) = j)
      <4>1. ready \in Seq(Jobs) /\ ready # <<>>
        BY <1>1, <3>1
      <4>2. \A k : Front(ready) \in Seq(Jobs) /\ Count(Front(ready), k) \in Nat /\ Count(Front(ready), k) = Count(ready, k) - One(Last(ready) = k)
        BY <4>1, CountPop
      <4> QED
        BY <4>2
    <3> QED
      BY <3>1, <3>2
  <2>2. /\ worker'[w].pc = "load" /\ worker'[w].job = Last(ready) /\ \A x \in Workers : x # w => worker'[x] = worker[x]
    BY <1>9, <1>a DEF Claims
  <2>3. worker[w].pc = "poll" /\ worker[w].job # j
    BY <1>1, <1>a DEF Claims, At
  <2>4. CASE Last(ready) = j
    <3>1. Count(ready, j) = 1 /\ Count(ready', j) = 0 /\ j \notin delayed /\ \A x \in Workers : worker[x].job # j
      BY <1>2, <1>5, <2>1, <2>4 DEF One
    <3>2. ~Unborn(j)
      BY <1>5, <3>1
    <3> QED
      BY SMTT(30), <1>1, <1>3, <1>5, <1>6, <1>7, <1>8, <2>1, <2>2, <2>3, <2>4, <3>1, <3>2
  <2>5. CASE Last(ready) # j
    <3>1. Count(ready', j) = Count(ready, j)
      BY <1>2, <2>1, <2>5 DEF One
    <3> QED
      BY <1>5, <1>6, <1>7, <1>8, <2>1, <2>2, <2>3, <2>5, <3>1
  <2> QED
    BY <2>4, <2>5
<1>b. CASE Stays(w)
  <2>1. PICK pc \in WorkerPc, copy \in Record :
             /\ <<worker[w].pc, pc>> \in {<<"load", "save">>, <<"load", "release">>, <<"save", "release">>, <<"release", "requeue">>,
                                          <<"lrem", "reload">>, <<"reload", "record">>}
             /\ copy = IF pc \in {"save", "record"} THEN rec[Job(w)] ELSE Copy(w)
             /\ To(w, pc, Job(w), copy, Failed(w))
    BY <1>b DEF Stays
  <2>2. worker'[w].pc = pc /\ worker'[w].job = worker[w].job /\ worker'[w].copy = copy /\ \A x \in Workers : x # w => worker'[x] = worker[x]
    BY <1>9, <1>11, <2>1
  <2>3. UNCHANGED <<rec, ready, delayed, posts>>
    BY <1>b DEF Stays
  <2>4. Placed(j)'
    BY <1>5, <1>7, <2>2, <2>3
  <2>5. worker[w].job = j => /\ pc \in {"save", "record"} => copy = rec[j]
                             /\ pc \in {"load", "save", "release", "requeue", "delay"} => rec[j].attempts < MaxRetries
                             /\ pc # "handle"
    BY <1>6, <1>11, <2>1
  <2>6. Counted(j)'
    BY <1>6, <1>8, <2>2, <2>3, <2>5
  <2> QED
    BY <2>4, <2>6
<1>c. CASE Drops(w)
  <2>1. UNCHANGED <<rec, ready, delayed, posts>> /\ ToPoll(w)
    BY <1>c DEF Drops
  <2> QED
    BY <1>5, <1>6, <1>7, <1>8, <1>10, <2>1
<1>d. CASE Starts(w)
  <2>1. /\ worker[w].pc = "save" /\ UNCHANGED <<ready, delayed, posts>>
        /\ worker'[w].pc = "handle" /\ worker'[w].job = worker[w].job /\ \A x \in Workers : x # w => worker'[x] = worker[x]
    BY <1>9, <1>11, <1>d DEF Starts, At
  <2>2. Placed(j)'
    BY <1>5, <1>7, <2>1
  <2>3. CASE worker[w].job = j
    <3>1. rec'[j].attempts = rec[j].attempts + 1
      BY <1>1, <1>6, <1>11, <1>d, <2>1, <2>3 DEF Starts, Started
    <3>2. ~Unborn(j) /\ Count(ready', j) = 0 /\ j \notin delayed' /\ \A x \in Workers : worker'[x].job = j => x = w
      BY <1>5, <2>1, <2>3
    <3> QED
      BY <1>1, <1>3, <1>6, <1>8, <2>1, <2>2, <2>3, <3>1, <3>2
  <2>4. CASE worker[w].job # j
    <3>1. rec'[j] = rec[j]
      BY <1>1, <1>11, <1>d, <2>4 DEF Starts
    <3> QED
      BY <1>6, <1>8, <2>1, <2>2, <2>4, <3>1
  <2> QED
    BY <2>3, <2>4
<1>e. CASE Requeues(w)
  <2>1. worker[w].pc = "requeue" /\ ready' = <<worker[w].job>> \o ready /\ ToPoll(w) /\ UNCHANGED <<rec, delayed, posts>>
    BY <1>11, <1>e DEF Requeues, At
  <2>2. worker[w].job \in Jobs
    BY <1>1, <2>1
  <2>3. Count(ready', j) = Count(ready, j) + One(worker[w].job = j)
    BY <1>1, <2>1, <2>2, CountPush
  <2>4. CASE worker[w].job = j
    <3>1. Count(ready', j) = 1 /\ j \notin delayed /\ ~Unborn(j) /\ \A x \in Workers : worker'[x].job # j
      BY <1>5, <1>10, <2>1, <2>3, <2>4 DEF One
    <3> QED
      BY <1>6, <1>7, <1>8, <2>1, <2>4, <3>1
  <2>5. CASE worker[w].job # j
    <3>1. Count(ready', j) = Count(ready, j)
      BY <1>2, <2>3, <2>5 DEF One
    <3> QED
      BY <1>5, <1>6, <1>7, <1>8, <1>10, <2>1, <3>1
  <2> QED
    BY <2>4, <2>5
<1>f. CASE Records(w)
  <2>1. worker[w].pc = "record" /\ UNCHANGED <<ready, delayed, posts>> /\ rec' = [rec EXCEPT ![worker[w].job] = Outcome(w)]
    BY <1>11, <1>f DEF Records, At
  <2>2. /\ \A x \in Workers : x # w => worker'[x] = worker[x]
        /\ \/ worker'[w].pc = "delay" /\ worker'[w].job = worker[w].job /\ Outcome(w).status = "pending"
           \/ worker'[w].pc = "poll" /\ worker'[w].job # j
    BY <1>9, <1>10, <1>11, <1>f DEF Records
  <2>3. Placed(j)'
    BY <1>5, <1>7, <2>1, <2>2
  <2>4. CASE worker[w].job = j
    <3>1. worker[w].copy = rec[j]
      BY <1>6, <2>1, <2>4
    <3>2. Outcome(w).attempts = rec[j].attempts /\ (Outcome(w).status = "pending" => rec[j].attempts < MaxRetries)
      BY <1>1, <1>3, <1>11, <3>1 DEF Outcome, Exhausted, Record
    <3>3. rec'[j].attempts = rec[j].attempts
      BY <1>1, <2>1, <2>4, <3>2
    <3>4. ~Unborn(j) /\ Count(ready', j) = 0 /\ j \notin delayed' /\ \A x \in Workers : worker'[x].job = j => x = w
      BY <1>5, <2>1, <2>2, <2>4
    <3> QED
      BY <1>6, <1>8, <2>1, <2>2, <2>3, <2>4, <3>2, <3>3, <3>4
  <2>5. CASE worker[w].job # j
    <3>1. rec'[j] = rec[j]
      BY <1>1, <2>1, <2>5
    <3> QED
      BY <1>6, <1>8, <2>1, <2>2, <2>3, <2>5, <3>1
  <2> QED
    BY <2>4, <2>5
<1>g. CASE Delays(w)
  <2>1. worker[w].pc = "delay" /\ delayed' = delayed \cup {worker[w].job} /\ ToPoll(w) /\ UNCHANGED <<rec, ready, posts>>
    BY <1>11, <1>g DEF Delays, At
  <2>2. CASE worker[w].job = j
    <3>1. Count(ready, j) = 0 /\ ~Unborn(j) /\ \A x \in Workers : worker'[x].job # j
      BY <1>5, <1>10, <2>1, <2>2
    <3> QED
      BY <1>6, <1>7, <1>8, <2>1, <2>2, <3>1
  <2>3. CASE worker[w].job # j
    BY <1>5, <1>6, <1>7, <1>8, <1>10, <2>1, <2>3
  <2> QED
    BY <2>2, <2>3
<1>h. CASE Sends(w)
  <2>1. worker[w].job # j /\ UNCHANGED <<rec, ready, delayed, posts>>
    BY <1>1, <1>11, <1>h DEF Sends
  <2>2. worker'[w].job # j /\ \A x \in Workers : x # w => worker'[x] = worker[x]
    BY <1>9, <1>11, <1>h, <2>1 DEF Sends
  <2> QED
    BY <1>5, <1>6, <1>7, <1>8, <2>1, <2>2
<1>i. CASE Delivers(w)
  <2>1. /\ worker[w].pc = "handle" /\ UNCHANGED <<rec, ready, delayed>>
        /\ posts' \in {posts, [posts EXCEPT ![worker[w].job] = @ + 1]} /\ worker[w].job \in Hooks
    BY <1>11, <1>i DEF Delivers, At
  <2>2. /\ worker'[w].pc = "lrem" /\ worker'[w].job = worker[w].job /\ \A x \in Workers : x # w => worker'[x] = worker[x]
    BY <1>9, <1>11, <1>i DEF Delivers
  <2>3. CASE worker[w].job = j
    <3>1. posts'[j] \in Nat /\ posts'[j] <= posts[j] + 1
      BY <1>1, <2>1, <2>3
    <3>2. ~Unborn(j) /\ Count(ready', j) = 0 /\ j \notin delayed' /\ \A x \in Workers : worker'[x].job = j => x = w
      BY <1>5, <2>1, <2>2, <2>3
    <3>3. posts'[j] <= rec[j].attempts /\ rec[j].attempts <= MaxRetries
      BY <1>1, <1>3, <1>6, <2>1, <2>3, <3>1
    <3>4. Placed(j)'
      BY <1>5, <1>7, <2>1, <2>2, <2>3, <3>2
    <3> QED
      BY <1>1, <1>3, <1>8, <2>1, <2>2, <2>3, <3>1, <3>2, <3>3, <3>4
  <2>4. CASE worker[w].job # j
    <3>1. posts'[j] = posts[j]
      BY <1>1, <2>1, <2>4
    <3> QED
      BY <1>5, <1>6, <1>7, <1>8, <2>1, <2>2, <2>4, <3>1
  <2> QED
    BY <2>3, <2>4
<1>k. CASE Promotes
  <2>1. PICK due \in SUBSET delayed : delayed' = delayed \ due /\ ready' = SetToSeq(due) \o ready /\ UNCHANGED <<rec, worker, posts>>
    BY <1>k DEF Promotes
  <2>2. due \in SUBSET Jobs /\ IsFiniteSet(due)
    BY <1>1, QueueAssumption, FS_Subset
  <2>3. Count(ready', j) \in Nat /\ Count(ready', j) <= Count(ready, j) + One(j \in due)
    BY <1>1, <2>1, <2>2, CountPromote
  <2>4. CASE j \in due
    <3>1. j \in delayed /\ Count(ready, j) = 0 /\ Count(ready', j) <= 1 /\ j \notin delayed' /\ ~Unborn(j) /\ \A x \in Workers : worker[x].job # j
      BY <1>2, <1>5, <2>1, <2>3, <2>4 DEF One
    <3> QED
      BY <1>6, <1>7, <1>8, <2>1, <2>3, <3>1
  <2>5. CASE j \notin due
    <3>1. Count(ready', j) <= Count(ready, j)
      BY <1>2, <2>3, <2>5 DEF One
    <3>2. Placed(j)'
      BY <1>2, <1>5, <1>7, <2>1, <2>3, <2>5, <3>1
    <3> QED
      BY <1>2, <1>5, <1>6, <1>8, <2>1, <2>3, <2>5, <3>1, <3>2
  <2> QED
    BY <2>4, <2>5
<1> QED
  BY <1>a, <1>b, <1>c, <1>d, <1>e, <1>f, <1>g, <1>h, <1>i, <1>k DEF WorkEffect, WorkMove
\* What the handlers and requests do leaves a job where it is, except that a
\* handler saves its record and pushes its id.
LEMMA Untouched ==
    ASSUME Typed, UNCHANGED <<delayed, worker, posts>>, NEW j \in Hooks, Placed(j), Counted(j),
           Count(ready', j) = Count(ready, j), rec'[j] = rec[j],
           Unborn(j)' => Unborn(j),
           \A h \in Slots : (HandlerHas(h, j[2]) /\ HandlerAt(h, "push") /\ HookJob(h) = j)'
               => HandlerHas(h, j[2]) /\ HandlerAt(h, "push") /\ HookJob(h) = j
    PROVE  Placed(j)' /\ Counted(j)'
<1>1. Placed(j)'
  BY DEF Placed, Job
<1>2. Counted(j)'
  BY DEF Counted, Job, Copy, At
<1> QED
  BY <1>1, <1>2

\* What a handler does with the jobs of its publication: it lists the endpoints,
\* saves a record, pushes the id, or ends.
HookMove(h) ==
    /\ handler[h] \in HookHandlers
    /\ \/ /\ HandlerAt(h, "list") /\ UNCHANGED <<rec, ready>>
          /\ \E todo \in SUBSET Endpoints : handler' = [handler EXCEPT ![h] = HookAt("save", handler[h].n, todo)]
       \/ /\ HandlerAt(h, "save") /\ rec' = [rec EXCEPT ![HookJob(h)] = Fresh] /\ UNCHANGED ready
          /\ handler' = [handler EXCEPT ![h] = HookAt("push", handler[h].n, handler[h].todo)]
       \/ /\ HandlerAt(h, "push") /\ ready' = <<HookJob(h)>> \o ready /\ UNCHANGED rec
          /\ \/ handler' = [handler EXCEPT ![h] = Idle]
             \/ handler' = [handler EXCEPT ![h] = HookAt("save", handler[h].n, handler[h].todo \ {Min(handler[h].todo)})]
       \/ handler' = [handler EXCEPT ![h] = Idle] /\ UNCHANGED <<rec, ready>>

\* An e-mail handler writes the record of its topic, or pushes it.
MailMove(h) ==
    /\ handler[h] \in MailHandlers
    /\ \E new \in {Idle} \cup MailHandlers : handler' = [handler EXCEPT ![h] = new]
    /\ \/ UNCHANGED <<rec, ready>>
       \/ rec' = [rec EXCEPT ![Topic(h)] = Fresh] /\ UNCHANGED ready
       \/ ready' = <<Topic(h)>> \o ready /\ UNCHANGED rec

\* The steps of the two kinds of handlers.
LEMMA HandlerMoves ==
    ASSUME Typed, NEW h \in Slots, Handle(h), HandlerEffect(h)
    PROVE  HookMove(h) \/ MailMove(h)
<1>1. handler[h] \in MailHandlers \cup HookHandlers
  BY DEF HandlerEffect, Handlers
<1>2. CASE handler[h] \in HookHandlers
  <2>1. ListActive(h) \/ HookSave(h) \/ HookPush(h)
    BY <1>2, Kinds DEF Handle, ReadOrder, TryInsert, EnqueueSave, EnqueuePush, SettleClaim, Mail
  <2>2. EndHandler(h) => handler' = [handler EXCEPT ![h] = Idle]
    BY DEF EndHandler
  <2>3. CASE ListActive(h)
    <3>1. HandlerAt(h, "list") /\ UNCHANGED <<rec, ready>>
      BY <2>3 DEF ListActive, Hook, queue, lists
    <3>2. EndHandler(h) \/ handler' = [handler EXCEPT ![h].pc = "save", ![h].todo = active]
      BY <2>3 DEF ListActive
    <3>3. active \in SUBSET Endpoints
      BY DEF Typed, RowsTyped
    <3>4. handler' = [handler EXCEPT ![h].pc = "save", ![h].todo = active] => handler' = [handler EXCEPT ![h] = HookAt("save", handler[h].n, active)]
      BY <1>2, <3>3, HandlerGotos DEF Typed
    <3> QED
      BY <1>2, <2>2, <3>1, <3>2, <3>3, <3>4 DEF HookMove
  <2>4. CASE HookSave(h)
    <3>1. HandlerGoto(h, "push") => handler' = [handler EXCEPT ![h] = HookAt("push", handler[h].n, handler[h].todo)]
      BY <1>2, HandlerGotos DEF Typed
    <3>2. HandlerAt(h, "save")
      BY <2>4 DEF HookSave, Hook
    <3>3. (SaveNew(HookJob(h)) /\ HandlerGoto(h, "push")) \/ (UNCHANGED queue /\ EndHandler(h))
      BY <2>4 DEF HookSave
    <3> QED
      BY <1>2, <2>2, <3>1, <3>2, <3>3 DEF HookMove, SaveNew, queue, lists
  <2>5. CASE HookPush(h)
    <3> DEFINE rest == handler[h].todo \ {Min(handler[h].todo)}
    <3>1. rest \in SUBSET Endpoints
      BY <1>2, Kinds
    <3>2. handler' = [handler EXCEPT ![h].pc = "save", ![h].todo = rest] => handler' = [handler EXCEPT ![h] = HookAt("save", handler[h].n, rest)]
      BY <1>2, <3>1, HandlerGotos DEF Typed
    <3>3. HandlerAt(h, "push")
      BY <2>5 DEF HookPush, Hook
    <3>4. \/ PushNew(HookJob(h)) /\ (EndHandler(h) \/ handler' = [handler EXCEPT ![h].pc = "save", ![h].todo = rest])
          \/ UNCHANGED queue /\ EndHandler(h)
      BY <2>5 DEF HookPush, NextHook
    <3> QED
      BY <1>2, <2>2, <3>2, <3>3, <3>4 DEF HookMove, PushNew, LPush, queue, lists
  <2> QED
    BY <2>1, <2>3, <2>4, <2>5
<1>3. CASE handler[h] \in MailHandlers
  <2>1. MailStep(h)
    BY <1>3, Kinds DEF Handle, MailStep, ListActive, HookSave, HookPush, Hook
  <2>2. \E new \in {Idle} \cup MailHandlers : handler' = [handler EXCEPT ![h] = new]
    <3>1. PICK new \in {Idle} \cup Handlers : HandlerMove(h, new)
      BY DEF HandlerEffect
    <3> QED
      BY <1>3, <3>1, Kinds DEF HandlerMove
  <2>3. UNCHANGED queue \/ SaveNew(Topic(h)) \/ PushNew(Topic(h))
    BY <2>1 DEF MailStep, ReadOrder, TryInsert, EnqueueSave, EnqueuePush, SettleClaim
  <2> QED
    BY <1>3, <2>2, <2>3 DEF MailMove, SaveNew, PushNew, LPush, queue, lists
<1> QED
  BY <1>1, <1>2, <1>3

\* A publication changes hands once, and what has been enqueued stays so.
LEMMA Hands ==
    ASSUME Typed, OneHand, Effect
    PROVE  OneHand' /\ \A j \in Hooks : Unborn(j)' => Unborn(j)
<1>1. /\ caller \in [Callers -> Calls] /\ handler \in [Slots -> {Idle} \cup Handlers] /\ paid \in Nat
      /\ Idle \notin PaidCalls /\ Idle \notin HookHandlers /\ \A x \in ShipmentCalls : x \notin PaidCalls
  BY DispatchAssumption, Kinds DEF Typed, BusTyped, RowsTyped, Calls, Idle, PaidCalls, ShipmentCalls
<1>2. /\ \A c \in Callers : caller[c] \in PaidCalls => caller[c].n \in 1..MaxPaid /\ caller[c].n <= paid
      /\ \A h \in Slots : handler[h] \in HookHandlers => handler[h].n \in 1..MaxPaid /\ handler[h].n <= paid
      /\ \A c, d \in Callers : caller[c] \in PaidCalls /\ caller[d] \in PaidCalls /\ caller[c].n = caller[d].n => c = d
      /\ \A h, g \in Slots : handler[h] \in HookHandlers /\ handler[g] \in HookHandlers /\ handler[h].n = handler[g].n => h = g
      /\ \A c \in Callers, h \in Slots : ~(caller[c] \in PaidCalls /\ handler[h] \in HookHandlers /\ caller[c].n = handler[h].n)
  <2>1. \A x \in PaidCalls : x.n \in 1..MaxPaid
    BY DEF PaidCalls
  <2> QED
    BY <2>1, Kinds DEF OneHand, CallerHas, HandlerHas, IsHook
<1>3. ASSUME /\ \A c \in Callers : caller'[c] \in PaidCalls => caller'[c].n <= paid'
             /\ \A h \in Slots : handler'[h] \in HookHandlers => handler'[h].n <= paid'
             /\ \A c, d \in Callers : caller'[c] \in PaidCalls /\ caller'[d] \in PaidCalls /\ caller'[c].n = caller'[d].n => c = d
             /\ \A h, g \in Slots : handler'[h] \in HookHandlers /\ handler'[g] \in HookHandlers /\ handler'[h].n = handler'[g].n => h = g
             /\ \A c \in Callers, h \in Slots : ~(caller'[c] \in PaidCalls /\ handler'[h] \in HookHandlers /\ caller'[c].n = handler'[h].n)
      PROVE  OneHand'
  BY <1>3 DEF OneHand, CallerHas, HandlerHas, IsHook
<1>4. ASSUME UNCHANGED <<caller, handler, paid>> PROVE OneHand' /\ \A j \in Hooks : Unborn(j)' => Unborn(j)
  BY <1>4 DEF OneHand, Unborn, CallerHas, HandlerHas, ToEnqueue, IsHook, HandlerAt
<1>5. ASSUME NEW c \in Callers, CallEffect(c) PROVE OneHand' /\ \A j \in Hooks : Unborn(j)' => Unborn(j)
  <2>1. PICK new \in Calls : CallMove(c, new)
    BY <1>5 DEF CallEffect
  <2>2. /\ caller' = [caller EXCEPT ![c] = new] /\ UNCHANGED handler
        /\ new \in PaidCalls =>
              \/ caller[c] \in PaidCalls /\ new.n = caller[c].n /\ paid' = paid
              \/ new.n = paid + 1 /\ paid' = paid + 1
        /\ new \notin PaidCalls => paid' = paid
    BY <1>5, <2>1 DEF CallMove, CallEffect, CallFrame
  <2>3. OneHand'
    BY <1>1, <1>2, <1>3, <2>2
  <2>4. ASSUME NEW j \in Hooks, Unborn(j)' PROVE Unborn(j)
    <3>1. j[2] \in 1..MaxPaid
      BY HookIds
    <3>2. CASE paid' < j[2]
      BY <1>1, <2>2, <3>1, <3>2 DEF Unborn
    <3>3. ASSUME NEW d \in Callers, CallerHas(d, j[2])' PROVE Unborn(j)
      BY <1>1, <2>2, <3>1, <3>3 DEF Unborn, CallerHas
    <3>4. ASSUME NEW h \in Slots, ToEnqueue(h, j)' PROVE Unborn(j)
      BY <2>2, <3>4 DEF Unborn, ToEnqueue, HandlerHas, IsHook, HandlerAt
    <3> QED
      BY <2>4, <3>2, <3>3, <3>4 DEF Unborn
  <2> QED
    BY <2>3, <2>4
<1>6. ASSUME NEW c \in Callers, SpawnEffect(c), UNCHANGED paid PROVE OneHand' /\ \A j \in Hooks : Unborn(j)' => Unborn(j)
  <2>1. caller' = [caller EXCEPT ![c] = Idle]
    BY <1>6 DEF SpawnEffect, EndCall
  <2>2. /\ \A t \in Topics : NewMail(t) \in MailHandlers
        /\ caller[c] \in PaidCalls => NewHook(caller[c].n) \in HookHandlers /\ NewHook(caller[c].n).n = caller[c].n
    BY <1>2 DEF NewMail, NewHook, MailHandlers, HookHandlers
  <2>3. \A h \in Slots : handler'[h] \in HookHandlers =>
            \/ handler'[h] = handler[h]
            \/ caller[c] \in PaidCalls /\ handler'[h].n = caller[c].n
    <3>1. NewMail(Shipped) \notin HookHandlers /\ NewMail(Paid) \notin HookHandlers
      BY <2>2, Kinds DEF Topics
    <3> QED
      BY <1>1, <1>6, <2>2, <3>1 DEF SpawnEffect
  <2>4. \A h, g \in Slots : handler'[h] \in HookHandlers /\ handler'[h] # handler[h] /\ handler'[g] \in HookHandlers /\ handler'[g] # handler[g] => h = g
    <3>1. NewMail(Shipped) \notin HookHandlers /\ NewMail(Paid) \notin HookHandlers
      BY <2>2, Kinds DEF Topics
    <3> QED
      BY <1>1, <1>6, <3>1 DEF SpawnEffect
  <2>5. OneHand'
    <3>1. \A d \in Callers : caller'[d] \in PaidCalls => d # c /\ caller'[d] = caller[d]
      BY <1>1, <2>1
    <3> QED
      BY <1>1, <1>2, <1>3, <1>6, <2>3, <2>4, <3>1
  <2>6. ASSUME NEW j \in Hooks, Unborn(j)' PROVE Unborn(j)
    <3>1. CASE paid' < j[2]
      BY <1>6, <3>1 DEF Unborn
    <3>2. ASSUME NEW d \in Callers, CallerHas(d, j[2])' PROVE Unborn(j)
      BY <1>1, <2>1, <3>2 DEF Unborn, CallerHas
    <3>3. ASSUME NEW h \in Slots, ToEnqueue(h, j)' PROVE Unborn(j)
      BY <2>3, <3>3 DEF Unborn, ToEnqueue, CallerHas, HandlerHas, IsHook, HandlerAt
    <3> QED
      BY <2>6, <3>1, <3>2, <3>3 DEF Unborn
  <2> QED
    BY <2>5, <2>6
<1>7. ASSUME NEW h \in Slots, Handle(h), HandlerEffect(h) PROVE OneHand' /\ \A j \in Hooks : Unborn(j)' => Unborn(j)
  <2>1. PICK new \in {Idle} \cup Handlers : HandlerMove(h, new)
    BY <1>7 DEF HandlerEffect
  <2>2. /\ UNCHANGED <<caller, paid>> /\ handler' = [handler EXCEPT ![h] = new]
        /\ new \in HookHandlers => handler[h] \in HookHandlers /\ new.n = handler[h].n
    BY <1>1, <1>7, <2>1, Kinds DEF HandlerMove, HandlerEffect, HandlerFrame
  <2>3. OneHand'
    BY <1>1, <1>2, <1>3, <2>2
  <2>4. new \in HookHandlers => new.pc # "list" /\ (handler[h].pc = "list" \/ new.todo \subseteq handler[h].todo)
    <3>1. handler'[h] = new
      BY <1>1, <2>2
    <3>2. ASSUME NEW pc, NEW n, NEW todo PROVE HookAt(pc, n, todo).pc = pc /\ HookAt(pc, n, todo).todo = todo
      BY DEF HookAt
    <3>3. CASE HookMove(h)
      BY <1>1, <3>1, <3>2, <3>3 DEF HookMove, HandlerAt
    <3>4. CASE MailMove(h)
      BY <2>2, <3>4, Kinds DEF MailMove
    <3> QED
      BY <1>7, <3>3, <3>4, HandlerMoves
  <2>5. ASSUME NEW j \in Hooks, NEW g \in Slots, ToEnqueue(g, j)' PROVE ToEnqueue(g, j)
    BY <1>1, <2>2, <2>4, <2>5 DEF ToEnqueue, HandlerHas, IsHook, HandlerAt
  <2>6. ASSUME NEW j \in Hooks, Unborn(j)' PROVE Unborn(j)
    BY <2>2, <2>5, <2>6 DEF Unborn, CallerHas
  <2> QED
    BY <2>3, <2>6
<1>8. ASSUME Restarts PROVE OneHand' /\ \A j \in Hooks : Unborn(j)' => Unborn(j)
  <2>1. UNCHANGED paid /\ (\A c \in Callers : caller'[c] = Idle) /\ \A h \in Slots : handler'[h] = Idle
    BY <1>8 DEF Restarts, Restarted, outside, history
  <2> QED
    BY <1>1, <1>3, <2>1 DEF Unborn, CallerHas, HandlerHas, ToEnqueue, IsHook
<1> QED
  BY <1>4, <1>5, <1>6, <1>7, <1>8
  DEF Effect, SpawnFrame, WorkEffect, WorkFrame, Ages, RowsWritten, PhaseMoves, outside, history

\* The handlers of a publication enqueue a job once, with a fresh record.
LEMMA HookTries ==
    ASSUME Typed, OneHand, NEW h \in Slots, HookMove(h), HandlerFrame, NEW j \in Hooks, Placed(j), Counted(j), Unborn(j)' => Unborn(j)
    PROVE  Placed(j)' /\ Counted(j)'
<1>1. /\ handler \in [Slots -> {Idle} \cup Handlers] /\ rec \in [Jobs -> Record] /\ ready \in Seq(Jobs) /\ paid \in Nat
      /\ UNCHANGED <<caller, delayed, worker, posts, paid>>
      /\ j \in Jobs /\ j[1] \in Endpoints /\ j[2] \in 1..MaxPaid
      /\ Idle \notin HookHandlers
  BY DispatchAssumption, HookIds, Kinds DEF Typed, BusTyped, QueueTyped, RowsTyped, HandlerFrame
<1>2. Count(ready, j) \in Nat
  BY <1>1, CountPush
<1>3. handler[h] \in HookHandlers /\ handler[h].n \in 1..MaxPaid /\ handler[h].n <= paid
  BY Kinds DEF HookMove, OneHand, IsHook
<1>4. \A pc, n, todo : HookAt(pc, n, todo).pc = pc /\ HookAt(pc, n, todo).n = n /\ HookAt(pc, n, todo).todo = todo
  BY DEF HookAt
<1>5. ASSUME NEW new, handler' = [handler EXCEPT ![h] = new], new \notin HookHandlers \/ new.pc # "push"
      PROVE  \A g \in Slots : (HandlerHas(g, j[2]) /\ HandlerAt(g, "push") /\ HookJob(g) = j)'
                 => HandlerHas(g, j[2]) /\ HandlerAt(g, "push") /\ HookJob(g) = j
  BY <1>1, <1>5 DEF HandlerHas, HandlerAt, HookJob, IsHook
<1>6. CASE UNCHANGED <<rec, ready>> /\ \E new : (new \notin HookHandlers \/ new.pc # "push") /\ handler' = [handler EXCEPT ![h] = new]
  <2>1. \A g \in Slots : (HandlerHas(g, j[2]) /\ HandlerAt(g, "push") /\ HookJob(g) = j)'
            => HandlerHas(g, j[2]) /\ HandlerAt(g, "push") /\ HookJob(g) = j
    BY <1>5, <1>6
  <2>2. Count(ready', j) = Count(ready, j) /\ rec'[j] = rec[j]
    BY <1>6
  <2> QED
    BY <1>1, <2>1, <2>2, Untouched
<1>7. CASE HandlerAt(h, "save") /\ rec' = [rec EXCEPT ![HookJob(h)] = Fresh] /\ UNCHANGED ready
           /\ handler' = [handler EXCEPT ![h] = HookAt("push", handler[h].n, handler[h].todo)]
  <2>1. HookJob(h) \in Jobs /\ HookJob(h)[1] \in handler[h].todo /\ HookJob(h)[2] = handler[h].n
    BY <1>3, <1>7, HookJobs DEF HandlerAt
  <2>2. CASE HookJob(h) = j
    <3>1. ToEnqueue(h, j)
      BY <1>3, <2>1, <2>2 DEF ToEnqueue, HandlerHas, IsHook
    <3>2. Unborn(j)
      BY <3>1 DEF Unborn
    <3>3. Count(ready, j) = 0 /\ j \notin delayed /\ (\A w \in Workers : Job(w) # j) /\ posts[j] = 0
      BY <3>2 DEF Placed
    <3>4. rec'[j] = Fresh
      BY <1>1, <1>7, <2>2
    <3>5. Placed(j)'
      BY <1>1, <1>7, <3>3 DEF Placed, Job
    <3>6. Counted(j)'
      BY <1>1, <1>7, <3>3, <3>4, QueueAssumption DEF Counted, Job
    <3> QED
      BY <3>5, <3>6
  <2>3. CASE HookJob(h) # j
    <3>1. rec'[j] = rec[j]
      BY <1>1, <1>7, <2>1, <2>3
    <3>2. handler'[h].n = handler[h].n /\ handler'[h].todo = handler[h].todo /\ \A g \in Slots : g # h => handler'[g] = handler[g]
      BY <1>1, <1>4, <1>7
    <3>3. HookJob(h)' # j
      BY <2>3, <3>2 DEF HookJob
    <3>4. \A g \in Slots : (HandlerHas(g, j[2]) /\ HandlerAt(g, "push") /\ HookJob(g) = j)'
              => HandlerHas(g, j[2]) /\ HandlerAt(g, "push") /\ HookJob(g) = j
      BY <3>2, <3>3 DEF HandlerHas, HandlerAt, HookJob, IsHook
    <3> QED
      BY <1>1, <1>7, <3>1, <3>4, Untouched
  <2> QED
    BY <2>2, <2>3
<1>8. CASE HandlerAt(h, "push") /\ ready' = <<HookJob(h)>> \o ready /\ UNCHANGED rec
           /\ \/ handler' = [handler EXCEPT ![h] = Idle]
              \/ handler' = [handler EXCEPT ![h] = HookAt("save", handler[h].n, handler[h].todo \ {Min(handler[h].todo)})]
  <2> DEFINE rest == HookAt("save", handler[h].n, handler[h].todo \ {Min(handler[h].todo)})
  <2>1. HookJob(h) \in Jobs /\ HookJob(h)[1] \in handler[h].todo /\ HookJob(h)[2] = handler[h].n /\ HookJob(h)[1] = Min(handler[h].todo)
    BY <1>3, <1>8, HookJobs DEF HandlerAt, HookJob
  <2>2. Count(ready', j) = Count(ready, j) + One(HookJob(h) = j)
    BY <1>1, <1>8, <2>1, CountPush
  <2>3. \E new : handler' = [handler EXCEPT ![h] = new] /\ (new = Idle \/ new = rest)
    BY <1>8
  <2>4. PICK new : handler' = [handler EXCEPT ![h] = new] /\ (new = Idle \/ new = rest)
    BY <2>3
  <2>5. new \notin HookHandlers \/ (new.pc = "save" /\ new.n = handler[h].n /\ HookJob(h)[1] \notin new.todo)
    <3>1. rest.pc = "save" /\ rest.n = handler[h].n /\ rest.todo = handler[h].todo \ {Min(handler[h].todo)}
      BY <1>4
    <3> HIDE DEF rest
    <3> QED
      BY <1>1, <2>1, <2>4, <3>1
  <2>6. CASE HookJob(h) = j
    <3>1. ToEnqueue(h, j) /\ HandlerHas(h, j[2])
      BY <1>3, <2>1, <2>6 DEF ToEnqueue, HandlerHas, IsHook
    <3>2. Unborn(j)
      BY <3>1 DEF Unborn
    <3>3. Count(ready, j) = 0 /\ j \notin delayed /\ (\A w \in Workers : Job(w) # j) /\ posts[j] = 0
      BY <3>2 DEF Placed
    <3>4. rec[j] = Fresh
      BY <1>8, <2>6, <3>1 DEF Counted
    <3>5. Count(ready', j) = 1
      BY <2>2, <2>6, <3>3 DEF One
    <3>6. ~Unborn(j)'
      <4>1. ~(paid' < j[2])
        BY <1>1, <1>3, <2>1, <2>6
      <4>2. \A c \in Callers : ~CallerHas(c, j[2])'
        <5>1. \A c \in Callers : ~CallerHas(c, j[2])
          BY <1>1, <3>1 DEF OneHand
        <5> QED
          BY <1>1, <5>1 DEF CallerHas
      <4>3. \A g \in Slots : ~ToEnqueue(g, j)'
        <5>1. \A g \in Slots : g # h => ~HandlerHas(g, j[2]) /\ handler'[g] = handler[g]
          BY <1>1, <2>4, <3>1 DEF OneHand
        <5>2. handler'[h] = new
          BY <1>1, <2>4
        <5> QED
          BY <2>5, <2>6, <5>1, <5>2 DEF ToEnqueue, HandlerHas, IsHook, HandlerAt
      <4> QED
        BY <4>1, <4>2, <4>3 DEF Unborn
    <3>7. Placed(j)'
      BY <1>1, <3>3, <3>5, <3>6 DEF Placed, Job
    <3>8. Counted(j)'
      <4>1. \A g \in Slots : ~(HandlerHas(g, j[2]) /\ HandlerAt(g, "push"))'
        <5>1. \A g \in Slots : g # h => ~HandlerHas(g, j[2]) /\ handler'[g] = handler[g]
          BY <1>1, <2>4, <3>1 DEF OneHand
        <5>2. handler'[h] = new
          BY <1>1, <2>4
        <5> QED
          BY <2>5, <5>1, <5>2 DEF HandlerHas, IsHook, HandlerAt
      <4>2. rec'[j].attempts = 0 /\ posts'[j] = 0 /\ \A w \in Workers : Job(w)' # j
        BY <1>1, <1>8, <3>3, <3>4 DEF Fresh, Job
      <4> QED
        BY <4>1, <4>2, QueueAssumption DEF Counted
    <3> QED
      BY <3>7, <3>8
  <2>7. CASE HookJob(h) # j
    <3>1. Count(ready', j) = Count(ready, j)
      BY <1>2, <2>2, <2>7 DEF One
    <3>2. new \notin HookHandlers \/ new.pc # "push"
      BY <2>5
    <3>3. \A g \in Slots : (HandlerHas(g, j[2]) /\ HandlerAt(g, "push") /\ HookJob(g) = j)'
              => HandlerHas(g, j[2]) /\ HandlerAt(g, "push") /\ HookJob(g) = j
      BY <1>5, <2>4, <3>2
    <3> QED
      BY <1>1, <1>8, <3>1, <3>3, Untouched
  <2> QED
    BY <2>6, <2>7
<1> QED
  <2>1. CASE HandlerAt(h, "list") /\ UNCHANGED <<rec, ready>>
             /\ \E todo \in SUBSET Endpoints : handler' = [handler EXCEPT ![h] = HookAt("save", handler[h].n, todo)]
    <3>1. \E new : (new \notin HookHandlers \/ new.pc # "push") /\ handler' = [handler EXCEPT ![h] = new]
      <4>1. PICK todo \in SUBSET Endpoints : handler' = [handler EXCEPT ![h] = HookAt("save", handler[h].n, todo)]
        BY <2>1
      <4>2. HookAt("save", handler[h].n, todo).pc # "push"
        BY <1>4
      <4> QED
        BY <4>1, <4>2
    <3> QED
      BY <1>6, <2>1, <3>1
  <2>2. CASE handler' = [handler EXCEPT ![h] = Idle] /\ UNCHANGED <<rec, ready>>
    BY <1>1, <1>6, <2>2
  <2> QED
    BY <1>7, <1>8, <2>1, <2>2 DEF HookMove

\* A job is in one place and its tries are counted, along every step.
LEMMA EffectTries ==
    ASSUME Typed, OneHand, OnePlace, TriesCounted, Effect
    PROVE  OnePlace' /\ TriesCounted'
<1> SUFFICES ASSUME NEW j \in Hooks
             PROVE  Placed(j)' /\ Counted(j)'
  BY DEF OnePlace, TriesCounted
<1>1. /\ Placed(j) /\ Counted(j) /\ (Unborn(j)' => Unborn(j))
      /\ j \in Jobs /\ j \notin Topics /\ ready \in Seq(Jobs) /\ rec \in [Jobs -> Record]
      /\ handler \in [Slots -> {Idle} \cup Handlers]
  BY Hands, HookIds DEF OnePlace, TriesCounted, Typed, BusTyped, QueueTyped
<1> DEFINE Pushes(g) == HandlerHas(g, j[2]) /\ HandlerAt(g, "push") /\ HookJob(g) = j
<1>2. ASSUME UNCHANGED <<rec, ready, delayed, worker, posts>>, \A g \in Slots : Pushes(g)' => Pushes(g)
      PROVE  Placed(j)' /\ Counted(j)'
  BY <1>1, <1>2, Untouched
<1>3. ASSUME UNCHANGED handler, NEW g \in Slots, Pushes(g)' PROVE Pushes(g)
  BY <1>3 DEF HandlerHas, IsHook, HandlerAt, HookJob
<1>4. ASSUME NEW g \in Slots, handler'[g] = handler[g], Pushes(g)' PROVE Pushes(g)
  BY <1>4 DEF HandlerHas, IsHook, HandlerAt, HookJob
<1>5. ASSUME NEW g \in Slots, handler'[g] \notin HookHandlers \/ handler'[g].pc # "push" PROVE ~Pushes(g)'
  BY <1>5 DEF HandlerHas, IsHook, HandlerAt
<1> HIDE DEF Pushes
<1>6. ASSUME NEW c \in Callers, CallEffect(c) PROVE Placed(j)' /\ Counted(j)'
  <2>1. UNCHANGED <<handler, rec, ready, delayed, worker, posts>>
    BY <1>6 DEF CallEffect, CallFrame, queue, lists
  <2> QED
    BY <1>2, <1>3, <2>1
<1>7. ASSUME NEW c \in Callers, SpawnEffect(c), SpawnFrame PROVE Placed(j)' /\ Counted(j)'
  <2>1. UNCHANGED <<rec, ready, delayed, worker, posts>>
    BY <1>7 DEF SpawnFrame, queue, lists, outside, history
  <2>2. \A t, n : NewMail(t).pc # "push" /\ NewHook(n).pc # "push"
    BY DEF NewMail, NewHook
  <2>3. \A g \in Slots : handler'[g] = handler[g] \/ handler'[g].pc # "push"
    BY <1>1, <1>7, <2>2 DEF SpawnEffect
  <2> QED
    BY <1>2, <1>4, <1>5, <2>1, <2>3
<1>8. ASSUME NEW h \in Slots, Handle(h), HandlerEffect(h) PROVE Placed(j)' /\ Counted(j)'
  <2>1. HandlerFrame
    BY <1>8 DEF HandlerEffect
  <2>2. CASE HookMove(h)
    BY <1>1, <2>1, <2>2, HookTries
  <2>3. CASE MailMove(h)
    <3>1. UNCHANGED <<delayed, worker, posts>>
      BY <2>1 DEF HandlerFrame
    <3>2. Topic(h) \in Topics /\ Topic(h) \in Jobs /\ Topic(h) # j
      BY <1>1, <2>3, Kinds, DispatchAssumption DEF MailMove, Topic
    <3>3. rec'[j] = rec[j]
      BY <1>1, <2>3, <3>2 DEF MailMove
    <3>4. Count(ready', j) = Count(ready, j)
      <4>1. Count(<<Topic(h)>> \o ready, j) = Count(ready, j) + One(Topic(h) = j) /\ Count(ready, j) \in Nat
        BY <1>1, <3>2, CountPush
      <4>2. Count(<<Topic(h)>> \o ready, j) = Count(ready, j)
        BY <3>2, <4>1 DEF One
      <4>3. ready' = ready \/ ready' = <<Topic(h)>> \o ready
        BY <2>3 DEF MailMove
      <4> QED
        BY <4>2, <4>3
    <3>5. \A g \in Slots : handler'[g] = handler[g] \/ handler'[g] \notin HookHandlers
      BY <1>1, <2>3, Kinds DEF MailMove
    <3>6. \A g \in Slots : Pushes(g)' => Pushes(g)
      BY <1>4, <1>5, <3>5
    <3> QED
      BY <1>1, <3>1, <3>3, <3>4, <3>6, Untouched DEF Pushes
  <2> QED
    BY <1>8, <2>2, <2>3, HandlerMoves
<1>9. ASSUME NEW w \in Workers, WorkEffect(w) PROVE Placed(j)' /\ Counted(j)'
  BY <1>1, <1>9, WorkTries
<1>10. ASSUME (\E t \in Topics : Ages(t)) \/ RowsWritten \/ PhaseMoves PROVE Placed(j)' /\ Counted(j)'
  <2>1. UNCHANGED <<handler, rec, ready, delayed, worker, posts>>
    BY <1>10 DEF Ages, RowsWritten, PhaseMoves, queue, lists, outside, history
  <2> QED
    BY <1>2, <1>3, <2>1
<1>11. ASSUME Restarts PROVE Placed(j)' /\ Counted(j)'
  <2>1. UNCHANGED <<rec, ready, delayed, worker, posts>> /\ \A g \in Slots : handler'[g] = Idle
    BY <1>11 DEF Restarts, Restarted, queue, lists, outside, history
  <2> QED
    BY <1>2, <1>5, <2>1, Kinds
<1> QED
  BY <1>6, <1>7, <1>8, <1>9, <1>10, <1>11 DEF Effect

\* An endpoint is asked at most max_retries times to take an event
\* (job_queue.go: Dequeue counts the attempt that Fail compares).
THEOREM TriesCorrect == Spec => []TriesBounded
<1> DEFINE TInv == Typed /\ BInv /\ OneHand /\ OnePlace /\ TriesCounted
<1>1. Init => TInv
  <2>1. SUFFICES ASSUME Init PROVE OneHand /\ OnePlace /\ TriesCounted
    BY InitTyped
  <2>2. /\ paid = 0 /\ ready = <<>> /\ delayed = {} /\ (\A j \in Hooks : posts[j] = 0)
        /\ (\A c \in Callers : caller[c] = Idle) /\ (\A h \in Slots : handler[h] = Idle) /\ \A w \in Workers : worker[w] = Polling
    BY <2>1 DEF Init, BusInit, QueueInit
  <2>3. Idle \notin PaidCalls /\ Idle \notin HookHandlers /\ Polling.job = NoJob /\ Polling.pc = "poll"
    BY DEF Idle, PaidCalls, HookHandlers, Polling
  <2>4. \A j \in Hooks : Count(ready, j) = 0
    <3>1. \A j : {i \in DOMAIN <<>> : <<>>[i] = j} = {}
      OBVIOUS
    <3> QED
      BY <2>2, <3>1, FS_EmptySet DEF Count
  <2>5. OneHand
    BY <2>2, <2>3 DEF OneHand, CallerHas, HandlerHas, IsHook
  <2>6. OnePlace
    BY <2>2, <2>3, <2>4, HookIds DEF OnePlace, Placed, Job
  <2>7. TriesCounted
    BY <2>2, <2>3, <2>4, HookIds, QueueAssumption DEF TriesCounted, Counted, Job, HandlerHas, IsHook
  <2> QED
    BY <2>5, <2>6, <2>7
<1>2. TInv /\ [Next]_vars => TInv'
  <2>1. SUFFICES ASSUME TInv, [Next]_vars PROVE TInv'
    OBVIOUS
  <2>2. Typed' /\ BInv'
    BY <2>1, StepTyped
  <2>3. CASE Next
    <3>1. Effect
      BY <2>1, <2>3, NextEffect DEF Typed
    <3> QED
      BY <2>1, <2>2, <3>1, Hands, EffectTries
  <2>4. CASE UNCHANGED vars
    <3>1. UNCHANGED <<caller, handler, rec, ready, delayed, worker, paid, posts>>
      BY <2>4 DEF vars, queue, lists, outside, history
    <3>2. OneHand'
      BY <2>1, <3>1 DEF OneHand, CallerHas, HandlerHas, IsHook
    <3>3. ASSUME NEW j \in Hooks PROVE Placed(j)' /\ Counted(j)'
      <4>1. Unborn(j)' = Unborn(j) /\ Placed(j) /\ Counted(j)
        BY <2>1, <3>1 DEF Unborn, CallerHas, HandlerHas, ToEnqueue, IsHook, HandlerAt, OnePlace, TriesCounted
      <4> QED
        BY <3>1, <4>1 DEF Placed, Counted, Job, Copy, At, HandlerHas, HandlerAt, HookJob, IsHook
    <3> QED
      BY <2>2, <3>2, <3>3 DEF OnePlace, TriesCounted
  <2> QED
    BY <2>1, <2>3, <2>4
<1>3. TInv => TriesBounded
  BY DEF TriesCounted, Counted, TriesBounded
<1> HIDE DEF TInv
<1> QED
  BY <1>1, <1>2, <1>3, PTL DEF Spec
------------------------------------------------------------------------------
(* The e-mails of a topic *)

\* The terms of the account are numbers.
LEMMA MailTerms ==
    ASSUME Typed, NEW t \in Topics
    PROVE  /\ mails[t] \in Nat /\ Count(ready, t) \in Nat /\ faults \in Nat
           /\ IsFiniteSet(Senders(t)) /\ Cardinality(Senders(t)) \in Nat
           /\ IsFiniteSet(Enqueuers(t)) /\ Cardinality(Enqueuers(t)) \in Nat
           /\ t \in Jobs /\ t \notin Hooks /\ t # NoJob
<1>1. t \in Jobs /\ t \notin Hooks /\ t # NoJob
  BY DispatchAssumption, QueueAssumption
<1>2. mails[t] \in Nat /\ faults \in Nat
  BY QueueAssumption DEF Typed, RowsTyped, QueueTyped
<1>3. Count(ready, t) \in Nat
  <2>1. ready \in Seq(Jobs)
    BY DEF Typed, QueueTyped
  <2> QED
    BY <1>1, <2>1, CountPush
<1>4. Senders(t) \in SUBSET Workers /\ Enqueuers(t) \in SUBSET Slots
  BY DEF Senders, Enqueuers
<1>5. IsFiniteSet(Senders(t)) /\ IsFiniteSet(Enqueuers(t))
  BY <1>4, BusAssumption, QueueAssumption, FS_Subset
<1> QED
  BY <1>1, <1>2, <1>3, <1>5, FS_CardinalityType

\* A worker repeats a try that failed.
LEMMA WorkRepeats ==
    ASSUME Typed, Repeats, NEW w \in Workers, WorkEffect(w)
    PROVE  Repeats'
<1>1. /\ worker \in [Workers -> [pc : WorkerPc, job : Jobs \cup {NoJob}, copy : Record, failed : BOOLEAN]]
      /\ \A x \in Workers : worker[x].pc = "delay" => worker[x].failed
  BY DEF Typed, QueueTyped, Repeats, At
<1>2. SUFFICES ASSUME NEW x \in Workers, worker'[x].pc = "delay" PROVE worker'[x].failed
  BY DEF Repeats, At
<1>3. CASE worker' = worker
  BY <1>1, <1>2, <1>3
<1>4. ASSUME NEW pc, NEW job, NEW copy, NEW failed, To(w, pc, job, copy, failed), pc # "delay" PROVE worker'[x].failed
  <2>1. worker'[w].pc = pc /\ \A y \in Workers : y # w => worker'[y] = worker[y]
    BY <1>4, ToFields DEF Typed
  <2> QED
    BY <1>1, <1>2, <1>4, <2>1
<1>5. CASE Records(w)
  <2>1. CASE ToPoll(w)
    BY <1>4, <2>1 DEF ToPoll
  <2>2. CASE Outcome(w).status = "pending" /\ To(w, "delay", Job(w), Copy(w), Failed(w))
    <3>1. Failed(w)
      <4>1. SUFFICES ASSUME ~Failed(w) PROVE Outcome(w).status = "done"
        BY <2>2
      <4>2. Copy(w) \in Record
        BY <1>1 DEF Copy
      <4> QED
        BY <4>1, <4>2 DEF Outcome, Failed, Record
    <3>2. worker' = [worker EXCEPT ![w] = [pc |-> "delay", job |-> Job(w), copy |-> Copy(w), failed |-> TRUE]]
      <4>1. Failed(w) = TRUE
        BY <1>1, <3>1 DEF Failed
      <4> QED
        BY <2>2, <4>1 DEF To
    <3> QED
      BY <1>1, <1>2, <3>2
  <2> QED
    BY <1>5, <2>1, <2>2 DEF Records
<1>6. CASE Stays(w)
  <2>1. PICK pc \in WorkerPc, copy \in Record :
             /\ <<worker[w].pc, pc>> \in {<<"load", "save">>, <<"load", "release">>, <<"save", "release">>, <<"release", "requeue">>,
                                          <<"lrem", "reload">>, <<"reload", "record">>}
             /\ To(w, pc, Job(w), copy, Failed(w))
    BY <1>6 DEF Stays
  <2>2. pc # "delay"
    BY <2>1
  <2> QED
    BY <1>4, <2>1, <2>2
<1>7. CASE Claims(w) \/ Drops(w) \/ Starts(w) \/ Requeues(w) \/ Delays(w) \/ Sends(w) \/ Delivers(w) \/ Promotes
  BY <1>3, <1>4, <1>7 DEF Claims, Drops, Starts, Requeues, Delays, Sends, Delivers, Promotes, ToPoll
<1> QED
  BY <1>5, <1>6, <1>7 DEF WorkEffect, WorkMove

\* What a worker does to the account of a topic: a mail that it sends again is
\* paid for by a fault.
LEMMA WorkMails ==
    ASSUME Typed, Repeats, NEW w \in Workers, WorkEffect(w), NEW t \in Topics
    PROVE  mails'[t] + Count(ready', t) + One(t \in delayed') + Cardinality(Senders(t)') + faults
               <= mails[t] + Count(ready, t) + One(t \in delayed) + Cardinality(Senders(t)) + faults'
<1>1. /\ worker \in [Workers -> [pc : WorkerPc, job : Jobs \cup {NoJob}, copy : Record, failed : BOOLEAN]]
      /\ ready \in Seq(Jobs) /\ delayed \subseteq Jobs /\ mails \in [Topics -> Nat]
      /\ faults' \in {faults, faults + 1}
      /\ \A x \in Workers : worker[x].job = NoJob <=> worker[x].pc = "poll"
  BY DEF Typed, QueueTyped, RowsTyped, WorkEffect, WorkFrame, Job, At
<1>2. /\ mails[t] \in Nat /\ Count(ready, t) \in Nat /\ faults \in Nat /\ Cardinality(Senders(t)) \in Nat /\ IsFiniteSet(Senders(t))
      /\ t \in Jobs /\ t \notin Hooks /\ t # NoJob
  BY MailTerms
<1> DEFINE S0 == Sender(w, t)
           S1 == Sender(w, t)'
<1>3. ASSUME \A x \in Workers : x # w => worker'[x] = worker[x]
      PROVE  Cardinality(Senders(t)') \in Nat /\ Cardinality(Senders(t)') = Cardinality(Senders(t)) - One(S0) + One(S1)
  <2>1. Senders(t) \ {w} = Senders(t)' \ {w}
    BY <1>3 DEF Senders, Sender, Job
  <2>2. (w \in Senders(t) <=> S0) /\ (w \in Senders(t)' <=> S1)
    BY DEF Senders
  <2>3. Cardinality(Senders(t)') \in Nat /\ Cardinality(Senders(t)') = Cardinality(Senders(t)) - One(w \in Senders(t)) + One(w \in Senders(t)')
    BY <1>2, <2>1, CardinalityChange
  <2> QED
    BY <2>2, <2>3 DEF One
<1>4. S0 <=> worker[w].job = t /\ (worker[w].pc \in {"load", "save", "handle", "release", "requeue"} \/ worker[w].failed)
  BY DEF Sender, Job
<1>5. S1 <=> worker'[w].job = t /\ (worker'[w].pc \in {"load", "save", "handle", "release", "requeue"} \/ worker'[w].failed)
  BY DEF Sender, Job
<1>6. ASSUME NEW pc, NEW job, NEW copy, NEW failed \in BOOLEAN, To(w, pc, job, copy, failed)
      PROVE  /\ \A x \in Workers : x # w => worker'[x] = worker[x]
             /\ S1 <=> job = t /\ (pc \in {"load", "save", "handle", "release", "requeue"} \/ failed)
  <2>1. worker' = [worker EXCEPT ![w] = [pc |-> pc, job |-> job, copy |-> copy, failed |-> failed]]
    BY <1>6 DEF To
  <2>2. worker'[w] = [pc |-> pc, job |-> job, copy |-> copy, failed |-> failed] /\ \A x \in Workers : x # w => worker'[x] = worker[x]
    BY <1>1, <2>1
  <2>3. worker'[w].pc = pc /\ worker'[w].job = job /\ (worker'[w].failed <=> failed)
    BY <2>2
  <2> HIDE DEF S1
  <2> QED
    BY <1>5, <2>2, <2>3
<1>5a. S1 => worker'[w].job = t
  BY <1>5
<1> HIDE DEF S0, S1
<1>6a. ASSUME NEW pc, NEW job, NEW copy, To(w, pc, job, copy, FALSE)
       PROVE  /\ \A x \in Workers : x # w => worker'[x] = worker[x]
              /\ worker'[w].job = job
              /\ S1 => pc \in {"load", "save", "handle", "release", "requeue"}
  <2>1. worker' = [worker EXCEPT ![w] = [pc |-> pc, job |-> job, copy |-> copy, failed |-> FALSE]]
    BY <1>6a DEF To
  <2>2. worker'[w] = [pc |-> pc, job |-> job, copy |-> copy, failed |-> FALSE] /\ \A x \in Workers : x # w => worker'[x] = worker[x]
    BY <1>1, <2>1
  <2>3. worker'[w].pc = pc /\ worker'[w].job = job /\ worker'[w].failed = FALSE
    BY <2>2
  <2>4. S1 <=> worker'[w].job = t /\ (worker'[w].pc \in {"load", "save", "handle", "release", "requeue"} \/ worker'[w].failed)
    BY DEF S1, Sender, Job
  <2> QED
    BY <2>2, <2>3, <2>4
<1>6b. ASSUME NEW pc, NEW job, NEW copy, To(w, pc, job, copy, TRUE)
       PROVE  /\ \A x \in Workers : x # w => worker'[x] = worker[x]
              /\ worker'[w].job = job
  <2>1. worker' = [worker EXCEPT ![w] = [pc |-> pc, job |-> job, copy |-> copy, failed |-> TRUE]]
    BY <1>6b DEF To
  <2>2. worker'[w] = [pc |-> pc, job |-> job, copy |-> copy, failed |-> TRUE] /\ \A x \in Workers : x # w => worker'[x] = worker[x]
    BY <1>1, <2>1
  <2>3. worker'[w].pc = pc /\ worker'[w].job = job /\ worker'[w].failed = TRUE
    BY <2>2
  <2>4. S1 <=> worker'[w].job = t /\ (worker'[w].pc \in {"load", "save", "handle", "release", "requeue"} \/ worker'[w].failed)
    BY DEF S1, Sender, Job
  <2> QED
    BY <2>2, <2>3, <2>4
<1>7. ToPoll(w) => ~S1 /\ \A x \in Workers : x # w => worker'[x] = worker[x]
  BY <1>2, <1>6 DEF ToPoll
<1>8. Failed(w) \in BOOLEAN /\ (Failed(w) <=> worker[w].failed) /\ Job(w) = worker[w].job
  BY <1>1 DEF Failed, Job
<1>9. ASSUME \A x \in Workers : x # w => worker'[x] = worker[x],
             mails'[t] = mails[t], ready' = ready, delayed' = delayed, S1 => S0
      PROVE  mails'[t] + Count(ready', t) + One(t \in delayed') + Cardinality(Senders(t)') + faults
                 <= mails[t] + Count(ready, t) + One(t \in delayed) + Cardinality(Senders(t)) + faults'
  BY <1>1, <1>2, <1>3, <1>9 DEF One
<1>a. CASE Claims(w)
  <2>1. ready \in Seq(Jobs) /\ ready # <<>> /\ ready' = Front(ready) /\ UNCHANGED <<delayed, mails>>
    BY <1>1, <1>a DEF Claims
  <2>2. \A k : Count(Front(ready), k) \in Nat /\ Count(Front(ready), k) = Count(ready, k) - One(Last(ready) = k)
    BY <2>1, CountPop
  <2>3. (\A x \in Workers : x # w => worker'[x] = worker[x]) /\ (S1 => Last(ready) = t)
    <3>1. To(w, "load", Last(ready), NoRecord, FALSE)
      BY <1>a DEF Claims
    <3>2. worker'[w].job = Last(ready)
      BY <1>6a, <3>1
    <3>3. \A x \in Workers : x # w => worker'[x] = worker[x]
      BY <1>6a, <3>1
    <3> QED
      BY <1>5a, <3>2, <3>3
  <2>4. Count(ready', t) \in Nat /\ Count(ready', t) = Count(ready, t) - One(Last(ready) = t)
    BY <2>1, <2>2
  <2>5. Cardinality(Senders(t)') \in Nat /\ Cardinality(Senders(t)') <= Cardinality(Senders(t)) + One(Last(ready) = t)
    BY <1>2, <1>3, <2>3 DEF One
  <2> QED
    <3>1. mails'[t] = mails[t] /\ One(t \in delayed') = One(t \in delayed) /\ faults' >= faults /\ faults' \in Nat
      BY <1>1, <1>2, <2>1
    <3> QED
      BY <1>2, <2>4, <2>5, <3>1 DEF One
<1>b. CASE Stays(w)
  <2>1. PICK pc \in WorkerPc, copy \in Record :
             /\ <<worker[w].pc, pc>> \in {<<"load", "save">>, <<"load", "release">>, <<"save", "release">>, <<"release", "requeue">>,
                                          <<"lrem", "reload">>, <<"reload", "record">>}
             /\ To(w, pc, Job(w), copy, Failed(w))
    BY <1>b DEF Stays
  <2>2. (\A x \in Workers : x # w => worker'[x] = worker[x])
        /\ (S1 <=> Job(w) = t /\ (pc \in {"load", "save", "handle", "release", "requeue"} \/ Failed(w)))
    BY <1>6, <1>8, <2>1
  <2>3. S1 => S0
    BY <1>4, <1>8, <2>1, <2>2
  <2>4. UNCHANGED <<ready, delayed, mails>>
    BY <1>b DEF Stays
  <2> QED
    BY <1>9, <2>2, <2>3, <2>4
<1>c. CASE Drops(w)
  BY <1>7, <1>9, <1>c DEF Drops
<1>d. CASE Starts(w)
  <2>1. To(w, "handle", Job(w), Copy(w), Failed(w)) /\ worker[w].pc = "save" /\ UNCHANGED <<ready, delayed, mails>>
    BY <1>d DEF Starts, At
  <2>2. (\A x \in Workers : x # w => worker'[x] = worker[x]) /\ (S1 => Job(w) = t)
    BY <1>6, <1>8, <2>1
  <2>3. S1 => S0
    BY <1>4, <1>8, <2>1, <2>2
  <2> QED
    BY <1>9, <2>1, <2>2, <2>3
<1>e. CASE Requeues(w)
  <2>1. worker[w].pc = "requeue" /\ ready' = <<worker[w].job>> \o ready /\ ToPoll(w) /\ UNCHANGED <<delayed, mails>>
    BY <1>8, <1>e DEF Requeues, At
  <2>2. worker[w].job \in Jobs
    BY <1>1, <2>1
  <2>3. Count(ready', t) \in Nat /\ Count(ready', t) = Count(ready, t) + One(worker[w].job = t)
    BY <1>1, <2>1, <2>2, CountPush
  <2>4. Cardinality(Senders(t)') \in Nat /\ Cardinality(Senders(t)') = Cardinality(Senders(t)) - One(worker[w].job = t)
    <3>1. S0 <=> worker[w].job = t
      BY <1>4, <2>1
    <3> QED
      BY <1>2, <1>3, <1>7, <2>1, <3>1 DEF One
  <2> QED
    <3>1. mails'[t] = mails[t] /\ One(t \in delayed') = One(t \in delayed) /\ faults' >= faults /\ faults' \in Nat
      BY <1>1, <1>2, <2>1
    <3> QED
      BY <1>2, <2>3, <2>4, <3>1 DEF One
<1>f. CASE Records(w)
  <2>1. (\A x \in Workers : x # w => worker'[x] = worker[x]) /\ (S1 => Job(w) = t /\ Failed(w))
    <3>1. CASE ToPoll(w)
      BY <1>7, <3>1
    <3>2. CASE To(w, "delay", Job(w), Copy(w), Failed(w))
      BY <1>6, <1>8, <3>2
    <3> QED
      BY <1>f, <3>1, <3>2 DEF Records
  <2>2. S1 => S0
    BY <1>4, <1>8, <2>1
  <2> QED
    BY <1>9, <1>f, <2>1, <2>2 DEF Records
<1>g. CASE Delays(w)
  <2>1. worker[w].pc = "delay" /\ delayed' = delayed \cup {worker[w].job} /\ ToPoll(w) /\ UNCHANGED <<ready, mails>>
    BY <1>8, <1>g DEF Delays, At
  <2>2. S0 <=> worker[w].job = t
    BY <1>4, <2>1 DEF Repeats, At
  <2>3. Cardinality(Senders(t)') \in Nat /\ Cardinality(Senders(t)') = Cardinality(Senders(t)) - One(worker[w].job = t)
    BY <1>2, <1>3, <1>7, <2>1, <2>2 DEF One
  <2> QED
    BY SMTT(30), <1>1, <1>2, <2>1, <2>3 DEF One
<1>h. CASE Sends(w)
  <2>1. worker[w].pc = "handle" /\ UNCHANGED <<ready, delayed>> /\ worker[w].job \in Topics
        /\ \/ faults' = faults /\ mails' = [mails EXCEPT ![worker[w].job] = @ + 1] /\ To(w, "lrem", Job(w), Copy(w), FALSE)
           \/ faults' = faults + 1 /\ mails' \in {mails, [mails EXCEPT ![worker[w].job] = @ + 1]} /\ To(w, "lrem", Job(w), Copy(w), TRUE)
    BY <1>8, <1>h DEF Sends, At
  <2>2. S0 <=> worker[w].job = t
    BY <1>4, <2>1
  <2>3. CASE faults' = faults /\ mails' = [mails EXCEPT ![worker[w].job] = @ + 1] /\ To(w, "lrem", Job(w), Copy(w), FALSE)
    <3>1. ~S1 /\ \A x \in Workers : x # w => worker'[x] = worker[x]
      <4>1. To(w, "lrem", Job(w), Copy(w), FALSE)
        BY <2>3
      <4>2. S1 => "lrem" \in {"load", "save", "handle", "release", "requeue"}
        BY <1>6a, <4>1
      <4>3. \A x \in Workers : x # w => worker'[x] = worker[x]
        BY <1>6a, <4>1
      <4> QED
        BY <4>2, <4>3
    <3>2. mails'[t] = mails[t] + One(worker[w].job = t)
      BY <1>1, <1>2, <2>1, <2>3 DEF One
    <3>3. Cardinality(Senders(t)') \in Nat /\ Cardinality(Senders(t)') = Cardinality(Senders(t)) - One(worker[w].job = t)
      BY <1>2, <1>3, <2>2, <3>1 DEF One
    <3> QED
      BY <1>2, <2>1, <2>3, <3>2, <3>3 DEF One
  <2>4. CASE faults' = faults + 1 /\ mails' \in {mails, [mails EXCEPT ![worker[w].job] = @ + 1]} /\ To(w, "lrem", Job(w), Copy(w), TRUE)
    <3>1. (S1 => S0) /\ \A x \in Workers : x # w => worker'[x] = worker[x]
      <4>1. To(w, "lrem", Job(w), Copy(w), TRUE)
        BY <2>4
      <4>2. worker'[w].job = Job(w)
        BY <4>1, <1>6b
      <4>3. \A x \in Workers : x # w => worker'[x] = worker[x]
        BY <4>1, <1>6b
      <4> QED
        BY <1>5a, <1>8, <2>2, <4>2, <4>3
    <3>2. mails'[t] \in Nat /\ mails'[t] <= mails[t] + 1
      BY <1>1, <1>2, <2>1, <2>4
    <3>3. Cardinality(Senders(t)') \in Nat /\ Cardinality(Senders(t)') <= Cardinality(Senders(t))
      BY <1>2, <1>3, <3>1 DEF One
    <3> QED
      BY <1>2, <2>1, <2>4, <3>2, <3>3 DEF One
  <2> QED
    BY <2>1, <2>3, <2>4
<1>i. CASE Delivers(w)
  <2>1. UNCHANGED <<ready, delayed, mails>> /\ worker[w].job # t
    BY <1>2, <1>8, <1>i DEF Delivers
  <2>2. ~S1 /\ \A x \in Workers : x # w => worker'[x] = worker[x]
    <3>1. PICK failed \in BOOLEAN : To(w, "lrem", Job(w), Copy(w), failed)
      BY <1>i DEF Delivers
    <3> QED
      BY <1>6, <1>8, <2>1, <3>1
  <2> QED
    BY <1>9, <2>1, <2>2
<1>k. CASE Promotes
  <2>1. PICK due \in SUBSET delayed : delayed' = delayed \ due /\ ready' = SetToSeq(due) \o ready /\ UNCHANGED <<worker, mails>>
    BY <1>k DEF Promotes
  <2>2. due \in SUBSET Jobs /\ IsFiniteSet(due)
    BY <1>1, QueueAssumption, FS_Subset
  <2>3. Count(ready', t) \in Nat /\ Count(ready', t) <= Count(ready, t) + One(t \in due)
    BY <1>1, <2>1, <2>2, CountPromote
  <2>4. Senders(t)' = Senders(t)
    BY <2>1 DEF Senders, Sender, Job
  <2> QED
    BY SMTT(30), <1>1, <1>2, <2>1, <2>3, <2>4 DEF One
<1> QED
  BY <1>a, <1>b, <1>c, <1>d, <1>e, <1>f, <1>g, <1>h, <1>i, <1>k DEF WorkEffect, WorkMove

\* What a handler does to the account of a topic: a claim becomes an enqueuer,
\* and an enqueuer a job on the list or a claim that is given up.
LEMMA HandlerMails ==
    ASSUME Typed, NEW h \in Slots, Handle(h), HandlerEffect(h), NEW t \in Topics
    PROVE  Count(ready', t) + Cardinality(Enqueuers(t)') + One(ClaimFree(t)') + faults
               <= Count(ready, t) + Cardinality(Enqueuers(t)) + One(ClaimFree(t)) + faults'
<1>1. /\ handler \in [Slots -> {Idle} \cup Handlers] /\ ready \in Seq(Jobs)
      /\ claim \in [Topics -> [status : {"none", "pending", "completed"}, stale : BOOLEAN]]
      /\ Idle.pc = "idle"
  BY DEF Typed, BusTyped, QueueTyped, RowsTyped, Idle
<1>2. /\ Count(ready, t) \in Nat /\ faults \in Nat /\ Cardinality(Enqueuers(t)) \in Nat /\ IsFiniteSet(Enqueuers(t))
      /\ t \in Jobs /\ t \notin Hooks
  BY MailTerms
<1>3. /\ NoFault => faults' = faults
      /\ ClientFault => faults' = faults + 1
      /\ faults' \in {faults, faults + 1}
  <2>1. NoFault \/ ClientFault
    BY DEF Handle, ReadOrder, TryInsert, EnqueueSave, EnqueuePush, SettleClaim, ListActive, HookSave, HookPush, CommandFails
  <2> QED
    BY <2>1 DEF NoFault, ClientFault, Fault
<1>4. PICK new \in {Idle} \cup Handlers : HandlerMove(h, new)
  BY DEF HandlerEffect
<1>5. handler' = [handler EXCEPT ![h] = new] /\ handler'[h] = new /\ \A g \in Slots : g # h => handler'[g] = handler[g]
  BY <1>1, <1>4 DEF HandlerMove
<1> DEFINE Enqueues(x) == x.kind = "mail" /\ x.pc \in {"save", "push", "release"} /\ x.topic = t
           Holds(x) == x.kind = "mail" /\ x.pc \in {"save", "push", "complete", "release"} /\ x.topic = t
           E0 == Enqueues(handler[h])
           E1 == Enqueues(handler'[h])
           H0 == Holds(handler[h])
           H1 == Holds(handler'[h])
<1>6. Cardinality(Enqueuers(t)') \in Nat /\ Cardinality(Enqueuers(t)') = Cardinality(Enqueuers(t)) - One(E0) + One(E1)
  <2>1. \A g \in Slots : /\ g \in Enqueuers(t) <=> Enqueues(handler[g])
                         /\ g \in Enqueuers(t)' <=> Enqueues(handler'[g])
    BY DEF Enqueuers, Enqueuer, Mail, HandlerAt, Topic
  <2>2. Enqueuers(t) \subseteq Slots /\ Enqueuers(t)' \subseteq Slots
    BY DEF Enqueuers
  <2> HIDE DEF Enqueues
  <2>3. Enqueuers(t) \ {h} = Enqueuers(t)' \ {h}
    BY <1>5, <2>1, <2>2
  <2>4. Cardinality(Enqueuers(t)') \in Nat
        /\ Cardinality(Enqueuers(t)') = Cardinality(Enqueuers(t)) - One(h \in Enqueuers(t)) + One(h \in Enqueuers(t)')
    BY <1>2, <2>3, CardinalityChange
  <2> QED
    BY <2>1, <2>4 DEF One
<1>7. ASSUME claim'[t] = claim[t], H0 => H1 PROVE ClaimFree(t)' => ClaimFree(t)
  <2>1. /\ Working(t) <=> \E g \in Slots : Holds(handler[g])
        /\ Working(t)' <=> \E g \in Slots : Holds(handler'[g])
    BY DEF Working, Mail, HandlerAt, Topic
  <2> HIDE DEF Holds
  <2>2. Working(t) => Working(t)'
    BY <1>5, <1>7, <2>1
  <2>3. /\ ClaimFree(t) <=> claim[t] = NoClaim \/ claim[t].stale \/ (claim[t] = Pending /\ ~Working(t))
        /\ ClaimFree(t)' <=> claim'[t] = NoClaim \/ claim'[t].stale \/ (claim'[t] = Pending /\ ~Working(t)')
    BY DEF ClaimFree, Unclaimed
  <2> QED
    BY <1>7, <2>2, <2>3
<1>8. ASSUME Count(ready', t) \in Nat,
             Count(ready', t) + One(E1) + One(ClaimFree(t)') + faults <= Count(ready, t) + One(E0) + One(ClaimFree(t)) + faults'
      PROVE  Count(ready', t) + Cardinality(Enqueuers(t)') + One(ClaimFree(t)') + faults
                 <= Count(ready, t) + Cardinality(Enqueuers(t)) + One(ClaimFree(t)) + faults'
  <2>1. One(E0) \in Nat /\ One(E1) \in Nat /\ One(ClaimFree(t)) \in Nat /\ One(ClaimFree(t)') \in Nat /\ faults' \in Nat
    BY <1>2, <1>3 DEF One
  <2> HIDE DEF E0, E1
  <2> QED
    BY <1>2, <1>6, <1>8, <2>1
<1>9. ASSUME Count(ready', t) = Count(ready, t), claim'[t] = claim[t], H0 => H1, E1 => E0
      PROVE  Count(ready', t) + Cardinality(Enqueuers(t)') + One(ClaimFree(t)') + faults
                 <= Count(ready, t) + Cardinality(Enqueuers(t)) + One(ClaimFree(t)) + faults'
  <2>1. ClaimFree(t)' => ClaimFree(t)
    BY <1>7, <1>9
  <2> HIDE DEF E0, E1
  <2> QED
    BY <1>2, <1>3, <1>8, <1>9, <2>1 DEF One
<1>10. /\ EndHandler(h) => handler'[h].pc = "idle"
       /\ handler[h] \in MailHandlers =>
             \A pc \in {"order", "claim", "save", "push", "complete", "release"} :
                 HandlerGoto(h, pc) => handler'[h].kind = "mail" /\ handler'[h].pc = pc /\ handler'[h].topic = handler[h].topic
  <2>1. EndHandler(h) => handler'[h].pc = "idle"
    BY <1>1, <1>5 DEF EndHandler
  <2>2. ASSUME handler[h] \in MailHandlers, NEW pc \in {"order", "claim", "save", "push", "complete", "release"}, HandlerGoto(h, pc)
        PROVE  handler'[h].kind = "mail" /\ handler'[h].pc = pc /\ handler'[h].topic = handler[h].topic
    <3>1. handler' = [handler EXCEPT ![h] = MailAt(pc, handler[h].topic)]
      BY <2>2, HandlerGotos DEF Typed
    <3>2. handler'[h] = MailAt(pc, handler[h].topic)
      BY <1>1, <3>1
    <3> QED
      BY <3>2 DEF MailAt
  <2> QED
    BY <2>1, <2>2
<1>11. CASE handler[h] \in HookHandlers
  <2>1. handler[h].kind = "hook" /\ (new = Idle \/ new.kind = "hook")
    BY <1>4, <1>11, Kinds DEF HandlerMove
  <2>2. ~H0 /\ ~E0 /\ ~E1
    BY <1>1, <1>5, <2>1
  <2>3. UNCHANGED claim
    BY <2>1 DEF Handle, ReadOrder, TryInsert, EnqueueSave, EnqueuePush, SettleClaim, Mail, ListActive, HookSave, HookPush
  <2>4. HookMove(h)
    BY <1>11, HandlerMoves, Kinds DEF MailMove
  <2>5. ready' = ready \/ (ready' = <<HookJob(h)>> \o ready /\ HandlerAt(h, "push"))
    BY <2>4 DEF HookMove
  <2>6. CASE ready' = <<HookJob(h)>> \o ready /\ HandlerAt(h, "push")
    <3>1. HookJob(h) \in Jobs /\ HookJob(h) # t
      BY <1>2, <1>11, <2>6, HookJobs DEF HandlerAt
    <3>2. Count(ready', t) = Count(ready, t) + One(HookJob(h) = t)
      BY <1>1, <2>6, <3>1, CountPush
    <3>3. Count(ready', t) = Count(ready, t)
      BY <1>2, <3>1, <3>2 DEF One
    <3> QED
      BY <1>9, <2>2, <2>3, <3>3
  <2> QED
    BY <1>9, <2>2, <2>3, <2>5, <2>6
<1>12. ASSUME handler[h] \in MailHandlers, handler[h].topic # t
       PROVE  Count(ready', t) + Cardinality(Enqueuers(t)') + One(ClaimFree(t)') + faults
                  <= Count(ready, t) + Cardinality(Enqueuers(t)) + One(ClaimFree(t)) + faults'
  <2>1. new = Idle \/ new.topic # t
    BY <1>4, <1>12, Kinds DEF HandlerMove
  <2>2. ~H0 /\ ~E0 /\ ~E1
    BY <1>1, <1>5, <1>12, <2>1
  <2>3. claim'[t] = claim[t]
    BY <1>1, <1>12, Kinds DEF Handle, ReadOrder, TryInsert, EnqueueSave, EnqueuePush, SettleClaim, SetClaim, DropClaim, Topic, ListActive, HookSave, HookPush
  <2>4. MailMove(h)
    BY <1>12, HandlerMoves, Kinds DEF HookMove
  <2>5. handler[h].topic \in Jobs
    BY <1>12, Kinds, DispatchAssumption
  <2>6. Count(<<handler[h].topic>> \o ready, t) = Count(ready, t) + One(handler[h].topic = t)
    BY <1>1, <2>5, CountPush
  <2>7. Count(<<handler[h].topic>> \o ready, t) = Count(ready, t)
    BY <1>2, <1>12, <2>6 DEF One
  <2>8. ready' = ready \/ ready' = <<handler[h].topic>> \o ready
    BY <2>4 DEF MailMove, Topic
  <2>9. Count(ready', t) = Count(ready, t)
    BY <2>7, <2>8
  <2> QED
    BY <1>9, <2>2, <2>3, <2>9
<1>13. ASSUME handler[h] \in MailHandlers, handler[h].topic = t
       PROVE  Count(ready', t) + Cardinality(Enqueuers(t)') + One(ClaimFree(t)') + faults
                  <= Count(ready, t) + Cardinality(Enqueuers(t)) + One(ClaimFree(t)) + faults'
  <2>1. handler[h].kind = "mail" /\ Topic(h) = t /\ MailStep(h)
    BY <1>13, Kinds DEF Topic, Handle, MailStep, ListActive, HookSave, HookPush, Hook
  <2>2. \A pc : Mail(h, pc) <=> handler[h].pc = pc
    BY <2>1 DEF Mail, HandlerAt
  <2>3. /\ E0 <=> handler[h].pc \in {"save", "push", "release"}
        /\ H0 <=> handler[h].pc \in {"save", "push", "complete", "release"}
        /\ EndHandler(h) => ~E1 /\ ~H1
        /\ \A pc \in {"claim", "save", "push", "complete", "release"} :
               HandlerGoto(h, pc) => /\ E1 <=> pc \in {"save", "push", "release"}
                                     /\ H1 <=> pc \in {"save", "push", "complete", "release"}
    BY <1>10, <1>13, <2>1
  <2>4. Count(<<t>> \o ready, t) \in Nat /\ Count(<<t>> \o ready, t) = Count(ready, t) + 1
    <3>1. Count(<<t>> \o ready, t) = Count(ready, t) + One(t = t)
      BY <1>1, <1>2, CountPush
    <3> QED
      BY <1>2, <3>1 DEF One
  <2>5. /\ SaveNew(t) => ready' = ready
        /\ PushNew(t) => ready' = <<t>> \o ready
        /\ UNCHANGED queue => ready' = ready
    BY DEF SaveNew, PushNew, LPush, queue, lists
  <2> HIDE DEF E0, E1, H0, H1
  <2>6. CASE ReadOrder(h)
    <3>1. UNCHANGED <<ready, claim>> /\ handler[h].pc = "order" /\ (HandlerGoto(h, "claim") \/ EndHandler(h))
      BY <2>2, <2>5, <2>6 DEF ReadOrder
    <3>2. ~H0 /\ ~E1
      BY <2>3, <3>1
    <3> QED
      BY <1>9, <3>1, <3>2
  <2>7. CASE TryInsert(h)
    <3>1. ready' = ready /\ handler[h].pc = "claim" /\ ~H0 /\ ~E0
      BY <2>2, <2>3, <2>5, <2>7 DEF TryInsert
    <3>2. CASE (Unclaimed(t) \/ claim[t].stale) /\ SetClaim(t, Pending) /\ HandlerGoto(h, "save")
      <4>1. ClaimFree(t)
        BY <3>2 DEF ClaimFree
      <4>2. H1
        BY <2>3, <3>2
      <4>3. ~ClaimFree(t)'
        <5>1. claim'[t] = Pending
          BY <1>1, <3>2 DEF SetClaim
        <5>2. Pending # NoClaim /\ Pending.stale = FALSE
          BY DEF Pending, NoClaim
        <5>3. Working(t)'
          BY <4>2 DEF H1, Working, Mail, HandlerAt, Topic
        <5>4. ClaimFree(t)' <=> claim'[t] = NoClaim \/ claim'[t].stale \/ (claim'[t] = Pending /\ ~Working(t)')
          BY DEF ClaimFree, Unclaimed
        <5> QED
          BY <5>1, <5>2, <5>3, <5>4
      <4> QED
        BY <1>2, <1>3, <1>8, <3>1, <4>1, <4>3 DEF One
    <3>3. CASE claim[t].stale /\ SetClaim(t, NoClaim) /\ EndHandler(h)
      <4>1. ClaimFree(t) /\ ~E1
        BY <2>3, <3>3 DEF ClaimFree
      <4> QED
        BY <1>2, <1>3, <1>8, <3>1, <4>1 DEF One
    <3>4. CASE UNCHANGED claim /\ EndHandler(h)
      BY <1>9, <2>3, <3>1, <3>4
    <3> QED
      BY <2>1, <2>7, <3>2, <3>3, <3>4 DEF TryInsert
  <2>8. CASE EnqueueSave(h)
    <3>1. UNCHANGED <<ready, claim>> /\ handler[h].pc = "save" /\ (HandlerGoto(h, "push") \/ HandlerGoto(h, "release"))
      BY <2>1, <2>2, <2>5, <2>8 DEF EnqueueSave
    <3>2. E0 /\ H1
      BY <2>3, <3>1
    <3> QED
      BY <1>9, <3>1, <3>2
  <2>9. CASE EnqueuePush(h)
    <3>1. handler[h].pc = "push" /\ UNCHANGED claim /\ E0
      BY <2>2, <2>3, <2>9 DEF EnqueuePush
    <3>2. \/ faults' = faults /\ ready' = <<t>> \o ready /\ HandlerGoto(h, "complete")
          \/ ready' = ready /\ HandlerGoto(h, "release")
          \/ faults' = faults + 1 /\ ready' = <<t>> \o ready /\ HandlerGoto(h, "release")
      BY <1>3, <2>1, <2>5, <2>9 DEF EnqueuePush
    <3>3. H1
      BY <2>3, <3>2
    <3>4. ClaimFree(t)' => ClaimFree(t)
      BY <1>7, <3>1, <3>3
    <3>5. CASE faults' = faults /\ ready' = <<t>> \o ready /\ HandlerGoto(h, "complete")
      <4>1. ~E1
        BY <2>3, <3>5
      <4> QED
        BY <1>2, <1>8, <2>4, <3>1, <3>4, <3>5, <4>1 DEF One
    <3>6. CASE ready' = ready
      BY <1>9, <3>1, <3>3, <3>6
    <3>7. CASE faults' = faults + 1 /\ ready' = <<t>> \o ready
      BY <1>2, <1>8, <2>4, <3>1, <3>4, <3>7 DEF One
    <3> QED
      BY <3>2, <3>5, <3>6, <3>7
  <2>10. CASE SettleClaim(h)
    <3>1. ready' = ready /\ handler[h].pc \in {"complete", "release"} /\ ~E1 /\ (E0 <=> handler[h].pc = "release")
      BY <2>2, <2>3, <2>5, <2>10 DEF SettleClaim
    <3>2. \/ handler[h].pc = "complete" /\ claim' = [claim EXCEPT ![t] = IF @ = NoClaim THEN @ ELSE [status |-> "completed", stale |-> FALSE]]
          \/ handler[h].pc = "release"
          \/ faults' = faults + 1
      BY <1>3, <2>1, <2>10 DEF SettleClaim, HandlerAt
    <3>3. CASE handler[h].pc = "complete" /\ claim' = [claim EXCEPT ![t] = IF @ = NoClaim THEN @ ELSE [status |-> "completed", stale |-> FALSE]]
      <4>1. ClaimFree(t)' => ClaimFree(t)
        <5>1. claim'[t] = IF claim[t] = NoClaim THEN claim[t] ELSE [status |-> "completed", stale |-> FALSE]
          BY <1>1, <3>3
        <5>2. CASE claim[t] = NoClaim
          BY <5>2 DEF ClaimFree, Unclaimed
        <5>3. CASE claim[t] # NoClaim
          <6>1. claim'[t] = [status |-> "completed", stale |-> FALSE]
            BY <5>1, <5>3
          <6>2. claim'[t].status = "completed" /\ claim'[t].stale = FALSE /\ NoClaim.status = "none" /\ Pending.status = "pending"
            BY <6>1 DEF NoClaim, Pending
          <6>3. ClaimFree(t)' <=> claim'[t] = NoClaim \/ claim'[t].stale \/ (claim'[t] = Pending /\ ~Working(t)')
            BY DEF ClaimFree, Unclaimed
          <6> QED
            BY <6>2, <6>3
        <5> QED
          BY <5>2, <5>3
      <4> QED
        BY <1>2, <1>3, <1>8, <3>1, <4>1 DEF One
    <3>4. CASE handler[h].pc = "release" \/ faults' = faults + 1
      BY <1>2, <1>3, <1>8, <3>1, <3>4 DEF One
    <3> QED
      BY <3>2, <3>3, <3>4
  <2> QED
    BY <2>1, <2>6, <2>7, <2>8, <2>9, <2>10 DEF MailStep
<1> QED
  BY <1>11, <1>12, <1>13 DEF HandlerEffect, Handlers

\* The same after a step.
LEMMA MailTermsNext ==
    ASSUME Typed', NEW t \in Topics
    PROVE  /\ mails'[t] \in Nat /\ Count(ready', t) \in Nat /\ faults' \in Nat
           /\ Cardinality(Senders(t)') \in Nat /\ Cardinality(Enqueuers(t)') \in Nat
<1>1. t \in Jobs
  BY DispatchAssumption
<1>2. mails'[t] \in Nat /\ faults' \in Nat
  BY QueueAssumption DEF Typed, RowsTyped, QueueTyped
<1>3. Count(ready', t) \in Nat
  <2>1. ready' \in Seq(Jobs)
    BY DEF Typed, QueueTyped
  <2> QED
    BY <1>1, <2>1, CountPush
<1>4. Senders(t)' \in SUBSET Workers /\ Enqueuers(t)' \in SUBSET Slots
  BY DEF Senders, Enqueuers
<1>5. IsFiniteSet(Senders(t)') /\ IsFiniteSet(Enqueuers(t)')
  BY <1>4, BusAssumption, QueueAssumption, FS_Subset
<1> QED
  BY <1>2, <1>3, <1>5, FS_CardinalityType

\* The account of a topic along a step: what may be sent grows by no more than
\* the faults.
LEMMA EffectMails ==
    ASSUME Typed, BInv, Repeats, Effect, NEW t \in Topics, MailPaid(t)
    PROVE  MailPaid(t)'
<1>1. /\ mails[t] \in Nat /\ Count(ready, t) \in Nat /\ faults \in Nat
      /\ Cardinality(Senders(t)) \in Nat /\ Cardinality(Enqueuers(t)) \in Nat
  BY MailTerms
<1>1a. /\ mails'[t] \in Nat /\ Count(ready', t) \in Nat /\ faults' \in Nat
       /\ Cardinality(Senders(t)') \in Nat /\ Cardinality(Enqueuers(t)') \in Nat
  BY EffectTyped, MailTermsNext
<1>2. mails[t] + Count(ready, t) + One(t \in delayed) + Cardinality(Senders(t)) + Cardinality(Enqueuers(t))
          + One(ClaimFree(t)) + One(phase # "up") <= 1 + faults
  BY DEF MailPaid
<1>3. ASSUME mails'[t] + Count(ready', t) + One(t \in delayed') + Cardinality(Senders(t)') + Cardinality(Enqueuers(t)')
                 + One(ClaimFree(t)') + One(phase' # "up") <= 1 + faults'
      PROVE  MailPaid(t)'
  BY <1>3 DEF MailPaid
<1>4. ASSUME UNCHANGED worker PROVE Senders(t)' = Senders(t)
  BY <1>4 DEF Senders, Sender, Job
<1>5. ASSUME \A h \in Slots : \/ handler'[h] = handler[h]
                              \/ /\ handler[h].pc \notin {"save", "push", "complete", "release"}
                                 /\ handler'[h].pc \notin {"save", "push", "complete", "release"}
      PROVE  Enqueuers(t)' = Enqueuers(t) /\ (Working(t)' <=> Working(t))
  <2>1. \A h \in Slots : Enqueuer(h, t)' <=> Enqueuer(h, t)
    BY <1>5 DEF Enqueuer, Mail, HandlerAt, Topic
  <2>2. Enqueuers(t)' = Enqueuers(t)
    BY <2>1 DEF Enqueuers
  <2>3. Working(t)' <=> Working(t)
    BY <1>5 DEF Working, Mail, HandlerAt, Topic
  <2> QED
    BY <2>2, <2>3
<1>6. /\ ClaimFree(t) <=> claim[t] = NoClaim \/ claim[t].stale \/ (claim[t] = Pending /\ ~Working(t))
      /\ ClaimFree(t)' <=> claim'[t] = NoClaim \/ claim'[t].stale \/ (claim'[t] = Pending /\ ~Working(t)')
  BY DEF ClaimFree, Unclaimed
<1>7. One(ClaimFree(t)) \in 0..1 /\ One(ClaimFree(t)') \in 0..1 /\ One(phase # "up") \in 0..1 /\ One(phase' # "up") \in 0..1
      /\ One(t \in delayed) \in 0..1
  BY DEF One
<1>8. ASSUME UNCHANGED <<mails, ready, delayed, worker, faults, phase>>, Enqueuers(t)' = Enqueuers(t), ClaimFree(t)' => ClaimFree(t)
      PROVE  MailPaid(t)'
  <2>1. One(ClaimFree(t)') <= One(ClaimFree(t))
    BY <1>8 DEF One
  <2>2. Senders(t)' = Senders(t)
    BY <1>4, <1>8
  <2>3. mails[t] + Count(ready, t) + One(t \in delayed) + Cardinality(Senders(t)) + Cardinality(Enqueuers(t))
            + One(ClaimFree(t)') + One(phase # "up") <= 1 + faults
    BY <1>1, <1>2, <1>7, <2>1
  <2> QED
    BY <1>3, <1>8, <2>2, <2>3
<1>9. ASSUME NEW c \in Callers, CallEffect(c) PROVE MailPaid(t)'
  <2>1. UNCHANGED <<mails, ready, delayed, worker, faults, phase, handler, claim>>
    BY <1>9 DEF CallEffect, CallFrame, queue, lists
  <2> QED
    BY <1>5, <1>6, <1>8, <2>1
<1>10. ASSUME NEW c \in Callers, SpawnEffect(c), SpawnFrame PROVE MailPaid(t)'
  <2>1. UNCHANGED <<mails, ready, delayed, worker, faults, phase, claim>>
    BY <1>10 DEF SpawnEffect, SpawnFrame, queue, lists, outside, rows, history
  <2>2. \A u, n : NewMail(u).pc = "order" /\ NewHook(n).pc = "list"
    BY DEF NewMail, NewHook
  <2>3. \A h \in Slots : handler'[h] = handler[h] \/ (handler[h] = Idle /\ handler'[h].pc \in {"order", "list"})
    <3>1. handler \in [Slots -> {Idle} \cup Handlers]
      BY DEF Typed, BusTyped
    <3> QED
      BY <1>10, <2>2, <3>1 DEF SpawnEffect
  <2>4. Idle.pc = "idle"
    BY DEF Idle
  <2> QED
    BY <1>5, <1>6, <1>8, <2>1, <2>3, <2>4
<1>11. ASSUME NEW h \in Slots, Handle(h), HandlerEffect(h) PROVE MailPaid(t)'
  <2>1. UNCHANGED <<mails, delayed, worker, phase>>
    BY <1>11 DEF HandlerEffect, HandlerFrame
  <2>2. Count(ready', t) + Cardinality(Enqueuers(t)') + One(ClaimFree(t)') + faults
            <= Count(ready, t) + Cardinality(Enqueuers(t)) + One(ClaimFree(t)) + faults'
    BY <1>11, HandlerMails
  <2>3. Senders(t)' = Senders(t)
    BY <1>4, <2>1
  <2>5. mails[t] + Count(ready', t) + One(t \in delayed) + Cardinality(Senders(t)) + Cardinality(Enqueuers(t)')
            + One(ClaimFree(t)') + One(phase # "up") <= 1 + faults'
    BY <1>1, <1>1a, <1>2, <1>7, <2>2
  <2> QED
    BY <1>3, <2>1, <2>3, <2>5
<1>12. ASSUME NEW w \in Workers, WorkEffect(w) PROVE MailPaid(t)'
  <2>1. UNCHANGED <<handler, claim, phase>>
    BY <1>12 DEF WorkEffect, WorkFrame
  <2>2. mails'[t] + Count(ready', t) + One(t \in delayed') + Cardinality(Senders(t)') + faults
            <= mails[t] + Count(ready, t) + One(t \in delayed) + Cardinality(Senders(t)) + faults'
    BY <1>12, WorkMails
  <2>3. Enqueuers(t)' = Enqueuers(t) /\ (ClaimFree(t)' <=> ClaimFree(t))
    BY <1>5, <1>6, <2>1
  <2>4. One(ClaimFree(t)') = One(ClaimFree(t))
    BY <2>3 DEF One
  <2>5. mails'[t] + Count(ready', t) + One(t \in delayed') + Cardinality(Senders(t)') + Cardinality(Enqueuers(t))
            + One(ClaimFree(t)) + One(phase # "up") <= 1 + faults'
    <3>1. One(t \in delayed') \in 0..1
      BY DEF One
    <3> QED
      BY <1>1, <1>1a, <1>2, <1>7, <2>2, <3>1
  <2> QED
    BY <1>3, <2>1, <2>3, <2>4, <2>5
<1>13. ASSUME NEW u \in Topics, Ages(u) PROVE MailPaid(t)'
  <2>1. UNCHANGED <<mails, ready, delayed, worker, phase, handler>> /\ claim \in [Topics -> [status : {"none", "pending", "completed"}, stale : BOOLEAN]]
    BY <1>13 DEF Ages, queue, lists, bus, history, Typed, RowsTyped
  <2>2. Enqueuers(t)' = Enqueuers(t) /\ (Working(t)' <=> Working(t)) /\ Senders(t)' = Senders(t)
    BY <1>4, <1>5, <2>1
  <2>3. CASE u = t /\ faults' = faults /\ ~Working(t)
    <3>1. ClaimFree(t) /\ faults' = faults
      BY <1>6, <1>13, <2>3 DEF Ages
    <3> QED
      BY <1>8, <2>1, <2>2, <3>1
  <2>4. CASE faults' = faults + 1
    <3>1. mails[t] + Count(ready, t) + One(t \in delayed) + Cardinality(Senders(t)) + Cardinality(Enqueuers(t))
              + One(ClaimFree(t)') + One(phase # "up") <= 1 + faults'
      BY <1>1, <1>2, <1>7, <2>4
    <3> QED
      BY <1>3, <2>1, <2>2, <3>1
  <2>5. CASE u # t /\ faults' = faults
    <3>1. claim'[t] = claim[t]
      BY <1>13, <2>1, <2>5 DEF Ages
    <3>2. ClaimFree(t)' <=> ClaimFree(t)
      BY <1>6, <2>2, <3>1
    <3> QED
      BY <1>8, <2>1, <2>2, <2>5, <3>2
  <2> QED
    BY <1>13, <2>3, <2>4, <2>5 DEF Ages
<1>14. ASSUME RowsWritten PROVE MailPaid(t)'
  <2>1. UNCHANGED <<mails, ready, delayed, worker, faults, phase, handler, claim>>
    BY <1>14 DEF RowsWritten, queue, lists, bus, history
  <2> QED
    BY <1>5, <1>6, <1>8, <2>1
<1>15. ASSUME PhaseMoves PROVE MailPaid(t)'
  <2>1. UNCHANGED <<mails, ready, delayed, worker, handler, claim>>
    BY <1>15 DEF PhaseMoves, queue, lists, outside, rows, history
  <2>2. Enqueuers(t)' = Enqueuers(t) /\ (ClaimFree(t)' <=> ClaimFree(t)) /\ Senders(t)' = Senders(t)
    BY <1>4, <1>5, <1>6, <2>1
  <2>3. One(ClaimFree(t)') = One(ClaimFree(t))
    BY <2>2 DEF One
  <2>4. One(phase' # "up") + faults <= One(phase # "up") + faults'
    BY <1>1, <1>15 DEF PhaseMoves, One
  <2>5. mails[t] + Count(ready, t) + One(t \in delayed) + Cardinality(Senders(t)) + Cardinality(Enqueuers(t))
            + One(ClaimFree(t)) + One(phase' # "up") <= 1 + faults'
    BY <1>1, <1>1a, <1>2, <1>7, <2>4
  <2> QED
    BY <1>3, <2>1, <2>2, <2>3, <2>5
<1>16. ASSUME Restarts PROVE MailPaid(t)'
  <2>1. UNCHANGED <<mails, ready, delayed, worker>> /\ phase' = "up" /\ \A h \in Slots : handler'[h] = Idle
    BY <1>16 DEF Restarts, Restarted, queue, lists, outside, history
  <2>2. Senders(t)' = Senders(t)
    BY <1>4, <2>1
  <2>3. Cardinality(Enqueuers(t)') = 0
    <3>1. \A h \in Slots : ~Enqueuer(h, t)'
      BY <2>1 DEF Enqueuer, Mail, HandlerAt, Idle
    <3>2. Enqueuers(t)' = {}
      BY <3>1 DEF Enqueuers
    <3> QED
      BY <3>2, FS_EmptySet
  <2>4. One(phase' # "up") = 0
    BY <2>1 DEF One
  <2>5. (One(phase # "up") = 1 /\ faults' = faults) \/ faults' = faults + 1
    <3>1. drained => phase # "up"
      BY DEF BInv
    <3> QED
      BY <1>16, <3>1 DEF Restarts, One
  <2>6. mails[t] + Count(ready, t) + One(t \in delayed) + Cardinality(Senders(t)) + 0 + One(ClaimFree(t)') + 0 <= 1 + faults'
    BY <1>1, <1>2, <1>7, <2>5
  <2> QED
    BY <1>3, <2>1, <2>2, <2>3, <2>4, <2>6
<1> QED
  BY <1>9, <1>10, <1>11, <1>12, <1>13, <1>14, <1>15, <1>16 DEF Effect

\* However often its event is published, a subject gets one e-mail, and each fault
\* or restart costs at most one more (service.go: TryInsert, then Enqueue, then the
\* claim completed or given up).
THEOREM OneMailCorrect == Spec => []OneMailPerSubject
<1> DEFINE EInv == Typed /\ BInv /\ Repeats /\ MailsPaid
<1>1. Init => EInv
  <2>1. SUFFICES ASSUME Init PROVE Repeats /\ MailsPaid
    BY InitTyped
  <2>2. /\ ready = <<>> /\ delayed = {} /\ faults = 0 /\ phase = "up" /\ (\A t \in Topics : mails[t] = 0)
        /\ (\A h \in Slots : handler[h] = Idle) /\ \A w \in Workers : worker[w] = Polling
    BY <2>1 DEF Init, BusInit, QueueInit
  <2>3. Idle.pc = "idle" /\ Polling.job = NoJob /\ Polling.pc = "poll"
    BY DEF Idle, Polling
  <2>4. Repeats
    BY <2>2, <2>3 DEF Repeats, At
  <2>5. ASSUME NEW t \in Topics PROVE MailPaid(t)
    <3>1. Count(ready, t) = 0
      <4>1. {i \in DOMAIN <<>> : <<>>[i] = t} = {}
        OBVIOUS
      <4> QED
        BY <2>2, <4>1, FS_EmptySet DEF Count
    <3>2. Cardinality(Senders(t)) = 0
      <4>1. t # NoJob
        BY DispatchAssumption, QueueAssumption
      <4>2. Senders(t) = {}
        BY <2>2, <2>3, <4>1 DEF Senders, Sender, Job
      <4> QED
        BY <4>2, FS_EmptySet
    <3>3. Cardinality(Enqueuers(t)) = 0
      <4>1. Enqueuers(t) = {}
        BY <2>2, <2>3 DEF Enqueuers, Enqueuer, Mail, HandlerAt
      <4> QED
        BY <4>1, FS_EmptySet
    <3>4. One(t \in delayed) = 0 /\ One(phase # "up") = 0 /\ One(ClaimFree(t)) \in 0..1
      BY <2>2 DEF One
    <3> QED
      BY <2>2, <3>1, <3>2, <3>3, <3>4 DEF MailPaid
  <2> QED
    BY <2>4, <2>5 DEF MailsPaid
<1>2. EInv /\ [Next]_vars => EInv'
  <2>1. SUFFICES ASSUME EInv, [Next]_vars PROVE EInv'
    OBVIOUS
  <2>2. Typed' /\ BInv'
    BY <2>1, StepTyped
  <2>3. CASE Next
    <3>1. Effect
      BY <2>1, <2>3, NextEffect DEF Typed
    <3>2. ASSUME NEW t \in Topics PROVE MailPaid(t)'
      BY <2>1, <3>1, EffectMails DEF MailsPaid
    <3>3. Repeats'
      <4>1. ASSUME NEW w \in Workers, WorkEffect(w) PROVE Repeats'
        BY <2>1, <4>1, WorkRepeats
      <4>2. UNCHANGED worker => Repeats'
        BY <2>1 DEF Repeats, At
      <4> QED
        BY <3>1, <4>1, <4>2
        DEF Effect, CallEffect, CallFrame, SpawnFrame, HandlerEffect, HandlerFrame, Ages, RowsWritten, PhaseMoves, Restarts
    <3> QED
      BY <2>2, <3>2, <3>3 DEF MailsPaid
  <2>4. CASE UNCHANGED vars
    <3>1. UNCHANGED <<handler, phase, ready, delayed, worker, faults, claim, mails>>
      BY <2>4 DEF vars, bus, queue, lists, outside, rows, history
    <3>2. Repeats'
      BY <2>1, <3>1 DEF Repeats, At
    <3>3. ASSUME NEW t \in Topics PROVE MailPaid(t)'
      <4>1. Senders(t)' = Senders(t) /\ Enqueuers(t)' = Enqueuers(t)
        BY <3>1 DEF Senders, Sender, Job, Enqueuers, Enqueuer, Mail, HandlerAt, Topic
      <4>2. ClaimFree(t)' = ClaimFree(t)
        BY <3>1 DEF ClaimFree, Unclaimed, Working, Mail, HandlerAt, Topic
      <4>3. MailPaid(t)
        BY <2>1 DEF MailsPaid
      <4> QED
        BY <3>1, <4>1, <4>2, <4>3 DEF MailPaid
    <3> QED
      BY <2>2, <3>2, <3>3 DEF MailsPaid
  <2> QED
    BY <2>1, <2>3, <2>4
<1>3. EInv => OneMailPerSubject
  <2>1. SUFFICES ASSUME EInv, NEW t \in Topics PROVE mails[t] <= 1 + faults
    BY DEF OneMailPerSubject
  <2>2. /\ mails[t] \in Nat /\ Count(ready, t) \in Nat /\ faults \in Nat
        /\ Cardinality(Senders(t)) \in Nat /\ Cardinality(Enqueuers(t)) \in Nat
    BY <2>1, MailTerms
  <2>3. One(t \in delayed) \in 0..1 /\ One(ClaimFree(t)) \in 0..1 /\ One(phase # "up") \in 0..1
    BY DEF One
  <2>4. mails[t] + Count(ready, t) + One(t \in delayed) + Cardinality(Senders(t)) + Cardinality(Enqueuers(t))
            + One(ClaimFree(t)) + One(phase # "up") <= 1 + faults
    BY <2>1 DEF MailsPaid, MailPaid
  <2> QED
    BY <2>2, <2>3, <2>4
<1> HIDE DEF EInv
<1> QED
  BY <1>1, <1>2, <1>3, PTL DEF Spec
=============================================================================
