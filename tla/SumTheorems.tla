---------------------------- MODULE SumTheorems ------------------------------
(***************************************************************************)
(* Sums over finite sets: what SumFunctionOnSet of the community module     *)
(* Functions returns, and how it changes when an element is added, removed  *)
(* or changed.  The conservation laws of the shop (stock, store credit,     *)
(* carts, refunds) are proved with these lemmas.  SumFunctionOnSet unfolds  *)
(* to a recursive function on the subsets of its argument; the proofs show  *)
(* that this function exists and is unique, by induction over finite sets.  *)
(***************************************************************************)
EXTENDS Functions, FiniteSetTheorems, TLAPS

\* Induction over the subsets of a finite set, with the induction hypothesis a
\* set P instead of a predicate: a smallest subset outside P cannot exist.
LEMMA SetInduction ==
    ASSUME NEW S, IsFiniteSet(S), NEW P,
           \A T \in SUBSET S : (\A x \in T : T \ {x} \in P) => T \in P
    PROVE  S \in P
<1> DEFINE Bad == {T \in SUBSET S : T \notin P}
<1>1. SUFFICES ASSUME S \notin P PROVE FALSE
  OBVIOUS
<1>1a. Bad # {}
  BY <1>1
<1>2. Bad \subseteq FiniteSubsetsOf(S)
  BY FS_Subset DEF FiniteSubsetsOf
<1>3. IsWellFoundedOn(StrictSubsetOrdering(S), FiniteSubsetsOf(S))
  BY FS_StrictSubsetOrderingWellFounded
<1>4. \E T \in Bad : \A U \in Bad : ~(<<U, T>> \in StrictSubsetOrdering(S))
  <2> HIDE DEF Bad
  <2> QED
    BY <1>1a, <1>2, <1>3, WFMin
<1>5. PICK T \in Bad : \A U \in Bad : ~(<<U, T>> \in StrictSubsetOrdering(S))
  BY <1>4
<1>6. PICK x \in T : T \ {x} \notin P
  BY <1>5
<1>7. T \ {x} \in Bad
  BY <1>5, <1>6
<1>8. <<T \ {x}, T>> \in StrictSubsetOrdering(S)
  BY <1>5, <1>6 DEF StrictSubsetOrdering
<1> QED
  BY <1>5, <1>7, <1>8

\* The element SumFunctionOnSet takes out of s next, and the equation that its
\* recursive function g satisfies on the domain D.
First(s) == CHOOSE x \in s : TRUE
Steps(f, D, g) == g = [s \in D |-> IF s = {} THEN 0 ELSE f[First(s)] + g[s \ {First(s)}]]

\* The element taken out of a set is one of its elements.
LEMMA FirstType == \A s : s # {} => First(s) \in s
BY DEF First

\* A sum is the value at S of a function that satisfies the recursive equation.
LEMMA SumUnfolded == 
    ASSUME NEW f, NEW S 
    PROVE  SumFunctionOnSet(f, S) = (CHOOSE g : Steps(f, SUBSET S, g))[S]
BY DEF SumFunctionOnSet, FoldFunctionOnSet, MapThenFoldSet, Steps, First

\* The recursive equation has a solution: one for the subsets of n elements is
\* extended to those of n + 1.
LEMMA StepsExist ==
    ASSUME NEW S, IsFiniteSet(S), NEW f
    PROVE  \E g : Steps(f, SUBSET S, g)
<1> DEFINE Small(n) == {s \in SUBSET S : Cardinality(s) <= n}
           P == {T \in SUBSET S : \E g : Steps(f, Small(Cardinality(T)), g)}
<1>1. \A T \in SUBSET S : IsFiniteSet(T) /\ Cardinality(T) \in Nat
  BY FS_Subset, FS_CardinalityType
<1>2. ASSUME NEW T \in SUBSET S, \A x \in T : T \ {x} \in P
      PROVE  T \in P
  <2>1. CASE T = {}
    <3>1. Small(Cardinality(T)) = {{}}
      BY <1>1, <2>1, FS_EmptySet
    <3>2. Steps(f, {{}}, [s \in {{}} |-> 0])
      BY DEF Steps
    <3> QED
      BY <3>1, <3>2
  <2>2. CASE T # {}
    <3>1. PICK x \in T : TRUE
      BY <2>2
    <3> DEFINE n == Cardinality(T \ {x})
    <3>2. PICK h : Steps(f, Small(n), h)
      BY <1>2
    <3>3. n \in Nat /\ Cardinality(T) = n + 1
      BY <1>1, FS_RemoveElement
    <3> HIDE DEF n
    <3> DEFINE g == [s \in Small(n + 1) |-> IF s = {} THEN 0 ELSE f[First(s)] + h[s \ {First(s)}]]
    <3>4. Small(n) \subseteq Small(n + 1)
      BY <1>1, <3>3
    <3>5. \A s \in Small(n + 1) : s # {} => s \ {First(s)} \in Small(n)
      <4> SUFFICES ASSUME NEW s \in Small(n + 1), s # {} PROVE s \ {First(s)} \in Small(n)
        OBVIOUS
      <4>1. First(s) \in s
        BY FirstType
      <4>2. IsFiniteSet(s) /\ Cardinality(s) \in Nat
        BY <1>1
      <4>3. Cardinality(s \ {First(s)}) = Cardinality(s) - 1
        BY <4>1, <4>2, FS_RemoveElement
      <4> QED
        BY <3>3, <4>2, <4>3
    <3>6. \A s \in Small(n) : h[s] = IF s = {} THEN 0 ELSE f[First(s)] + h[s \ {First(s)}]
      BY <3>2 DEF Steps
    <3>7. \A s \in Small(n) : g[s] = h[s]
      BY <3>4, <3>6
    <3>8. g = [s \in Small(n + 1) |-> IF s = {} THEN 0 ELSE f[First(s)] + g[s \ {First(s)}]]
      BY <3>5, <3>7
    <3> QED
      BY <3>3, <3>8 DEF Steps
  <2> QED
    BY <2>1, <2>2
<1>3. S \in P
  <2> HIDE DEF P
  <2> QED
    BY <1>2, SetInduction
<1>4. Small(Cardinality(S)) = SUBSET S
  BY FS_Subset
<1> QED
  BY <1>3, <1>4

\* Solutions for a set and for one of its subsets agree on the subset.
LEMMA StepsUnique ==
    ASSUME NEW S, IsFiniteSet(S), NEW R \in SUBSET S, NEW f, NEW g, NEW h,
           Steps(f, SUBSET S, g), Steps(f, SUBSET R, h)
    PROVE  g[R] = h[R]
<1> DEFINE P == {T \in SUBSET R : g[T] = h[T]}
<1>1. ASSUME NEW T \in SUBSET R, \A x \in T : T \ {x} \in P
      PROVE  T \in P
  <2>1. g[T] = IF T = {} THEN 0 ELSE f[First(T)] + g[T \ {First(T)}]
    BY DEF Steps
  <2>2. h[T] = IF T = {} THEN 0 ELSE f[First(T)] + h[T \ {First(T)}]
    BY DEF Steps
  <2> QED
    BY <1>1, <2>1, <2>2, FirstType
<1>2. R \in P
  <2> HIDE DEF P
  <2> QED
    BY <1>1, SetInduction, FS_Subset
<1> QED
  BY <1>2

\* The recursive equation, for the sums themselves.
LEMMA SumFirst ==
    ASSUME NEW S, IsFiniteSet(S), NEW f
    PROVE  SumFunctionOnSet(f, S) = 
              IF S = {} THEN 0 ELSE f[First(S)] + SumFunctionOnSet(f, S \ {First(S)})
<1> DEFINE g == CHOOSE g : Steps(f, SUBSET S, g)
           R == S \ {First(S)}
           h == CHOOSE h : Steps(f, SUBSET R, h)
<1>1. Steps(f, SUBSET S, g)
  BY StepsExist
<1>2. Steps(f, SUBSET R, h)
  BY StepsExist, FS_Subset
<1>3. SumFunctionOnSet(f, S) = g[S] /\ SumFunctionOnSet(f, R) = h[R]
  BY SumUnfolded
<1>4. g[R] = h[R]
  <2> HIDE DEF g, h
  <2> QED 
    BY <1>1, <1>2, StepsUnique
<1>5. g[S] = IF S = {} THEN 0 ELSE f[First(S)] + g[S \ {First(S)}]
  <2> HIDE DEF g, h
  <2> QED 
    BY <1>1 DEF Steps
<1> QED
  BY <1>3, <1>4, <1>5
\* The sum over no elements.
LEMMA SumEmpty == ASSUME NEW f PROVE SumFunctionOnSet(f, {}) = 0
BY SumFirst, FS_EmptySet

\* A sum depends on the values at its indices only.
LEMMA SumSame ==
    ASSUME NEW S, IsFiniteSet(S), NEW f, NEW g, \A x \in S : f[x] = g[x]
    PROVE  SumFunctionOnSet(f, S) = SumFunctionOnSet(g, S)
<1> DEFINE P == {T \in SUBSET S : SumFunctionOnSet(f, T) = SumFunctionOnSet(g, T)}
<1>1. ASSUME NEW T \in SUBSET S, \A x \in T : T \ {x} \in P
      PROVE  T \in P
  <2>1. IsFiniteSet(T)
    BY FS_Subset
  <2>2. CASE T = {}
    BY <2>2, SumEmpty
  <2>3. CASE T # {}
    BY <1>1, <2>1, <2>3, SumFirst, FirstType
  <2> QED
    BY <2>2, <2>3
<1>2. S \in P
  <2> HIDE DEF P
  <2> QED
    BY <1>1, SetInduction
<1> QED
  BY <1>2

\* A sum of integers is an integer.
LEMMA SumInt ==
    ASSUME NEW S, IsFiniteSet(S), NEW f, \A x \in S : f[x] \in Int
    PROVE  SumFunctionOnSet(f, S) \in Int
<1> DEFINE P == {T \in SUBSET S : SumFunctionOnSet(f, T) \in Int}
<1>1. ASSUME NEW T \in SUBSET S, \A x \in T : T \ {x} \in P
      PROVE  T \in P
  <2>1. IsFiniteSet(T)
    BY FS_Subset
  <2>2. CASE T = {}
    BY <2>2, SumEmpty
  <2>3. CASE T # {}
    <3>1. First(T) \in T
      BY <2>3, FirstType
    <3>2. SumFunctionOnSet(f, T) = f[First(T)] + SumFunctionOnSet(f, T \ {First(T)})
      BY <2>1, <2>3, SumFirst
    <3> QED
      BY <1>1, <3>1, <3>2
  <2> QED
    BY <2>2, <2>3
<1>2. S \in P
  <2> HIDE DEF P
  <2> QED
    BY <1>1, SetInduction
<1> QED
  BY <1>2

\* Any element can be taken out of a sum, not only the one the recursion takes:
\* addition commutes.
LEMMA SumRemove ==
    ASSUME NEW S, IsFiniteSet(S), NEW f, \A x \in S : f[x] \in Int, NEW y \in S
    PROVE  SumFunctionOnSet(f, S) = f[y] + SumFunctionOnSet(f, S \ {y})
<1> DEFINE Sum(T) == SumFunctionOnSet(f, T)
           P == {T \in SUBSET S : \A x \in T : Sum(T) = f[x] + Sum(T \ {x})}
<1>1. ASSUME NEW T \in SUBSET S, \A x \in T : T \ {x} \in P
      PROVE  T \in P
  <2> SUFFICES ASSUME NEW x \in T PROVE Sum(T) = f[x] + Sum(T \ {x})
    OBVIOUS
  <2> DEFINE c == First(T)
  <2>1. c \in T
    BY FirstType
  <2>2. \A U \in SUBSET S : IsFiniteSet(U) /\ Sum(U) \in Int
    BY FS_Subset, SumInt
  <2>3. Sum(T) = f[c] + Sum(T \ {c})
    BY <2>1, <2>2, SumFirst
  <2>4. CASE x = c
    BY <2>3, <2>4
  <2>5. CASE x # c
    <3> HIDE DEF c, Sum
    <3>1. Sum(T \ {c}) = f[x] + Sum((T \ {c}) \ {x})
      BY <1>1, <2>1, <2>5
    <3>2. Sum(T \ {x}) = f[c] + Sum((T \ {x}) \ {c})
      BY <1>1, <2>1, <2>5
    <3>3. (T \ {c}) \ {x} = (T \ {x}) \ {c}
      OBVIOUS
    <3>4. f[x] \in Int /\ f[c] \in Int /\ Sum((T \ {x}) \ {c}) \in Int
      BY <2>1, <2>2
    <3>5. Sum(T) = f[c] + (f[x] + Sum((T \ {x}) \ {c}))
      BY <2>3, <3>1, <3>3
    <3> QED
      BY <3>2, <3>4, <3>5
  <2> QED
    BY <2>4, <2>5
<1>2. S \in P
  <2> HIDE DEF P
  <2> QED
    BY <1>1, SetInduction
<1> QED
  BY <1>2
\* A new element adds its value.
LEMMA SumAdd ==
    ASSUME NEW S, IsFiniteSet(S), NEW f, NEW y, y \notin S, \A x \in S \cup {y} : f[x] \in Int
    PROVE  SumFunctionOnSet(f, S \cup {y}) = f[y] + SumFunctionOnSet(f, S)
<1>1. IsFiniteSet(S \cup {y})
  BY FS_AddElement
<1>2. (S \cup {y}) \ {y} = S
  OBVIOUS
<1>3. SumFunctionOnSet(f, S \cup {y}) = f[y] + SumFunctionOnSet(f, (S \cup {y}) \ {y})
  BY <1>1, SumRemove
<1> QED
  BY <1>2, <1>3

\* A sum is the sum over a part and over the rest.
LEMMA SumSplit ==
    ASSUME NEW S, IsFiniteSet(S), NEW R \in SUBSET S, NEW f, \A x \in S : f[x] \in Int
    PROVE  SumFunctionOnSet(f, S) = SumFunctionOnSet(f, R) + SumFunctionOnSet(f, S \ R)
<1> DEFINE Sum(T) == SumFunctionOnSet(f, T)
           P == {T \in SUBSET R : Sum(S) = Sum(T) + Sum(S \ T)}
<1>0. \A T \in SUBSET S : IsFiniteSet(T) /\ Sum(T) \in Int
  BY FS_Subset, SumInt
<1>1. ASSUME NEW T \in SUBSET R, \A x \in T : T \ {x} \in P
      PROVE  T \in P
  <2>1. CASE T = {}
    <3>1. S \ T = S /\ Sum(T) = 0
      BY <2>1, SumEmpty
    <3>2. Sum(S) \in Int
      BY <1>0
    <3> QED
      BY <3>1, <3>2
  <2>2. CASE T # {}
    <3>1. PICK x \in T : TRUE
      BY <2>2
    <3>2. Sum(S) = Sum(T \ {x}) + Sum(S \ (T \ {x}))
      BY <1>1, <3>1
    <3>3. Sum(T) = f[x] + Sum(T \ {x})
      BY <1>0, SumRemove
    <3>4. Sum(S \ (T \ {x})) = f[x] + Sum((S \ (T \ {x})) \ {x})
      <4>1. IsFiniteSet(S \ (T \ {x})) /\ x \in S \ (T \ {x}) 
        BY <1>0
      <4>2. \A z \in S \ (T \ {x}) : f[z] \in Int
        OBVIOUS
      <4> QED
        BY <4>1, <4>2, SumRemove
    <3>5. (S \ (T \ {x})) \ {x} = S \ T
      OBVIOUS
    <3>6. Sum(T \ {x}) \in Int /\ Sum(S \ T) \in Int /\ f[x] \in Int
      BY <1>0
    <3> HIDE DEF Sum
    <3>7. Sum(S) = Sum(T \ {x}) + (f[x] + Sum(S \ T))
      BY <3>2, <3>4, <3>5
    <3>8. Sum(S) = Sum(T) + Sum(S \ T)
      BY <3>3, <3>6, <3>7
    <3> QED
      BY <3>8
  <2> QED
    BY <2>1, <2>2
<1>2. R \in P
  <2>1. IsFiniteSet(R)
    BY FS_Subset
  <2> HIDE DEF P, Sum
  <2> QED
    BY <1>1, <2>1, SetInduction
<1> QED
  BY <1>2

\* A sum of natural numbers is a natural number.
LEMMA SumNat ==
    ASSUME NEW S, IsFiniteSet(S), NEW f, \A x \in S : f[x] \in Nat
    PROVE  SumFunctionOnSet(f, S) \in Nat
<1> DEFINE P == {T \in SUBSET S : SumFunctionOnSet(f, T) \in Nat}
<1>1. ASSUME NEW T \in SUBSET S, \A x \in T : T \ {x} \in P
      PROVE  T \in P
  <2>1. IsFiniteSet(T)
    BY FS_Subset
  <2>2. CASE T = {}
    BY <2>2, SumEmpty
  <2>3. CASE T # {}
    <3>1. First(T) \in T
      BY <2>3, FirstType
    <3>2. SumFunctionOnSet(f, T) = f[First(T)] + SumFunctionOnSet(f, T \ {First(T)})
      BY <2>1, <2>3, SumFirst
    <3> QED
      BY <1>1, <3>1, <3>2
  <2> QED
    BY <2>2, <2>3
<1>2. S \in P
  <2> HIDE DEF P
  <2> QED
    BY <1>1, SetInduction
<1> QED
  BY <1>2

\* A sum changes by as much as its one term that changes.
LEMMA SumChange ==
    ASSUME NEW S, IsFiniteSet(S), NEW f, NEW g, \A x \in S : f[x] \in Int /\ g[x] \in Int,
           NEW y \in S, \A x \in S \ {y} : g[x] = f[x]
    PROVE  SumFunctionOnSet(g, S) = SumFunctionOnSet(f, S) + g[y] - f[y]
<1>1. SumFunctionOnSet(f, S) = f[y] + SumFunctionOnSet(f, S \ {y})
  BY SumRemove
<1>2. SumFunctionOnSet(g, S) = g[y] + SumFunctionOnSet(g, S \ {y})
  BY SumRemove
<1>3. IsFiniteSet(S \ {y})
  BY FS_Subset
<1>4. SumFunctionOnSet(g, S \ {y}) = SumFunctionOnSet(f, S \ {y})
  BY <1>3, SumSame
<1>5. SumFunctionOnSet(f, S \ {y}) \in Int
  BY <1>3, SumInt
<1> QED
  BY <1>1, <1>2, <1>4, <1>5

\* Two terms that change.
LEMMA SumChangeTwo ==
    ASSUME NEW S, IsFiniteSet(S), NEW f, NEW g, \A x \in S : f[x] \in Int /\ g[x] \in Int,
           NEW y \in S, NEW z \in S, y # z, \A x \in S \ {y, z} : g[x] = f[x]
    PROVE  SumFunctionOnSet(g, S) = SumFunctionOnSet(f, S) + g[y] - f[y] + g[z] - f[z]
<1>1. SumFunctionOnSet(f, S) = f[y] + SumFunctionOnSet(f, S \ {y})
  BY SumRemove
<1>2. SumFunctionOnSet(g, S) = g[y] + SumFunctionOnSet(g, S \ {y})
  BY SumRemove
<1>3. IsFiniteSet(S \ {y})
  BY FS_Subset
<1>4. SumFunctionOnSet(g, S \ {y}) = SumFunctionOnSet(f, S \ {y}) + g[z] - f[z]
  BY <1>3, SumChange
<1>5. SumFunctionOnSet(f, S \ {y}) \in Int
  BY <1>3, SumInt
<1> QED
  BY <1>1, <1>2, <1>4, <1>5
==============================================================================
