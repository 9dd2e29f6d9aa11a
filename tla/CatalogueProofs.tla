--------------------------- MODULE CatalogueProofs ---------------------------
(***************************************************************************)
(* Theorems of Catalogue, for every set of products, events, workers,      *)
(* pages and visitors: the types; a category tree is never older than what *)
(* its instance has been told; category documents settle; a stale page is  *)
(* explained when all is over; and, with one worker, product documents are *)
(* current when no reindex is under way. SearchInv says who works on which *)
(* run, RequestsInv and PurgesInv what requests and purges hold, PagesInv  *)
(* that a stale page awaits a purge, DocsInv that a stale document awaits  *)
(* a reindex.                                                              *)
(***************************************************************************)
EXTENDS Catalogue, FiniteSetTheorems, SequenceTheorems, TLAPS

------------------------------------------------------------------------------
(* Category trees *)

\* What a reader is about to store in the generation it has seen is no older
\* than what the instance has been told.
TreeInv ==
    /\ \A e \in CatEdits : catEdit[e].pc # "none" => catEdit[e].ver <= cat.ver
    /\ \A e \in CatEdits : EditAt(e, "publish") => catEdit[e].at \in Instances
    /\ \A i \in Instances : told[i] <= cat.ver
    /\ \A r \in Readers : reader[r].pc # "idle" =>
          reader[r].at \in Instances /\ reader[r].gen <= nav[reader[r].at].gen
    /\ \A r \in Readers : reader[r].pc = "store" /\ reader[r].gen = nav[reader[r].at].gen =>
          reader[r].ver >= told[reader[r].at]
    /\ TreeIsNotStale

\* Nothing else touches the categories.
LEMMA CategoriesApart == Next => CategoryStep \/ UNCHANGED catVars
<1> SUFFICES ASSUME Next, ~CategoryStep PROVE UNCHANGED catVars
  OBVIOUS
<1> USE DEF catVars
<1>1. CASE \E e \in Events : Edit(e) \/ EditUnheard(e) \/ ReindexAll(e)
  BY <1>1 DEF Edit, EditUnheard, ReindexAll
<1>2. CASE \E w \in Workers : AfterProductsIndexed(w) \/ IndexedPagesPurged(w) \/ WorkerCrashes(w)
  BY <1>2 DEF AfterProductsIndexed, IndexedPagesPurged, WorkerCrashes
<1>3. CASE (\E p \in Purgers : PurgeGoesWrong(p)) \/ \E r \in Requests : StoreGoesWrong(r)
  BY <1>3 DEF PurgeGoesWrong, StoreGoesWrong
<1>4. CASE ServerRestarts \/ PageStep
  BY <1>4 DEF ServerRestarts, PageStep
<1> QED
  BY <1>1, <1>2, <1>3, <1>4 DEF Next

\* CategoryStep, setups apart.
CatAction ==
    \/ \E e \in CatEdits : \/ \E op \in {"update", "delete", "assign"}, i \in Instances : CommitCategory(e, op, i)
                           \/ PublishCategory(e) \/ PublishCategoryFails(e) \/ LockCategory(e)
                           \/ ReadCategory(e) \/ EngineCall(e) \/ CategoryHandlerFails(e)
    \/ \E r \in Readers : (\E i \in Instances : StartLoad(r, i)) \/ LoadTree(r) \/ StoreTree(r)
    \/ \E i \in Instances : ExpireTree(i)

\* The initial state.
LEMMA CatInitial == CatInit => CatTypeOK /\ TreeInv
<1> SUFFICES ASSUME CatInit PROVE CatTypeOK /\ TreeInv
  OBVIOUS
<1>1. /\ cat.ver = 0 /\ (\A e \in CatEdits : catEdit[e] = NoEdit) /\ (\A i \in Instances : told[i] = 0 /\ nav[i].entry = Absent)
      /\ \A r \in Readers : reader[r] = NoLoad
  BY DEF CatInit
<1>2. NoEdit \in CategoryEdit /\ NoLoad \in TreeLoad
  BY DEF NoEdit, NoLoad, CategoryEdit, TreeLoad
<1>3. CatTypeOK
  BY <1>2 DEF CatInit, CatTypeOK, TreeStore
<1>4. TreeInv
  BY <1>1 DEF TreeInv, TreeIsNotStale, NoEdit, NoLoad, EditAt
<1> QED
  BY <1>3, <1>4

\* A step of an edit from pc p to q; only ReadCategory changes another field.
EditMoves(e, q) ==
    /\ catEdit' \in [CatEdits -> CategoryEdit]
    /\ catEdit'[e].pc = q /\ catEdit'[e].op = catEdit[e].op /\ catEdit'[e].at = catEdit[e].at
    /\ \A d \in CatEdits \ {e} : catEdit'[d] = catEdit[d]

LEMMA EditGotoEffect ==
    ASSUME CatTypeOK, NEW e \in CatEdits, NEW q \in {"lock", "read", "engine", "done"}, EditGoto(e, q)
    PROVE  EditMoves(e, q) /\ catEdit'[e].ver = catEdit[e].ver
<1> DEFINE x == [catEdit[e] EXCEPT !.pc = q]
<1>1. catEdit[e] \in CategoryEdit
  BY DEF CatTypeOK
<1>2. x \in CategoryEdit /\ x.pc = q /\ x.op = catEdit[e].op /\ x.at = catEdit[e].at /\ x.ver = catEdit[e].ver
  BY <1>1 DEF CategoryEdit
<1>3. catEdit' = [catEdit EXCEPT ![e] = x]
  BY DEF EditGoto
<1> HIDE DEF x
<1> QED
  BY <1>2, <1>3 DEF CatTypeOK, EditMoves

\* Types.
LEMMA CatTypes == CatTypeOK /\ [CatAction]_catVars => CatTypeOK'
<1> SUFFICES ASSUME CatTypeOK, [CatAction]_catVars PROVE CatTypeOK'
  OBVIOUS
<1>1. ASSUME NEW e \in CatEdits, NEW op \in {"update", "delete", "assign"}, NEW i \in Instances, CommitCategory(e, op, i)
      PROVE  CatTypeOK'
  <2>1. cat.ver + 1 \in Nat
    BY DEF CatTypeOK
  <2>2. [pc |-> "publish", op |-> op, at |-> i, ver |-> cat.ver + 1] \in CategoryEdit
    BY <2>1 DEF CategoryEdit
  <2> QED
    BY <1>1, <2>1, <2>2 DEF CommitCategory, CatTypeOK
<1>2. ASSUME NEW e \in CatEdits, PublishCategory(e) PROVE CatTypeOK'
  <2>1. catEdit' \in [CatEdits -> CategoryEdit]
    BY <1>2, EditGotoEffect DEF PublishCategory, EditMoves
  <2>2. nav' \in [Instances -> TreeStore]
    <3>1. \A x \in TreeStore : Cleared(x) \in TreeStore
      BY DEF Cleared, TreeStore
    <3> QED
      BY <1>2, <3>1 DEF PublishCategory, CatTypeOK
  <2>3. told' \in [Instances -> Nat]
    <3>1. catEdit[e].ver \in Nat
      BY DEF CatTypeOK, CategoryEdit
    <3> QED
      BY <1>2, <3>1 DEF PublishCategory, CatTypeOK
  <2> QED
    BY <1>2, <2>1, <2>2, <2>3 DEF PublishCategory, CatTypeOK
<1>3. ASSUME NEW e \in CatEdits, PublishCategoryFails(e) PROVE CatTypeOK'
  BY <1>3, EditGotoEffect DEF PublishCategoryFails, EditMoves, CatTypeOK
<1>4. ASSUME NEW e \in CatEdits, LockCategory(e) PROVE CatTypeOK'
  BY <1>4, EditGotoEffect DEF LockCategory, EditMoves, CatTypeOK
<1>5. ASSUME NEW e \in CatEdits, ReadCategory(e) PROVE CatTypeOK'
  <2>1. CASE cat.live
    <3> DEFINE x == [catEdit[e] EXCEPT !.pc = "engine", !.ver = cat.ver]
    <3>1. catEdit[e] \in CategoryEdit /\ cat.ver \in Nat
      BY DEF CatTypeOK
    <3>2. x \in CategoryEdit
      BY <3>1 DEF CategoryEdit
    <3>3. catEdit' = [catEdit EXCEPT ![e] = x]
      BY <1>5, <2>1 DEF ReadCategory
    <3> HIDE DEF x
    <3> QED
      BY <1>5, <2>1, <3>2, <3>3 DEF ReadCategory, CatTypeOK
  <2>2. CASE ~cat.live
    BY <1>5, <2>2, EditGotoEffect DEF ReadCategory, EditMoves, CatTypeOK
  <2> QED
    BY <2>1, <2>2
<1>6. ASSUME NEW e \in CatEdits, EngineCall(e) PROVE CatTypeOK'
  <2>1. catEdit[e].ver \in Nat
    BY DEF CatTypeOK, CategoryEdit
  <2> QED
    BY <1>6, <2>1, EditGotoEffect DEF EngineCall, EditMoves, CatTypeOK
<1>7. ASSUME NEW e \in CatEdits, CategoryHandlerFails(e) PROVE CatTypeOK'
  BY <1>7, EditGotoEffect DEF CategoryHandlerFails, EditMoves, CatTypeOK
<1>8. ASSUME NEW r \in Readers, NEW i \in Instances, StartLoad(r, i) PROVE CatTypeOK'
  <2>1. [pc |-> "load", at |-> i, gen |-> nav[i].gen, ver |-> 0] \in TreeLoad
    BY DEF CatTypeOK, TreeStore, TreeLoad
  <2> QED
    BY <1>8, <2>1 DEF StartLoad, CatTypeOK
<1>9. ASSUME NEW r \in Readers, LoadTree(r) PROVE CatTypeOK'
  <2> DEFINE x == [reader[r] EXCEPT !.pc = "store", !.ver = cat.ver]
  <2>1. reader[r] \in TreeLoad /\ cat.ver \in Nat
    BY DEF CatTypeOK
  <2>2. x \in TreeLoad
    BY <2>1 DEF TreeLoad
  <2>3. reader' = [reader EXCEPT ![r] = x]
    BY <1>9 DEF LoadTree
  <2> HIDE DEF x
  <2> QED
    BY <1>9, <2>2, <2>3 DEF LoadTree, CatTypeOK
<1>10. ASSUME NEW r \in Readers, StoreTree(r) PROVE CatTypeOK'
  <2>1. NoLoad \in TreeLoad
    BY DEF NoLoad, TreeLoad
  <2>2. reader[r].ver \in Nat
    BY DEF CatTypeOK, TreeLoad
  <2>3. \A x \in TreeStore : [x EXCEPT !.entry = reader[r].ver] \in TreeStore
    BY <2>2 DEF TreeStore
  <2>4. nav' \in [Instances -> TreeStore]
    BY <1>10, <2>3 DEF StoreTree, CatTypeOK
  <2> QED
    BY <1>10, <2>1, <2>4 DEF StoreTree, CatTypeOK
<1>11. ASSUME NEW i \in Instances, ExpireTree(i) PROVE CatTypeOK'
  <2>1. \A x \in TreeStore : [x EXCEPT !.entry = Absent] \in TreeStore
    BY DEF TreeStore
  <2> QED
    BY <1>11, <2>1 DEF ExpireTree, CatTypeOK
<1>12. CASE UNCHANGED catVars
  BY <1>12 DEF catVars, CatTypeOK
<1> QED
  BY <1>1, <1>2, <1>3, <1>4, <1>5, <1>6, <1>7, <1>8, <1>9, <1>10, <1>11, <1>12 DEF CatAction

\* A step of an edit that changes no tree.
LEMMA TreeKept ==
    ASSUME CatTypeOK, TreeInv, NEW e \in CatEdits, cat' = cat, nav' = nav, told' = told, reader' = reader,
           NEW q \in {"lock", "read", "engine", "done"}, EditMoves(e, q), catEdit'[e].ver <= cat.ver
    PROVE  TreeInv'
  BY DEF TreeInv, TreeIsNotStale, EditMoves, EditAt

\* Clearing a tree starts a generation, which keeps out the loads under way.
LEMMA TreeStep == CatTypeOK /\ TreeInv /\ [CatAction]_catVars => TreeInv'
<1> SUFFICES ASSUME CatTypeOK, TreeInv, [CatAction]_catVars PROVE TreeInv'
  OBVIOUS
<1>0. /\ cat.ver \in Nat
      /\ \A i \in Instances : nav[i].gen \in Nat /\ nav[i].entry \in Nat \cup {Absent} /\ told[i] \in Nat
      /\ \A r \in Readers : reader[r].gen \in Nat /\ reader[r].ver \in Nat
      /\ \A e \in CatEdits : catEdit[e].ver \in Nat
  BY DEF CatTypeOK, TreeStore, TreeLoad, CategoryEdit
<1>1. ASSUME NEW e \in CatEdits, NEW op \in {"update", "delete", "assign"}, NEW i \in Instances, CommitCategory(e, op, i)
      PROVE  TreeInv'
  <2>1. cat'.ver = cat.ver + 1 /\ UNCHANGED <<nav, reader, told>>
    BY <1>1 DEF CommitCategory
  <2>2. catEdit'[e].ver = cat.ver + 1 /\ catEdit'[e].at = i /\ \A d \in CatEdits \ {e} : catEdit'[d] = catEdit[d]
    BY <1>1 DEF CommitCategory, CatTypeOK
  <2> QED
    BY <1>0, <2>1, <2>2 DEF TreeInv, TreeIsNotStale, EditAt
<1>2. ASSUME NEW e \in CatEdits, PublishCategory(e) PROVE TreeInv'
  <2> DEFINE i == catEdit[e].at
  <2>1. i \in Instances /\ cat' = cat /\ reader' = reader /\ EditMoves(e, "lock") /\ catEdit'[e].ver = catEdit[e].ver
    BY <1>2, EditGotoEffect DEF PublishCategory, TreeInv
  <2>2. CASE catEdit[e].op = "assign"
    BY <1>2, <2>1, <2>2, TreeKept DEF PublishCategory, TreeInv, EditAt
  <2>3. CASE catEdit[e].op # "assign"
    <3>1. nav' = [nav EXCEPT ![i] = Cleared(nav[i])]
      BY <1>2, <2>3 DEF PublishCategory
    <3>2. nav'[i].entry = Absent /\ nav'[i].gen = nav[i].gen + 1 /\ \A j \in Instances \ {i} : nav'[j] = nav[j]
      BY <2>1, <3>1 DEF Cleared, CatTypeOK
    <3>3. told' = IF told[i] < catEdit[e].ver THEN [told EXCEPT ![i] = catEdit[e].ver] ELSE told
      BY <1>2, <2>3 DEF PublishCategory
    <3>4. told'[i] <= cat.ver /\ \A j \in Instances \ {i} : told'[j] = told[j]
      BY <1>0, <1>2, <2>1, <3>3 DEF PublishCategory, TreeInv, EditAt, CatTypeOK
    <3>5. \A r \in Readers : reader[r].pc # "idle" /\ reader[r].at = i => reader[r].gen < nav'[i].gen
      BY <1>0, <3>2 DEF TreeInv
    <3>6. \A d \in CatEdits : /\ catEdit'[d].ver <= cat.ver \/ catEdit'[d].pc = "none"
                              /\ catEdit'[d].pc = "publish" => catEdit'[d].at \in Instances
      BY <1>2, <2>1 DEF PublishCategory, EditMoves, TreeInv, EditAt
    <3>7. \A r \in Readers : reader[r].pc # "idle" => reader[r].at \in Instances /\ reader[r].gen <= nav'[reader[r].at].gen
      BY <1>0, <3>2 DEF TreeInv
    <3>8. \A r \in Readers : reader[r].pc = "store" /\ reader[r].gen = nav'[reader[r].at].gen =>
             reader[r].ver >= told'[reader[r].at]
      BY <1>0, <3>2, <3>4, <3>5 DEF TreeInv
    <3>9. \A j \in Instances : nav'[j].entry # Absent => nav'[j].entry >= told'[j]
      BY <3>2, <3>4 DEF TreeInv, TreeIsNotStale
    <3>10. \A j \in Instances : told'[j] <= cat.ver
      BY <3>4 DEF TreeInv
    <3> HIDE DEF i
    <3> QED
      BY <2>1, <3>6, <3>7, <3>8, <3>9, <3>10 DEF TreeInv, TreeIsNotStale, EditAt
  <2> QED
    BY <2>2, <2>3
<1>3. ASSUME NEW e \in CatEdits, PublishCategoryFails(e) PROVE TreeInv'
  BY <1>3, EditGotoEffect, TreeKept DEF PublishCategoryFails, TreeInv, EditAt
<1>4. ASSUME NEW e \in CatEdits, LockCategory(e) PROVE TreeInv'
  BY <1>4, EditGotoEffect, TreeKept DEF LockCategory, TreeInv, EditAt
<1>5. ASSUME NEW e \in CatEdits, ReadCategory(e) PROVE TreeInv'
  <2>1. CASE cat.live
    <3>1. catEdit' = [catEdit EXCEPT ![e].pc = "engine", ![e].ver = cat.ver]
      BY <1>5, <2>1 DEF ReadCategory
    <3>2. catEdit'[e].pc = "engine" /\ catEdit'[e].ver = cat.ver /\ \A d \in CatEdits \ {e} : catEdit'[d] = catEdit[d]
      BY <3>1 DEF CatTypeOK, CategoryEdit
    <3> QED
      BY <1>0, <1>5, <3>2 DEF ReadCategory, TreeInv, TreeIsNotStale, EditAt
  <2>2. CASE ~cat.live
    BY <1>5, <2>2, EditGotoEffect, TreeKept DEF ReadCategory, TreeInv, EditAt
  <2> QED
    BY <2>1, <2>2
<1>6. ASSUME NEW e \in CatEdits, EngineCall(e) PROVE TreeInv'
  BY <1>6, EditGotoEffect, TreeKept DEF EngineCall, TreeInv, EditAt
<1>7. ASSUME NEW e \in CatEdits, CategoryHandlerFails(e) PROVE TreeInv'
  BY <1>7, EditGotoEffect, TreeKept DEF CategoryHandlerFails, TreeInv
<1>8. ASSUME NEW r \in Readers, NEW i \in Instances, StartLoad(r, i) PROVE TreeInv'
  <2>1. /\ reader'[r] = [pc |-> "load", at |-> i, gen |-> nav[i].gen, ver |-> 0]
        /\ \A s \in Readers \ {r} : reader'[s] = reader[s]
    BY <1>8 DEF StartLoad, CatTypeOK
  <2> QED
    BY <1>0, <1>8, <2>1 DEF StartLoad, TreeInv, TreeIsNotStale, EditAt
<1>9. ASSUME NEW r \in Readers, LoadTree(r) PROVE TreeInv'
  <2>1. reader' = [reader EXCEPT ![r].pc = "store", ![r].ver = cat.ver] /\ reader[r].pc = "load"
    BY <1>9 DEF LoadTree
  <2>2. /\ reader'[r].pc = "store" /\ reader'[r].ver = cat.ver /\ reader'[r].at = reader[r].at /\ reader'[r].gen = reader[r].gen
        /\ \A s \in Readers \ {r} : reader'[s] = reader[s]
    BY <2>1 DEF CatTypeOK, TreeLoad
  <2> QED
    BY <1>0, <1>9, <2>1, <2>2 DEF LoadTree, TreeInv, TreeIsNotStale, EditAt
<1>10. ASSUME NEW r \in Readers, StoreTree(r) PROVE TreeInv'
  <2> DEFINE i == reader[r].at
  <2>1. i \in Instances
    BY <1>10 DEF StoreTree, TreeInv
  <2>2. reader'[r].pc = "idle" /\ \A s \in Readers \ {r} : reader'[s] = reader[s]
    BY <1>10 DEF StoreTree, CatTypeOK, NoLoad
  <2>3. nav' = IF nav[i].gen = reader[r].gen THEN [nav EXCEPT ![i].entry = reader[r].ver] ELSE nav
    BY <1>10 DEF StoreTree
  <2>4. \A j \in Instances : nav'[j].gen = nav[j].gen
    BY <2>1, <2>3 DEF CatTypeOK, TreeStore
  <2>5. \A j \in Instances : \/ nav'[j].entry = nav[j].entry
                             \/ j = i /\ nav[i].gen = reader[r].gen /\ nav'[j].entry = reader[r].ver
    BY <2>1, <2>3 DEF CatTypeOK, TreeStore
  <2>6. \A j \in Instances : nav'[j].entry # Absent => nav'[j].entry >= told[j]
    BY <1>10, <2>5 DEF StoreTree, TreeInv, TreeIsNotStale
  <2>7. UNCHANGED <<cat, catEdit, told>>
    BY <1>10 DEF StoreTree
  <2> QED
    BY <2>2, <2>4, <2>6, <2>7 DEF TreeInv, TreeIsNotStale, EditAt
<1>11. ASSUME NEW i \in Instances, ExpireTree(i) PROVE TreeInv'
  <2>1. \A j \in Instances : nav'[j].gen = nav[j].gen /\ nav'[j].entry \in {nav[j].entry, Absent}
    BY <1>11 DEF ExpireTree, CatTypeOK, TreeStore
  <2> QED
    BY <1>11, <2>1 DEF ExpireTree, TreeInv, TreeIsNotStale, EditAt
<1>12. CASE UNCHANGED catVars
  BY <1>12 DEF catVars, TreeInv, TreeIsNotStale, EditAt
<1> QED
  BY <1>1, <1>2, <1>3, <1>4, <1>5, <1>6, <1>7, <1>8, <1>9, <1>10, <1>11, <1>12 DEF CatAction

\* What any step does to categories.
LEMMA CatNext == [Next]_vars => [CatAction]_catVars
  BY CategoriesApart DEF CategoryStep, CatAction, vars, catVars

\* What an instance stores is never older than the newest change it was told of
\* (localcache.Store's generation).
THEOREM TreeCorrect == Spec => []TreeIsNotStale
<1>1. Init => CatTypeOK /\ TreeInv
  BY CatInitial DEF Init
<1>2. CatTypeOK /\ TreeInv /\ [Next]_vars => (CatTypeOK /\ TreeInv)'
  BY CatNext, CatTypes, TreeStep
<1>3. TreeInv => TreeIsNotStale
  BY DEF TreeInv
<1> QED
  BY <1>1, <1>2, <1>3, PTL DEF Spec


------------------------------------------------------------------------------
(* Category documents *)

Deleting(e) == catEdit[e].op = "delete" /\ catEdit[e].pc # "none"
ToCome(e) == catEdit[e].pc \in {"publish", "lock", "read", "engine"}
LastWord(e) == catEdit[e].pc \in {"publish", "lock"} /\ (cat.live \/ catEdit[e].op = "delete")

\* The lock has one holder, and the document is right or some handler has yet to
\* speak; one that is about to write an old version is not the last.
LockInv ==
    /\ \A e \in CatEdits : catEdit[e].pc \in {"read", "engine"} <=> catLock = e
    /\ \A e \in CatEdits : EditAt(e, "read") => catEdit[e].op # "delete"
    /\ cat.live => \A e \in CatEdits : ~Deleting(e)
RightDoc == IF cat.live THEN cat.ver ELSE Absent
DocInv ==
    ~catLost =>
        /\ catDoc = RightDoc \/ \E e \in CatEdits : ToCome(e) /\ (cat.live \/ Deleting(e))
        /\ \A e \in CatEdits : EditAt(e, "engine") /\ catEdit[e].op # "delete" =>
              (cat.live /\ catEdit[e].ver = cat.ver) \/ \E d \in CatEdits : LastWord(d)

\* The lock, and what it protects, over one step.
LEMMA LockStep == CatTypeOK /\ LockInv /\ [CatAction]_catVars => LockInv'
<1> SUFFICES ASSUME CatTypeOK, LockInv, [CatAction]_catVars PROVE LockInv'
  OBVIOUS
<1>0. Absent \notin CatEdits
  BY CategoryAssumption
<1> USE DEF LockInv, EditAt, Deleting
<1>1. ASSUME NEW e \in CatEdits, NEW op \in {"update", "delete", "assign"}, NEW i \in Instances, CommitCategory(e, op, i)
      PROVE  LockInv'
  <2>1. catEdit'[e] = [pc |-> "publish", op |-> op, at |-> i, ver |-> cat.ver + 1] /\ \A d \in CatEdits \ {e} : catEdit'[d] = catEdit[d]
    BY <1>1 DEF CommitCategory, CatTypeOK
  <2>2. catLock' = catLock /\ cat.live /\ (cat'.live <=> op # "delete") /\ catEdit[e].pc = "none"
    BY <1>1 DEF CommitCategory
  <2>3. catEdit'[e].pc = "publish" /\ catEdit'[e].op = op /\ catLock # e
    BY <2>1, <2>2
  <2>4. \A d \in CatEdits : catEdit'[d].pc \in {"read", "engine"} <=> catLock' = d
    BY <2>1, <2>2, <2>3
  <2>5. \A d \in CatEdits : EditAt(d, "read")' => catEdit'[d].op # "delete"
    BY <2>1, <2>3
  <2>6. cat'.live => \A d \in CatEdits : ~Deleting(d)'
    BY <2>1, <2>2, <2>3
  <2> QED
    BY <2>4, <2>5, <2>6
<1>2. ASSUME NEW e \in CatEdits, PublishCategory(e) PROVE LockInv'
  BY <1>2, EditGotoEffect DEF PublishCategory, EditMoves
<1>3. ASSUME NEW e \in CatEdits, PublishCategoryFails(e) PROVE LockInv'
  BY <1>3, EditGotoEffect DEF PublishCategoryFails, EditMoves
<1>4. ASSUME NEW e \in CatEdits, LockCategory(e) PROVE LockInv'
  BY <1>0, <1>4, EditGotoEffect DEF LockCategory, LockFree, EditMoves
<1>5. ASSUME NEW e \in CatEdits, ReadCategory(e) PROVE LockInv'
  <2>1. CASE cat.live
    <3>1. catEdit' = [catEdit EXCEPT ![e].pc = "engine", ![e].ver = cat.ver]
      BY <1>5, <2>1 DEF ReadCategory
    <3>2. catEdit'[e].pc = "engine" /\ catEdit'[e].op = catEdit[e].op /\ \A d \in CatEdits \ {e} : catEdit'[d] = catEdit[d]
      BY <3>1 DEF CatTypeOK, CategoryEdit
    <3> QED
      BY <1>5, <2>1, <3>2 DEF ReadCategory
  <2>2. CASE ~cat.live
    BY <1>0, <1>5, <2>2, EditGotoEffect DEF ReadCategory, EditMoves
  <2> QED
    BY <2>1, <2>2
<1>6. ASSUME NEW e \in CatEdits, EngineCall(e) PROVE LockInv'
  BY <1>0, <1>6, EditGotoEffect DEF EngineCall, EditMoves
<1>7. ASSUME NEW e \in CatEdits, CategoryHandlerFails(e) PROVE LockInv'
  BY <1>0, <1>7, EditGotoEffect DEF CategoryHandlerFails, EditMoves
<1>8. CASE UNCHANGED <<cat, catLock, catEdit>>
  BY <1>8
<1>9. ASSUME NEW r \in Readers, (\E i \in Instances : StartLoad(r, i)) \/ LoadTree(r) \/ StoreTree(r) PROVE LockInv'
  BY <1>8, <1>9 DEF StartLoad, LoadTree, StoreTree
<1>10. ASSUME NEW i \in Instances, ExpireTree(i) PROVE LockInv'
  BY <1>8, <1>10 DEF ExpireTree
<1>11. CASE UNCHANGED catVars
  BY <1>8, <1>11 DEF catVars
<1> QED
  BY <1>1, <1>2, <1>3, <1>4, <1>5, <1>6, <1>7, <1>9, <1>10, <1>11 DEF CatAction

\* The document over one step.
LEMMA DocStep == CatTypeOK /\ LockInv /\ DocInv /\ [CatAction]_catVars => DocInv'
<1> SUFFICES ASSUME CatTypeOK, LockInv, DocInv, [CatAction]_catVars, ~catLost' PROVE DocInv'
  BY DEF DocInv
<1>0. Absent \notin CatEdits
  BY CategoryAssumption
<1> USE DEF LockInv, DocInv, RightDoc, EditAt, Deleting, ToCome, LastWord
<1>1. ASSUME NEW e \in CatEdits, NEW op \in {"update", "delete", "assign"}, NEW i \in Instances, CommitCategory(e, op, i)
      PROVE  DocInv'
  <2>1. catEdit'[e].pc = "publish" /\ catEdit'[e].op = op
    BY <1>1 DEF CommitCategory, CatTypeOK
  <2>2. cat'.live = (op # "delete")
    BY <1>1 DEF CommitCategory
  <2>3. ToCome(e)' /\ (cat'.live \/ Deleting(e)') /\ LastWord(e)'
    BY <2>1, <2>2
  <2> QED
    BY <2>3
<1>2. ASSUME NEW e \in CatEdits, PublishCategory(e) PROVE DocInv'
  <2>1. /\ \A d \in CatEdits : (ToCome(d) <=> ToCome(d)') /\ (Deleting(d) <=> Deleting(d)') /\ (LastWord(d) <=> LastWord(d)')
        /\ \A d \in CatEdits : EditAt(d, "engine")' => catEdit'[d] = catEdit[d]
    BY <1>2, EditGotoEffect DEF PublishCategory, EditMoves
  <2>2. UNCHANGED <<cat, catDoc, catLost>>
    BY <1>2 DEF PublishCategory
  <2> QED
    BY <2>1, <2>2
<1>3. ASSUME NEW e \in CatEdits, PublishCategoryFails(e) PROVE DocInv'
  BY <1>3 DEF PublishCategoryFails
<1>4. ASSUME NEW e \in CatEdits, LockCategory(e) PROVE DocInv'
  <2>1. \A d \in CatEdits : (ToCome(d) <=> ToCome(d)') /\ (Deleting(d) <=> Deleting(d)')
    BY <1>4, EditGotoEffect DEF LockCategory, EditMoves
  <2>2. UNCHANGED <<cat, catDoc, catLost>>
    BY <1>4 DEF LockCategory
  <2>3. \A d \in CatEdits : EditAt(d, "engine")' => catEdit'[d].op = "delete"
    BY <1>0, <1>4, EditGotoEffect DEF LockCategory, LockFree, EditMoves
  <2> QED
    BY <2>1, <2>2, <2>3
<1>5. ASSUME NEW e \in CatEdits, ReadCategory(e) PROVE DocInv'
  <2>0. UNCHANGED <<cat, catDoc, catLost>> /\ catLock = e /\ catEdit[e].op # "delete"
    BY <1>5 DEF ReadCategory
  <2>1. CASE cat.live
    <3>1. catEdit' = [catEdit EXCEPT ![e].pc = "engine", ![e].ver = cat.ver]
      BY <1>5, <2>1 DEF ReadCategory
    <3>2. catEdit'[e].pc = "engine" /\ catEdit'[e].ver = cat.ver /\ \A d \in CatEdits \ {e} : catEdit'[d] = catEdit[d]
      BY <3>1 DEF CatTypeOK, CategoryEdit
    <3> QED
      BY <2>0, <2>1, <3>2
  <2>2. CASE ~cat.live
    <3>1. catEdit'[e].pc = "done" /\ \A d \in CatEdits \ {e} : catEdit'[d] = catEdit[d]
      BY <1>5, <2>2, EditGotoEffect DEF ReadCategory, EditMoves
    <3> QED
      BY <2>0, <2>2, <3>1
  <2> QED
    BY <2>1, <2>2
<1>6. ASSUME NEW e \in CatEdits, EngineCall(e) PROVE DocInv'
  <2>1. catEdit'[e].pc = "done" /\ \A d \in CatEdits \ {e} : catEdit'[d] = catEdit[d]
    BY <1>6, EditGotoEffect DEF EngineCall, EditMoves
  <2>2. UNCHANGED <<cat, catLost>> /\ catLock = e
    BY <1>6 DEF EngineCall
  <2>3. catDoc' = IF catEdit[e].op = "delete" THEN Absent ELSE catEdit[e].ver
    BY <1>6 DEF EngineCall
  <2>4. \A d \in CatEdits : ~EditAt(d, "engine")'
    BY <2>1, <2>2
  <2>5. CASE catEdit[e].op = "delete"
    <3>1. ~cat.live
      BY <1>6, <2>5 DEF EngineCall
    <3> QED
      BY <2>2, <2>3, <2>4, <2>5, <3>1
  <2>6. CASE catEdit[e].op # "delete"
    <3>1. (cat.live /\ catEdit[e].ver = cat.ver) \/ \E d \in CatEdits : LastWord(d)
      BY <1>6, <2>2, <2>6 DEF EngineCall
    <3>2. ASSUME NEW d \in CatEdits, LastWord(d) PROVE ToCome(d)' /\ (cat'.live \/ Deleting(d)')
      BY <1>6, <2>1, <2>2, <3>2 DEF EngineCall
    <3> QED
      BY <2>2, <2>3, <2>4, <2>6, <3>1, <3>2
  <2> QED
    BY <2>5, <2>6
<1>7. ASSUME NEW e \in CatEdits, CategoryHandlerFails(e) PROVE DocInv'
  BY <1>7 DEF CategoryHandlerFails
<1>8. CASE UNCHANGED <<cat, catDoc, catEdit, catLost>>
  BY <1>8
<1>9. ASSUME NEW r \in Readers, (\E i \in Instances : StartLoad(r, i)) \/ LoadTree(r) \/ StoreTree(r) PROVE DocInv'
  BY <1>8, <1>9 DEF StartLoad, LoadTree, StoreTree
<1>10. ASSUME NEW i \in Instances, ExpireTree(i) PROVE DocInv'
  BY <1>8, <1>10 DEF ExpireTree
<1>11. CASE UNCHANGED catVars
  BY <1>8, <1>11 DEF catVars
<1> QED
  BY <1>1, <1>2, <1>3, <1>4, <1>5, <1>6, <1>7, <1>9, <1>10, <1>11 DEF CatAction

\* When no handler of the search index is at work and none gave up, the document of
\* the category is what its row says (HandleCategoryUpdated under the advisory lock).
THEOREM CategoryDocCorrect == Spec => []CategoryIndexSettles
<1>1. Init => CatTypeOK /\ LockInv /\ DocInv
  <2> SUFFICES ASSUME CatInit PROVE LockInv /\ DocInv
    BY CatInitial DEF Init
  <2>1. /\ cat = [ver |-> 0, live |-> TRUE] /\ catDoc = 0 /\ catLock = Absent
        /\ \A e \in CatEdits : catEdit[e] = NoEdit
    BY DEF CatInit
  <2> QED
    BY <2>1, CategoryAssumption DEF LockInv, DocInv, RightDoc, Deleting, EditAt, NoEdit
<1>2. CatTypeOK /\ LockInv /\ DocInv /\ [Next]_vars => (CatTypeOK /\ LockInv /\ DocInv)'
  BY CatNext, CatTypes, LockStep, DocStep
<1>3. CatTypeOK /\ DocInv => CategoryIndexSettles
  BY DEF CatTypeOK, CategoryEdit, DocInv, RightDoc, ToCome, CategoryIndexSettles
<1> QED
  BY <1>1, <1>2, <1>3, PTL DEF Spec


------------------------------------------------------------------------------
(* Lists of products and of tags *)

\* SetToSeq lists a set.
LEMMA ListOfSet ==
    ASSUME NEW U, NEW D \in SUBSET U, IsFiniteSet(D)
    PROVE  SetToSeq(D) \in Seq(U) /\ ToSet(SetToSeq(D)) = D
<1> DEFINE n == Cardinality(D)
           f == SetToSeq(D)
<1>1. n \in Nat /\ ExistsBijection(1..n, D)
  BY FS_CardinalityType
<1>2. \E g \in [1..n -> D] : IsInjective(g)
  BY <1>1 DEF ExistsBijection, Bijection, Injection, IsInjective
<1>3. f \in [1..n -> D] /\ IsInjective(f)
  BY <1>2 DEF SetToSeq
<1>4. f \in Seq(U) /\ DOMAIN f = 1..n
  BY <1>1, <1>3
<1>5. f \in Injection(1..n, D)
  BY <1>3 DEF IsInjective, Injection
<1>6. IsFiniteSet(1..n) /\ Cardinality(1..n) = n
  BY <1>1, FS_Interval
<1>7. f \in Surjection(1..n, D)
  <2> HIDE DEF n, f
  <2> QED
    BY <1>5, <1>6, FS_Injection DEF n
<1>8. ToSet(f) = D
  BY <1>4, <1>7 DEF Surjection, ToSet
<1> QED
  BY <1>4, <1>8

\* The first element of a list and the others.
LEMMA HeadAndTail ==
    ASSUME NEW U, NEW s \in Seq(U), s # <<>>
    PROVE  /\ Head(s) \in U /\ Tail(s) \in Seq(U) /\ ToSet(Tail(s)) \subseteq U
           /\ ToSet(s) = {Head(s)} \cup ToSet(Tail(s))
           /\ Len(s) = 1 => ToSet(Tail(s)) = {}
           /\ Len(s) # 1 => Tail(s) # <<>>
<1>1. /\ Head(s) \in U /\ Tail(s) \in Seq(U) /\ Len(Tail(s)) = Len(s) - 1
      /\ \A i \in 1..Len(Tail(s)) : Tail(s)[i] = s[i + 1]
  BY HeadTailProperties
<1>2. Len(s) \in Nat \ {0} /\ DOMAIN s = 1..Len(s) /\ DOMAIN Tail(s) = 1..Len(Tail(s)) /\ Head(s) = s[1]
  BY <1>1, EmptySeq, LenProperties
<1>3. ToSet(Tail(s)) \subseteq U
  BY <1>1, <1>2, ElementOfSeq DEF ToSet
<1>4. ASSUME NEW x \in ToSet(s) PROVE x \in {Head(s)} \cup ToSet(Tail(s))
  <2>1. PICK i \in 1..Len(s) : x = s[i]
    BY <1>2 DEF ToSet
  <2>2. CASE i = 1
    BY <1>2, <2>1, <2>2
  <2>3. CASE i # 1
    <3>1. i - 1 \in 1..Len(Tail(s))
      BY <1>1, <1>2, <2>3
    <3>2. x = Tail(s)[i - 1]
      BY <1>1, <2>1, <3>1
    <3> QED
      BY <1>2, <3>1, <3>2 DEF ToSet
  <2> QED
    BY <2>2, <2>3
<1>5. ASSUME NEW x \in {Head(s)} \cup ToSet(Tail(s)) PROVE x \in ToSet(s)
  <2>1. CASE x = Head(s)
    BY <1>2, <2>1 DEF ToSet
  <2>2. CASE x \in ToSet(Tail(s))
    <3>1. PICK i \in 1..Len(Tail(s)) : x = Tail(s)[i]
      BY <1>2, <2>2 DEF ToSet
    <3>2. i + 1 \in 1..Len(s) /\ x = s[i + 1]
      BY <1>1, <1>2, <3>1
    <3> QED
      BY <1>2, <3>2 DEF ToSet
  <2> QED
    BY <2>1, <2>2
<1>6. Len(s) = 1 => ToSet(Tail(s)) = {}
  <2>1. SUFFICES ASSUME Len(s) = 1, NEW x \in ToSet(Tail(s)) PROVE FALSE
    OBVIOUS
  <2> DEFINE m == Len(Tail(s))
             n == Len(s)
  <2>2. \E i \in 1..m : TRUE
    BY <1>2, <2>1 DEF ToSet
  <2>3. m = n - 1 /\ n = 1
    BY <1>1, <2>1
  <2> HIDE DEF m, n
  <2> QED
    BY <2>2, <2>3
<1>7. Len(s) # 1 => Tail(s) # <<>>
  <2> SUFFICES ASSUME Len(s) # 1 PROVE Len(Tail(s)) # 0
    BY EmptySeq
  <2> QED
    BY <1>1, <1>2
<1> QED
  BY <1>1, <1>3, <1>4, <1>5, <1>6, <1>7

\* An element in front of a list.
LEMMA InFront ==
    ASSUME NEW U, NEW x \in U, NEW s \in Seq(U)
    PROVE  /\ <<x>> \o s \in Seq(U) /\ <<x>> \o s # <<>> /\ Head(<<x>> \o s) = x
           /\ ToSet(<<x>> \o s) = {x} \cup ToSet(s) /\ ToSet(Tail(<<x>> \o s)) = ToSet(s)
<1> DEFINE y == <<x>> \o s
<1>1. <<x>> \in Seq(U) /\ Len(<<x>>) = 1 /\ <<x>>[1] = x /\ Len(s) \in Nat
  OBVIOUS
<1>2. y \in Seq(U) /\ Len(y) = Len(s) + 1 /\ \A i \in 1..(Len(s) + 1) : y[i] = IF i <= 1 THEN x ELSE s[i - 1]
  <2>1. \A i \in 1..(1 + Len(s)) : y[i] = IF i <= 1 THEN <<x>>[i] ELSE s[i - 1]
    BY <1>1, ConcatProperties
  <2>2. y \in Seq(U) /\ Len(y) = 1 + Len(s)
    BY <1>1, ConcatProperties
  <2>3. ASSUME NEW i \in 1..(Len(s) + 1) PROVE y[i] = IF i <= 1 THEN x ELSE s[i - 1]
    <3>1. i <= 1 => i = 1
      BY <1>1
    <3>2. i \in 1..(1 + Len(s))
      BY <1>1
    <3> HIDE DEF y
    <3> QED
      BY <1>1, <2>1, <3>1, <3>2
  <2> QED
    BY <1>1, <2>2, <2>3
<1> HIDE DEF y
<1>3. y # <<>>
  BY <1>1, <1>2
<1>4. Head(y) = x
  BY <1>1, <1>2
<1>5. Tail(y) \in Seq(U) /\ Len(Tail(y)) = Len(s) /\ \A i \in 1..Len(s) : Tail(y)[i] = s[i]
  <2>1. Tail(y) \in Seq(U) /\ Len(Tail(y)) = Len(y) - 1 /\ \A i \in 1..Len(Tail(y)) : Tail(y)[i] = y[i + 1]
    BY <1>2, <1>3, HeadTailProperties
  <2> QED
    BY <1>1, <1>2, <2>1
<1>6. Tail(y) = s
  BY <1>5, SeqEqual
<1>7. ToSet(y) = {Head(y)} \cup ToSet(Tail(y))
  BY <1>2, <1>3, HeadAndTail
<1> QED
  BY <1>2, <1>3, <1>4, <1>6, <1>7 DEF y

\* A product and the bundles it is part of.
LEMMA ProductAndParents ==
    ASSUME SearchAssumption, NEW U, Products \subseteq U, NEW p \in Products
    PROVE  LET s == SetToSeq(Parents[p] \ {p}) IN
           s \in Seq(U) /\ ToSet(s) = Parents[p] \ {p} /\ Parents[p] \subseteq Products
<1>1. Parents[p] \subseteq Products /\ IsFiniteSet(Products)
  BY DEF SearchAssumption
<1>2. IsFiniteSet(Parents[p] \ {p}) /\ Parents[p] \ {p} \in SUBSET U
  BY <1>1, FS_Subset
<1> QED
  BY <1>1, <1>2, ListOfSet

------------------------------------------------------------------------------
(* Reindexing: who works on what *)

\* The products a task has yet to ask for: those of its current request, unless it has
\* failed, and of the requests after it.
Later(t) == IF task[t].todo = <<>> THEN {} ELSE ToSet(Tail(task[t].todo))
Asking(t) == IF task[t].pc \in {"idle", "undo"} THEN {} ELSE Covered(Current(t))
Awaited(t) == Asking(t) \cup Later(t)

TaskInv(t) ==
    /\ TaskAt(t, "idle") <=> task[t].todo = <<>>
    /\ Later(t) \subseteq Products
    /\ task[t].pc \in {"allow", "trail"} => Current(t) \in Products
    /\ task[t].pc \in {"enqueue", "undo"} => task[t].run \in Used
    /\ TaskAt(t, "enqueue") => /\ job[task[t].run].status = "none"
                               /\ Covered(Current(t)) \subseteq runs[task[t].run].ids

WorkerInv(w) ==
    /\ IF WorkerAt(w, "idle") THEN RunOf(w) = 0
       ELSE RunOf(w) \in Runs /\ job[RunOf(w)].status = "processing"
    /\ WorkerAt(w, "index") => /\ worker[w].todo \subseteq runs[RunOf(w)].ids
                               /\ worker[w].docs \in [runs[RunOf(w)].ids -> Documents]

\* Runs are numbered in order; each has one trigger, and one worker at a time.
SearchInv ==
    /\ \E n \in 0..MaxRuns : Used = 1..n
    /\ \A i \in Runs : job[i].status # "none" => i \in Used
    /\ \A i \in Runs : job[i].status \in {"none", "pending"} => job[i].attempts < MaxRetries
    /\ \A t \in Tasks : TaskInv(t)
    /\ \A t, u \in Tasks : TaskAt(t, "enqueue") /\ TaskAt(u, "enqueue") /\ task[t].run = task[u].run => t = u
    /\ \A w \in Workers : WorkerInv(w)
    /\ \A w, u \in Workers : RunOf(w) = RunOf(u) /\ RunOf(w) # 0 => w = u

\* Requests that wait in a task or a timer, or have been given up.
Wanted(p) == p \in lost \/ p \in trailing \/ \E t \in Tasks : p \in Awaited(t)

\* What a step of tasks keeps.
TasksKept ==
    /\ task' \in [Tasks -> Task] /\ recent' \subseteq Products /\ trailing' \subseteq Products /\ lost' \subseteq Products
    /\ \A u \in Tasks : /\ TaskInv(u)'
                        /\ TaskAt(u, "enqueue")' => TaskAt(u, "enqueue") /\ task'[u].run = task[u].run
    /\ \A p \in Products : Wanted(p) => Wanted(p)'

\* What a step keeps of the runs that are there.
RunsKept ==
    /\ runs' \in [Runs -> Run]
    /\ \A i \in Runs : /\ runs'[i].ids = runs[i].ids
                       /\ runs'[i].status = "none" <=> runs[i].status = "none"

\* Runs are only added.
RunsGrow == Used \subseteq Used' /\ \A i \in Used : runs'[i].ids = runs[i].ids

LEMMA RunsKeptUsed == RunsKept => Used' = Used /\ RunsGrow
  BY DEF RunsKept, RunsGrow, Used

LEMMA RunsUnchanged == SearchTypeOK /\ UNCHANGED runs => RunsKept
  BY DEF SearchTypeOK, RunsKept

\* A verdict keeps the scope of a run.
LEMMA VerdictKeeps ==
    ASSUME SearchTypeOK, NEW i \in Runs, NEW v \in {"completed", "failed"},
           runs' = Finished(i, v) \/ UNCHANGED runs
    PROVE  RunsKept
<1> DEFINE x == [runs[i] EXCEPT !.status = v]
<1>1. runs[i] \in Run /\ runs \in [Runs -> Run]
  BY DEF SearchTypeOK
<1>2. x \in Run /\ x.ids = runs[i].ids /\ x.status = v
  BY <1>1 DEF Run
<1>3. CASE runs' = [runs EXCEPT ![i] = x] /\ runs[i].status = "processing"
  <2> HIDE DEF x
  <2> QED
    BY <1>1, <1>2, <1>3 DEF RunsKept
<1>4. CASE UNCHANGED runs
  BY <1>1, <1>4 DEF RunsKept
<1> QED
  BY <1>3, <1>4 DEF Finished

\* A task that another step leaves alone.
LEMMA TaskAlone ==
    ASSUME RunsGrow, NEW t \in Tasks, TaskInv(t), task'[t] = task[t],
           TaskAt(t, "enqueue") => job'[task[t].run].status = job[task[t].run].status
    PROVE  TaskInv(t)' /\ Awaited(t)' = Awaited(t)
<1>1. Used \subseteq Used'
  BY DEF RunsGrow
<1>2. Later(t)' = Later(t) /\ Current(t)' = Current(t) /\ Asking(t)' = Asking(t)
  BY DEF Later, Current, Asking
<1>3. task[t].run \in Used => runs'[task[t].run].ids = runs[task[t].run].ids
  BY DEF RunsGrow
<1> QED
  BY <1>1, <1>2, <1>3 DEF TaskInv, TaskAt, Awaited

\* The step of one task, while the others wait.
LEMMA OneTask ==
    ASSUME SearchTypeOK, SearchInv, RunsKept, UNCHANGED job, NEW t \in Tasks,
           task' \in [Tasks -> Task], recent' \subseteq Products, trailing' \subseteq Products, lost' \subseteq Products,
           \A u \in Tasks \ {t} : task'[u] = task[u],
           TaskInv(t)', TaskAt(t, "enqueue")' => TaskAt(t, "enqueue") /\ task'[t].run = task[t].run,
           lost \cup trailing \cup Awaited(t) \subseteq lost' \cup trailing' \cup Awaited(t)'
    PROVE  TasksKept
<1>1. \A u \in Tasks \ {t} : TaskInv(u)' /\ Awaited(u)' = Awaited(u)
  BY TaskAlone, RunsKeptUsed DEF SearchInv
<1>2. \A u \in Tasks : /\ TaskInv(u)'
                       /\ TaskAt(u, "enqueue")' => TaskAt(u, "enqueue") /\ task'[u].run = task[u].run
  BY <1>1 DEF TaskAt
<1>3. ASSUME NEW p \in Products, Wanted(p) PROVE Wanted(p)'
  <2>1. CASE p \in lost \/ p \in trailing \/ p \in Awaited(t)
    BY <2>1 DEF Wanted
  <2>2. ASSUME NEW u \in Tasks \ {t}, p \in Awaited(u) PROVE Wanted(p)'
    BY <1>1, <2>2 DEF Wanted
  <2> QED
    BY <1>3, <2>1, <2>2 DEF Wanted
<1> QED
  BY <1>2, <1>3 DEF TasksKept

\* A task goes on with its request.
LEMMA TaskGoes ==
    ASSUME SearchTypeOK, NEW t \in Tasks, NEW pc \in {"allow", "trail", "create", "enqueue", "undo"}, TaskGoto(t, pc)
    PROVE  /\ task' \in [Tasks -> Task] /\ \A u \in Tasks \ {t} : task'[u] = task[u]
           /\ task'[t].pc = pc /\ task'[t].todo = task[t].todo /\ task'[t].run = task[t].run
<1> DEFINE x == [task[t] EXCEPT !.pc = pc]
<1>1. task[t] \in Task /\ task \in [Tasks -> Task]
  BY DEF SearchTypeOK
<1>2. x \in Task /\ x.pc = pc /\ x.todo = task[t].todo /\ x.run = task[t].run
  BY <1>1 DEF Task
<1>3. task' = [task EXCEPT ![t] = x]
  BY DEF TaskGoto
<1> HIDE DEF x
<1> QED
  BY <1>1, <1>2, <1>3

\* It goes on to the next request, or ends.
LEMMA TaskAdvances ==
    ASSUME SearchTypeOK, NEW t \in Tasks, TaskInv(t), ~TaskAt(t, "idle"), NextProduct(t)
    PROVE  /\ task' \in [Tasks -> Task] /\ \A u \in Tasks \ {t} : task'[u] = task[u]
           /\ TaskInv(t)' /\ ~TaskAt(t, "enqueue")' /\ Awaited(t)' = Later(t)
<1> DEFINE s == task[t].todo
           U == Products \cup {Everything}
           x == IF Len(s) = 1 THEN NoTask ELSE [pc |-> "allow", todo |-> Tail(s), run |-> 0]
<1>1. s \in Seq(U) /\ s # <<>>
  BY DEF SearchTypeOK, Task, TaskInv
<1>2. /\ Head(s) \in U /\ Tail(s) \in Seq(U) /\ ToSet(Tail(s)) \subseteq U
      /\ ToSet(s) = {Head(s)} \cup ToSet(Tail(s))
      /\ Len(s) = 1 => ToSet(Tail(s)) = {}
      /\ Len(s) # 1 => Tail(s) # <<>>
  BY <1>1, HeadAndTail
<1>3. Later(t) = ToSet(Tail(s)) /\ Later(t) \subseteq Products
  BY <1>1 DEF Later, TaskInv
<1>4. x \in Task
  <2>1. <<>> \in Seq(U)
    OBVIOUS
  <2> QED
    BY <1>2, <2>1 DEF Task, NoTask
<1>5. task' = [task EXCEPT ![t] = x]
  BY DEF NextProduct
<1>6. task'[t] = x /\ task' \in [Tasks -> Task] /\ \A u \in Tasks \ {t} : task'[u] = task[u]
  <2> HIDE DEF x
  <2> QED
    BY <1>4, <1>5 DEF SearchTypeOK
<1>7. CASE Len(s) = 1
  <2>1. task'[t].pc = "idle" /\ task'[t].todo = <<>>
    BY <1>6, <1>7 DEF NoTask
  <2>2. Later(t)' = {} /\ Asking(t)' = {} /\ Later(t) = {}
    BY <1>2, <1>3, <1>7, <2>1 DEF Later, Asking
  <2> QED
    BY <1>6, <2>1, <2>2 DEF TaskInv, TaskAt, Awaited
<1>8. CASE Len(s) # 1
  <2> DEFINE y == Tail(s)
  <2>1. task'[t].pc = "allow" /\ task'[t].todo = y
    BY <1>6, <1>8
  <2>2. y # <<>> /\ y \in Seq(U)
    BY <1>2, <1>8
  <2>3. ToSet(y) = {Head(y)} \cup ToSet(Tail(y))
    BY <2>2, HeadAndTail
  <2>4. Later(t)' = ToSet(Tail(y)) /\ Current(t)' = Head(y)
    BY <2>1, <2>2 DEF Later, Current
  <2>5. ToSet(y) \subseteq Products /\ Later(t) = ToSet(y)
    BY <1>3
  <2>6. Head(y) \in Products /\ Head(y) # Everything
    BY <2>3, <2>5, SearchAssumption DEF SearchAssumption
  <2>7. Asking(t)' = {Head(y)}
    BY <2>1, <2>4, <2>6 DEF Asking, Covered
  <2>8. Awaited(t)' = Later(t)
    BY <2>3, <2>4, <2>5, <2>7 DEF Awaited
  <2> HIDE DEF y, x
  <2> QED
    BY <1>6, <2>1, <2>2, <2>3, <2>4, <2>5, <2>6, <2>8 DEF TaskInv, TaskAt
<1> QED
  BY <1>7, <1>8

\* The list of a task that is at work.
LEMMA TaskList ==
    ASSUME SearchTypeOK, NEW t \in Tasks, TaskInv(t), ~TaskAt(t, "idle")
    PROVE  /\ task[t].todo \in Seq(Products \cup {Everything}) /\ task[t].todo # <<>>
           /\ Current(t) \in Products \cup {Everything} /\ Covered(Current(t)) \subseteq Products
           /\ Later(t) = ToSet(Tail(task[t].todo)) /\ Later(t) \subseteq Products
<1>1. task[t].todo \in Seq(Products \cup {Everything}) /\ task[t].todo # <<>>
  BY DEF SearchTypeOK, Task, TaskInv
<1>2. Current(t) \in Products \cup {Everything}
  BY <1>1, HeadAndTail DEF Current
<1> QED
  BY <1>1, <1>2 DEF Covered, Later, TaskInv

\* A step of a handler between two requests, or that gives one up.
LEMMA TaskStep ==
    ASSUME SearchTypeOK, SearchInv, NEW t \in Tasks,
           LookupFails(t) \/ Allow(t) \/ ScheduleTrailingFlush(t) \/ TriggerFails(t) \/ UndoRun(t)
    PROVE  RunsKept /\ TasksKept
<1>0. TaskInv(t) /\ SearchAssumption
  BY SearchAssumption DEF SearchInv
<1>1. ~TaskAt(t, "idle") /\ UNCHANGED job
  BY DEF LookupFails, Allow, ScheduleTrailingFlush, TriggerFails, UndoRun, TaskAt
<1>2. /\ task[t].todo \in Seq(Products \cup {Everything}) /\ task[t].todo # <<>>
      /\ Current(t) \in Products \cup {Everything} /\ Covered(Current(t)) \subseteq Products
      /\ Later(t) = ToSet(Tail(task[t].todo)) /\ Later(t) \subseteq Products
  BY <1>0, <1>1, TaskList
<1>3. /\ recent \subseteq Products /\ trailing \subseteq Products /\ lost \subseteq Products /\ task \in [Tasks -> Task]
      /\ task[t] \in Task
  BY DEF SearchTypeOK
<1>4. RunsKept
  <2>1. CASE LookupFails(t) \/ Allow(t) \/ ScheduleTrailingFlush(t) \/ TriggerFails(t)
    BY <2>1, RunsUnchanged DEF LookupFails, Allow, ScheduleTrailingFlush, TriggerFails
  <2>2. CASE UndoRun(t)
    <3>1. task[t].run \in Runs
      BY <1>0, <2>2 DEF UndoRun, TaskInv, TaskAt, Used
    <3> QED
      BY <2>2, <3>1, VerdictKeeps DEF UndoRun
  <2> QED
    BY <2>1, <2>2
<1>5. CASE LookupFails(t)
  <2> DEFINE p == Current(t)
             x == [task[t] EXCEPT !.todo = <<p>>]
  <2>1. p \in Products /\ task[t].pc = "allow" /\ Covered(p) = {p}
    BY <1>0, <1>5 DEF LookupFails, TaskInv, TaskAt, Covered, SearchAssumption
  <2>2. x \in Task /\ x.pc = "allow" /\ x.todo = <<p>>
    <3> HIDE DEF p
    <3>1. <<p>> \in Seq(Products \cup {Everything})
      BY <2>1
    <3> QED
      BY <1>3, <2>1, <3>1 DEF Task
  <2>3. task' = [task EXCEPT ![t] = x] /\ UNCHANGED <<recent, trailing>> /\ lost' = lost \cup Later(t)
    BY <1>2, <1>5 DEF LookupFails
  <2>4. task'[t] = x /\ task' \in [Tasks -> Task] /\ \A u \in Tasks \ {t} : task'[u] = task[u]
    <3> HIDE DEF x
    <3> QED
      BY <1>3, <2>2, <2>3
  <2>5. <<p>> # <<>> /\ Head(<<p>>) = p /\ ToSet(Tail(<<p>>)) = {}
    <3>1. <<p>> \in Seq(Products) /\ Len(<<p>>) = 1
      BY <2>1
    <3>2. <<p>> # <<>> /\ Head(<<p>>) = p
      OBVIOUS
    <3> QED
      BY <3>1, <3>2, HeadAndTail
  <2>6. Current(t)' = p /\ Later(t)' = {} /\ task'[t].pc = "allow" /\ task'[t].todo # <<>>
    <3> HIDE DEF p, x
    <3> QED
      BY <2>2, <2>4, <2>5 DEF Current, Later
  <2>7. TaskInv(t)' /\ Awaited(t)' = {p} /\ Awaited(t) = {p} \cup Later(t) /\ ~TaskAt(t, "enqueue")'
    BY <2>1, <2>6 DEF TaskInv, TaskAt, Awaited, Asking
  <2> QED
    BY <1>1, <1>2, <1>3, <1>4, <2>3, <2>4, <2>7, OneTask
<1>6. CASE Allow(t)
  <2> DEFINE pc == IF Current(t) \in recent THEN "trail" ELSE "create"
  <2>1. TaskGoto(t, pc) /\ UNCHANGED <<trailing, lost>> /\ recent' = recent \cup {Current(t)} /\ Current(t) \in Products
        /\ task[t].pc = "allow" /\ pc \in {"trail", "create"}
    BY <1>0, <1>6 DEF Allow, TaskInv, TaskAt
  <2> HIDE DEF pc
  <2>2. /\ task' \in [Tasks -> Task] /\ \A u \in Tasks \ {t} : task'[u] = task[u]
        /\ task'[t].pc = pc /\ task'[t].todo = task[t].todo
    BY <2>1, TaskGoes
  <2>3. Later(t)' = Later(t) /\ Current(t)' = Current(t)
    BY <2>2 DEF Later, Current
  <2>4. TaskInv(t)' /\ Awaited(t)' = Awaited(t) /\ ~TaskAt(t, "enqueue")'
    BY <1>0, <1>2, <2>1, <2>2, <2>3 DEF TaskInv, TaskAt, Awaited, Asking
  <2> QED
    BY <1>1, <1>3, <1>4, <2>1, <2>2, <2>4, OneTask
<1>7. CASE ScheduleTrailingFlush(t)
  <2>1. /\ task' \in [Tasks -> Task] /\ \A u \in Tasks \ {t} : task'[u] = task[u]
        /\ TaskInv(t)' /\ ~TaskAt(t, "enqueue")' /\ Awaited(t)' = Later(t)
    BY <1>0, <1>1, <1>7, TaskAdvances DEF ScheduleTrailingFlush
  <2>2. Awaited(t) = {Current(t)} \cup Later(t) /\ Current(t) \in Products
    BY <1>0, <1>7 DEF ScheduleTrailingFlush, TaskInv, TaskAt, Awaited, Asking, Covered, SearchAssumption
  <2>3. UNCHANGED <<recent, lost>> /\ trailing' = trailing \cup {Current(t)}
    BY <1>7 DEF ScheduleTrailingFlush
  <2> QED
    BY <1>1, <1>3, <1>4, <2>1, <2>2, <2>3, OneTask
<1>8. CASE TriggerFails(t)
  <2>1. /\ recent' \subseteq Products /\ trailing' = trailing /\ lost' = lost \cup Covered(Current(t))
        /\ Awaited(t) = Covered(Current(t)) \cup Later(t)
    BY <1>3, <1>8 DEF TriggerFails, Awaited, Asking
  <2>2. CASE TaskAt(t, "create")
    <3>1. /\ task' \in [Tasks -> Task] /\ \A u \in Tasks \ {t} : task'[u] = task[u]
          /\ TaskInv(t)' /\ ~TaskAt(t, "enqueue")' /\ Awaited(t)' = Later(t)
      BY <1>0, <1>1, <1>8, <2>2, TaskAdvances DEF TriggerFails
    <3> QED
      BY <1>1, <1>2, <1>3, <1>4, <2>1, <3>1, OneTask
  <2>3. CASE ~TaskAt(t, "create")
    <3>1. TaskGoto(t, "undo") /\ TaskAt(t, "enqueue")
      BY <1>8, <2>3 DEF TriggerFails, TaskAt
    <3>2. /\ task' \in [Tasks -> Task] /\ \A u \in Tasks \ {t} : task'[u] = task[u]
          /\ task'[t].pc = "undo" /\ task'[t].todo = task[t].todo /\ task'[t].run = task[t].run
      BY <3>1, TaskGoes
    <3>3. Later(t)' = Later(t) /\ Used' = Used
      BY <1>4, <3>2, RunsKeptUsed DEF Later
    <3>4. TaskInv(t)' /\ Awaited(t)' = Later(t) /\ ~TaskAt(t, "enqueue")'
      BY <1>0, <1>2, <3>1, <3>2, <3>3 DEF TaskInv, TaskAt, Awaited, Asking
    <3> QED
      BY <1>1, <1>2, <1>3, <1>4, <2>1, <3>2, <3>4, OneTask
  <2> QED
    BY <2>2, <2>3
<1>9. CASE UndoRun(t)
  <2>1. /\ task' \in [Tasks -> Task] /\ \A u \in Tasks \ {t} : task'[u] = task[u]
        /\ TaskInv(t)' /\ ~TaskAt(t, "enqueue")' /\ Awaited(t)' = Later(t)
    BY <1>0, <1>1, <1>9, TaskAdvances DEF UndoRun
  <2>2. UNCHANGED <<recent, trailing, lost>> /\ Awaited(t) = Later(t)
    BY <1>9 DEF UndoRun, Awaited, Asking, TaskAt
  <2> QED
    BY <1>1, <1>3, <1>4, <2>1, <2>2, OneTask
<1> QED
  BY <1>4, <1>5, <1>6, <1>7, <1>8, <1>9

\* A task starts: what it did before is over.
LEMMA TaskStarts ==
    ASSUME SearchTypeOK, SearchInv, RunsKept, UNCHANGED job, NEW t \in Tasks, TaskAt(t, "idle"),
           NEW x \in Task, x.pc \in {"allow", "create"}, x.todo # <<>>, ToSet(Tail(x.todo)) \subseteq Products,
           x.pc = "allow" => Head(x.todo) \in Products,
           task' = [task EXCEPT ![t] = x], recent' \subseteq Products, trailing' \subseteq Products, lost' \subseteq Products,
           lost \cup trailing \subseteq lost' \cup trailing' \cup Covered(Head(x.todo)) \cup ToSet(Tail(x.todo))
    PROVE  TasksKept
<1>1. task'[t] = x /\ task' \in [Tasks -> Task] /\ \A u \in Tasks \ {t} : task'[u] = task[u]
  BY DEF SearchTypeOK
<1>2. Later(t)' = ToSet(Tail(x.todo)) /\ Asking(t)' = Covered(Head(x.todo)) /\ Current(t)' = Head(x.todo)
  BY <1>1 DEF Later, Asking, Current
<1>3. TaskInv(t)' /\ ~TaskAt(t, "enqueue")'
  BY <1>1, <1>2 DEF TaskInv, TaskAt
<1>4. Awaited(t) = {}
  BY DEF Awaited, Asking, Later, SearchInv, TaskInv, TaskAt
<1> QED
  BY <1>1, <1>2, <1>3, <1>4, OneTask DEF Awaited

\* The timer of a product fires.
LEMMA FlushStep ==
    ASSUME SearchTypeOK, SearchInv, NEW p \in Products, FlushTrailing(p)
    PROVE  RunsKept /\ TasksKept
<1> DEFINE x == [pc |-> "create", todo |-> <<p>>, run |-> 0]
           t == <<"flush", p>>
<1>1. RunsKept /\ UNCHANGED job
  BY RunsUnchanged DEF FlushTrailing
<1>2. t \in Tasks /\ TaskAt(t, "idle")
  BY DEF FlushTrailing, Tasks, Flushes
<1>3. <<p>> \in Seq(Products \cup {Everything}) /\ Len(<<p>>) = 1 /\ <<p>> # <<>> /\ Head(<<p>>) = p
  OBVIOUS
<1>4. ToSet(Tail(<<p>>)) = {}
  BY <1>3, HeadAndTail
<1>5. x \in Task /\ x.pc = "create" /\ x.todo = <<p>>
  BY <1>3 DEF Task
<1>6. p \in Covered(p)
  BY DEF Covered
<1>7. task' = [task EXCEPT ![t] = x] /\ recent' = recent \cup {p} /\ trailing' = trailing \ {p} /\ lost' = lost
  BY DEF FlushTrailing
<1>8. recent \subseteq Products /\ trailing \subseteq Products /\ lost \subseteq Products
  BY DEF SearchTypeOK
<1> HIDE DEF x, t
<1> QED
  BY <1>1, <1>2, <1>3, <1>4, <1>5, <1>6, <1>7, <1>8, TaskStarts

\* A product event reaches its handler, which takes over what was given up before.
LEMMA EventStep ==
    ASSUME SearchTypeOK, SearchInv, NEW e \in Events, NEW p \in Products, TaskAt(<<"event", e>>, "idle"),
           StartReindex(e, p), lost' = lost \ ({p} \cup Parents[p]), UNCHANGED <<recent, trailing, runs, job>>
    PROVE  /\ RunsKept /\ TasksKept
           /\ \A q \in {p} \cup Parents[p] : q \in Awaited(<<"event", e>>)'
<1> DEFINE s == SetToSeq(Parents[p] \ {p})
           y == <<p>> \o s
           x == [pc |-> "allow", todo |-> y, run |-> 0]
           t == <<"event", e>>
           U == Products \cup {Everything}
<1>1. s \in Seq(U) /\ ToSet(s) = Parents[p] \ {p} /\ Parents[p] \subseteq Products
  BY SearchAssumption, ProductAndParents
<1>2. y \in Seq(U) /\ y # <<>> /\ Head(y) = p /\ ToSet(Tail(y)) = Parents[p] \ {p}
  <2>1. p \in U
    OBVIOUS
  <2> HIDE DEF s, U
  <2> QED
    BY <1>1, <2>1, InFront
<1>3. t \in Tasks
  BY DEF Tasks
<1>4. x \in Task /\ x.pc = "allow" /\ x.todo = y
  <2> HIDE DEF y
  <2> QED
    BY <1>2 DEF Task
<1>5. task' = [task EXCEPT ![t] = x]
  BY DEF StartReindex
<1>6. Covered(p) = {p}
  BY SearchAssumption DEF Covered, SearchAssumption
<1>7. RunsKept
  BY RunsUnchanged
<1>8. recent \subseteq Products /\ trailing \subseteq Products /\ lost \subseteq Products /\ task \in [Tasks -> Task]
  BY DEF SearchTypeOK
<1> HIDE DEF x, t, y
<1>9. TasksKept
  BY <1>1, <1>2, <1>3, <1>4, <1>5, <1>6, <1>7, <1>8, TaskStarts DEF t
<1>10. Awaited(t)' = {p} \cup Parents[p]
  <2>1. task'[t].pc = "allow" /\ task'[t].todo = y
    BY <1>3, <1>4, <1>5, <1>8
  <2>2. Later(t)' = Parents[p] \ {p} /\ Asking(t)' = {p}
    BY <1>2, <1>6, <2>1 DEF Later, Asking, Current
  <2> QED
    BY <2>2 DEF Awaited
<1> QED
  BY <1>7, <1>9, <1>10 DEF t

\* A full scan is asked for.
LEMMA FullScanStep ==
    ASSUME SearchTypeOK, SearchInv, NEW e \in Events, TaskAt(<<"event", e>>, "idle"),
           StartReindexAll(e), UNCHANGED <<recent, trailing, lost, runs, job>>
    PROVE  RunsKept /\ TasksKept
<1> DEFINE y == <<Everything>>
           x == [pc |-> "create", todo |-> y, run |-> 0]
           t == <<"event", e>>
<1>1. y \in Seq(Products \cup {Everything}) /\ Len(y) = 1 /\ y # <<>>
  OBVIOUS
<1>2. ToSet(Tail(y)) = {}
  <2> HIDE DEF y
  <2> QED
    BY <1>1, HeadAndTail
<1>3. x \in Task /\ x.pc = "create" /\ x.todo = y
  <2> HIDE DEF y
  <2> QED
    BY <1>1 DEF Task
<1>4. task' = [task EXCEPT ![t] = x]
  BY DEF StartReindexAll
<1>5. t \in Tasks /\ RunsKept
  BY RunsUnchanged DEF Tasks
<1>6. recent \subseteq Products /\ trailing \subseteq Products /\ lost \subseteq Products
  BY DEF SearchTypeOK
<1> HIDE DEF x, y
<1> QED
  BY <1>1, <1>2, <1>3, <1>4, <1>5, <1>6, TaskStarts

\* A restart forgets the tasks and the timers, and gives up what they were to do.
LEMMA RestartStep ==
    ASSUME SearchTypeOK, SearchInv, ServerRestarts
    PROVE  RunsKept /\ TasksKept
<1> DEFINE gone == UNION {Covered(x) : x \in UNION {ToSet(task[t].todo) : t \in Tasks}}
<1>1. RunsKept
  BY RunsUnchanged DEF ServerRestarts
<1>2. NoTask \in Task
  <2>1. <<>> \in Seq(Products \cup {Everything})
    OBVIOUS
  <2> QED
    BY <2>1 DEF NoTask, Task
<1>3. /\ task' = [t \in Tasks |-> NoTask] /\ trailing' = {} /\ recent' = {}
      /\ lost' = lost \cup trailing \cup gone
  BY DEF ServerRestarts
<1>4. gone \subseteq Products
  <2>1. \A t \in Tasks : ToSet(task[t].todo) \subseteq Products \cup {Everything}
    <3>1. \A s \in Seq(Products \cup {Everything}) : ToSet(s) \subseteq Products \cup {Everything}
      BY LenProperties, ElementOfSeq DEF ToSet
    <3> QED
      BY <3>1 DEF SearchTypeOK, Task
  <2> QED
    BY <2>1 DEF Covered
<1>5. ASSUME NEW t \in Tasks, NEW p \in Products, p \in Awaited(t) PROVE p \in gone
  <2>1. ~TaskAt(t, "idle")
    BY <1>5 DEF Awaited, Asking, Later, SearchInv, TaskInv, TaskAt
  <2>2. /\ task[t].todo \in Seq(Products \cup {Everything}) /\ task[t].todo # <<>>
        /\ Later(t) = ToSet(Tail(task[t].todo)) /\ Later(t) \subseteq Products
    BY <2>1, TaskList DEF SearchInv
  <2>3. ToSet(task[t].todo) = {Current(t)} \cup Later(t)
    BY <2>2, HeadAndTail DEF Current
  <2>4. CASE p \in Asking(t)
    BY <2>3, <2>4 DEF Asking
  <2>5. CASE p \in Later(t)
    <3>1. p \in Covered(p)
      BY DEF Covered
    <3> QED
      BY <2>3, <2>5, <3>1
  <2> QED
    BY <1>5, <2>4, <2>5 DEF Awaited
<1> HIDE DEF gone
<1>6. \A p \in Products : Wanted(p) => Wanted(p)'
  BY <1>3, <1>5 DEF Wanted
<1>7. \A t \in Tasks : task'[t].pc = "idle" /\ task'[t].todo = <<>>
  BY <1>3 DEF NoTask
<1>8. \A t \in Tasks : TaskInv(t)' /\ ~TaskAt(t, "enqueue")'
  BY <1>7 DEF TaskInv, TaskAt, Later
<1>9. lost' \subseteq Products /\ trailing' \subseteq Products /\ recent' \subseteq Products
  BY <1>3, <1>4 DEF SearchTypeOK
<1> QED
  BY <1>1, <1>2, <1>3, <1>6, <1>8, <1>9 DEF TasksKept

\* Tasks that nobody touches.
LEMMA TasksAlone ==
    ASSUME SearchTypeOK, SearchInv, RunsKept, UNCHANGED <<trailing, task>>, recent' \subseteq Products, lost \subseteq lost', lost' \subseteq Products,
           \A t \in Tasks : TaskAt(t, "enqueue") => job'[task[t].run].status = job[task[t].run].status
    PROVE  TasksKept
<1>1. \A t \in Tasks : TaskInv(t)' /\ Awaited(t)' = Awaited(t)
  BY TaskAlone, RunsKeptUsed DEF SearchInv
<1> QED
  BY <1>1 DEF TasksKept, SearchTypeOK, Wanted, TaskAt

\* What a step of workers keeps.
WorkersKept ==
    /\ worker' \in [Workers -> Worker]
    /\ \A w \in Workers : WorkerInv(w)' /\ RunOf(w)' \in {RunOf(w), 0}

\* A worker that another step leaves alone.
LEMMA WorkerAlone ==
    ASSUME SearchInv, RunsGrow, NEW w \in Workers, worker'[w] = worker[w],
           ~WorkerAt(w, "idle") => job'[RunOf(w)].status = job[RunOf(w)].status
    PROVE  WorkerInv(w)'
<1>1. WorkerInv(w) /\ (~WorkerAt(w, "idle") => RunOf(w) \in Used)
  BY DEF SearchInv, WorkerInv
<1>2. ~WorkerAt(w, "idle") => runs'[RunOf(w)].ids = runs[RunOf(w)].ids
  BY <1>1 DEF RunsGrow
<1>3. RunOf(w)' = RunOf(w) /\ \A pc : WorkerAt(w, pc)' <=> WorkerAt(w, pc)
  BY DEF RunOf, WorkerAt
<1> QED
  BY <1>1, <1>2, <1>3 DEF WorkerInv, WorkerAt

LEMMA WorkersAlone ==
    ASSUME SearchTypeOK, SearchInv, RunsKept, UNCHANGED <<job, worker>>
    PROVE  WorkersKept
  BY WorkerAlone, RunsKeptUsed DEF WorkersKept, SearchTypeOK, RunOf

\* The step of one worker.
LEMMA OneWorker ==
    ASSUME SearchTypeOK, SearchInv, RunsKept, UNCHANGED job, NEW w \in Workers,
           worker' \in [Workers -> Worker], \A u \in Workers \ {w} : worker'[u] = worker[u],
           WorkerInv(w)', RunOf(w)' \in {RunOf(w), 0}
    PROVE  WorkersKept
<1>1. \A u \in Workers \ {w} : WorkerInv(u)' /\ RunOf(u)' = RunOf(u)
  BY WorkerAlone, RunsKeptUsed DEF RunOf
<1> QED
  BY <1>1 DEF WorkersKept

\* A worker goes on with its run.
LEMMA WorkerGoes ==
    ASSUME SearchTypeOK, SearchInv, RunsKept, UNCHANGED job, NEW w \in Workers, ~WorkerAt(w, "idle"),
           NEW pc \in {"finish", "insist", "giveup", "nack", "purge", "purging", "ack"}, WorkerGoto(w, pc)
    PROVE  /\ WorkersKept /\ \A u \in Workers \ {w} : worker'[u] = worker[u]
           /\ worker'[w].pc = pc /\ RunOf(w)' = RunOf(w)
<1> DEFINE x == [worker[w] EXCEPT !.pc = pc]
<1>1. worker[w] \in Worker /\ worker \in [Workers -> Worker]
  BY DEF SearchTypeOK
<1>2. x \in Worker /\ x.pc = pc /\ x.run = worker[w].run
  BY <1>1 DEF Worker
<1>3. worker' = [worker EXCEPT ![w] = x]
  BY DEF WorkerGoto
<1> HIDE DEF x
<1>4. worker'[w] = x /\ worker' \in [Workers -> Worker] /\ \A u \in Workers \ {w} : worker'[u] = worker[u]
  BY <1>1, <1>2, <1>3
<1>5. worker'[w].pc = pc /\ RunOf(w)' = RunOf(w)
  BY <1>2, <1>4 DEF RunOf
<1>6. WorkerInv(w)'
  BY <1>5 DEF SearchInv, WorkerInv, WorkerAt
<1> QED
  BY <1>4, <1>5, <1>6, OneWorker

\* It stops, for whatever reason.
LEMMA WorkerStops ==
    ASSUME SearchTypeOK, NEW w \in Workers, worker' = [worker EXCEPT ![w] = IdleWorker]
    PROVE  /\ worker' \in [Workers -> Worker] /\ \A u \in Workers \ {w} : worker'[u] = worker[u]
           /\ WorkerAt(w, "idle")' /\ RunOf(w)' = 0 /\ WorkerInv(w)'
<1>1. IdleWorker \in Worker
  BY DEF IdleWorker, Worker
<1>2. worker'[w] = IdleWorker /\ worker' \in [Workers -> Worker] /\ \A u \in Workers \ {w} : worker'[u] = worker[u]
  BY <1>1 DEF SearchTypeOK
<1> QED
  BY <1>2 DEF IdleWorker, WorkerAt, RunOf, WorkerInv

\* A document is computed from versions.
LEMMA ContentType == SearchTypeOK => \A p \in Products : Content(p) \in Documents
<1> SUFFICES ASSUME SearchTypeOK, NEW p \in Products PROVE Content(p) \in Documents
  OBVIOUS
<1> DEFINE S == {x \in Products : x = p \/ p \in Parents[x]}
<1>1. Content(p) \in [S -> Nat]
  BY DEF Content, SearchTypeOK
<1>2. S \in SUBSET Products
  OBVIOUS
<1> QED
  BY <1>1, <1>2 DEF Documents

\* Where the step leaves the jobs alone and makes no run, tasks and workers are what it is about.
LEMMA InvKept ==
    ASSUME SearchInv, RunsKept, UNCHANGED job, TasksKept, WorkersKept
    PROVE  SearchInv'
<1>1. Used' = Used
  BY RunsKeptUsed
<1>2. \A t, u \in Tasks : TaskAt(t, "enqueue")' /\ TaskAt(u, "enqueue")' /\ task'[t].run = task'[u].run => t = u
  BY DEF TasksKept, SearchInv
<1>3. \A w, u \in Workers : RunOf(w)' = RunOf(u)' /\ RunOf(w)' # 0 => w = u
  BY DEF WorkersKept, SearchInv
<1> QED
  BY <1>1, <1>2, <1>3 DEF SearchInv, TasksKept, WorkersKept

\* A worker has listed the products of its run.
LEMMA ListStep ==
    ASSUME SearchTypeOK, SearchInv, NEW w \in Workers, ListProducts(w)
    PROVE  /\ RunsKept /\ WorkersKept /\ \A u \in Workers \ {w} : worker'[u] = worker[u]
           /\ WorkerAt(w, "index")' /\ RunOf(w)' = RunOf(w) /\ RunOf(w) \in Used
           /\ worker'[w].todo = runs[RunOf(w)].ids
           /\ worker'[w].docs = [p \in runs[RunOf(w)].ids |-> Content(p)]
<1> DEFINE ids == runs[RunOf(w)].ids
           docs == [p \in ids |-> Content(p)]
           x == [worker[w] EXCEPT !.pc = "index", !.todo = ids, !.docs = docs]
<1>1. RunsKept /\ UNCHANGED <<job, runs>>
  BY RunsUnchanged DEF ListProducts
<1>2. RunOf(w) \in Used
  BY DEF ListProducts, WorkerAt, SearchInv, WorkerInv
<1>3. ids \in SUBSET Products
  BY <1>2 DEF SearchTypeOK, Used, Run
<1>4. docs \in [ids -> Documents]
  BY <1>3, ContentType
<1>5. worker[w] \in Worker /\ worker \in [Workers -> Worker]
  BY DEF SearchTypeOK
<1>6. docs \in UNION {[S -> Documents] : S \in SUBSET Products}
  BY <1>3, <1>4
<1>7. x \in Worker /\ x.pc = "index" /\ x.run = worker[w].run /\ x.todo = ids /\ x.docs = docs
  <2> HIDE DEF ids, docs
  <2> QED
    BY <1>3, <1>5, <1>6 DEF Worker
<1>8. worker' = [worker EXCEPT ![w] = x]
  BY DEF ListProducts
<1>9. worker'[w] = x /\ worker' \in [Workers -> Worker] /\ \A u \in Workers \ {w} : worker'[u] = worker[u]
  <2> HIDE DEF x
  <2> QED
    BY <1>5, <1>7, <1>8
<1>10. WorkerAt(w, "index")' /\ RunOf(w)' = RunOf(w) /\ worker'[w].todo = ids /\ worker'[w].docs = docs
  <2> HIDE DEF x
  <2> QED
    BY <1>7, <1>9 DEF WorkerAt, RunOf
<1>11. WorkerInv(w)'
  <2>1. runs'[RunOf(w)'].ids = ids /\ job'[RunOf(w)'].status = "processing" /\ RunOf(w)' \in Runs
    BY <1>1, <1>2, <1>10 DEF SearchInv, WorkerInv, WorkerAt, ListProducts
  <2> HIDE DEF ids, docs
  <2> QED
    BY <1>4, <1>10, <2>1 DEF WorkerInv, WorkerAt
<1>12. WorkersKept
  BY <1>1, <1>9, <1>10, <1>11, OneWorker
<1> QED
  BY <1>1, <1>2, <1>9, <1>10, <1>12

\* A worker has written one document.
LEMMA IndexStep ==
    ASSUME SearchTypeOK, SearchInv, NEW w \in Workers, NEW p \in Products, IndexProduct(w, p)
    PROVE  /\ RunsKept /\ WorkersKept /\ \A u \in Workers \ {w} : worker'[u] = worker[u]
           /\ RunOf(w)' = RunOf(w) /\ worker'[w].docs = worker[w].docs
           /\ worker'[w].todo = worker[w].todo \ {p}
           /\ worker'[w].pc = IF worker[w].todo = {p} THEN "finish" ELSE "index"
           /\ index' \in [Products -> Documents]
<1> DEFINE x == [worker[w] EXCEPT !.todo = @ \ {p}, !.pc = IF worker[w].todo = {p} THEN "finish" ELSE "index"]
<1>1. RunsKept /\ UNCHANGED <<job, runs>>
  BY RunsUnchanged DEF IndexProduct
<1>2. worker[w] \in Worker /\ worker \in [Workers -> Worker]
  BY DEF SearchTypeOK
<1>3. /\ x \in Worker /\ x.pc = (IF worker[w].todo = {p} THEN "finish" ELSE "index") /\ x.run = worker[w].run
      /\ x.todo = worker[w].todo \ {p} /\ x.docs = worker[w].docs
  BY <1>2 DEF Worker
<1>4. worker' = [worker EXCEPT ![w] = x]
  BY DEF IndexProduct
<1> HIDE DEF x
<1>5. worker'[w] = x /\ worker' \in [Workers -> Worker] /\ \A u \in Workers \ {w} : worker'[u] = worker[u]
  BY <1>2, <1>3, <1>4
<1>6. RunOf(w)' = RunOf(w) /\ WorkerInv(w) /\ WorkerAt(w, "index") /\ p \in worker[w].todo
  BY <1>3, <1>5 DEF RunOf, SearchInv, IndexProduct
<1>7. WorkerInv(w)'
  BY <1>1, <1>3, <1>5, <1>6 DEF WorkerInv, WorkerAt
<1>8. worker[w].docs[p] \in Documents
  BY <1>6 DEF WorkerInv
<1>9. index' \in [Products -> Documents]
  BY <1>8 DEF IndexProduct, SearchTypeOK
<1> QED
  BY <1>1, <1>3, <1>5, <1>6, <1>7, <1>9, OneWorker

\* A trigger has created its run, the first number that is free.
LEMMA CreateStep ==
    ASSUME SearchTypeOK, SearchInv, NEW t \in Tasks, CreateRun(t)
    PROVE  /\ runs' \in [Runs -> Run] /\ RunsGrow /\ task' \in [Tasks -> Task] /\ SearchInv'
           /\ \A p \in Products : Wanted(p) => Wanted(p)'
<1> DEFINE n == Cardinality(Used)
           new == Scope(Covered(Current(t)))
           x == [task[t] EXCEPT !.pc = "enqueue", !.run = n + 1]
<1>0. TaskInv(t) /\ ~TaskAt(t, "idle") /\ TaskAt(t, "create")
  BY DEF SearchInv, CreateRun, TaskAt
<1>1. n \in 0..MaxRuns /\ Used = 1..n
  <2>1. PICK m \in 0..MaxRuns : Used = 1..m
    BY DEF SearchInv
  <2>2. MaxRuns \in Nat
    BY SearchAssumption DEF SearchAssumption
  <2>3. Cardinality(1..m) = m
    BY <2>1, <2>2, FS_Interval
  <2> QED
    BY <2>1, <2>3
<1>2. n + 1 \in Runs /\ n + 1 \notin Used /\ MaxRuns \in Nat
  BY <1>1, SearchAssumption DEF CreateRun, Fresh, SearchAssumption
<1>3. Covered(Current(t)) \subseteq Products
  BY <1>0, TaskList
<1>4. new \in Run /\ new.status = "processing" /\ Covered(Current(t)) \subseteq new.ids
  <2> DEFINE ids == Covered(Current(t))
             all == Cardinality(ids) * 100 > FullScanPercent * Cardinality(Products)
  <2>1. new = [status |-> "processing", all |-> all, ids |-> IF all THEN Products ELSE ids]
    BY DEF Scope
  <2>2. all \in BOOLEAN
    OBVIOUS
  <2> HIDE DEF new, all, ids
  <2>3. ids \subseteq Products
    BY <1>3 DEF ids
  <2>4. (IF all THEN Products ELSE ids) \in SUBSET Products
    BY <2>3
  <2>5. new \in Run
    BY <2>1, <2>2, <2>4 DEF Run
  <2> QED
    BY <2>1, <2>3, <2>5 DEF ids
<1>5. runs' = [runs EXCEPT ![n + 1] = new] /\ UNCHANGED <<job, worker, recent, trailing, lost>>
  BY DEF CreateRun, Fresh
<1>6. runs \in [Runs -> Run] /\ task \in [Tasks -> Task] /\ task[t] \in Task
  BY DEF SearchTypeOK
<1> HIDE DEF new, n
<1>7. runs' \in [Runs -> Run] /\ runs'[n + 1] = new /\ \A i \in Runs \ {n + 1} : runs'[i] = runs[i]
  BY <1>2, <1>4, <1>5, <1>6
<1>8. Used' = Used \cup {n + 1} /\ RunsGrow
  BY <1>2, <1>4, <1>7 DEF Used, RunsGrow
<1>9. /\ x \in Task /\ x.pc = "enqueue" /\ x.run = n + 1 /\ x.todo = task[t].todo
  BY <1>2, <1>6 DEF Task
<1>10. task' = [task EXCEPT ![t] = x]
  BY DEF CreateRun, Fresh, n
<1>11. task'[t] = x /\ task' \in [Tasks -> Task] /\ \A u \in Tasks \ {t} : task'[u] = task[u]
  <2> HIDE DEF x
  <2> QED
    BY <1>6, <1>9, <1>10
<1> HIDE DEF x
<1>12. Later(t)' = Later(t) /\ Current(t)' = Current(t) /\ Awaited(t)' = Awaited(t)
  <2>1. Later(t)' = Later(t) /\ Current(t)' = Current(t)
    BY <1>9, <1>11 DEF Later, Current
  <2> QED
    BY <1>0, <1>9, <1>11, <2>1 DEF Awaited, Asking, TaskAt
<1>13. job[n + 1].status = "none"
  BY <1>2 DEF SearchInv
<1>14. TaskInv(t)'
  BY <1>0, <1>4, <1>5, <1>7, <1>8, <1>9, <1>11, <1>12, <1>13 DEF TaskInv, TaskAt
<1>15. \A u \in Tasks \ {t} : TaskInv(u)' /\ Awaited(u)' = Awaited(u) /\ (TaskAt(u, "enqueue")' => task'[u].run \in Used)
  <2>1. \A u \in Tasks \ {t} : TaskInv(u)' /\ Awaited(u)' = Awaited(u)
    BY <1>5, <1>8, <1>11, TaskAlone DEF SearchInv
  <2> QED
    BY <1>11, <2>1 DEF SearchInv, TaskInv, TaskAt
<1>16. \A w \in Workers : WorkerInv(w)'
  BY <1>5, <1>8, WorkerAlone
<1>17. \A u, v \in Tasks : TaskAt(u, "enqueue")' /\ TaskAt(v, "enqueue")' /\ task'[u].run = task'[v].run => u = v
  <2>1. \A u \in Tasks \ {t} : TaskAt(u, "enqueue")' => task'[u].run # n + 1 /\ TaskAt(u, "enqueue") /\ task'[u].run = task[u].run
    BY <1>2, <1>11, <1>15 DEF TaskAt
  <2>2. task'[t].run = n + 1
    BY <1>9, <1>11
  <2> QED
    BY <2>1, <2>2 DEF SearchInv
<1>18. \E m \in 0..MaxRuns : Used' = 1..m
  <2>1. n + 1 \in 0..MaxRuns /\ 1..(n + 1) = (1..n) \cup {n + 1}
    BY <1>1, <1>2 DEF Runs
  <2> QED
    BY <1>1, <1>8, <2>1
<1>19. \A p \in Products : Wanted(p) => Wanted(p)'
  BY <1>5, <1>12, <1>15 DEF Wanted
<1>20. \A i \in Runs : job'[i].status # "none" => i \in Used'
  BY <1>5, <1>8 DEF SearchInv
<1>21. \A i \in Runs : job'[i].status \in {"none", "pending"} => job'[i].attempts < MaxRetries
  BY <1>5 DEF SearchInv
<1>22. \A w, u \in Workers : RunOf(w)' = RunOf(u)' /\ RunOf(w)' # 0 => w = u
  BY <1>5 DEF SearchInv, RunOf
<1>23. \A u \in Tasks : TaskInv(u)'
  BY <1>14, <1>15
<1>24. SearchInv'
  BY <1>16, <1>17, <1>18, <1>20, <1>21, <1>22, <1>23 DEF SearchInv
<1> QED
  BY <1>7, <1>8, <1>11, <1>19, <1>24

\* Its job is enqueued.
LEMMA EnqueueStep ==
    ASSUME SearchTypeOK, SearchInv, NEW t \in Tasks, Enqueue(t)
    PROVE  /\ job' \in [Runs -> Job] /\ task' \in [Tasks -> Task] /\ SearchInv' /\ RunsGrow
           /\ task[t].run \in Used /\ job[task[t].run].status = "none" /\ job'[task[t].run].status = "pending"
           /\ \A i \in Runs \ {task[t].run} : job'[i] = job[i]
           /\ Asking(t) \subseteq runs[task[t].run].ids /\ Awaited(t)' = Later(t)
           /\ \A u \in Tasks \ {t} : Awaited(u)' = Awaited(u)
<1> DEFINE i == task[t].run
           x == [job[i] EXCEPT !.status = "pending"]
<1>0. TaskInv(t) /\ ~TaskAt(t, "idle") /\ TaskAt(t, "enqueue")
  BY DEF SearchInv, Enqueue, TaskAt
<1>1. i \in Used /\ i \in Runs /\ job[i].status = "none" /\ Covered(Current(t)) \subseteq runs[i].ids
  BY <1>0 DEF TaskInv, TaskAt, Used
<1>2. /\ task' \in [Tasks -> Task] /\ \A u \in Tasks \ {t} : task'[u] = task[u]
      /\ TaskInv(t)' /\ ~TaskAt(t, "enqueue")' /\ Awaited(t)' = Later(t)
  BY <1>0, TaskAdvances DEF Enqueue
<1>3. UNCHANGED <<runs, worker>> /\ RunsKept
  BY RunsUnchanged DEF Enqueue
<1>4. RunsGrow /\ Used' = Used
  BY <1>3, RunsKeptUsed
<1>5. job[i] \in Job /\ job \in [Runs -> Job]
  BY <1>1 DEF SearchTypeOK
<1>6. x \in Job /\ x.status = "pending" /\ x.attempts = job[i].attempts
  BY <1>5 DEF Job
<1>7. job' = [job EXCEPT ![i] = x]
  BY DEF Enqueue
<1> HIDE DEF x, i
<1>8. job' \in [Runs -> Job] /\ job'[i] = x /\ \A j \in Runs \ {i} : job'[j] = job[j]
  BY <1>1, <1>5, <1>6, <1>7
<1>9. \A u \in Tasks \ {t} : TaskAt(u, "enqueue") => task[u].run # i /\ task[u].run \in Runs
  BY <1>0 DEF SearchInv, TaskInv, TaskAt, Used, i
<1>10. \A u \in Tasks \ {t} : TaskInv(u)' /\ Awaited(u)' = Awaited(u)
  BY <1>2, <1>4, <1>8, <1>9, TaskAlone DEF SearchInv
<1>11. \A w \in Workers : ~WorkerAt(w, "idle") => RunOf(w) # i /\ RunOf(w) \in Runs
  BY <1>1 DEF SearchInv, WorkerInv
<1>12. \A w \in Workers : WorkerInv(w)' /\ RunOf(w)' = RunOf(w)
  BY <1>3, <1>4, <1>8, <1>11, WorkerAlone DEF RunOf
<1>13. \A u, v \in Tasks : TaskAt(u, "enqueue")' /\ TaskAt(v, "enqueue")' /\ task'[u].run = task'[v].run => u = v
  BY <1>2 DEF SearchInv, TaskAt
<1>14. SearchInv'
  <2>1. \A j \in Runs : job'[j].status # "none" => j \in Used'
    BY <1>1, <1>4, <1>8 DEF SearchInv
  <2>2. \A j \in Runs : job'[j].status \in {"none", "pending"} => job'[j].attempts < MaxRetries
    BY <1>1, <1>6, <1>8 DEF SearchInv
  <2>3. \A u \in Tasks : TaskInv(u)'
    BY <1>2, <1>10
  <2>4. \A w, u \in Workers : RunOf(w)' = RunOf(u)' /\ RunOf(w)' # 0 => w = u
    BY <1>12 DEF SearchInv
  <2> QED
    BY <1>4, <1>12, <1>13, <2>1, <2>2, <2>3, <2>4 DEF SearchInv
<1>15. Asking(t) \subseteq runs[i].ids
  BY <1>1 DEF Asking
<1> QED
  BY <1>1, <1>2, <1>4, <1>6, <1>8, <1>10, <1>14, <1>15 DEF i

\* A worker starts or ends a job.
LEMMA JobStep ==
    ASSUME SearchTypeOK, SearchInv, UNCHANGED <<task, runs>>, NEW i \in Runs, job[i].status # "none",
           NEW x \in Job, x.status # "none", x.status = "pending" => x.attempts < MaxRetries, job' = [job EXCEPT ![i] = x],
           NEW w \in Workers, \A u \in Workers \ {w} : worker'[u] = worker[u] /\ RunOf(u) # i,
           WorkerInv(w)', RunOf(w)' \in {0, i}
    PROVE  /\ job' \in [Runs -> Job] /\ job'[i] = x /\ \A j \in Runs \ {i} : job'[j] = job[j]
           /\ SearchInv' /\ RunsGrow /\ \A t \in Tasks : Awaited(t)' = Awaited(t)
<1>1. job' \in [Runs -> Job] /\ job'[i] = x /\ \A j \in Runs \ {i} : job'[j] = job[j]
  BY DEF SearchTypeOK
<1>2. RunsGrow /\ Used' = Used
  BY RunsUnchanged, RunsKeptUsed
<1>3. \A t \in Tasks : TaskInv(t)' /\ Awaited(t)' = Awaited(t)
  <2>1. \A t \in Tasks : TaskAt(t, "enqueue") => task[t].run # i /\ task[t].run \in Runs
    BY DEF SearchInv, TaskInv, TaskAt, Used
  <2> QED
    BY <1>1, <1>2, <2>1, TaskAlone DEF SearchInv
<1>4. \A u \in Workers \ {w} : WorkerInv(u)' /\ RunOf(u)' = RunOf(u)
  <2>1. \A u \in Workers \ {w} : ~WorkerAt(u, "idle") => RunOf(u) \in Runs
    BY DEF SearchInv, WorkerInv
  <2> QED
    BY <1>1, <1>2, <2>1, WorkerAlone DEF RunOf
<1>5. \A v, u \in Workers : RunOf(v)' = RunOf(u)' /\ RunOf(v)' # 0 => v = u
  BY <1>4 DEF SearchInv
<1>6. \A j \in Runs : /\ job'[j].status # "none" => j \in Used'
                      /\ job'[j].status \in {"none", "pending"} => job'[j].attempts < MaxRetries
  BY <1>1, <1>2 DEF SearchInv
<1>7. \A t, u \in Tasks : TaskAt(t, "enqueue")' /\ TaskAt(u, "enqueue")' /\ task'[t].run = task'[u].run => t = u
  BY DEF SearchInv, TaskAt
<1>8. SearchInv'
  BY <1>2, <1>3, <1>4, <1>5, <1>6, <1>7 DEF SearchInv
<1> QED
  BY <1>1, <1>2, <1>3, <1>8

LEMMA DequeueStep ==
    ASSUME SearchTypeOK, SearchInv, NEW w \in Workers, NEW i \in Runs, Dequeue(w, i)
    PROVE  /\ job' \in [Runs -> Job] /\ job[i].status = "pending" /\ job'[i].status = "processing"
           /\ \A j \in Runs \ {i} : job'[j] = job[j]
           /\ worker' \in [Workers -> Worker] /\ \A u \in Workers \ {w} : worker'[u] = worker[u]
           /\ WorkerAt(w, "list")' /\ RunOf(w)' = i /\ \A u \in Workers : RunOf(u) # i
           /\ SearchInv' /\ RunsGrow /\ \A t \in Tasks : Awaited(t)' = Awaited(t)
<1> DEFINE x == [status |-> "processing", attempts |-> job[i].attempts + 1]
           y == [pc |-> "list", run |-> i, docs |-> <<>>, todo |-> {}]
<1>1. job[i] \in Job /\ job[i].status = "pending" /\ job[i].attempts < MaxRetries /\ MaxRetries \in Nat
  BY SearchAssumption DEF SearchTypeOK, SearchInv, Dequeue, SearchAssumption
<1>2. x \in Job
  BY <1>1 DEF Job
<1>3. y \in Worker
  BY DEF Worker
<1>4. job' = [job EXCEPT ![i] = x] /\ worker' = [worker EXCEPT ![w] = y] /\ UNCHANGED <<task, runs>>
  BY DEF Dequeue, triggering
<1>5. worker'[w] = y /\ worker' \in [Workers -> Worker] /\ \A u \in Workers \ {w} : worker'[u] = worker[u]
  <2> HIDE DEF y
  <2> QED
    BY <1>3, <1>4 DEF SearchTypeOK
<1>6. WorkerAt(w, "list")' /\ RunOf(w)' = i
  BY <1>5 DEF WorkerAt, RunOf
<1>7. \A u \in Workers : RunOf(u) # i
  BY <1>1 DEF SearchInv, WorkerInv, Runs
<1>8. job'[i].status = "processing"
  BY <1>4 DEF SearchTypeOK
<1>9. WorkerInv(w)'
  BY <1>6, <1>8 DEF WorkerInv, WorkerAt
<1>10. x.status = "processing"
  OBVIOUS
<1> HIDE DEF x, y
<1> QED
  BY <1>1, <1>2, <1>4, <1>5, <1>6, <1>7, <1>8, <1>9, <1>10, JobStep

\* A worker reports how its job has ended.
LEMMA ReportStep ==
    ASSUME SearchTypeOK, SearchInv, NEW w \in Workers, Complete(w) \/ Fail(w)
    PROVE  /\ job' \in [Runs -> Job] /\ RunOf(w) \in Used
           /\ job'[RunOf(w)].status = IF WorkerAt(w, "ack") THEN "done" ELSE IF LastAttempt(w) THEN "failed" ELSE "pending"
           /\ job[RunOf(w)].status = "processing"
           /\ \A j \in Runs \ {RunOf(w)} : job'[j] = job[j]
           /\ worker' \in [Workers -> Worker] /\ \A u \in Workers \ {w} : worker'[u] = worker[u]
           /\ WorkerAt(w, "idle")' /\ RunOf(w)' = 0 /\ lost' \subseteq Products
           /\ SearchInv' /\ RunsGrow /\ \A t \in Tasks : Awaited(t)' = Awaited(t)
<1> DEFINE i == RunOf(w)
           s == IF WorkerAt(w, "ack") THEN "done" ELSE IF LastAttempt(w) THEN "failed" ELSE "pending"
           x == [job[i] EXCEPT !.status = s]
<1>1. /\ ~WorkerAt(w, "idle") /\ UNCHANGED <<task, runs>> /\ worker' = [worker EXCEPT ![w] = IdleWorker]
      /\ job' = [job EXCEPT ![i] = x]
  BY DEF Complete, Fail, WorkerAt, triggering
<1>2. i \in Runs /\ job[i].status = "processing" /\ i \in Used
  BY <1>1 DEF SearchInv, WorkerInv
<1>3. job[i] \in Job
  BY <1>2 DEF SearchTypeOK
<1>4. MaxRetries \in Nat /\ job[i].attempts \in 0..MaxRetries
  BY <1>3, SearchAssumption DEF Job, SearchAssumption
<1>5. s \in {"done", "failed", "pending"} /\ (s = "pending" => job[i].attempts < MaxRetries)
  BY <1>4 DEF LastAttempt
<1>6. runs[i].ids \subseteq Products
  BY <1>2 DEF SearchTypeOK, Run
<1>7. lost' \subseteq Products
  BY <1>6 DEF SearchTypeOK, Complete, Fail, triggering
<1> HIDE DEF s
<1>8. x \in Job /\ x.status = s /\ x.attempts = job[i].attempts
  BY <1>3, <1>5 DEF Job
<1>9. /\ worker' \in [Workers -> Worker] /\ \A u \in Workers \ {w} : worker'[u] = worker[u]
      /\ WorkerAt(w, "idle")' /\ RunOf(w)' = 0 /\ WorkerInv(w)'
  BY <1>1, WorkerStops
<1>10. \A u \in Workers \ {w} : RunOf(u) # i
  BY <1>2 DEF SearchInv, Runs
<1> HIDE DEF x, i
<1>11. /\ job' \in [Runs -> Job] /\ job'[i] = x /\ \A j \in Runs \ {i} : job'[j] = job[j]
       /\ SearchInv' /\ RunsGrow /\ \A t \in Tasks : Awaited(t)' = Awaited(t)
  BY <1>1, <1>2, <1>5, <1>8, <1>9, <1>10, JobStep
<1> QED
  BY <1>2, <1>7, <1>8, <1>9, <1>11 DEF s, i

\* A worker that dies leaves its job processing.
LEMMA DeathStep ==
    ASSUME SearchTypeOK, SearchInv, NEW w \in Workers, WorkerDies(w)
    PROVE  /\ RunsKept /\ WorkersKept /\ \A u \in Workers \ {w} : worker'[u] = worker[u]
           /\ WorkerAt(w, "idle")' /\ RunOf(w)' = 0 /\ RunOf(w) \in Used /\ lost' \subseteq Products
<1>1. ~WorkerAt(w, "idle") /\ UNCHANGED <<job, runs>> /\ RunsKept
  BY RunsUnchanged DEF WorkerDies
<1>2. RunOf(w) \in Used
  BY <1>1 DEF SearchInv, WorkerInv
<1>3. lost' \subseteq Products
  BY <1>2 DEF WorkerDies, SearchTypeOK, Used, Run
<1>4. /\ worker' \in [Workers -> Worker] /\ \A u \in Workers \ {w} : worker'[u] = worker[u]
      /\ WorkerAt(w, "idle")' /\ RunOf(w)' = 0 /\ WorkerInv(w)'
  BY WorkerStops DEF WorkerDies
<1> QED
  BY <1>1, <1>2, <1>3, <1>4, OneWorker

\* A worker that goes on, or waits for its purge.
LEMMA WorkerStep ==
    ASSUME SearchTypeOK, SearchInv, NEW w \in Workers,
           HandleFails(w) \/ GiveUp(w) \/ FinishRun(w) \/ AfterProductsIndexed(w) \/ IndexedPagesPurged(w)
    PROVE  /\ RunsKept /\ TasksKept /\ WorkersKept /\ \A u \in Workers \ {w} : worker'[u] = worker[u]
           /\ RunOf(w)' = RunOf(w) /\ worker'[w].pc \in {"insist", "giveup", "nack", "purge", "purging", "ack"}
<1>1. ~WorkerAt(w, "idle") /\ UNCHANGED <<job, recent, trailing, task, lost>>
  BY DEF HandleFails, GiveUp, FinishRun, AfterProductsIndexed, IndexedPagesPurged, triggering, WorkerAt
<1>2. RunOf(w) \in Runs
  BY <1>1 DEF SearchInv, WorkerInv
<1>3. RunsKept
  <2>1. CASE GiveUp(w)
    BY <1>2, <2>1, VerdictKeeps DEF GiveUp
  <2>2. CASE FinishRun(w)
    BY <1>2, <2>2, VerdictKeeps DEF FinishRun
  <2> QED
    BY <2>1, <2>2, RunsUnchanged DEF HandleFails, AfterProductsIndexed, IndexedPagesPurged
<1>4. TasksKept
  BY <1>1, <1>3, TasksAlone DEF SearchTypeOK
<1>5. \E pc \in {"insist", "giveup", "nack", "purge", "purging", "ack"} : WorkerGoto(w, pc)
  <2>1. CASE HandleFails(w)
    BY <2>1 DEF HandleFails
  <2>2. CASE GiveUp(w)
    BY <2>2 DEF GiveUp
  <2>3. CASE FinishRun(w)
    BY <2>3 DEF FinishRun, AfterFinishFails
  <2>4. CASE AfterProductsIndexed(w) \/ IndexedPagesPurged(w)
    BY <2>4 DEF AfterProductsIndexed, IndexedPagesPurged
  <2> QED
    BY <2>1, <2>2, <2>3, <2>4
<1>6. PICK pc \in {"insist", "giveup", "nack", "purge", "purging", "ack"} : WorkerGoto(w, pc)
  BY <1>5
<1> QED
  BY <1>1, <1>3, <1>4, <1>6, WorkerGoes

LEMMA BudgetType == SearchTypeOK /\ (Fault \/ NoFault) => budget' \in Nat
  BY DEF SearchTypeOK, Fault, NoFault

\* Each step of the search index.
LEMMA SearchStepKeeps ==
    ASSUME SearchTypeOK, SearchInv, SearchStep
    PROVE  SearchTypeOK' /\ SearchInv'
<1> USE DEF triggering
<1>0. /\ db \in [Products -> Nat] /\ index \in [Products -> Documents] /\ recent \subseteq Products
      /\ trailing \subseteq Products /\ lost \subseteq Products /\ task \in [Tasks -> Task]
      /\ runs \in [Runs -> Run] /\ job \in [Runs -> Job] /\ worker \in [Workers -> Worker] /\ sweep \in {0} \cup Runs
  BY DEF SearchTypeOK
<1>1. ASSUME NEW t \in Tasks, LookupFails(t) \/ Allow(t) \/ ScheduleTrailingFlush(t) \/ TriggerFails(t) \/ UndoRun(t)
      PROVE  SearchTypeOK' /\ SearchInv'
  <2>1. RunsKept /\ TasksKept
    BY <1>1, TaskStep
  <2>2. UNCHANGED <<db, index, job, worker, sweep>> /\ (Fault \/ NoFault)
    BY <1>1 DEF LookupFails, Allow, ScheduleTrailingFlush, TriggerFails, UndoRun
  <2>3. budget' \in Nat
    BY <2>2, BudgetType
  <2> QED
    BY <1>0, <2>1, <2>2, <2>3, WorkersAlone, InvKept DEF SearchTypeOK, RunsKept, TasksKept
<1>2. ASSUME NEW t \in Tasks, CreateRun(t) PROVE SearchTypeOK' /\ SearchInv'
  <2>1. UNCHANGED <<db, index, recent, trailing, job, worker, sweep, lost, budget>>
    BY <1>2 DEF CreateRun, NoFault
  <2> QED
    BY <1>2, <2>1, CreateStep DEF SearchTypeOK
<1>3. ASSUME NEW t \in Tasks, Enqueue(t) PROVE SearchTypeOK' /\ SearchInv'
  <2>1. UNCHANGED <<db, index, recent, trailing, runs, worker, sweep, lost, budget>>
    BY <1>3 DEF Enqueue, NoFault
  <2> QED
    BY <1>3, <2>1, EnqueueStep DEF SearchTypeOK
<1>4. ASSUME NEW p \in Products, FlushTrailing(p) PROVE SearchTypeOK' /\ SearchInv'
  <2>1. UNCHANGED <<db, index, runs, job, worker, sweep, lost, budget>>
    BY <1>4 DEF FlushTrailing, NoFault
  <2>2. RunsKept /\ TasksKept
    BY <1>4, FlushStep
  <2> QED
    BY <1>0, <2>1, <2>2, WorkersAlone, InvKept DEF SearchTypeOK, TasksKept
<1>5. ASSUME NEW p \in Products, WindowEnds(p) PROVE SearchTypeOK' /\ SearchInv'
  <2>1. UNCHANGED <<db, index, trailing, task, runs, job, worker, sweep, lost, budget>> /\ recent' \subseteq Products
    BY <1>0, <1>5 DEF WindowEnds, NoFault
  <2>2. RunsKept /\ TasksKept
    BY <1>0, <2>1, RunsUnchanged, TasksAlone
  <2> QED
    BY <1>0, <2>1, <2>2, WorkersAlone, InvKept DEF SearchTypeOK, TasksKept
<1>6. ASSUME NEW w \in Workers, NEW i \in Runs, Dequeue(w, i) PROVE SearchTypeOK' /\ SearchInv'
  <2>1. UNCHANGED <<db, index, recent, trailing, task, runs, sweep, lost, budget>>
    BY <1>6 DEF Dequeue, NoFault
  <2> QED
    BY <1>6, <2>1, DequeueStep DEF SearchTypeOK
<1>7. ASSUME NEW w \in Workers, NEW p \in Products, IndexProduct(w, p) PROVE SearchTypeOK' /\ SearchInv'
  <2>1. UNCHANGED <<db, recent, trailing, task, runs, job, sweep, lost, budget>>
    BY <1>7 DEF IndexProduct, NoFault
  <2>2. RunsKept /\ WorkersKept /\ index' \in [Products -> Documents]
    BY <1>7, IndexStep
  <2>3. TasksKept
    BY <1>0, <2>1, <2>2, TasksAlone
  <2> QED
    BY <1>0, <2>1, <2>2, <2>3, InvKept DEF SearchTypeOK, TasksKept, WorkersKept
<1>8. ASSUME NEW w \in Workers, ListProducts(w) PROVE SearchTypeOK' /\ SearchInv'
  <2>1. UNCHANGED <<db, index, recent, trailing, task, runs, job, sweep, lost, budget>>
    BY <1>8 DEF ListProducts, NoFault
  <2>2. RunsKept /\ WorkersKept
    BY <1>8, ListStep
  <2>3. TasksKept
    BY <1>0, <2>1, <2>2, TasksAlone
  <2> QED
    BY <1>0, <2>1, <2>2, <2>3, InvKept DEF SearchTypeOK, TasksKept, WorkersKept
<1>9. ASSUME NEW w \in Workers, HandleFails(w) \/ GiveUp(w) \/ FinishRun(w) PROVE SearchTypeOK' /\ SearchInv'
  <2>1. UNCHANGED <<db, index, recent, trailing, task, job, sweep, lost>> /\ (Fault \/ NoFault)
    BY <1>9 DEF HandleFails, GiveUp, FinishRun
  <2>2. RunsKept /\ TasksKept /\ WorkersKept
    BY <1>9, WorkerStep
  <2>3. budget' \in Nat
    BY <2>1, BudgetType
  <2> QED
    BY <1>0, <2>1, <2>2, <2>3, InvKept DEF SearchTypeOK, RunsKept, TasksKept, WorkersKept
<1>10. ASSUME NEW w \in Workers, Complete(w) \/ Fail(w) PROVE SearchTypeOK' /\ SearchInv'
  <2>1. UNCHANGED <<db, index, recent, trailing, task, runs, sweep, budget>>
    BY <1>10 DEF Complete, Fail, NoFault
  <2> QED
    BY <1>10, <2>1, ReportStep DEF SearchTypeOK
<1>11. ASSUME (\E i \in Runs : SweepLooks(i) \/ ReconcileManually(i)) \/ SweepFinishes PROVE SearchTypeOK' /\ SearchInv'
  <2>1. UNCHANGED <<db, index, recent, trailing, task, job, worker, lost>> /\ (Fault \/ NoFault) /\ sweep' \in {0} \cup Runs
    BY <1>0, <1>11 DEF SweepLooks, ReconcileManually, SweepFinishes
  <2>2. budget' \in Nat
    BY <2>1, BudgetType
  <2>3. RunsKept
    <3>1. ASSUME NEW i \in Runs, SweepLooks(i) PROVE RunsKept
      BY <3>1, RunsUnchanged DEF SweepLooks
    <3>2. ASSUME NEW i \in Runs, ReconcileManually(i) PROVE RunsKept
      BY <3>2, VerdictKeeps DEF ReconcileManually
    <3>3. ASSUME SweepFinishes PROVE RunsKept
      BY <1>0, <3>3, VerdictKeeps DEF SweepFinishes
    <3> QED
      BY <1>11, <3>1, <3>2, <3>3
  <2>4. TasksKept /\ WorkersKept
    BY <1>0, <2>1, <2>3, TasksAlone, WorkersAlone
  <2> QED
    BY <1>0, <2>1, <2>2, <2>3, <2>4, InvKept DEF SearchTypeOK, RunsKept, TasksKept, WorkersKept
<1> QED
  BY <1>1, <1>2, <1>3, <1>4, <1>5, <1>6, <1>7, <1>8, <1>9, <1>10, <1>11 DEF SearchStep

------------------------------------------------------------------------------
(* Pages: types, and what requests and purges hold *)

\* A request holds a page only while it stores it, and tag rows of its own key.
Sound(x) ==
    /\ x \in Request(Contents)
    /\ x.page # NoPage <=> x.pc \in {"upsert", "tag", "commit"}
    /\ x.pc \notin {"idle", "served", "dead"} => x.key \in Keys
    /\ x.new # {} => x.pc = "commit" /\ \A y \in x.new : y[2] = x.key
RequestsInv == \A r \in Requests : Sound(req[r])

\* The request has no page, or the one it had.
Calm(r) == \/ req'[r].page = NoPage
           \/ req'[r].page = req[r].page /\ req'[r].raced = req[r].raced /\ req'[r].key = req[r].key

\* What a step of one request keeps.
RequestKept(r) ==
    /\ req' \in [Requests -> Request(Contents)] /\ \A s \in Requests \ {r} : req'[s] = req[s]
    /\ Sound(req'[r])

LEMMA RequestBecomes ==
    ASSUME PageTypeOK(Contents), NEW r \in Requests, NEW x, Sound(x), req' = [req EXCEPT ![r] = x]
    PROVE  RequestKept(r) /\ req'[r] = x
<1>1. x \in Request(Contents) /\ req \in [Requests -> Request(Contents)]
  BY DEF Sound, PageTypeOK
<1> QED
  BY <1>1 DEF RequestKept

\* Requests that are over.
LEMMA IdleIsSound ==
    /\ Sound(IdleRequest) /\ IdleRequest.page = NoPage
    /\ \A pc \in {"served", "dead"} : Sound([IdleRequest EXCEPT !.pc = pc]) /\ [IdleRequest EXCEPT !.pc = pc].page = NoPage
  BY DEF IdleRequest, Sound, Request, Outcomes

LEMMA AnswerKeeps ==
    ASSUME PageTypeOK(Contents), NEW r \in Requests, Answer(r)
    PROVE  RequestKept(r) /\ Calm(r)
<1> DEFINE x == [IdleRequest EXCEPT !.pc = "served"]
<1>1. Sound(x) /\ x.page = NoPage
  BY IdleIsSound
<1>2. req' = [req EXCEPT ![r] = x]
  BY DEF Answer
<1> HIDE DEF x
<1> QED
  BY <1>1, <1>2, RequestBecomes DEF Calm

LEMMA ReturnKeeps ==
    ASSUME PageTypeOK(Contents), RequestsInv, NEW r \in Requests, req[r].pc \notin {"idle", "served", "dead"},
           NEW outcome \in Outcomes, Return(r, outcome)
    PROVE  RequestKept(r) /\ Calm(r)
<1>1. CASE Leads(r)
  <2> DEFINE x == [req[r] EXCEPT !.pc = "close", !.outcome = outcome, !.page = NoPage, !.new = {}, !.raced = FALSE]
  <2>1. Sound(req[r]) /\ req[r] \in Request(Contents)
    BY DEF RequestsInv, Sound
  <2>2. x \in Request(Contents) /\ x.pc = "close" /\ x.page = NoPage /\ x.new = {} /\ x.key = req[r].key
    BY <2>1 DEF Request
  <2>3. Sound(x)
    <3> HIDE DEF x
    <3> QED
      BY <2>1, <2>2 DEF Sound
  <2>4. req' = [req EXCEPT ![r] = x]
    BY <1>1 DEF Return
  <2> HIDE DEF x
  <2> QED
    BY <2>2, <2>3, <2>4, RequestBecomes DEF Calm
<1>2. CASE ~Leads(r) /\ outcome = "panic"
  <2> DEFINE x == [IdleRequest EXCEPT !.pc = "dead"]
  <2>1. Sound(x) /\ x.page = NoPage
    BY IdleIsSound
  <2>2. req' = [req EXCEPT ![r] = x]
    BY <1>2 DEF Return
  <2> HIDE DEF x
  <2> QED
    BY <2>1, <2>2, RequestBecomes DEF Calm
<1>3. CASE ~Leads(r) /\ outcome # "panic"
  BY <1>3, AnswerKeeps DEF Return
<1> QED
  BY <1>1, <1>2, <1>3

\* Steps of requests that hold no page, and the first statement of those that do.
LEMMA GotoKeeps ==
    ASSUME PageTypeOK(Contents), RequestsInv, NEW r \in Requests,
           NEW pc \in {"do", "wait", "fn", "render", "tag", "evict", "remove", "bypass"}, ReqGoto(r, pc),
           req[r].pc \notin {"idle", "served", "dead", "commit"}, req[r].page # NoPage <=> pc = "tag"
    PROVE  RequestKept(r) /\ Calm(r)
<1> DEFINE x == [req[r] EXCEPT !.pc = pc]
<1>1. Sound(req[r]) /\ req[r] \in Request(Contents)
  BY DEF RequestsInv, Sound
<1>2. x \in Request(Contents) /\ x.pc = pc /\ x.page = req[r].page /\ x.new = req[r].new /\ x.key = req[r].key /\ x.raced = req[r].raced
  BY <1>1 DEF Request
<1>3. req' = [req EXCEPT ![r] = x]
  BY DEF ReqGoto
<1> HIDE DEF x
<1>4. Sound(x)
  BY <1>1, <1>2 DEF Sound
<1> QED
  BY <1>2, <1>3, <1>4, RequestBecomes DEF Calm

LEMMA EmptyHandedKeeps ==
    ASSUME PageTypeOK(Contents), RequestsInv, NEW r \in Requests, req[r].pc \in {"wait", "fn", "close", "evict"}
    PROVE  \A pc \in {"do", "fn", "render", "evict", "remove", "bypass"} : ReqGoto(r, pc) => RequestKept(r) /\ Calm(r)
<1>1. req[r].page = NoPage
  BY DEF RequestsInv, Sound
<1> QED
  BY <1>1, GotoKeeps

\* Steps before and after the page is rendered and stored.
LEMMA CalmStep ==
    ASSUME PageTypeOK(Contents), RequestsInv, NEW r \in Requests,
           \/ EnterDo(r) \/ JoinCall(r) \/ StopWaiting(r) \/ LookAgain(r) \/ EvictPage(r) \/ Bypass(r)
           \/ CloseCall(r) \/ RemoveCall(r) \/ UpsertPage(r) \/ TagPage(r) \/ DeadlockAbortsStore(r) \/ StoreFails(r)
           \/ Panic(r) \/ \E k \in Keys : Lookup(r, k)
    PROVE  RequestKept(r) /\ Calm(r)
<1>0. /\ Sound(req[r]) /\ req[r] \in Request(Contents)
      /\ inflight \in [Keys -> Requests \cup {NoRequest}] /\ call \in [Requests -> Outcomes]
  BY DEF RequestsInv, Sound, PageTypeOK
<1>1. CASE EnterDo(r)
  <2> DEFINE c == IF inflight[KeyOf(r)] = NoRequest THEN r ELSE inflight[KeyOf(r)]
             pc == IF inflight[KeyOf(r)] = NoRequest THEN "fn" ELSE "wait"
             x == [req[r] EXCEPT !.pc = pc, !.call = c]
  <2>1. c \in Requests \cup {NoRequest} /\ pc \in {"fn", "wait"}
    <3>1. KeyOf(r) \in Keys
      BY <1>0, <1>1 DEF EnterDo, ReqAt, KeyOf, Sound
    <3> QED
      BY <1>0, <3>1
  <2>2. req' = [req EXCEPT ![r] = x]
    BY <1>1 DEF EnterDo
  <2> HIDE DEF c, pc
  <2>3. x \in Request(Contents) /\ x.pc = pc /\ x.page = req[r].page /\ x.new = req[r].new /\ x.key = req[r].key /\ x.raced = req[r].raced
    BY <1>0, <2>1 DEF Request
  <2> HIDE DEF x
  <2>4. Sound(x)
    BY <1>0, <1>1, <2>1, <2>3 DEF Sound, EnterDo, ReqAt
  <2> QED
    BY <2>2, <2>3, <2>4, RequestBecomes DEF Calm
<1>2. CASE JoinCall(r)
  <2>1. ReqGoto(r, "bypass") \/ Answer(r) \/ ReqGoto(r, "render")
    BY <1>2 DEF JoinCall
  <2> QED
    BY <1>2, <2>1, EmptyHandedKeeps, AnswerKeeps DEF JoinCall, ReqAt
<1>3. CASE StopWaiting(r)
  BY <1>3, EmptyHandedKeeps DEF StopWaiting, ReqAt
<1>4. CASE LookAgain(r)
  BY <1>4, EmptyHandedKeeps, ReturnKeeps DEF LookAgain, ReqAt, Outcomes
<1>5. CASE EvictPage(r)
  BY <1>5, EmptyHandedKeeps DEF EvictPage, ReqAt
<1>6. CASE Bypass(r)
  BY <1>6, AnswerKeeps DEF Bypass
<1>7. CASE CloseCall(r)
  BY <1>7, EmptyHandedKeeps DEF CloseCall, ReqAt
<1>8. CASE RemoveCall(r)
  <2>1. CASE call[r] = "panic"
    <3> DEFINE x == [IdleRequest EXCEPT !.pc = "dead"]
    <3>1. Sound(x) /\ x.page = NoPage
      BY IdleIsSound
    <3>2. req' = [req EXCEPT ![r] = x]
      BY <1>8, <2>1 DEF RemoveCall
    <3> HIDE DEF x
    <3> QED
      BY <3>1, <3>2, RequestBecomes DEF Calm
  <2>2. CASE call[r] # "panic"
    BY <1>8, <2>2, AnswerKeeps DEF RemoveCall
  <2> QED
    BY <2>1, <2>2
<1>9. CASE UpsertPage(r)
  BY <1>0, <1>9, GotoKeeps DEF UpsertPage, ReqAt, Sound
<1>10. CASE TagPage(r)
  <2> DEFINE x == [req[r] EXCEPT !.pc = "commit", !.new = WantedRows(r) \ tagRow]
  <2>1. KeyOf(r) \in Keys /\ KeyOf(r) = req[r].key
    BY <1>0, <1>10 DEF TagPage, ReqAt, KeyOf, Sound
  <2>2. WantedRows(r) \ tagRow \in SUBSET (Tags \X Keys)
    BY <2>1, PageAssumption DEF WantedRows, PageAssumption
  <2>3. \A y \in WantedRows(r) \ tagRow : y[2] = req[r].key
    BY DEF WantedRows, KeyOf
  <2>4. req' = [req EXCEPT ![r] = x]
    BY <1>10 DEF TagPage
  <2>5. /\ x \in Request(Contents) /\ x.pc = "commit" /\ x.page = req[r].page /\ x.new = WantedRows(r) \ tagRow
        /\ x.key = req[r].key /\ x.raced = req[r].raced
    BY <1>0, <2>2 DEF Request
  <2> HIDE DEF x
  <2>6. Sound(x)
    BY <1>0, <1>10, <2>1, <2>3, <2>5 DEF Sound, TagPage, ReqAt
  <2> QED
    BY <2>4, <2>5, <2>6, RequestBecomes DEF Calm
<1>11. CASE DeadlockAbortsStore(r)
  BY <1>11, ReturnKeeps DEF DeadlockAbortsStore, Deadlocked, ReqAt, Outcomes
<1>12. CASE StoreFails(r)
  BY <1>12, ReturnKeeps DEF StoreFails, Outcomes
<1>13. CASE Panic(r)
  BY <1>13, ReturnKeeps DEF Panic, ReqAt, Outcomes
<1>14. ASSUME NEW k \in Keys, Lookup(r, k) PROVE RequestKept(r) /\ Calm(r)
  <2>1. CASE Answer(r)
    BY <2>1, AnswerKeeps
  <2>2. ASSUME NEW pc \in {"do", "evict"}, req' = [req EXCEPT ![r].pc = pc, ![r].key = k] PROVE RequestKept(r) /\ Calm(r)
    <3> DEFINE x == [req[r] EXCEPT !.pc = pc, !.key = k]
    <3>1. req' = [req EXCEPT ![r] = x]
      BY <2>2
    <3>2. x \in Request(Contents) /\ x.pc = pc /\ x.page = req[r].page /\ x.new = req[r].new /\ x.key = k
      BY <1>0 DEF Request
    <3> HIDE DEF x
    <3>3. x.page = NoPage /\ Sound(x)
      BY <1>0, <1>14, <3>2 DEF Lookup, ReqAt, Sound
    <3> QED
      BY <3>1, <3>3, RequestBecomes DEF Calm
  <2> QED
    BY <1>14, <2>1, <2>2 DEF Lookup
<1> QED
  BY <1>1, <1>2, <1>3, <1>4, <1>5, <1>6, <1>7, <1>8, <1>9, <1>10, <1>11, <1>12, <1>13, <1>14

\* The tags a purge has still to take a snapshot for.
Remaining(p) == CASE purge[p].pc = "begin" -> ToSet(purge[p].tags)
                  [] purge[p].pc = "values" -> ToSet(Tail(purge[p].tags))
                  [] OTHER -> {}

\* Purges at work have a tag, and those after a reindex have their worker waiting.
PurgesInv ==
    /\ \A p \in Purgers : purge[p].pc # "idle" => purge[p].tags # <<>>
    /\ \A w \in Workers : purge[IndexedPurge(w)].pc # "idle" => WorkerAt(w, "purging")

\* What a step of one purge keeps.
PurgeKept(p) ==
    /\ purge' \in [Purgers -> Purge] /\ \A q \in Purgers \ {p} : purge'[q] = purge[q]
    /\ purge'[p].pc # "idle" => purge'[p].tags # <<>>

LEMMA IdlePurgeType == IdlePurge \in Purge /\ IdlePurge.pc = "idle"
<1>1. <<>> \in Seq(Tags)
  OBVIOUS
<1> QED
  BY <1>1 DEF IdlePurge, Purge

LEMMA PurgeStarts ==
    ASSUME PageTypeOK(Contents), NEW p \in Purgers, NEW tags \in Seq(Tags), tags # <<>>, StartPurge(p, tags)
    PROVE  PurgeKept(p) /\ purge'[p].pc = "begin" /\ Remaining(p)' = ToSet(tags)
<1> DEFINE x == [IdlePurge EXCEPT !.pc = "begin", !.tags = tags]
<1>1. x \in Purge /\ x.pc = "begin" /\ x.tags = tags
  BY DEF IdlePurge, Purge
<1>2. purge' = [purge EXCEPT ![p] = x]
  BY DEF StartPurge
<1> HIDE DEF x
<1>3. purge'[p] = x /\ purge' \in [Purgers -> Purge] /\ \A q \in Purgers \ {p} : purge'[q] = purge[q]
  BY <1>1, <1>2 DEF PageTypeOK
<1> QED
  BY <1>1, <1>3 DEF PurgeKept, Remaining

LEMMA PurgeEnds ==
    ASSUME PageTypeOK(Contents), NEW p \in Purgers, purge' = [purge EXCEPT ![p] = IdlePurge]
    PROVE  PurgeKept(p) /\ purge'[p].pc = "idle"
<1>1. purge'[p] = IdlePurge /\ purge' \in [Purgers -> Purge] /\ \A q \in Purgers \ {p} : purge'[q] = purge[q]
  BY IdlePurgeType DEF PageTypeOK
<1> QED
  BY <1>1, IdlePurgeType DEF PurgeKept

LEMMA PurgeGoesOn ==
    ASSUME PageTypeOK(Contents), PurgesInv, NEW p \in Purgers, purge[p].pc # "idle", NextTag(p)
    PROVE  /\ PurgeKept(p) /\ purge'[p].pc \in {"idle", "begin"}
           /\ Remaining(p)' = ToSet(Tail(purge[p].tags))
<1> DEFINE s == purge[p].tags
           x == IF Len(s) = 1 THEN IdlePurge ELSE [IdlePurge EXCEPT !.pc = "begin", !.tags = Tail(s)]
<1>1. s \in Seq(Tags) /\ s # <<>>
  BY DEF PageTypeOK, Purge, PurgesInv
<1>2. /\ Tail(s) \in Seq(Tags) /\ (Len(s) = 1 => ToSet(Tail(s)) = {})
      /\ Len(s) # 1 => Tail(s) # <<>>
  BY <1>1, HeadAndTail
<1>3. purge' = [purge EXCEPT ![p] = x]
  BY DEF NextTag
<1> HIDE DEF s
<1>4. x \in Purge /\ IF Len(s) = 1 THEN x.pc = "idle" ELSE x.pc = "begin" /\ x.tags = Tail(s)
  BY <1>2, IdlePurgeType DEF IdlePurge, Purge
<1> HIDE DEF x
<1>5. purge'[p] = x /\ purge' \in [Purgers -> Purge] /\ \A q \in Purgers \ {p} : purge'[q] = purge[q]
  BY <1>3, <1>4 DEF PageTypeOK
<1> QED
  BY <1>2, <1>4, <1>5 DEF PurgeKept, Remaining, s

\* The tags of an event are those of the product and of the bundles it is part of.
LEMMA EventTagsOf ==
    ASSUME NEW e \in Events, up.events[e].product \in Products
    PROVE  LET p == up.events[e].product IN
           /\ EventTags(e) \in Seq(Tags) /\ EventTags(e) # <<>>
           /\ {p} \cup Parents[p] \subseteq ToSet(EventTags(e)) /\ {p} \cup Parents[p] \subseteq Products
<1> DEFINE p == up.events[e].product
           s == SetToSeq(Parents[p] \ {p})
           y == <<p>> \o s
           z == <<Listing>> \o y
<1>1. Products \subseteq Tags /\ Listing \in Tags /\ p \in Products
  BY CatalogueAssumption DEF CatalogueAssumption
<1>2. s \in Seq(Tags) /\ ToSet(s) = Parents[p] \ {p} /\ Parents[p] \subseteq Products
  BY <1>1, SearchAssumption, ProductAndParents
<1>3. y \in Seq(Tags) /\ y # <<>> /\ ToSet(y) = {p} \cup Parents[p]
  <2>1. p \in Tags
    BY <1>1
  <2> HIDE DEF s, p
  <2> QED
    BY <1>2, <2>1, InFront
<1>4. z \in Seq(Tags) /\ z # <<>> /\ ToSet(z) = {Listing} \cup ToSet(y)
  <2> HIDE DEF y
  <2> QED
    BY <1>1, <1>3, InFront
<1>5. EventTags(e) = z \/ EventTags(e) = y
  BY DEF EventTags
<1> HIDE DEF y, z
<1> QED
  BY <1>2, <1>3, <1>4, <1>5

\* The tags after a reindex begin with the listing's.
LEMMA IndexedTagsOf ==
    ASSUME SearchTypeOK, NEW i \in Runs
    PROVE  IndexedTags(i) \in Seq(Tags) /\ IndexedTags(i) # <<>> /\ Listing \in ToSet(IndexedTags(i))
<1> DEFINE s == IF runs[i].all THEN <<>> ELSE SetToSeq(runs[i].ids)
<1>1. runs[i].ids \in SUBSET Tags /\ IsFiniteSet(runs[i].ids) /\ Listing \in Tags
  BY CatalogueAssumption, SearchAssumption, FS_Subset DEF CatalogueAssumption, SearchAssumption, SearchTypeOK, Run
<1>2. s \in Seq(Tags)
  BY <1>1, ListOfSet
<1>3. IndexedTags(i) = <<Listing>> \o s
  BY DEF IndexedTags
<1> HIDE DEF s
<1> QED
  BY <1>1, <1>2, <1>3, InFront

\* A purge takes its snapshot.
LEMMA SnapshotStep ==
    ASSUME PageTypeOK(Contents), RequestsInv, PurgesInv, NEW p \in Purgers, DeleteTagRows(p)
    PROVE  LET tag == Head(purge[p].tags) IN
           /\ PurgeKept(p) /\ purge'[p].pc = "values" /\ Remaining(p) = {tag} \cup Remaining(p)'
           /\ purge'[p].keys = {k \in Keys : row[k] # NoPage /\ <<tag, k>> \in tagRow}
           /\ row' \in [Keys -> PageRow(Contents) \cup {NoPage}] /\ UNCHANGED <<tagRow, inflight, call, purgeFailed>>
           /\ \A k \in Keys : (row'[k] = NoPage <=> row[k] = NoPage)
           /\ \A k \in Keys : row[k] # NoPage => /\ row'[k].content = row[k].content /\ row'[k].expired = row[k].expired
                                                 /\ tag \notin TagsOf[k] => row'[k].raced = row[k].raced
           /\ req' \in [Requests -> Request(Contents)] /\ RequestsInv'
           /\ \A r \in Requests : /\ req'[r].page = req[r].page /\ req'[r].key = req[r].key
                                  /\ req[r].page # NoPage => IF tag \in TagsOf[req[r].key] THEN req'[r].raced
                                                             ELSE req'[r].raced = req[r].raced
<1> DEFINE tag == Head(purge[p].tags)
           rows == {x \in tagRow : x[1] = tag}
           about == {k \in Keys : tag \in TagsOf[k]}
           keys == {k \in Keys : row[k] # NoPage /\ <<tag, k>> \in rows}
           x == [pc |-> "values", tags |-> purge[p].tags, rows |-> rows, keys |-> keys]
<1>0. /\ row \in [Keys -> PageRow(Contents) \cup {NoPage}] /\ tagRow \subseteq Tags \X Keys
      /\ req \in [Requests -> Request(Contents)] /\ purge \in [Purgers -> Purge]
  BY DEF PageTypeOK
<1>1. purge[p].tags \in Seq(Tags) /\ purge[p].tags # <<>> /\ purge[p].pc = "begin"
  BY <1>0 DEF Purge, PurgesInv, DeleteTagRows
<1>2. x \in Purge
  BY <1>0, <1>1 DEF Purge
<1>3. /\ purge' = [purge EXCEPT ![p] = x]
      /\ row' = [k \in Keys |-> IF k \in about /\ row[k] # NoPage THEN [row[k] EXCEPT !.raced = FALSE] ELSE row[k]]
      /\ req' = [r \in Requests |-> IF req[r].page # NoPage /\ KeyOf(r) \in about THEN [req[r] EXCEPT !.raced = TRUE]
                                    ELSE req[r]]
      /\ UNCHANGED <<tagRow, inflight, call, purgeFailed>>
  BY DEF DeleteTagRows, DeleteRowsOf, coalescer
<1>4. PurgeKept(p) /\ purge'[p].pc = "values" /\ purge'[p].keys = keys /\ purge'[p].tags = purge[p].tags
  <2>1. x.pc = "values" /\ x.keys = keys /\ x.tags = purge[p].tags
    OBVIOUS
  <2> HIDE DEF x
  <2> QED
    BY <1>0, <1>1, <1>2, <1>3, <2>1 DEF PurgeKept
<1>5. Remaining(p) = {tag} \cup Remaining(p)'
  <2>1. ToSet(purge[p].tags) = {tag} \cup ToSet(Tail(purge[p].tags))
    BY <1>1, HeadAndTail
  <2> QED
    BY <1>1, <1>4, <2>1 DEF Remaining
<1>6. keys = {k \in Keys : row[k] # NoPage /\ <<tag, k>> \in tagRow}
  OBVIOUS
<1>7. NoPage \notin PageRow(Contents)
  BY ContentAssumption DEF ContentAssumption
<1>8. ASSUME NEW k \in Keys
      PROVE  /\ row'[k] \in PageRow(Contents) \cup {NoPage} /\ (row'[k] = NoPage <=> row[k] = NoPage)
             /\ row[k] # NoPage => /\ row'[k].content = row[k].content /\ row'[k].expired = row[k].expired
                                   /\ tag \notin TagsOf[k] => row'[k].raced = row[k].raced
  <2> HIDE DEF tag
  <2>1. CASE k \in about /\ row[k] # NoPage
    <3> DEFINE y == [row[k] EXCEPT !.raced = FALSE]
    <3>1. row[k] \in PageRow(Contents)
      BY <1>0, <2>1
    <3>2. y \in PageRow(Contents) /\ y.content = row[k].content /\ y.expired = row[k].expired
      BY <3>1 DEF PageRow
    <3>3. row'[k] = y
      BY <1>3, <2>1
    <3> HIDE DEF y
    <3> QED
      BY <1>7, <2>1, <3>2, <3>3
  <2>2. CASE ~(k \in about /\ row[k] # NoPage)
    BY <1>0, <1>3, <2>2
  <2> QED
    BY <2>1, <2>2
<1>9. row' \in [Keys -> PageRow(Contents) \cup {NoPage}]
  BY <1>3, <1>8
<1>10. ASSUME NEW r \in Requests
       PROVE  /\ req'[r] \in Request(Contents) /\ Sound(req'[r])
              /\ req'[r].page = req[r].page /\ req'[r].key = req[r].key
              /\ req[r].page # NoPage => IF tag \in TagsOf[req[r].key] THEN req'[r].raced
                                         ELSE req'[r].raced = req[r].raced
  <2>1. Sound(req[r]) /\ req[r] \in Request(Contents)
    BY DEF RequestsInv, Sound
  <2>2. req[r].page # NoPage => KeyOf(r) \in Keys /\ KeyOf(r) = req[r].key
    BY <2>1 DEF Sound, KeyOf
  <2> HIDE DEF tag
  <2>3. CASE req[r].page # NoPage /\ KeyOf(r) \in about
    <3> DEFINE y == [req[r] EXCEPT !.raced = TRUE]
    <3>1. y \in Request(Contents) /\ y.pc = req[r].pc /\ y.page = req[r].page /\ y.key = req[r].key /\ y.new = req[r].new /\ y.raced
      BY <2>1 DEF Request
    <3>2. req'[r] = y
      BY <1>3, <2>3
    <3> HIDE DEF y
    <3>3. Sound(y)
      BY <2>1, <3>1 DEF Sound
    <3>4. tag \in TagsOf[req[r].key]
      BY <2>2, <2>3
    <3> QED
      BY <3>1, <3>2, <3>3, <3>4
  <2>4. CASE ~(req[r].page # NoPage /\ KeyOf(r) \in about)
    <3>1. req'[r] = req[r]
      BY <1>3, <2>4
    <3>2. req[r].page # NoPage => tag \notin TagsOf[req[r].key]
      BY <2>2, <2>4
    <3> QED
      BY <2>1, <3>1, <3>2
  <2> QED
    BY <2>3, <2>4
<1>11. req' \in [Requests -> Request(Contents)] /\ RequestsInv'
  BY <1>3, <1>10 DEF RequestsInv
<1> HIDE DEF x, rows, about, keys
<1> QED
  BY <1>3, <1>4, <1>5, <1>6, <1>8, <1>9, <1>10, <1>11

\* Requests under way, one of which takes a step.
LEMMA OneRequest ==
    ASSUME RequestsInv, NEW r \in Requests, RequestKept(r)
    PROVE  RequestsInv'
  BY DEF RequestsInv, RequestKept

\* What a page shows.
LEMMA RenderedType ==
    ASSUME SearchTypeOK, NEW k \in Keys
    PROVE  Rendered(k) \in Contents /\ Rendered(k) # NoPage /\ Subject[k] \in TagsOf[k] /\ Subject[k] \in Products \cup {Listing}
<1>1. Subject[k] \in Products \cup {Listing} /\ Subject[k] \in TagsOf[k]
  BY CatalogueAssumption DEF CatalogueAssumption
<1>2. CASE Subject[k] = Listing
  <2>1. Rendered(k) \in [Products -> Documents]
    BY <1>2 DEF Rendered, SearchTypeOK
  <2> QED
    BY <1>1, <2>1, ContentAssumption DEF Contents, ContentAssumption
<1>3. CASE Subject[k] # Listing
  <2> DEFINE p == Subject[k]
             S == {x \in Products : x = p \/ p \in Parents[x]}
  <2>1. Rendered(k) = Content(p) /\ p \in Products
    BY <1>1, <1>3 DEF Rendered
  <2>2. Content(p) \in [S -> Nat] /\ S \in SUBSET Products
    BY DEF Content, SearchTypeOK
  <2>3. Content(p) \in Documents
    BY <2>1, ContentType
  <2> QED
    BY <1>1, <2>1, <2>2, <2>3, ContentAssumption DEF Contents, ContentAssumption
<1> QED
  BY <1>2, <1>3

LEMMA RenderKeeps ==
    ASSUME SearchTypeOK, PageTypeOK(Contents), RequestsInv, NEW r \in Requests, Render(r, Rendered(KeyOf(r)))
    PROVE  RequestKept(r) /\ (Calm(r) \/ (req'[r].page = Rendered(KeyOf(r)) /\ req'[r].key = req[r].key))
<1>0. Sound(req[r]) /\ req[r] \in Request(Contents) /\ ReqAt(r, "render")
  BY DEF RequestsInv, Sound, Render
<1>1. CASE req' = [req EXCEPT ![r].pc = "upsert", ![r].page = Rendered(KeyOf(r))]
  <2> DEFINE c == Rendered(KeyOf(r))
             x == [req[r] EXCEPT !.pc = "upsert", !.page = c]
  <2>1. KeyOf(r) \in Keys
    BY <1>0 DEF Sound, ReqAt, KeyOf
  <2>2. c \in Contents /\ c # NoPage
    BY <2>1, RenderedType
  <2> HIDE DEF c
  <2>3. x \in Request(Contents) /\ x.pc = "upsert" /\ x.page = c /\ x.key = req[r].key /\ x.new = req[r].new
    BY <1>0, <2>2 DEF Request
  <2>4. req' = [req EXCEPT ![r] = x]
    BY <1>1 DEF c
  <2> HIDE DEF x
  <2>5. Sound(x)
    BY <1>0, <2>2, <2>3 DEF Sound, ReqAt
  <2> QED
    BY <2>3, <2>4, <2>5, RequestBecomes DEF c
<1>2. CASE Return(r, "unstored")
  BY <1>0, <1>2, ReturnKeeps DEF ReqAt, Outcomes
<1> QED
  BY <1>1, <1>2 DEF Render

\* Types over a step of a request.
LEMMA RequestStepKeeps ==
    ASSUME SearchTypeOK, PageTypeOK(Contents), RequestsInv, NEW r \in Requests,
           RequestStep(r) \/ RenderStep(r) \/ StoreFails(r) \/ \E k \in Keys : Lookup(r, k)
    PROVE  PageTypeOK(Contents)' /\ RequestsInv' /\ UNCHANGED <<purge, purgeFailed>>
<1>0. /\ row \in [Keys -> PageRow(Contents) \cup {NoPage}] /\ tagRow \subseteq Tags \X Keys
      /\ inflight \in [Keys -> Requests \cup {NoRequest}] /\ call \in [Requests -> Outcomes]
      /\ Sound(req[r]) /\ req[r] \in Request(Contents)
  BY DEF PageTypeOK, RequestsInv, Sound
<1>1. UNCHANGED <<purge, purgeFailed>>
  <2> USE DEF purging
  <2>1. CASE RequestStep(r)
    <3> QED
      BY <2>1 DEF RequestStep, EnterDo, JoinCall, StopWaiting, LookAgain, EvictPage, Bypass, CloseCall, RemoveCall,
                   UpsertPage, TagPage, CommitPage, DeadlockAbortsStore
  <2> QED
    BY <2>1 DEF RenderStep, Render, Panic, StoreFails, Lookup
<1>2. RequestKept(r)
  <2>1. CASE CommitPage(r)
    BY <2>1, ReturnKeeps DEF CommitPage, ReqAt, Outcomes
  <2>2. CASE Render(r, Rendered(KeyOf(r)))
    BY <2>2, RenderKeeps
  <2> QED
    BY <2>1, <2>2, CalmStep DEF RequestStep, RenderStep
<1>3. inflight' \in [Keys -> Requests \cup {NoRequest}] /\ call' \in [Requests -> Outcomes]
  <2>1. CASE EnterDo(r) \/ RemoveCall(r)
    BY <1>0, <2>1 DEF EnterDo, RemoveCall
  <2>2. CASE CloseCall(r)
    <3>1. req[r].outcome \in Outcomes
      BY <1>0 DEF Request
    <3> QED
      BY <1>0, <2>2, <3>1 DEF CloseCall
  <2>3. CASE ~EnterDo(r) /\ ~RemoveCall(r) /\ ~CloseCall(r)
    <3>1. UNCHANGED coalescer
      <4>1. CASE RequestStep(r)
        BY <2>3, <4>1 DEF RequestStep, JoinCall, StopWaiting, LookAgain, EvictPage, Bypass,
                   UpsertPage, TagPage, CommitPage, DeadlockAbortsStore
      <4> QED
        BY <4>1 DEF RenderStep, Render, Panic, StoreFails, Lookup
    <3> QED
      BY <1>0, <3>1 DEF coalescer
  <2> QED
    BY <2>1, <2>2, <2>3
<1>4. row' \in [Keys -> PageRow(Contents) \cup {NoPage}] /\ tagRow' \subseteq Tags \X Keys
  <2>1. CASE EvictPage(r)
    BY <1>0, <2>1 DEF EvictPage, store
  <2>2. CASE CommitPage(r)
    <3> DEFINE x == [content |-> req[r].page, expired |-> FALSE, raced |-> req[r].raced]
    <3>1. req[r].raced \in BOOLEAN /\ req[r].page \in Contents \cup {NoPage} /\ req[r].new \subseteq Tags \X Keys
      BY <1>0 DEF Request
    <3>2. req[r].page # NoPage => x \in PageRow(Contents)
      BY <3>1 DEF PageRow
    <3>3. row' = [row EXCEPT ![KeyOf(r)] = x] /\ tagRow' = tagRow \cup req[r].new
      BY <2>2 DEF CommitPage
    <3>4. req[r].page # NoPage
      BY <2>2 DEF CommitPage, ReqAt, RequestsInv, Sound
    <3> HIDE DEF x
    <3> QED
      BY <1>0, <3>1, <3>2, <3>3, <3>4
  <2>3. CASE ~EvictPage(r) /\ ~CommitPage(r)
    <3>1. UNCHANGED store
      <4>1. CASE RequestStep(r)
        BY <2>3, <4>1 DEF RequestStep, EnterDo, JoinCall, StopWaiting, LookAgain, Bypass, CloseCall, RemoveCall,
                   UpsertPage, TagPage, DeadlockAbortsStore
      <4> QED
        BY <4>1 DEF RenderStep, Render, Panic, StoreFails, Lookup
    <3> QED
      BY <1>0, <3>1 DEF store
  <2> QED
    BY <2>1, <2>2, <2>3
<1>5. RequestsInv'
  BY <1>2, OneRequest
<1> QED
  BY <1>1, <1>2, <1>3, <1>4, <1>5 DEF PageTypeOK, RequestKept

\* Pages that expire and are swept.
LEMMA SweepKeeps ==
    ASSUME PageTypeOK(Contents), RequestsInv, (\E k \in Keys : ExpirePage(k)) \/ SweepPages \/ SweepTags
    PROVE  /\ PageTypeOK(Contents)' /\ UNCHANGED <<req, purge, purgeFailed>> /\ tagRow' \subseteq tagRow
           /\ \A k \in Keys : Live(k)' => row'[k] = row[k]
<1>0. row \in [Keys -> PageRow(Contents) \cup {NoPage}] /\ tagRow \subseteq Tags \X Keys
  BY DEF PageTypeOK
<1>1. UNCHANGED <<req, inflight, call, purge, purgeFailed>>
  BY DEF ExpirePage, SweepPages, SweepTags, coalescer, purging
<1>2. ASSUME NEW k \in Keys, ExpirePage(k)
      PROVE  /\ row' \in [Keys -> PageRow(Contents) \cup {NoPage}] /\ tagRow' = tagRow
             /\ \A j \in Keys : Live(j)' => row'[j] = row[j]
  <2> DEFINE x == [row[k] EXCEPT !.expired = TRUE]
  <2>1. x \in PageRow(Contents) /\ x.expired
    BY <1>0, <1>2 DEF ExpirePage, Live, PageRow
  <2>2. row' = [row EXCEPT ![k] = x] /\ tagRow' = tagRow
    BY <1>2 DEF ExpirePage
  <2> HIDE DEF x
  <2>3. row'[k] = x /\ row' \in [Keys -> PageRow(Contents) \cup {NoPage}] /\ \A j \in Keys \ {k} : row'[j] = row[j]
    BY <1>0, <2>1, <2>2
  <2> QED
    BY <2>1, <2>2, <2>3 DEF Live
<1>3. CASE SweepPages
  <2>1. tagRow' = tagRow /\ \A k \in Keys : row'[k] \in {row[k], NoPage}
    BY <1>3 DEF SweepPages
  <2>2. row' \in [Keys -> PageRow(Contents) \cup {NoPage}]
    BY <1>0, <1>3, <2>1 DEF SweepPages
  <2> QED
    BY <1>0, <1>1, <2>1, <2>2 DEF PageTypeOK, Live
<1>4. CASE SweepTags
  BY <1>0, <1>1, <1>4 DEF SweepTags, PageTypeOK
<1> QED
  BY <1>0, <1>1, <1>2, <1>3, <1>4 DEF PageTypeOK

\* A purge deletes its pages.
LEMMA DeletionKeeps ==
    ASSUME PageTypeOK(Contents), PurgesInv, NEW p \in Purgers, DeletePages(p)
    PROVE  /\ PageTypeOK(Contents)' /\ UNCHANGED <<req, purgeFailed>> /\ tagRow' \subseteq tagRow
           /\ PurgeKept(p) /\ purge[p].pc = "values" /\ purge'[p].pc # "values" /\ Remaining(p)' = Remaining(p)
           /\ \A k \in Keys : IF k \in purge[p].keys THEN row'[k] = NoPage ELSE row'[k] = row[k]
<1>0. row \in [Keys -> PageRow(Contents) \cup {NoPage}] /\ tagRow \subseteq Tags \X Keys
  BY DEF PageTypeOK
<1>1. /\ purge[p].pc = "values" /\ UNCHANGED <<req, inflight, call, purgeFailed>>
      /\ row' = [k \in Keys |-> IF k \in purge[p].keys THEN NoPage ELSE row[k]]
      /\ tagRow' = tagRow \ purge[p].rows /\ NextTag(p)
  BY DEF DeletePages, coalescer
<1>2. PurgeKept(p) /\ purge'[p].pc \in {"idle", "begin"} /\ Remaining(p)' = ToSet(Tail(purge[p].tags))
  BY <1>1, PurgeGoesOn
<1>3. row' \in [Keys -> PageRow(Contents) \cup {NoPage}]
  BY <1>0, <1>1
<1> QED
  BY <1>0, <1>1, <1>2, <1>3 DEF PageTypeOK, PurgeKept, Remaining

\* Of a product event that has not happened nothing is under way.
FreshInv == \A e \in fresh : TaskAt(<<"event", e>>, "idle") /\ purge[EventPurge(e)].pc = "idle"

LEMMA IdleTaskStays ==
    ASSUME SearchTypeOK, SearchStep, NEW e \in Events, TaskAt(<<"event", e>>, "idle")
    PROVE  TaskAt(<<"event", e>>, "idle")'
<1> DEFINE u == <<"event", e>>
<1>0. task \in [Tasks -> Task] /\ u \in Tasks /\ task[u].pc = "idle"
  BY DEF SearchTypeOK, Tasks, TaskAt
<1>1. ASSUME NEW t \in Tasks, LookupFails(t) \/ Allow(t) \/ ScheduleTrailingFlush(t) \/ CreateRun(t) \/ Enqueue(t) \/ TriggerFails(t) \/ UndoRun(t)
      PROVE  task'[u] = task[u]
  <2>1. t # u
    BY <1>0, <1>1 DEF LookupFails, Allow, ScheduleTrailingFlush, CreateRun, Enqueue, TriggerFails, UndoRun, TaskAt
  <2> HIDE DEF u
  <2> QED
    BY <1>0, <1>1, <2>1 DEF LookupFails, Allow, ScheduleTrailingFlush, CreateRun, Enqueue, TriggerFails, UndoRun,
                TaskGoto, NextProduct
<1>2. ASSUME NEW p \in Products, FlushTrailing(p) PROVE task'[u] = task[u]
  <2>1. u # <<"flush", p>>
    OBVIOUS
  <2> HIDE DEF u
  <2> QED
    BY <1>0, <1>2, <2>1 DEF FlushTrailing
<1>3. CASE UNCHANGED task
  BY SMTT(30), <1>0, <1>3 DEF TaskAt
<1>4. task'[u] = task[u] \/ UNCHANGED task
  BY <1>1, <1>2 DEF SearchStep, WindowEnds, Dequeue, IndexProduct, ListProducts, HandleFails, GiveUp, FinishRun,
     Complete, Fail, SweepLooks, ReconcileManually, SweepFinishes, triggering
<1> QED
  BY <1>0, <1>3, <1>4 DEF TaskAt

\* A worker that waits for its purge goes on waiting.
LEMMA PurgingStays ==
    ASSUME SearchTypeOK, SearchStep, NEW v \in Workers, WorkerAt(v, "purging")
    PROVE  worker'[v] = worker[v]
<1>0. worker \in [Workers -> Worker] /\ worker[v].pc = "purging"
  BY DEF SearchTypeOK, WorkerAt
<1>1. ASSUME NEW w \in Workers,
             \/ \E i \in Runs : Dequeue(w, i)
             \/ \E p \in Products : IndexProduct(w, p)
             \/ ListProducts(w) \/ HandleFails(w) \/ GiveUp(w) \/ FinishRun(w) \/ Complete(w) \/ Fail(w)
      PROVE  worker'[v] = worker[v]
  <2>1. w # v
    BY <1>0, <1>1 DEF Dequeue, IndexProduct, ListProducts, HandleFails, GiveUp, FinishRun, Complete, Fail, WorkerAt
  <2> QED
    BY <1>0, <1>1, <2>1 DEF Dequeue, IndexProduct, ListProducts, HandleFails, GiveUp, FinishRun, Complete, Fail, WorkerGoto
<1>2. CASE ~\E w \in Workers :
             \/ \E i \in Runs : Dequeue(w, i)
             \/ \E p \in Products : IndexProduct(w, p)
             \/ ListProducts(w) \/ HandleFails(w) \/ GiveUp(w) \/ FinishRun(w) \/ Complete(w) \/ Fail(w)
  <2>1. UNCHANGED worker
    BY <1>2 DEF SearchStep, WindowEnds, LookupFails, Allow, ScheduleTrailingFlush, CreateRun, Enqueue, TriggerFails,
       UndoRun, FlushTrailing, SweepLooks, ReconcileManually, SweepFinishes, triggering
  <2> QED
    BY <2>1
<1> QED
  BY <1>1, <1>2

------------------------------------------------------------------------------
(* All of it *)

AllInv == TypeOK /\ SearchInv /\ RequestsInv /\ PurgesInv /\ FreshInv

LEMMA AllInit == Init => AllInv
<1> SUFFICES ASSUME Init PROVE AllInv
  OBVIOUS
<1>1. up \in Setups /\ up.faults \in Nat /\ fresh \subseteq Events
  BY CatalogueAssumption DEF Init, CatalogueAssumption
<1>2. /\ db = [p \in Products |-> 0] /\ index = [p \in Products |-> Content(p)]
      /\ recent = {} /\ trailing = {} /\ lost = {} /\ task = [t \in Tasks |-> NoTask]
      /\ runs = [i \in Runs |-> NoRun] /\ job = [i \in Runs |-> NoJob] /\ worker = [w \in Workers |-> IdleWorker]
      /\ sweep = 0 /\ budget \in Nat
  BY <1>1 DEF Init, SearchInit
<1>3. SearchTypeOK
  <2>1. NoTask \in Task
    <3>1. <<>> \in Seq(Products \cup {Everything})
      OBVIOUS
    <3> QED
      BY <3>1 DEF NoTask, Task
  <2>2. NoRun \in Run /\ NoJob \in Job
    BY SearchAssumption DEF NoRun, Run, NoJob, Job, SearchAssumption
  <2>3. IdleWorker \in Worker
    BY DEF IdleWorker, Worker
  <2>4. index \in [Products -> Documents]
    <3>1. ASSUME NEW p \in Products PROVE Content(p) \in Documents
      <4> DEFINE S == {x \in Products : x = p \/ p \in Parents[x]}
      <4>1. Content(p) \in [S -> Nat] /\ S \in SUBSET Products
        BY <1>2 DEF Content
      <4> QED
        BY <4>1 DEF Documents
    <3> QED
      BY <1>2, <3>1
  <2> QED
    BY <1>2, <2>1, <2>2, <2>3, <2>4 DEF SearchTypeOK
<1>4. SearchInv
  <2>1. Used = {}
    BY <1>2 DEF Used, NoRun
  <2>2. MaxRetries \in Nat \ {0} /\ MaxRuns \in Nat
    BY SearchAssumption DEF SearchAssumption
  <2>3. 0 \in 0..MaxRuns /\ 1..0 = {}
    BY <2>2
  <2>4. \A t \in Tasks : task[t].pc = "idle" /\ task[t].todo = <<>>
    BY <1>2 DEF NoTask
  <2>5. \A t \in Tasks : TaskInv(t) /\ ~TaskAt(t, "enqueue")
    BY <2>4 DEF TaskInv, TaskAt, Later
  <2>6. \A w \in Workers : worker[w].pc = "idle" /\ worker[w].run = 0
    BY <1>2 DEF IdleWorker
  <2>7. \A w \in Workers : WorkerInv(w)
    BY <2>6 DEF WorkerInv, WorkerAt, RunOf
  <2>8. \A i \in Runs : job[i].status = "none" /\ job[i].attempts < MaxRetries
    BY <1>2, <2>2 DEF NoJob
  <2> QED
    BY <2>1, <2>3, <2>5, <2>6, <2>7, <2>8 DEF SearchInv, RunOf
<1>5. PageTypeOK(Contents) /\ RequestsInv
  <2>1. Sound(IdleRequest) /\ IdleRequest \in Request(Contents)
    BY IdleIsSound DEF Sound
  <2> QED
    BY <2>1, IdlePurgeType DEF Init, PageInit, PageTypeOK, RequestsInv, Outcomes
<1>6. PurgesInv /\ FreshInv
  <2>1. \A p \in Purgers : purge[p].pc = "idle"
    BY IdlePurgeType DEF Init, PageInit
  <2>2. \A e \in Events : EventPurge(e) \in Purgers /\ <<"event", e>> \in Tasks
    BY CatalogueAssumption DEF CatalogueAssumption, EventPurge, Tasks
  <2>3. \A w \in Workers : IndexedPurge(w) \in Purgers
    BY CatalogueAssumption DEF CatalogueAssumption, IndexedPurge
  <2>4. \A t \in Tasks : task[t].pc = "idle"
    BY <1>2 DEF NoTask
  <2> QED
    BY <1>1, <2>1, <2>2, <2>3, <2>4 DEF PurgesInv, FreshInv, TaskAt
<1> QED
  BY <1>1, <1>3, <1>4, <1>5, <1>6, CatInitial DEF AllInv, TypeOK, Init

\* Steps that leave the search index alone.
LEMMA SearchSame ==
    ASSUME SearchTypeOK, SearchInv, UNCHANGED <<db, index, triggering, runs, job, worker, sweep, lost>>, budget' \in Nat
    PROVE  SearchTypeOK' /\ SearchInv'
<1> USE DEF triggering
<1>1. SearchTypeOK'
  BY DEF SearchTypeOK
<1>2. RunsKept /\ WorkersKept
  BY RunsUnchanged, WorkersAlone
<1>3. TasksKept
  BY <1>2, TasksAlone DEF SearchTypeOK
<1> QED
  BY <1>1, <1>2, <1>3, InvKept

\* Steps that leave the pages alone, purges and requests included.
LEMMA PagesSame ==
    ASSUME PageTypeOK(Contents), RequestsInv, UNCHANGED pageVars
    PROVE  PageTypeOK(Contents)' /\ RequestsInv'
  BY DEF pageVars, PageTypeOK, RequestsInv

\* The step of one purge, while the workers and the other purges wait.
LEMMA OnePurge ==
    ASSUME PurgesInv, NEW p \in Purgers, PurgeKept(p),
           \A w \in Workers : WorkerAt(w, "purging") => WorkerAt(w, "purging")',
           \A w \in Workers : p = IndexedPurge(w) => purge'[p].pc = "idle" \/ WorkerAt(w, "purging")'
    PROVE  PurgesInv'
<1>1. \A w \in Workers : IndexedPurge(w) \in Purgers
  BY CatalogueAssumption DEF CatalogueAssumption, IndexedPurge
<1> QED
  BY <1>1 DEF PurgesInv, PurgeKept

\* Names of purges and tasks.
LEMMA Names ==
    /\ \A e \in Events : EventPurge(e) \in Purgers /\ <<"event", e>> \in Tasks /\ \A w \in Workers : EventPurge(e) # IndexedPurge(w)
    /\ \A w \in Workers : IndexedPurge(w) \in Purgers
    /\ \A e, d \in Events : EventPurge(e) = EventPurge(d) => e = d
    /\ \A w, u \in Workers : IndexedPurge(w) = IndexedPurge(u) => w = u
    /\ \A p \in Purgers : (\E e \in Events : p = EventPurge(e)) \/ \E w \in Workers : p = IndexedPurge(w)
  BY CatalogueAssumption DEF CatalogueAssumption, EventPurge, IndexedPurge, Tasks

LEMMA EditKeeps ==
    ASSUME AllInv, NEW e \in Events, Edit(e)
    PROVE  SearchTypeOK' /\ SearchInv' /\ PageTypeOK(Contents)' /\ RequestsInv' /\ PurgesInv' /\ FreshInv'
<1> DEFINE p == up.events[e].product
<1>0. /\ SearchTypeOK /\ SearchInv /\ PageTypeOK(Contents) /\ RequestsInv /\ PurgesInv /\ FreshInv
      /\ up \in Setups /\ fresh \subseteq Events
  BY DEF AllInv, TypeOK
<1>1. p \in Products
  BY <1>0, CatalogueAssumption DEF CatalogueAssumption
<1>2. /\ e \in fresh /\ fresh' = fresh \ {e} /\ db' = [db EXCEPT ![p] = @ + 1]
      /\ StartReindex(e, p) /\ StartPurge(EventPurge(e), EventTags(e)) /\ lost' = lost \ ({p} \cup Parents[p])
      /\ UNCHANGED <<index, recent, trailing, runs, job, worker, sweep, budget>>
      /\ UNCHANGED <<up, row, tagRow, req, inflight, call, purgeFailed>>
  BY DEF Edit, Commit, store, coalescer
<1>3. TaskAt(<<"event", e>>, "idle") /\ purge[EventPurge(e)].pc = "idle"
  BY <1>0, <1>2 DEF FreshInv
<1>4. RunsKept /\ TasksKept
  BY <1>0, <1>1, <1>2, <1>3, EventStep
<1>5. WorkersKept /\ SearchInv'
  BY <1>0, <1>2, <1>4, WorkersAlone, InvKept
<1>6. SearchTypeOK'
  BY <1>0, <1>1, <1>2, <1>4 DEF SearchTypeOK, TasksKept
<1>7. PurgeKept(EventPurge(e)) /\ purge'[EventPurge(e)].pc = "begin"
  <2>1. EventTags(e) \in Seq(Tags) /\ EventTags(e) # <<>>
    BY <1>1, EventTagsOf
  <2> QED
    BY <1>0, <1>2, <2>1, Names, PurgeStarts
<1>8. PageTypeOK(Contents)' /\ RequestsInv'
  BY <1>0, <1>2, <1>7 DEF PageTypeOK, RequestsInv, PurgeKept
<1>9. PurgesInv'
  BY <1>0, <1>2, <1>7, Names, OnePurge DEF WorkerAt
<1>10. FreshInv'
  <2>1. \A d \in Events \ {e} : task'[<<"event", d>>] = task[<<"event", d>>] /\ purge'[EventPurge(d)] = purge[EventPurge(d)]
    <3>1. task \in [Tasks -> Task] /\ \A d \in Events \ {e} : <<"event", d>> # <<"event", e>>
      BY <1>0 DEF SearchTypeOK
    <3> QED
      BY <1>2, <1>7, <3>1, Names DEF StartReindex, PurgeKept
  <2> QED
    BY <1>0, <1>2, <2>1 DEF FreshInv, TaskAt
<1> QED
  BY <1>5, <1>6, <1>8, <1>9, <1>10

LEMMA EditUnheardKeeps ==
    ASSUME AllInv, NEW e \in Events, EditUnheard(e)
    PROVE  SearchTypeOK' /\ SearchInv' /\ PageTypeOK(Contents)' /\ RequestsInv' /\ PurgesInv' /\ FreshInv'
<1> DEFINE p == up.events[e].product
<1>0. /\ SearchTypeOK /\ SearchInv /\ PageTypeOK(Contents) /\ RequestsInv /\ PurgesInv /\ FreshInv
      /\ up \in Setups /\ fresh \subseteq Events
  BY DEF AllInv, TypeOK
<1>1. p \in Products /\ Parents[p] \subseteq Products
  BY <1>0, CatalogueAssumption, SearchAssumption DEF CatalogueAssumption, SearchAssumption
<1>2. /\ e \in fresh /\ fresh' = fresh \ {e} /\ db' = [db EXCEPT ![p] = @ + 1]
      /\ lost' = lost \cup {p} \cup Parents[p] /\ purgeFailed' = TRUE /\ Fault
      /\ UNCHANGED <<index, recent, trailing, task, runs, job, worker, sweep>>
      /\ UNCHANGED <<up, row, tagRow, req, inflight, call, purge>>
  BY DEF EditUnheard, Commit, store, coalescer
<1>3. RunsKept
  BY <1>0, <1>2, RunsUnchanged
<1>4. TasksKept /\ WorkersKept
  BY <1>0, <1>1, <1>2, <1>3, TasksAlone, WorkersAlone DEF SearchTypeOK
<1>5. SearchInv' /\ budget' \in Nat
  BY <1>0, <1>2, <1>3, <1>4, InvKept, BudgetType
<1>6. SearchTypeOK'
  BY <1>0, <1>1, <1>2, <1>4, <1>5 DEF SearchTypeOK, TasksKept
<1>7. PageTypeOK(Contents)' /\ RequestsInv' /\ PurgesInv' /\ FreshInv'
  BY <1>0, <1>2 DEF PageTypeOK, RequestsInv, PurgesInv, FreshInv, WorkerAt, TaskAt
<1> QED
  BY <1>5, <1>6, <1>7

LEMMA ReindexAllKeeps ==
    ASSUME AllInv, NEW e \in Events, ReindexAll(e)
    PROVE  SearchTypeOK' /\ SearchInv' /\ PageTypeOK(Contents)' /\ RequestsInv' /\ PurgesInv' /\ FreshInv'
<1>0. /\ SearchTypeOK /\ SearchInv /\ PageTypeOK(Contents) /\ RequestsInv /\ PurgesInv /\ FreshInv /\ fresh \subseteq Events
  BY DEF AllInv, TypeOK
<1>1. /\ e \in fresh /\ fresh' = fresh \ {e} /\ StartReindexAll(e)
      /\ UNCHANGED <<db, index, recent, trailing, runs, job, worker, sweep, budget, lost, pageVars>>
  BY DEF ReindexAll
<1>2. RunsKept /\ TasksKept
  BY <1>0, <1>1, FullScanStep DEF FreshInv
<1>3. SearchInv'
  BY <1>0, <1>1, <1>2, WorkersAlone, InvKept
<1>4. SearchTypeOK'
  BY <1>0, <1>1, <1>2 DEF SearchTypeOK, TasksKept
<1>5. PurgesInv'
  BY <1>0, <1>1 DEF PurgesInv, WorkerAt, pageVars
<1>6. FreshInv'
  <2>1. task \in [Tasks -> Task] /\ \A d \in Events \ {e} : <<"event", d>> # <<"event", e>> /\ <<"event", d>> \in Tasks
    BY <1>0 DEF SearchTypeOK, Tasks
  <2>2. \A d \in Events \ {e} : task'[<<"event", d>>] = task[<<"event", d>>]
    BY <1>1, <2>1 DEF StartReindexAll
  <2> QED
    BY <1>0, <1>1, <2>2 DEF FreshInv, TaskAt, pageVars
<1> QED
  BY <1>0, <1>1, <1>3, <1>4, <1>5, <1>6, PagesSame

\* The worker of a run purges the pages it has changed.
LEMMA AfterIndexedKeeps ==
    ASSUME AllInv, NEW w \in Workers, AfterProductsIndexed(w) \/ IndexedPagesPurged(w)
    PROVE  SearchTypeOK' /\ SearchInv' /\ PageTypeOK(Contents)' /\ RequestsInv' /\ PurgesInv' /\ FreshInv'
<1>0. /\ SearchTypeOK /\ SearchInv /\ PageTypeOK(Contents) /\ RequestsInv /\ PurgesInv /\ FreshInv /\ fresh \subseteq Events
      /\ worker \in [Workers -> Worker]
  BY DEF AllInv, TypeOK, SearchTypeOK
<1>1. UNCHANGED <<db, index, recent, trailing, task, runs, job, sweep, budget, lost, fresh>>
  BY DEF AfterProductsIndexed, IndexedPagesPurged, triggering
<1>2. RunsKept /\ TasksKept /\ WorkersKept /\ \A u \in Workers \ {w} : worker'[u] = worker[u]
  BY <1>0, WorkerStep
<1>3. SearchInv' /\ SearchTypeOK'
  <2>1. SearchInv'
    BY <1>0, <1>1, <1>2, InvKept
  <2>2. SearchTypeOK'
    BY <1>0, <1>1, <1>2 DEF SearchTypeOK, WorkersKept
  <2> QED
    BY <2>1, <2>2
<1>4. CASE AfterProductsIndexed(w)
  <2> DEFINE i == RunOf(w)
             p == IndexedPurge(w)
  <2>1. /\ WorkerAt(w, "purge") /\ StartPurge(p, IndexedTags(i)) /\ WorkerGoto(w, "purging")
        /\ UNCHANGED <<row, tagRow, req, inflight, call, purgeFailed>>
    BY <1>4 DEF AfterProductsIndexed, store, coalescer
  <2>2. i \in Runs
    BY <1>0, <2>1 DEF SearchInv, WorkerInv, WorkerAt
  <2>3. IndexedTags(i) \in Seq(Tags) /\ IndexedTags(i) # <<>>
    BY <1>0, <2>2, IndexedTagsOf
  <2> HIDE DEF i
  <2>4. PurgeKept(p)
    BY <1>0, <2>1, <2>3, Names, PurgeStarts
  <2>5. worker'[w].pc = "purging"
    BY <1>0, <2>1 DEF WorkerGoto
  <2>6. PurgesInv'
    <3>1. \A u \in Workers : WorkerAt(u, "purging") => WorkerAt(u, "purging")'
      BY <1>2, <2>5 DEF WorkerAt
    <3>2. \A u \in Workers : p = IndexedPurge(u) => WorkerAt(u, "purging")'
      BY <2>5, Names DEF WorkerAt
    <3> QED
      BY <1>0, <2>4, <3>1, <3>2, Names, OnePurge
  <2>7. PageTypeOK(Contents)' /\ RequestsInv'
    BY <1>0, <2>1, <2>4 DEF PageTypeOK, RequestsInv, PurgeKept
  <2>8. FreshInv'
    BY <1>0, <1>1, <2>4, Names DEF FreshInv, TaskAt, PurgeKept
  <2> QED
    BY <1>3, <2>6, <2>7, <2>8
<1>5. CASE IndexedPagesPurged(w)
  <2>1. purge[IndexedPurge(w)].pc = "idle" /\ UNCHANGED pageVars
    BY <1>5 DEF IndexedPagesPurged
  <2>2. PurgesInv' /\ FreshInv'
    BY <1>0, <1>1, <1>2, <2>1 DEF PurgesInv, FreshInv, pageVars, WorkerAt, TaskAt
  <2> QED
    BY <1>0, <1>3, <2>1, <2>2, PagesSame
<1> QED
  BY <1>4, <1>5

LEMMA CrashKeeps ==
    ASSUME AllInv, NEW w \in Workers, WorkerCrashes(w)
    PROVE  SearchTypeOK' /\ SearchInv' /\ PageTypeOK(Contents)' /\ RequestsInv' /\ PurgesInv' /\ FreshInv'
<1>0. /\ SearchTypeOK /\ SearchInv /\ PageTypeOK(Contents) /\ RequestsInv /\ PurgesInv /\ FreshInv /\ fresh \subseteq Events
  BY DEF AllInv, TypeOK
<1>1. /\ WorkerDies(w) /\ purge' = [purge EXCEPT ![IndexedPurge(w)] = IdlePurge]
      /\ UNCHANGED <<fresh, row, tagRow, req, inflight, call>>
      /\ purgeFailed' = (purgeFailed \/ WorkerAt(w, "purge") \/ WorkerAt(w, "purging"))
  BY DEF WorkerCrashes, store, coalescer
<1>2. /\ UNCHANGED <<db, index, recent, trailing, task, runs, job, sweep>> /\ Fault /\ lost \subseteq lost'
  BY <1>1 DEF WorkerDies, triggering
<1>3. RunsKept /\ WorkersKept /\ lost' \subseteq Products /\ \A u \in Workers \ {w} : worker'[u] = worker[u]
  BY <1>0, <1>1, DeathStep
<1>4. TasksKept /\ budget' \in Nat
  BY <1>0, <1>2, <1>3, TasksAlone, BudgetType DEF SearchTypeOK
<1>5. SearchInv'
  BY <1>0, <1>2, <1>3, <1>4, InvKept
<1>6. SearchTypeOK'
  BY <1>0, <1>2, <1>3, <1>4 DEF SearchTypeOK, WorkersKept, TasksKept
<1>7. PurgeKept(IndexedPurge(w)) /\ purge'[IndexedPurge(w)].pc = "idle"
  BY <1>0, <1>1, Names, PurgeEnds
<1>8. PageTypeOK(Contents)' /\ RequestsInv'
  <2>1. purgeFailed' \in BOOLEAN
    BY <1>1
  <2> QED
    BY <1>0, <1>1, <1>7, <2>1 DEF PageTypeOK, RequestsInv, PurgeKept
<1>9. PurgesInv'
  BY <1>0, <1>3, <1>7, Names DEF PurgesInv, PurgeKept, WorkerAt
<1>10. FreshInv'
  BY <1>0, <1>1, <1>2, <1>7, Names DEF FreshInv, TaskAt, PurgeKept
<1> QED
  BY <1>5, <1>6, <1>8, <1>9, <1>10

LEMMA RestartKeeps ==
    ASSUME AllInv, ServerRestarts
    PROVE  SearchTypeOK' /\ SearchInv' /\ PageTypeOK(Contents)' /\ RequestsInv' /\ PurgesInv' /\ FreshInv'
<1>0. /\ SearchTypeOK /\ SearchInv /\ PageTypeOK(Contents) /\ RequestsInv /\ PurgesInv /\ FreshInv /\ fresh \subseteq Events
  BY DEF AllInv, TypeOK
<1>1. /\ task' = [t \in Tasks |-> NoTask]
      /\ req' = [r \in Requests |-> IF req[r].pc \in {"idle", "served"} THEN req[r] ELSE [IdleRequest EXCEPT !.pc = "dead"]]
      /\ inflight' = [k \in Keys |-> NoRequest]
      /\ purge' = [p \in Purgers |-> IF p \in {EventPurge(e) : e \in Events} THEN IdlePurge ELSE purge[p]]
      /\ purgeFailed' \in BOOLEAN
      /\ UNCHANGED <<fresh, db, index, runs, job, worker, sweep, row, tagRow, call>> /\ Fault
  BY DEF ServerRestarts, store
<1>2. RunsKept /\ TasksKept
  BY <1>0, RestartStep
<1>3. SearchInv' /\ budget' \in Nat
  BY <1>0, <1>1, <1>2, WorkersAlone, InvKept, BudgetType
<1>4. SearchTypeOK'
  BY <1>0, <1>1, <1>2, <1>3 DEF SearchTypeOK, TasksKept
<1>5. req' \in [Requests -> Request(Contents)] /\ RequestsInv'
  <2> DEFINE x == [IdleRequest EXCEPT !.pc = "dead"]
  <2>1. Sound(x) /\ x \in Request(Contents)
    BY IdleIsSound DEF Sound
  <2> HIDE DEF x
  <2>2. \A r \in Requests : req'[r] \in {req[r], x}
    BY <1>1 DEF x
  <2>3. \A r \in Requests : Sound(req'[r])
    BY <1>0, <2>1, <2>2 DEF RequestsInv
  <2>4. \A r \in Requests : req'[r] \in Request(Contents)
    BY <2>3 DEF Sound
  <2>5. RequestsInv'
    BY <2>3 DEF RequestsInv
  <2> QED
    BY <1>1, <2>4, <2>5
<1>6. purge' \in [Purgers -> Purge] /\ \A p \in Purgers : purge'[p] = IdlePurge \/ purge'[p] = purge[p]
  BY <1>0, <1>1, IdlePurgeType DEF PageTypeOK
<1>7. PageTypeOK(Contents)'
  BY <1>0, <1>1, <1>5, <1>6 DEF PageTypeOK
<1>8. PurgesInv'
  BY <1>0, <1>1, <1>6, IdlePurgeType, Names DEF PurgesInv, WorkerAt
<1>9. FreshInv'
  BY <1>0, <1>1, <1>6, IdlePurgeType, Names DEF FreshInv, TaskAt, NoTask
<1> QED
  BY <1>3, <1>4, <1>5, <1>7, <1>8, <1>9

LEMMA PurgeWrongKeeps ==
    ASSUME AllInv, NEW p \in Purgers, PurgeGoesWrong(p)
    PROVE  SearchTypeOK' /\ SearchInv' /\ PageTypeOK(Contents)' /\ RequestsInv' /\ PurgesInv' /\ FreshInv'
<1>0. /\ SearchTypeOK /\ SearchInv /\ PageTypeOK(Contents) /\ RequestsInv /\ PurgesInv /\ FreshInv /\ fresh \subseteq Events
  BY DEF AllInv, TypeOK
<1>1. /\ purge[p].pc # "idle" /\ PurgeFails(p, Onward(p)) /\ (Fault \/ NoFault)
      /\ UNCHANGED <<fresh, db, index, triggering, runs, job, worker, sweep, lost>>
  BY DEF PurgeGoesWrong
<1>2. /\ purgeFailed' = TRUE /\ UNCHANGED <<row, tagRow, req, inflight, call>>
      /\ NextTag(p) \/ purge' = [purge EXCEPT ![p] = IdlePurge]
  BY <1>1 DEF PurgeFails, store, coalescer
<1>3. SearchTypeOK' /\ SearchInv'
  BY <1>0, <1>1, BudgetType, SearchSame
<1>4. PurgeKept(p)
  BY <1>0, <1>1, <1>2, PurgeGoesOn, PurgeEnds
<1>5. PageTypeOK(Contents)' /\ RequestsInv'
  BY <1>0, <1>2, <1>4 DEF PageTypeOK, RequestsInv, PurgeKept
<1>6. PurgesInv'
  BY <1>0, <1>1, <1>4, OnePurge DEF PurgesInv, WorkerAt
<1>7. FreshInv'
  BY <1>0, <1>1, <1>4, Names DEF FreshInv, PurgeKept, TaskAt, triggering
<1> QED
  BY <1>3, <1>5, <1>6, <1>7

LEMMA StoreWrongKeeps ==
    ASSUME AllInv, NEW r \in Requests, StoreGoesWrong(r)
    PROVE  SearchTypeOK' /\ SearchInv' /\ PageTypeOK(Contents)' /\ RequestsInv' /\ PurgesInv' /\ FreshInv'
<1>0. SearchTypeOK /\ SearchInv /\ PageTypeOK(Contents) /\ RequestsInv /\ PurgesInv /\ FreshInv
  BY DEF AllInv, TypeOK
<1>1. /\ StoreFails(r) /\ Fault
      /\ UNCHANGED <<fresh, db, index, triggering, runs, job, worker, sweep, lost>>
  BY DEF StoreGoesWrong
<1>2. SearchTypeOK' /\ SearchInv'
  BY <1>0, <1>1, BudgetType, SearchSame
<1>3. PageTypeOK(Contents)' /\ RequestsInv' /\ UNCHANGED <<purge, purgeFailed>>
  BY <1>0, <1>1, RequestStepKeeps
<1>4. PurgesInv' /\ FreshInv'
  BY <1>0, <1>1, <1>3 DEF PurgesInv, FreshInv, WorkerAt, TaskAt, triggering
<1> QED
  BY <1>2, <1>3, <1>4

LEMMA SearchKeeps ==
    ASSUME AllInv, SearchStep, UNCHANGED <<fresh, pageVars>>
    PROVE  SearchTypeOK' /\ SearchInv' /\ PageTypeOK(Contents)' /\ RequestsInv' /\ PurgesInv' /\ FreshInv'
<1>0. SearchTypeOK /\ SearchInv /\ PageTypeOK(Contents) /\ RequestsInv /\ PurgesInv /\ FreshInv /\ fresh \subseteq Events
  BY DEF AllInv, TypeOK
<1>1. SearchTypeOK' /\ SearchInv' /\ PageTypeOK(Contents)' /\ RequestsInv' /\ UNCHANGED purge
  BY <1>0, SearchStepKeeps, PagesSame DEF pageVars
<1>2. PurgesInv'
  <2>1. \A w \in Workers : WorkerAt(w, "purging") => WorkerAt(w, "purging")'
    BY <1>0, PurgingStays DEF WorkerAt
  <2> QED
    BY <1>0, <1>1, <2>1 DEF PurgesInv
<1>3. FreshInv'
  BY <1>0, <1>1, IdleTaskStays DEF FreshInv
<1> QED
  BY <1>1, <1>2, <1>3

LEMMA PageKeeps ==
    ASSUME AllInv, PageStep
    PROVE  SearchTypeOK' /\ SearchInv' /\ PageTypeOK(Contents)' /\ RequestsInv' /\ PurgesInv' /\ FreshInv'
<1>0. /\ SearchTypeOK /\ SearchInv /\ PageTypeOK(Contents) /\ RequestsInv /\ PurgesInv /\ FreshInv
      /\ up \in Setups /\ fresh \subseteq Events
  BY DEF AllInv, TypeOK
<1>1. UNCHANGED <<fresh, db, index, recent, trailing, task, runs, job, worker, sweep, budget, lost>>
  BY DEF PageStep, searchVars
<1>2. SearchTypeOK' /\ SearchInv'
  BY <1>0, <1>1, SearchSame DEF SearchTypeOK, triggering
<1>3. ASSUME UNCHANGED purge PROVE PurgesInv' /\ FreshInv'
  BY <1>0, <1>1, <1>3 DEF PurgesInv, FreshInv, WorkerAt, TaskAt
<1>4. ASSUME NEW r \in Requests, RequestStep(r) \/ RenderStep(r) \/ \E k \in Keys : Lookup(r, k)
      PROVE  PageTypeOK(Contents)' /\ RequestsInv' /\ UNCHANGED purge
  BY <1>0, <1>4, RequestStepKeeps
<1>5. ASSUME NEW r \in Requests, up.asks[r] # NoPage, Lookup(r, up.asks[r])
      PROVE  \E k \in Keys : Lookup(r, k)
  <2>1. up.asks \in [Requests -> Keys \cup {NoPage}]
    BY <1>0, CatalogueAssumption DEF CatalogueAssumption
  <2>2. up.asks[r] \in Keys
    BY <1>5, <2>1
  <2> QED
    BY <1>5, <2>2
<1>6. ASSUME NEW p \in Purgers, PurgeKept(p), purge[p].pc # "idle"
      PROVE  PurgesInv' /\ FreshInv'
  <2>1. PurgesInv'
    BY <1>0, <1>1, <1>6, OnePurge DEF WorkerAt, PurgesInv
  <2>2. FreshInv'
    BY <1>0, <1>1, <1>6, Names DEF FreshInv, PurgeKept, TaskAt
  <2> QED
    BY <2>1, <2>2
<1>7. ASSUME NEW p \in Purgers, PurgeStep(p)
      PROVE  PageTypeOK(Contents)' /\ RequestsInv' /\ PurgesInv' /\ FreshInv'
  <2>1. CASE DeleteTagRows(p)
    <3>1. PurgeKept(p) /\ RequestsInv' /\ purge[p].pc # "idle"
      BY <1>0, <2>1, SnapshotStep DEF DeleteTagRows
    <3>2. PageTypeOK(Contents)'
      BY <1>0, <2>1, <3>1, SnapshotStep DEF PageTypeOK, PurgeKept
    <3> QED
      BY <1>6, <3>1, <3>2
  <2>2. CASE DeletePages(p)
    <3>1. PurgeKept(p) /\ PageTypeOK(Contents)' /\ UNCHANGED req /\ purge[p].pc # "idle"
      BY <1>0, <2>2, DeletionKeeps
    <3>2. RequestsInv'
      BY <1>0, <3>1 DEF RequestsInv
    <3> QED
      BY <1>6, <3>1, <3>2
  <2> QED
    BY <1>7, <2>1, <2>2 DEF PurgeStep
<1>8. CASE (\E k \in Keys : up.expiry /\ ExpirePage(k)) \/ SweepPages \/ SweepTags
  <2>1. PageTypeOK(Contents)' /\ UNCHANGED <<req, purge>>
    BY <1>0, <1>8, SweepKeeps
  <2> QED
    BY <1>0, <1>2, <1>3, <2>1 DEF RequestsInv
<1> QED
  BY <1>2, <1>3, <1>4, <1>5, <1>7, <1>8 DEF PageStep

LEMMA AllStep == AllInv /\ [Next]_vars => AllInv'
<1> SUFFICES ASSUME AllInv, [Next]_vars PROVE AllInv'
  OBVIOUS
<1>0. SearchTypeOK /\ SearchInv /\ PageTypeOK(Contents) /\ RequestsInv /\ PurgesInv /\ FreshInv /\ CatTypeOK /\ fresh \subseteq Events
  BY DEF AllInv, TypeOK
<1>1. CatTypeOK'
  <2>1. CASE Next
    BY <1>0, <2>1, CatNext, CatTypes
  <2>2. CASE UNCHANGED vars
    BY <1>0, <2>2, CatNext, CatTypes
  <2> QED
    BY <2>1, <2>2
<1>2. up' = up /\ fresh' \subseteq Events
  <2>1. CASE UNCHANGED <<up, fresh>>
    BY <1>0, <2>1
  <2>2. ASSUME NEW e \in Events, Edit(e) \/ EditUnheard(e) \/ ReindexAll(e) PROVE up' = up /\ fresh' \subseteq Events
    BY <1>0, <2>2 DEF Edit, EditUnheard, ReindexAll, Commit
  <2>3. CASE Next /\ ~\E e \in Events : Edit(e) \/ EditUnheard(e) \/ ReindexAll(e)
    BY <2>1, <2>3 DEF Next, AfterProductsIndexed, IndexedPagesPurged, WorkerCrashes, PurgeGoesWrong, StoreGoesWrong,
       ServerRestarts, PageStep, CategoryStep
  <2> QED
    BY <2>1, <2>2, <2>3 DEF vars
<1>3. SearchTypeOK' /\ SearchInv' /\ PageTypeOK(Contents)' /\ RequestsInv' /\ PurgesInv' /\ FreshInv'
  <2>1. CASE UNCHANGED <<fresh, searchVars, pageVars>>
    <3>1. UNCHANGED <<db, index, triggering, runs, job, worker, sweep, lost, budget, purge, fresh, task>>
      BY <2>1 DEF searchVars, pageVars, triggering
    <3>2. SearchTypeOK' /\ SearchInv'
      BY <1>0, <3>1, SearchSame DEF SearchTypeOK
    <3>3. PurgesInv' /\ FreshInv'
      BY <1>0, <3>1 DEF PurgesInv, FreshInv, WorkerAt, TaskAt
    <3> QED
      BY <1>0, <2>1, <3>2, <3>3, PagesSame
  <2>2. CASE CategoryStep
    BY <2>1, <2>2 DEF CategoryStep
  <2>3. CASE UNCHANGED vars
    BY <2>1, <2>3 DEF vars
  <2>4. CASE SearchStep /\ UNCHANGED <<up, fresh, pageVars, catVars>>
    BY <2>4, SearchKeeps
  <2> QED
    BY <2>2, <2>3, <2>4, EditKeeps, EditUnheardKeeps, ReindexAllKeeps, AfterIndexedKeeps, CrashKeeps, RestartKeeps,
       PurgeWrongKeeps, StoreWrongKeeps, PageKeeps DEF Next
<1> QED
  BY <1>0, <1>1, <1>2, <1>3 DEF AllInv, TypeOK

LEMMA AllInvariant == Spec => []AllInv
<1> QED
  BY AllInit, AllStep, PTL DEF Spec

\* Every variable keeps its type: the pages in the cache are pages, what requests hold
\* while they store is of their own key, handlers have a product to go on to, and workers
\* have the documents of the products of their run.
THEOREM TypeCorrect == Spec => []TypeOK
<1>1. AllInv => TypeOK
  BY DEF AllInv
<1> QED
  BY <1>1, AllInvariant, PTL

------------------------------------------------------------------------------
(* Stale pages *)

\* The worker of the run is going to purge the listing, unless it dies.
WillPurge(i) ==
    \/ job[i].status \in {"pending", "failed"}
    \/ /\ job[i].status = "processing"
       /\ \A w \in Workers : RunOf(w) = i => /\ ~WorkerAt(w, "ack")
                                             /\ WorkerAt(w, "purging") => Listing \in Remaining(IndexedPurge(w))

\* A purge that a handler or a worker still owes to the tag.
ToPurge(t) == IF t = Listing THEN \E i \in Runs : WillPurge(i)
              ELSE \E e \in Events : t \in Remaining(EventPurge(e))

Due(k) == purgeFailed \/ ToPurge(Subject[k])
\* A purge has the page among those it will delete.
Condemned(k) == \E p \in Purgers : purge[p].pc = "values" /\ k \in purge[p].keys

RowOK(k) ==
    Live(k) /\ row[k].content # Rendered(k) /\ ~row[k].raced /\ (\A t \in TagsOf[k] : <<t, k>> \in tagRow)
        => Due(k) \/ Condemned(k)
ReqOK(r) == req[r].page # NoPage /\ ~req[r].raced /\ req[r].page # Rendered(KeyOf(r)) => Due(KeyOf(r))

\* A page that is stale and has all its tags, stored or about to be, awaits a purge.
PagesInv == (\A k \in Keys : RowOK(k)) /\ (\A r \in Requests : ReqOK(r))

LEMMA PagesInit == Init => PagesInv
  BY DEF Init, PageInit, PagesInv, RowOK, ReqOK, Live, IdleRequest

LEMMA RowStays ==
    ASSUME NEW k \in Keys, RowOK(k), Live(k)' => Live(k) /\ row'[k].content = row[k].content /\ row'[k].raced = row[k].raced,
           \A t \in TagsOf[k] : <<t, k>> \in tagRow' => <<t, k>> \in tagRow,
           Due(k) => Due(k)', Rendered(k)' = Rendered(k) \/ Due(k)',
           Condemned(k) /\ Live(k)' => Condemned(k)' \/ Due(k)'
    PROVE  RowOK(k)'
  BY DEF RowOK

LEMMA ReqStays ==
    ASSUME NEW r \in Requests, RequestsInv, ReqOK(r), Calm(r),
           \A k \in Keys : req[r].page # NoPage /\ req[r].key = k =>
               (Due(k) => Due(k)') /\ (Rendered(k)' = Rendered(k) \/ Due(k)')
    PROVE  ReqOK(r)'
<1>1. CASE req'[r].page = NoPage
  BY <1>1 DEF ReqOK
<1>2. CASE req'[r].page # NoPage
  <2>1. /\ req'[r].page = req[r].page /\ req'[r].raced = req[r].raced /\ req'[r].key = req[r].key
        /\ req[r].key \in Keys
    BY <1>2 DEF Calm, RequestsInv, Sound
  <2>2. PICK k \in Keys : k = req[r].key
    BY <2>1
  <2>3. (Due(k) => Due(k)') /\ (Rendered(k)' = Rendered(k) \/ Due(k)')
    BY <1>2, <2>1, <2>2
  <2>4. KeyOf(r) = k /\ KeyOf(r)' = k
    BY <2>1, <2>2 DEF KeyOf
  <2>5. ReqOK(r) = (req[r].page # NoPage /\ ~req[r].raced /\ req[r].page # Rendered(k) => Due(k))
    BY <2>4 DEF ReqOK
  <2>6. ReqOK(r)' = (req'[r].page # NoPage /\ ~req'[r].raced /\ req'[r].page # Rendered(k)' => Due(k)')
    BY <2>4 DEF ReqOK, Rendered, Due, Content
  <2> QED
    BY <2>1, <2>3, <2>5, <2>6
<1> QED
  BY <1>1, <1>2

\* Steps that leave the cache as it is.
LEMMA PagesStay ==
    ASSUME RequestsInv, PagesInv, UNCHANGED <<row, tagRow>>, \A r \in Requests : Calm(r),
           \A k \in Keys : /\ Due(k) => Due(k)'
                           /\ Rendered(k)' = Rendered(k) \/ Due(k)'
                           /\ Condemned(k) => Condemned(k)' \/ Due(k)'
    PROVE  PagesInv'
<1>1. \A k \in Keys : Live(k)' = Live(k)
  BY DEF Live
<1>2. ASSUME NEW k \in Keys PROVE RowOK(k)'
  BY <1>1, RowStays DEF PagesInv
<1>3. ASSUME NEW r \in Requests PROVE ReqOK(r)'
  BY ReqStays DEF PagesInv
<1> QED
  BY <1>2, <1>3 DEF PagesInv

\* Nothing is left to explain once a purge has failed.
LEMMA FailureExplains == purgeFailed' => PagesInv'
<1> SUFFICES ASSUME purgeFailed' PROVE PagesInv'
  OBVIOUS
<1>1. \A k : Due(k)'
  BY DEF Due
<1>2. \A r \in Requests : Due(KeyOf(r))'
  BY DEF Due
<1> QED
  BY <1>1, <1>2 DEF PagesInv, RowOK, ReqOK

LEMMA RunWaits ==
    ASSUME NEW i \in Runs, job'[i].status = job[i].status,
           \A w \in Workers : RunOf(w)' = i =>
               \/ worker'[w].pc \notin {"ack", "purging"}
               \/ worker'[w] = worker[w] /\ (Listing \in Remaining(IndexedPurge(w)) => Listing \in Remaining(IndexedPurge(w))')
    PROVE  WillPurge(i) => WillPurge(i)'
  BY DEF WillPurge, RunOf, WorkerAt

LEMMA DueStays ==
    ASSUME purgeFailed => purgeFailed', \A i \in Runs : WillPurge(i) => WillPurge(i)',
           \A e \in Events : Remaining(EventPurge(e)) \subseteq Remaining(EventPurge(e))'
    PROVE  \A k \in Keys : Due(k) => Due(k)'
  BY DEF Due, ToPurge

LEMMA RemainingSame ==
    ASSUME NEW p \in Purgers, purge'[p] = purge[p]
    PROVE  Remaining(p)' = Remaining(p)
  BY DEF Remaining

LEMMA RenderedSame ==
    ASSUME UNCHANGED db, NEW k \in Keys, Subject[k] # Listing \/ UNCHANGED index
    PROVE  Rendered(k)' = Rendered(k)
  BY DEF Rendered, Content

\* No step of the search index takes back a purge that is owed, and who writes the index owes one.
LEMMA SearchOwes ==
    ASSUME SearchTypeOK, SearchInv, SearchStep, UNCHANGED purge
    PROVE  /\ \A i \in Runs : WillPurge(i) => WillPurge(i)'
           /\ UNCHANGED db /\ (UNCHANGED index \/ \E i \in Runs : WillPurge(i)')
<1>0. /\ worker \in [Workers -> Worker] /\ job \in [Runs -> Job]
      /\ \A w \in Workers : IndexedPurge(w) \in Purgers /\ Remaining(IndexedPurge(w))' = Remaining(IndexedPurge(w))
  <2>1. worker \in [Workers -> Worker] /\ job \in [Runs -> Job]
    BY DEF SearchTypeOK
  <2>2. ASSUME NEW w \in Workers PROVE IndexedPurge(w) \in Purgers /\ Remaining(IndexedPurge(w))' = Remaining(IndexedPurge(w))
    <3>1. IndexedPurge(w) \in Purgers
      BY Names
    <3>2. purge'[IndexedPurge(w)] = purge[IndexedPurge(w)]
      OBVIOUS
    <3> QED
      BY <3>1, <3>2, RemainingSame
  <2> QED
    BY <2>1, <2>2
<1>1. UNCHANGED db /\ (UNCHANGED index \/ \E w \in Workers, p \in Products : IndexProduct(w, p))
  BY ZenonT(30) DEF SearchStep, LookupFails, Allow, ScheduleTrailingFlush, CreateRun, Enqueue, TriggerFails, UndoRun,
     FlushTrailing, WindowEnds, Dequeue, IndexProduct, ListProducts, HandleFails, GiveUp, FinishRun, Complete, Fail,
     SweepLooks, ReconcileManually, SweepFinishes
<1>2. ASSUME UNCHANGED <<job, worker>> PROVE \A i \in Runs : WillPurge(i) => WillPurge(i)'
  BY <1>0, <1>2, RunWaits
<1>3. ASSUME NEW t \in Tasks, Enqueue(t) PROVE \A i \in Runs : WillPurge(i) => WillPurge(i)'
  <2>1. UNCHANGED worker /\ job'[task[t].run].status = "pending" /\ \A i \in Runs \ {task[t].run} : job'[i] = job[i]
    BY <1>3, EnqueueStep DEF Enqueue
  <2>2. ASSUME NEW i \in Runs, i # task[t].run, WillPurge(i) PROVE WillPurge(i)'
    BY <1>0, <2>1, <2>2, RunWaits
  <2> QED
    BY <2>1, <2>2 DEF WillPurge
<1>4. ASSUME NEW w \in Workers, NEW j \in Runs, Dequeue(w, j) PROVE \A i \in Runs : WillPurge(i) => WillPurge(i)'
  <2>1. /\ job'[j].status = "processing" /\ \A i \in Runs \ {j} : job'[i] = job[i]
        /\ \A u \in Workers \ {w} : worker'[u] = worker[u]
        /\ WorkerAt(w, "list")' /\ RunOf(w)' = j /\ \A u \in Workers : RunOf(u) # j
    BY <1>4, DequeueStep
  <2>2. WillPurge(j)'
    <3>1. \A u \in Workers : RunOf(u)' = j => u = w
      BY <2>1 DEF RunOf
    <3> QED
      BY <2>1, <3>1 DEF WillPurge, WorkerAt
  <2>3. ASSUME NEW i \in Runs, i # j, WillPurge(i) PROVE WillPurge(i)'
    <3>1. \A u \in Workers : RunOf(u)' = i => worker'[u] = worker[u]
      BY <2>1, <2>3
    <3> QED
      BY <1>0, <2>1, <2>3, <3>1, RunWaits
  <2> QED
    BY <2>2, <2>3
<1>5. ASSUME NEW w \in Workers, ListProducts(w) \/ HandleFails(w) \/ GiveUp(w) \/ FinishRun(w) \/ \E p \in Products : IndexProduct(w, p)
      PROVE  /\ \A i \in Runs : WillPurge(i) => WillPurge(i)'
             /\ worker'[w].pc \notin {"ack", "purging"} /\ RunOf(w)' = RunOf(w) /\ UNCHANGED job
             /\ \A u \in Workers \ {w} : worker'[u] = worker[u]
  <2>1. UNCHANGED job /\ \A u \in Workers \ {w} : worker'[u] = worker[u]
    BY <1>0, <1>5 DEF ListProducts, HandleFails, GiveUp, FinishRun, IndexProduct, WorkerGoto
  <2>2. worker'[w].pc \in {"index", "giveup", "nack", "purge", "insist", "finish"} /\ RunOf(w)' = RunOf(w)
    <3>1. CASE ListProducts(w)
      BY <3>1, ListStep DEF WorkerAt
    <3>2. ASSUME NEW p \in Products, IndexProduct(w, p) PROVE worker'[w].pc \in {"index", "finish"} /\ RunOf(w)' = RunOf(w)
      BY <3>2, IndexStep
    <3>3. CASE HandleFails(w) \/ GiveUp(w) \/ FinishRun(w)
      <4>1. \E pc \in {"giveup", "nack", "purge", "insist"} : WorkerGoto(w, pc)
        BY <3>3 DEF HandleFails, GiveUp, FinishRun, AfterFinishFails
      <4> QED
        BY <1>0, <4>1 DEF WorkerGoto, RunOf, Worker
    <3> QED
      BY <1>5, <3>1, <3>2, <3>3
  <2> QED
    BY <1>0, <2>1, <2>2, RunWaits
<1>6. ASSUME NEW w \in Workers, Complete(w) \/ Fail(w) PROVE \A i \in Runs : WillPurge(i) => WillPurge(i)'
  <2>0. RunOf(w) \in Used
    BY <1>6, ReportStep
  <2>1. PICK j \in Runs : j = RunOf(w)
    BY <2>0 DEF Used
  <2>2. /\ job'[j].status = IF WorkerAt(w, "ack") THEN "done" ELSE IF LastAttempt(w) THEN "failed" ELSE "pending"
        /\ job[j].status = "processing" /\ (\A i \in Runs \ {j} : job'[i] = job[i])
        /\ (\A u \in Workers \ {w} : worker'[u] = worker[u]) /\ WorkerAt(w, "idle")'
    BY <1>6, <2>1, ReportStep
  <2>3. WillPurge(j) => WillPurge(j)'
    BY <2>1, <2>2 DEF WillPurge
  <2>4. ASSUME NEW i \in Runs, i # j, WillPurge(i) PROVE WillPurge(i)'
    <3>1. \A u \in Workers : worker'[u].pc \notin {"ack", "purging"} \/ worker'[u] = worker[u]
      BY <2>2 DEF WorkerAt
    <3> QED
      BY <1>0, <2>2, <2>4, <3>1, RunWaits
  <2> QED
    BY <2>3, <2>4
<1>7. \A i \in Runs : WillPurge(i) => WillPurge(i)'
  <2>1. \/ UNCHANGED <<job, worker>>
        \/ \E t \in Tasks : Enqueue(t)
        \/ \E w \in Workers : \/ \E i \in Runs : Dequeue(w, i)
                              \/ ListProducts(w) \/ HandleFails(w) \/ GiveUp(w) \/ FinishRun(w) \/ \E p \in Products : IndexProduct(w, p)
                              \/ Complete(w) \/ Fail(w)
    BY DEF SearchStep, LookupFails, Allow, ScheduleTrailingFlush, CreateRun, TriggerFails, UndoRun,
       FlushTrailing, WindowEnds, SweepLooks, ReconcileManually, SweepFinishes
  <2> QED
    BY <1>2, <1>3, <1>4, <1>5, <1>6, <2>1
<1>8. ASSUME NEW w \in Workers, NEW p \in Products, IndexProduct(w, p) PROVE \E i \in Runs : WillPurge(i)'
  <2>1. PICK j \in Runs : /\ j = RunOf(w) /\ job[j].status = "processing"
                          /\ \A u \in Workers : RunOf(u) = j => u = w
    <3>1. worker[w].pc = "index" /\ WorkerInv(w) /\ \A u \in Workers : RunOf(u) = RunOf(w) /\ RunOf(w) # 0 => u = w
      BY <1>8 DEF SearchInv, IndexProduct, WorkerAt
    <3>2. RunOf(w) \in Runs /\ job[RunOf(w)].status = "processing"
      BY <3>1 DEF WorkerInv, WorkerAt
    <3>3. 0 \notin Runs
      BY SearchAssumption DEF Runs, SearchAssumption
    <3> QED
      BY <3>1, <3>2, <3>3
  <2>2. /\ worker'[w].pc \notin {"ack", "purging"} /\ UNCHANGED job
        /\ \A u \in Workers \ {w} : worker'[u] = worker[u]
    BY <1>5, <1>8
  <2>3. \A u \in Workers : RunOf(u)' = j => u = w
    BY <1>8, <1>5, <2>1, <2>2 DEF RunOf
  <2>4. WillPurge(j)'
    BY <2>1, <2>2, <2>3 DEF WillPurge, WorkerAt
  <2> QED
    BY <2>1, <2>4
<1> QED
  BY <1>1, <1>7, <1>8

LEMMA SearchPages ==
    ASSUME AllInv, PagesInv, SearchStep, UNCHANGED pageVars
    PROVE  PagesInv'
<1>0. SearchTypeOK /\ SearchInv /\ RequestsInv /\ UNCHANGED <<row, tagRow, req, purge, purgeFailed>>
  BY DEF AllInv, TypeOK, pageVars
<1>1. /\ \A i \in Runs : WillPurge(i) => WillPurge(i)'
      /\ UNCHANGED db /\ (UNCHANGED index \/ \E i \in Runs : WillPurge(i)')
  BY <1>0, SearchOwes
<1>2. \A k \in Keys : Due(k) => Due(k)'
  <2>1. \A e \in Events : Remaining(EventPurge(e))' = Remaining(EventPurge(e))
    BY <1>0, Names, RemainingSame
  <2> QED
    BY <1>0, <1>1, <2>1, DueStays
<1>3. \A k \in Keys : Rendered(k)' = Rendered(k) \/ Due(k)'
  <2>1. ASSUME NEW k \in Keys, Subject[k] = Listing, ~UNCHANGED index PROVE Due(k)'
    BY <1>1, <2>1 DEF Due, ToPurge
  <2> QED
    BY <1>1, <2>1, RenderedSame
<1>4. \A k \in Keys : Condemned(k) => Condemned(k)'
  BY <1>0 DEF Condemned
<1>5. \A r \in Requests : Calm(r)
  BY <1>0 DEF Calm
<1> QED
  BY <1>0, <1>2, <1>3, <1>4, <1>5, PagesStay

\* The purge of an event reaches every page that shows one of the products it changes.
LEMMA EditPages ==
    ASSUME AllInv, PagesInv, NEW e \in Events, Edit(e)
    PROVE  PagesInv'
<1> DEFINE p == up.events[e].product
<1>0. /\ SearchTypeOK /\ RequestsInv /\ FreshInv /\ PageTypeOK(Contents) /\ up \in Setups
  BY DEF AllInv, TypeOK
<1>1. /\ e \in fresh /\ db' = [db EXCEPT ![p] = @ + 1] /\ StartPurge(EventPurge(e), EventTags(e))
      /\ UNCHANGED <<index, job, worker, row, tagRow, req, purgeFailed>>
  BY DEF Edit, Commit, store, coalescer
<1>2. p \in Products /\ purge[EventPurge(e)].pc = "idle"
  BY <1>0, <1>1, CatalogueAssumption DEF CatalogueAssumption, FreshInv
<1>3. /\ EventTags(e) \in Seq(Tags) /\ EventTags(e) # <<>>
      /\ {p} \cup Parents[p] \subseteq ToSet(EventTags(e)) /\ {p} \cup Parents[p] \subseteq Products
  BY <1>2, EventTagsOf
<1>4. /\ Remaining(EventPurge(e))' = ToSet(EventTags(e))
      /\ \A q \in Purgers \ {EventPurge(e)} : purge'[q] = purge[q]
  BY <1>0, <1>1, <1>3, Names, PurgeStarts DEF PurgeKept
<1>5. \A k \in Keys : Due(k) => Due(k)'
  <2>1. \A i \in Runs : WillPurge(i) => WillPurge(i)'
    <3>1. \A u \in Workers : IndexedPurge(u) \in Purgers /\ purge'[IndexedPurge(u)] = purge[IndexedPurge(u)]
      BY <1>4, Names
    <3> QED
      BY <1>1, <3>1, RunWaits, RemainingSame
  <2>2. Remaining(EventPurge(e)) = {}
    BY <1>2 DEF Remaining
  <2>3. \A d \in Events : Remaining(EventPurge(d)) \subseteq Remaining(EventPurge(d))'
    <3> SUFFICES ASSUME NEW d \in Events, EventPurge(d) # EventPurge(e)
                 PROVE  Remaining(EventPurge(d)) \subseteq Remaining(EventPurge(d))'
      BY <2>2
    <3>1. EventPurge(d) \in Purgers /\ purge'[EventPurge(d)] = purge[EventPurge(d)]
      BY <1>4, Names
    <3> QED
      BY <3>1, RemainingSame
  <2> QED
    BY <1>1, <2>1, <2>3, DueStays
<1>6. \A k \in Keys : Rendered(k)' = Rendered(k) \/ Due(k)'
  <2> TAKE k \in Keys
  <2>1. CASE Subject[k] = Listing
    BY <1>1, <2>1 DEF Rendered
  <2>2. CASE Subject[k] \in {p} \cup Parents[p] /\ Subject[k] # Listing
    BY <1>3, <1>4, <2>2 DEF Due, ToPurge
  <2>3. CASE Subject[k] \notin {p} \cup Parents[p] /\ Subject[k] # Listing
    <3> DEFINE s == Subject[k]
    <3>1. \A q \in {x \in Products : x = s \/ s \in Parents[x]} : db'[q] = db[q]
      BY <1>0, <1>1, <2>3 DEF SearchTypeOK
    <3>2. Content(s)' = Content(s)
      BY <3>1 DEF Content
    <3> QED
      BY <2>3, <3>2 DEF Rendered
  <2> QED
    BY <2>1, <2>2, <2>3
<1>7. \A k \in Keys : Condemned(k) => Condemned(k)'
  BY <1>2, <1>4 DEF Condemned
<1>8. \A r \in Requests : Calm(r)
  BY <1>1 DEF Calm
<1> QED
  BY <1>0, <1>1, <1>5, <1>6, <1>7, <1>8, PagesStay

\* Steps that change neither the products, nor the index, nor the cache.
LEMMA QuietPages ==
    ASSUME AllInv, PagesInv, UNCHANGED <<db, index, row, tagRow>>, \A r \in Requests : Calm(r),
           purgeFailed => purgeFailed', \A i \in Runs : WillPurge(i) => WillPurge(i)',
           \A e \in Events : purge'[EventPurge(e)] = purge[EventPurge(e)],
           \A p \in Purgers : purge'[p] = purge[p] \/ purge[p].pc # "values"
    PROVE  PagesInv'
<1>1. \A k \in Keys : Due(k) => Due(k)'
  BY Names, RemainingSame, DueStays
<1>2. \A k \in Keys : Condemned(k) => Condemned(k)'
  BY DEF Condemned
<1>3. RequestsInv
  BY DEF AllInv
<1> QED
  BY <1>1, <1>2, <1>3, RenderedSame, PagesStay

LEMMA AfterIndexedPages ==
    ASSUME AllInv, PagesInv, NEW w \in Workers, AfterProductsIndexed(w) \/ IndexedPagesPurged(w)
    PROVE  PagesInv'
<1>0. /\ SearchTypeOK /\ SearchInv /\ PurgesInv /\ PageTypeOK(Contents)
      /\ \A u \in Workers \ {w} : worker'[u] = worker[u]
      /\ RunOf(w)' = RunOf(w)
  BY WorkerStep DEF AllInv, TypeOK
<1>1. UNCHANGED <<db, index, job, row, tagRow, req, purgeFailed>>
  BY DEF AfterProductsIndexed, IndexedPagesPurged, pageVars, store, coalescer
<1>2. CASE AfterProductsIndexed(w)
  <2>1. WorkerAt(w, "purge") /\ StartPurge(IndexedPurge(w), IndexedTags(RunOf(w))) /\ RunOf(w) \in Runs
    BY <1>0, <1>2 DEF AfterProductsIndexed, SearchInv, WorkerInv, WorkerAt
  <2>2. IndexedTags(RunOf(w)) \in Seq(Tags) /\ IndexedTags(RunOf(w)) # <<>> /\ Listing \in ToSet(IndexedTags(RunOf(w)))
    BY <1>0, <2>1, IndexedTagsOf
  <2>3. /\ Remaining(IndexedPurge(w))' = ToSet(IndexedTags(RunOf(w)))
        /\ \A q \in Purgers \ {IndexedPurge(w)} : purge'[q] = purge[q]
    BY <1>0, <2>1, <2>2, Names, PurgeStarts DEF PurgeKept
  <2>4. purge[IndexedPurge(w)].pc = "idle"
    BY <1>0, <2>1 DEF PurgesInv, WorkerAt
  <2>5. ASSUME NEW i \in Runs, WillPurge(i) PROVE WillPurge(i)'
    <3>1. \A u \in Workers \ {w} : worker'[u] = worker[u] /\ Remaining(IndexedPurge(u))' = Remaining(IndexedPurge(u))
      BY <1>0, <2>3, Names, RemainingSame
    <3>2. worker'[w].pc = "purging"
      BY <1>0, <1>2 DEF AfterProductsIndexed, WorkerGoto, SearchTypeOK
    <3>3. \A u \in Workers : RunOf(u)' = RunOf(u)
      BY <1>0, <3>1 DEF RunOf
    <3> QED
      BY <1>1, <2>2, <2>3, <2>5, <3>1, <3>2, <3>3 DEF WillPurge, WorkerAt
  <2> QED
    BY <1>1, <2>3, <2>4, <2>5, Names, QuietPages DEF Calm
<1>3. CASE IndexedPagesPurged(w)
  <2>1. UNCHANGED purge /\ WorkerAt(w, "purging") /\ Listing \notin Remaining(IndexedPurge(w))
    BY <1>3 DEF IndexedPagesPurged, pageVars, Remaining
  <2>2. ASSUME NEW i \in Runs, WillPurge(i) PROVE WillPurge(i)'
    <3>1. CASE job[i].status \in {"pending", "failed"}
      BY <1>1, <3>1 DEF WillPurge
    <3>2. CASE job[i].status \notin {"pending", "failed"}
      <4>1. RunOf(w) # i
        BY <2>1, <2>2, <3>2 DEF WillPurge
      <4>2. \A u \in Workers : RunOf(u)' = i => worker'[u] = worker[u]
        BY <1>0, <4>1
      <4> QED
        BY <1>1, <2>1, <2>2, <4>2, Names, RunWaits, RemainingSame
    <3> QED
      BY <3>1, <3>2
  <2> QED
    BY <1>1, <2>1, <2>2, Names, QuietPages DEF Calm
<1> QED
  BY <1>2, <1>3

LEMMA CrashPages ==
    ASSUME AllInv, PagesInv, NEW w \in Workers, WorkerCrashes(w)
    PROVE  PagesInv'
<1>0. SearchTypeOK /\ SearchInv /\ PurgesInv /\ PageTypeOK(Contents)
  BY DEF AllInv, TypeOK
<1>1. /\ WorkerDies(w) /\ purge' = [purge EXCEPT ![IndexedPurge(w)] = IdlePurge]
      /\ UNCHANGED <<db, index, job, row, tagRow, req>> /\ (purgeFailed \/ WorkerAt(w, "purging") => purgeFailed')
  BY DEF WorkerCrashes, WorkerDies, store
<1>2. (\A u \in Workers \ {w} : worker'[u] = worker[u]) /\ WorkerAt(w, "idle")'
  BY <1>0, <1>1, DeathStep
<1>3. CASE WorkerAt(w, "purging")
  BY <1>1, <1>3, FailureExplains
<1>4. CASE ~WorkerAt(w, "purging")
  <2>1. purge[IndexedPurge(w)].pc = "idle"
    BY <1>0, <1>4 DEF PurgesInv
  <2>2. \A p \in Purgers \ {IndexedPurge(w)} : purge'[p] = purge[p]
    BY <1>0, <1>1 DEF PageTypeOK
  <2>3. ASSUME NEW i \in Runs, WillPurge(i) PROVE WillPurge(i)'
    <3>1. \A u \in Workers : \/ worker'[u].pc \notin {"ack", "purging"}
                             \/ worker'[u] = worker[u] /\ Remaining(IndexedPurge(u))' = Remaining(IndexedPurge(u))
      BY <1>2, <2>2, Names, RemainingSame DEF WorkerAt
    <3> QED
      BY <1>1, <2>3, <3>1, RunWaits
  <2> QED
    BY <1>1, <2>1, <2>2, <2>3, Names, QuietPages DEF Calm
<1> QED
  BY <1>3, <1>4

LEMMA RestartPages ==
    ASSUME AllInv, PagesInv, ServerRestarts
    PROVE  PagesInv'
<1>0. PageTypeOK(Contents)
  BY DEF AllInv, TypeOK
<1>1. /\ req' = [r \in Requests |-> IF req[r].pc \in {"idle", "served"} THEN req[r] ELSE [IdleRequest EXCEPT !.pc = "dead"]]
      /\ purge' = [p \in Purgers |-> IF p \in {EventPurge(e) : e \in Events} THEN IdlePurge ELSE purge[p]]
      /\ purgeFailed' = (purgeFailed \/ \E e \in Events : purge[EventPurge(e)].pc # "idle")
      /\ UNCHANGED <<db, index, job, worker, row, tagRow>>
  BY DEF ServerRestarts, store
<1>2. CASE \E e \in Events : purge[EventPurge(e)].pc # "idle"
  BY <1>1, <1>2, FailureExplains
<1>3. CASE \A e \in Events : purge[EventPurge(e)].pc = "idle"
  <2>1. \A r \in Requests : Calm(r)
    BY <1>1, IdleIsSound DEF Calm
  <2>2. \A p \in Purgers : purge'[p] = purge[p] \/ purge[p].pc = "idle"
    BY <1>1, <1>3
  <2>3. \A e \in Events : Remaining(EventPurge(e)) = {}
    BY <1>3 DEF Remaining
  <2>4. \A w \in Workers : purge'[IndexedPurge(w)] = purge[IndexedPurge(w)]
    <3> SUFFICES ASSUME NEW w \in Workers PROVE purge'[IndexedPurge(w)] = purge[IndexedPurge(w)]
      OBVIOUS
    <3>1. \A e \in Events : EventPurge(e) # IndexedPurge(w)
      BY Names
    <3>2. IndexedPurge(w) \notin {EventPurge(e) : e \in Events}
      BY <3>1
    <3> QED
      BY <1>1, <3>2, Names
  <2>5. ASSUME NEW i \in Runs, WillPurge(i) PROVE WillPurge(i)'
    BY <1>1, <2>4, <2>5, Names, RunWaits, RemainingSame
  <2>6. \A k \in Keys : Due(k) => Due(k)'
    BY <1>1, <2>3, <2>5, DueStays
  <2>7. \A k \in Keys : Condemned(k) => Condemned(k)'
    BY <2>2 DEF Condemned
  <2>8. RequestsInv
    BY DEF AllInv
  <2> QED
    BY <1>1, <2>1, <2>6, <2>7, <2>8, RenderedSame, PagesStay
<1> QED
  BY <1>2, <1>3

\* A step of one request: the page it stores is the one it has rendered.
LEMMA RequestPages ==
    ASSUME AllInv, PagesInv, UNCHANGED searchVars, NEW r \in Requests,
           RequestStep(r) \/ RenderStep(r) \/ \E k \in Keys : Lookup(r, k)
    PROVE  PagesInv'
<1>0. /\ SearchTypeOK /\ RequestsInv /\ PageTypeOK(Contents) /\ Sound(req[r])
      /\ row \in [Keys -> PageRow(Contents) \cup {NoPage}] /\ UNCHANGED <<db, index, job, worker>>
  BY DEF AllInv, TypeOK, RequestsInv, PageTypeOK, searchVars
<1>1. UNCHANGED <<purge, purgeFailed>>
  BY <1>0, RequestStepKeeps
<1>2. RequestKept(r)
  <2>1. CASE CommitPage(r)
    BY <1>0, <2>1, ReturnKeeps DEF CommitPage, ReqAt, Outcomes
  <2>2. CASE Render(r, Rendered(KeyOf(r)))
    BY <1>0, <2>2, RenderKeeps
  <2> QED
    BY <1>0, <2>1, <2>2, CalmStep DEF RequestStep, RenderStep
<1>3. \A k \in Keys : Due(k)' = Due(k) /\ Rendered(k)' = Rendered(k) /\ Condemned(k)' = Condemned(k)
  BY <1>0, <1>1, RenderedSame DEF Due, ToPurge, WillPurge, Remaining, Condemned, RunOf, WorkerAt
<1>4. \A s \in Requests \ {r} : ReqOK(s)'
  <2>1. \A s \in Requests \ {r} : Calm(s)
    BY <1>2 DEF RequestKept, Calm
  <2> QED
    BY <1>0, <1>3, <2>1, ReqStays DEF PagesInv
<1>5. ReqOK(r)'
  <2>1. CASE Calm(r)
    BY <1>0, <1>3, <2>1, ReqStays DEF PagesInv
  <2>2. CASE req'[r].page = Rendered(KeyOf(r)) /\ req'[r].key = req[r].key
    BY <1>0, <2>2 DEF ReqOK, Rendered, KeyOf, Content
  <2>3. CASE CommitPage(r)
    BY <1>0, <2>1, <2>3, ReturnKeeps DEF CommitPage, ReqAt, Outcomes
  <2>4. CASE Render(r, Rendered(KeyOf(r)))
    BY <1>0, <2>1, <2>2, <2>4, RenderKeeps
  <2> QED
    BY <1>0, <2>1, <2>3, <2>4, CalmStep DEF RequestStep, RenderStep
<1>6. ASSUME NEW k \in Keys PROVE RowOK(k)'
  <2>1. ASSUME Live(k)' => row'[k] = row[k], \A t \in TagsOf[k] : <<t, k>> \in tagRow' => <<t, k>> \in tagRow
        PROVE  RowOK(k)'
    <3>1. Live(k)' => Live(k)
      BY <2>1 DEF Live
    <3> QED
      BY <1>3, <2>1, <3>1, RowStays DEF PagesInv
  <2>2. CASE EvictPage(r)
    <3>1. row'[k] \in {row[k], NoPage} /\ tagRow' \subseteq tagRow
      BY <1>0, <2>2 DEF EvictPage, store
    <3> QED
      BY <2>1, <3>1 DEF Live
  <2>3. CASE CommitPage(r)
    <3> DEFINE x == [content |-> req[r].page, expired |-> FALSE, raced |-> req[r].raced]
    <3>1. row' = [row EXCEPT ![KeyOf(r)] = x] /\ tagRow' = tagRow \cup req[r].new /\ req[r].pc = "commit"
      BY <2>3 DEF CommitPage, ReqAt
    <3>2. KeyOf(r) = req[r].key /\ req[r].page # NoPage /\ \A y \in req[r].new : y[2] = req[r].key
      BY <1>0, <3>1 DEF KeyOf, Sound
    <3>3. CASE k = req[r].key
      <4>1. row'[k] = x
        BY <1>0, <3>1, <3>2, <3>3
      <4>2. ~req[r].raced /\ req[r].page # Rendered(k) => Due(k)
        BY <3>2, <3>3 DEF PagesInv, ReqOK
      <4>3. row'[k].content = req[r].page /\ row'[k].raced = req[r].raced
        BY <4>1
      <4> QED
        BY <1>3, <4>2, <4>3 DEF RowOK
    <3>4. CASE k # req[r].key
      <4>1. row'[k] = row[k] /\ \A t : <<t, k>> \notin req[r].new
        BY <1>0, <3>1, <3>2, <3>4
      <4> QED
        BY <2>1, <3>1, <4>1
    <3> QED
      BY <3>3, <3>4
  <2>4. CASE ~EvictPage(r) /\ ~CommitPage(r)
    <3>1. UNCHANGED store
      <4>1. CASE RequestStep(r)
        BY <2>4, <4>1 DEF RequestStep, EnterDo, JoinCall, StopWaiting, LookAgain, Bypass, CloseCall, RemoveCall,
                   UpsertPage, TagPage, DeadlockAbortsStore
      <4> QED
        BY <4>1 DEF RenderStep, Render, Panic, Lookup
    <3> QED
      BY <2>1, <3>1 DEF store
  <2> QED
    BY <2>2, <2>3, <2>4
<1> QED
  BY <1>4, <1>5, <1>6 DEF PagesInv

\* A request that gives up its page.
LEMMA StoreWrongPages ==
    ASSUME AllInv, PagesInv, NEW r \in Requests, StoreGoesWrong(r)
    PROVE  PagesInv'
<1>1. /\ StoreFails(r) /\ UNCHANGED <<db, index, job, worker, row, tagRow, purge, purgeFailed>>
      /\ RequestsInv /\ PageTypeOK(Contents)
  BY DEF StoreGoesWrong, StoreFails, store, purging, AllInv, TypeOK
<1>2. \A s \in Requests : Calm(s)
  BY <1>1, CalmStep DEF Calm, RequestKept
<1>3. \A i \in Runs : WillPurge(i) => WillPurge(i)'
  BY <1>1, Names, RunWaits, RemainingSame
<1> QED
  BY <1>1, <1>2, <1>3, Names, QuietPages

\* The snapshot of a purge has the pages that carry its tag; those still to be stored
\* are raced by it.
LEMMA SnapshotPages ==
    ASSUME AllInv, PagesInv, UNCHANGED searchVars, NEW p \in Purgers, DeleteTagRows(p)
    PROVE  PagesInv'
<1> DEFINE tag == Head(purge[p].tags)
<1>0. /\ SearchTypeOK /\ RequestsInv /\ PageTypeOK(Contents) /\ PurgesInv /\ UNCHANGED <<db, index, job, worker>>
      /\ purge[p].pc = "begin"
  BY DEF AllInv, TypeOK, searchVars, DeleteTagRows
<1>1. /\ PurgeKept(p) /\ purge'[p].pc = "values" /\ Remaining(p) = {tag} \cup Remaining(p)'
      /\ purge'[p].keys = {k \in Keys : row[k] # NoPage /\ <<tag, k>> \in tagRow}
      /\ UNCHANGED <<tagRow, purgeFailed>>
      /\ \A k \in Keys : row'[k] = NoPage <=> row[k] = NoPage
      /\ \A k \in Keys : row[k] # NoPage => /\ row'[k].content = row[k].content /\ row'[k].expired = row[k].expired
                                            /\ tag \notin TagsOf[k] => row'[k].raced = row[k].raced
      /\ \A r \in Requests : /\ req'[r].page = req[r].page /\ req'[r].key = req[r].key
                             /\ req[r].page # NoPage => IF tag \in TagsOf[req[r].key] THEN req'[r].raced
                                                        ELSE req'[r].raced = req[r].raced
  BY <1>0, SnapshotStep
<1> HIDE DEF tag
<1>2. \A q \in Purgers \ {p} : purge'[q] = purge[q] /\ Remaining(q)' = Remaining(q)
  BY <1>1, RemainingSame DEF PurgeKept
<1>3. ASSUME NEW k \in Keys, Subject[k] # tag, Due(k) PROVE Due(k)'
  <2>1. \A q \in Purgers : Subject[k] \in Remaining(q) => Subject[k] \in Remaining(q)'
    BY <1>1, <1>2, <1>3
  <2>2. CASE Subject[k] = Listing
    <3>1. \A i \in Runs : WillPurge(i) => WillPurge(i)'
      BY <1>0, <2>1, <2>2, Names, RunWaits
    <3> QED
      BY <1>1, <1>3, <2>2, <3>1 DEF Due, ToPurge
  <2>3. CASE Subject[k] # Listing
    BY <1>1, <1>3, <2>1, <2>3, Names DEF Due, ToPurge
  <2> QED
    BY <2>2, <2>3
<1>4. \A k \in Keys : Rendered(k)' = Rendered(k) /\ Subject[k] \in TagsOf[k] /\ (Condemned(k) => Condemned(k)')
  BY <1>0, <1>2, RenderedSame, RenderedType DEF Condemned
<1>5. ASSUME NEW k \in Keys PROVE RowOK(k)'
  <2>1. Live(k)' => Live(k) /\ row'[k].content = row[k].content
    BY <1>1 DEF Live
  <2>2. CASE tag \in TagsOf[k]
    <3>1. Live(k)' /\ (\A t \in TagsOf[k] : <<t, k>> \in tagRow') => k \in purge'[p].keys
      BY <1>1, <2>1, <2>2 DEF Live
    <3> QED
      BY <1>1, <3>1 DEF RowOK, Condemned
  <2>3. CASE tag \notin TagsOf[k]
    <3>1. Subject[k] # tag /\ (Live(k)' => row'[k].raced = row[k].raced)
      BY <1>1, <1>4, <2>1, <2>3 DEF Live
    <3> QED
      BY <1>1, <1>3, <1>4, <2>1, <3>1, RowStays DEF PagesInv
  <2> QED
    BY <2>2, <2>3
<1>6. ASSUME NEW r \in Requests PROVE ReqOK(r)'
  <2>1. CASE req[r].page # NoPage /\ tag \in TagsOf[req[r].key]
    BY <1>1, <2>1 DEF ReqOK
  <2>2. CASE req[r].page # NoPage /\ tag \notin TagsOf[req[r].key]
    <3>1. Calm(r)
      BY <1>1, <2>2 DEF Calm
    <3>2. \A k \in Keys : req[r].key = k => Subject[k] # tag
      BY <1>4, <2>2
    <3> QED
      BY <1>0, <1>3, <1>4, <3>1, <3>2, ReqStays DEF PagesInv
  <2>3. CASE req[r].page = NoPage
    BY <1>1, <2>3 DEF ReqOK
  <2> QED
    BY <2>1, <2>2, <2>3
<1> QED
  BY <1>5, <1>6 DEF PagesInv

LEMMA DeletionPages ==
    ASSUME AllInv, PagesInv, UNCHANGED searchVars, NEW p \in Purgers, DeletePages(p)
    PROVE  PagesInv'
<1>0. /\ RequestsInv /\ PageTypeOK(Contents) /\ PurgesInv /\ UNCHANGED <<db, index, job, worker>>
  BY DEF AllInv, TypeOK, searchVars
<1>1. /\ UNCHANGED <<req, purgeFailed>> /\ tagRow' \subseteq tagRow
      /\ PurgeKept(p) /\ Remaining(p)' = Remaining(p)
      /\ \A k \in Keys : IF k \in purge[p].keys THEN row'[k] = NoPage ELSE row'[k] = row[k]
  BY <1>0, DeletionKeeps
<1>2. \A q \in Purgers \ {p} : purge'[q] = purge[q]
  BY <1>1 DEF PurgeKept
<1>3. \A q \in Purgers : Remaining(q)' = Remaining(q)
  BY <1>1, <1>2, RemainingSame
<1>4. \A k \in Keys : (Due(k) => Due(k)') /\ Rendered(k)' = Rendered(k)
  <2>1. \A i \in Runs : WillPurge(i) => WillPurge(i)'
    BY <1>0, <1>3, Names, RunWaits
  <2> QED
    BY <1>0, <1>1, <1>3, <2>1, Names, DueStays, RenderedSame
<1>5. ASSUME NEW k \in Keys PROVE RowOK(k)'
  <2>1. CASE k \in purge[p].keys
    BY <1>1, <2>1 DEF RowOK, Live
  <2>2. CASE k \notin purge[p].keys
    <3>1. row'[k] = row[k] /\ Live(k)' = Live(k)
      BY <1>1, <2>2 DEF Live
    <3>2. Condemned(k) => Condemned(k)'
      BY <1>2, <2>2 DEF Condemned
    <3> QED
      BY <1>1, <1>4, <3>1, <3>2, RowStays DEF PagesInv
  <2> QED
    BY <2>1, <2>2
<1>6. \A r \in Requests : ReqOK(r)'
  BY <1>0, <1>1, <1>4, ReqStays DEF PagesInv, Calm
<1> QED
  BY <1>5, <1>6 DEF PagesInv

LEMMA SweepPagesKept ==
    ASSUME AllInv, PagesInv, UNCHANGED searchVars, (\E k \in Keys : ExpirePage(k)) \/ SweepPages \/ SweepTags
    PROVE  PagesInv'
<1>0. /\ RequestsInv /\ PageTypeOK(Contents) /\ UNCHANGED <<db, index, job, worker>>
  BY DEF AllInv, TypeOK, searchVars
<1>1. /\ UNCHANGED <<req, purge, purgeFailed>> /\ tagRow' \subseteq tagRow
      /\ \A k \in Keys : Live(k)' => row'[k] = row[k]
  BY <1>0, SweepKeeps
<1>2. \A k \in Keys : (Due(k) => Due(k)') /\ Rendered(k)' = Rendered(k) /\ Condemned(k)' = Condemned(k)
  <2>1. \A q \in Purgers : Remaining(q)' = Remaining(q)
    BY <1>1, RemainingSame
  <2>2. \A i \in Runs : WillPurge(i) => WillPurge(i)'
    BY <1>0, <2>1, Names, RunWaits
  <2> QED
    BY <1>0, <1>1, <2>1, <2>2, Names, DueStays, RenderedSame DEF Condemned
<1>3. ASSUME NEW k \in Keys PROVE RowOK(k)'
  <2>1. Live(k)' => Live(k)
    BY <1>1 DEF Live
  <2> QED
    BY <1>1, <1>2, <2>1, RowStays DEF PagesInv
<1>4. \A r \in Requests : ReqOK(r)'
  BY <1>0, <1>1, <1>2, ReqStays DEF PagesInv, Calm
<1> QED
  BY <1>3, <1>4 DEF PagesInv

LEMMA PagesStep == AllInv /\ PagesInv /\ [Next]_vars => PagesInv'
<1> SUFFICES ASSUME AllInv, PagesInv, [Next]_vars PROVE PagesInv'
  OBVIOUS
<1>1. ASSUME UNCHANGED <<searchVars, pageVars>> PROVE PagesInv'
  <2>1. UNCHANGED <<db, index, row, tagRow, req, purge, purgeFailed, job, worker>>
    BY <1>1 DEF searchVars, pageVars
  <2>2. \A i \in Runs : WillPurge(i) => WillPurge(i)'
    BY <2>1, Names, RunWaits, RemainingSame
  <2> QED
    BY <2>1, <2>2, Names, QuietPages DEF Calm
<1>2. CASE PageStep
  <2>1. up \in Setups /\ UNCHANGED searchVars
    BY <1>2 DEF PageStep, AllInv, TypeOK
  <2>2. up.asks \in [Requests -> Keys \cup {NoPage}]
    BY <2>1, CatalogueAssumption DEF CatalogueAssumption
  <2>3. \A r \in Requests : up.asks[r] # NoPage /\ Lookup(r, up.asks[r]) => \E k \in Keys : Lookup(r, k)
    BY <2>2
  <2> QED
    BY <1>2, <2>1, <2>3, RequestPages, SnapshotPages, DeletionPages, SweepPagesKept DEF PageStep, PurgeStep
<1>3. ASSUME NEW e \in Events, EditUnheard(e) PROVE PagesInv'
  BY <1>3, FailureExplains DEF EditUnheard
<1>4. ASSUME NEW e \in Events, ReindexAll(e) PROVE PagesInv'
  <2>1. UNCHANGED <<db, index, row, tagRow, req, purge, purgeFailed, job, worker>>
    BY <1>4 DEF ReindexAll, pageVars
  <2>2. \A i \in Runs : WillPurge(i) => WillPurge(i)'
    BY <2>1, Names, RunWaits, RemainingSame
  <2> QED
    BY <2>1, <2>2, Names, QuietPages DEF Calm
<1>5. ASSUME NEW p \in Purgers, PurgeGoesWrong(p) PROVE PagesInv'
  BY <1>5, FailureExplains DEF PurgeGoesWrong, PurgeFails
<1>6. CASE CategoryStep \/ UNCHANGED vars
  BY <1>1, <1>6 DEF CategoryStep, vars
<1>7. CASE SearchStep /\ UNCHANGED <<up, fresh, pageVars, catVars>>
  BY <1>7, SearchPages
<1> QED
  BY <1>2, <1>3, <1>4, <1>5, <1>6, <1>7, EditPages, AfterIndexedPages, CrashPages, RestartPages, StoreWrongPages DEF Next

\* When edits, reindexes and purges are over and none has failed, every page that shows an
\* old state was stored after the purge that overtook it, or has lost a tag: the purges of
\* the event and of the reindex leave no other (FPCInvalidator, SetWithTags, DeleteByTag).
THEOREM StalePagesExplained == Spec => []StalePageIsExplained
<1>1. AllInv /\ PagesInv => StalePageIsExplained
  <2> SUFFICES ASSUME AllInv, PagesInv, Settled, NEW k \in Keys, Live(k), row[k].content # Rendered(k), ~row[k].raced,
                      \A t \in TagsOf[k] : <<t, k>> \in tagRow
               PROVE  FALSE
    BY DEF StalePageIsExplained
  <2>1. /\ ~purgeFailed /\ (\A p \in Purgers : purge[p].pc = "idle")
        /\ \A i \in Runs : job[i].status \in {"none", "done"}
    BY DEF Settled
  <2>2. ~Condemned(k) /\ \A e \in Events : Remaining(EventPurge(e)) = {}
    BY <2>1, Names DEF Condemned, Remaining
  <2>3. \A i \in Runs : ~WillPurge(i)
    BY <2>1 DEF WillPurge
  <2>4. ~Due(k)
    BY <2>1, <2>2, <2>3 DEF Due, ToPurge
  <2> QED
    BY <2>2, <2>4 DEF PagesInv, RowOK
<1>2. Init => PagesInv
  BY PagesInit
<1>3. AllInv /\ PagesInv /\ [Next]_vars => PagesInv'
  BY PagesStep
<1> QED
  BY <1>1, <1>2, <1>3, AllInvariant, PTL DEF Spec

------------------------------------------------------------------------------
(* The documents of the products *)

\* Someone is going to read the product again, or its reindex was given up.
Hoped(p) ==
    \/ Wanted(p)
    \/ \E i \in Runs : job[i].status = "pending" /\ p \in runs[i].ids
    \/ \E w \in Workers : WorkerAt(w, "list") /\ p \in runs[RunOf(w)].ids

\* A worker has read the product, and writes it or hands it back to the queue.
InHand(w, p) == \/ WorkerAt(w, "index") /\ p \in worker[w].todo
                \/ worker[w].pc \in {"giveup", "nack"} /\ p \in runs[RunOf(w)].ids

DocOK(p) ==
    \/ Hoped(p)
    \/ /\ \A w \in Workers : WorkerAt(w, "index") /\ p \in worker[w].todo => worker[w].docs[p] = Content(p)
       /\ index[p] = Content(p) \/ \E w \in Workers : InHand(w, p)

\* A product whose document is old is read again, or has been read since and is on its way.
DocsInv == \A p \in Products : DocOK(p)

\* Nothing prevents two workers from writing two reads in the wrong order.
SingleWorker == \A w, u \in Workers : w = u

\* No event, trigger or reindex is under way.
Quiet ==
    /\ trailing = {} /\ \A t \in Tasks : TaskAt(t, "idle")
    /\ \A w \in Workers : WorkerAt(w, "idle")
    /\ \A i \in Runs : job[i].status # "pending"

\* Every product whose reindex was not given up has a current document, when all is quiet.
IndexSettles == Quiet => \A p \in Products : p \in lost \/ index[p] = Content(p)

LEMMA WorkersRun ==
    ASSUME SearchInv, NEW w \in Workers, ~WorkerAt(w, "idle")
    PROVE  RunOf(w) \in Used /\ RunOf(w) \in Runs /\ (WorkerAt(w, "index") => worker[w].todo \subseteq runs[RunOf(w)].ids)
<1>1. WorkerInv(w)
  BY DEF SearchInv
<1>2. RunOf(w) \in Runs /\ job[RunOf(w)].status = "processing"
  BY <1>1 DEF WorkerInv
<1> QED
  BY <1>1, <1>2 DEF SearchInv, WorkerInv

LEMMA WantedAlone ==
    ASSUME UNCHANGED <<trailing, task>>, lost \subseteq lost'
    PROVE  \A p \in Products : Wanted(p) => Wanted(p)'
  BY DEF Wanted, Awaited, Asking, Later, Current, Covered

LEMMA HopeStays ==
    ASSUME SearchInv, RunsGrow, NEW p \in Products, Hoped(p), Wanted(p) => Wanted(p)',
           \A i \in Runs : job[i].status = "pending" /\ p \in runs[i].ids => job'[i].status = "pending" \/ Hoped(p)',
           \A w \in Workers : WorkerAt(w, "list") /\ p \in runs[RunOf(w)].ids => worker'[w] = worker[w] \/ Hoped(p)'
    PROVE  Hoped(p)'
<1>1. CASE Wanted(p)
  BY <1>1 DEF Hoped
<1>2. ASSUME NEW i \in Runs, job[i].status = "pending", p \in runs[i].ids PROVE Hoped(p)'
  <2>1. i \in Used
    BY <1>2 DEF SearchInv
  <2>2. runs'[i].ids = runs[i].ids
    BY <2>1 DEF RunsGrow
  <2> QED
    BY <1>2, <2>2 DEF Hoped
<1>3. ASSUME NEW w \in Workers, WorkerAt(w, "list"), p \in runs[RunOf(w)].ids PROVE Hoped(p)'
  <2>1. RunOf(w) \in Used
    BY <1>3, WorkersRun DEF WorkerAt
  <2>2. runs'[RunOf(w)].ids = runs[RunOf(w)].ids
    BY <2>1 DEF RunsGrow
  <2>3. CASE worker'[w] = worker[w]
    <3>1. WorkerAt(w, "list")' /\ RunOf(w)' = RunOf(w)
      BY <1>3, <2>3 DEF WorkerAt, RunOf
    <3> QED
      BY <1>3, <2>2, <3>1 DEF Hoped
  <2> QED
    BY <1>3, <2>3
<1> QED
  BY <1>1, <1>2, <1>3 DEF Hoped

\* What a worker has in its hands stays there, while it waits.
LEMMA HandStays ==
    ASSUME SearchInv, RunsGrow, NEW w \in Workers, worker'[w] = worker[w], NEW p \in Products, InHand(w, p)
    PROVE  InHand(w, p)'
<1>1. RunOf(w) \in Used
  BY WorkersRun DEF InHand, WorkerAt
<1>2. runs'[RunOf(w)].ids = runs[RunOf(w)].ids /\ RunOf(w)' = RunOf(w)
  BY <1>1 DEF RunsGrow, RunOf
<1> QED
  BY <1>2 DEF InHand, WorkerAt

LEMMA DocStays ==
    ASSUME SearchInv, RunsGrow, NEW p \in Products, DocOK(p), Hoped(p) => Hoped(p)', index'[p] = index[p],
           Content(p)' = Content(p) \/ Hoped(p)',
           \A w \in Workers : \/ worker'[w] = worker[w]
                              \/ (InHand(w, p) => InHand(w, p)') /\ ~WorkerAt(w, "index")'
                              \/ Hoped(p)'
    PROVE  DocOK(p)'
<1>1. CASE Hoped(p)'
  BY <1>1 DEF DocOK
<1>2. CASE ~Hoped(p)'
  <2>1. ~Hoped(p) /\ Content(p)' = Content(p)
    BY <1>2
  <2>2. \A w \in Workers : InHand(w, p) => InHand(w, p)'
    BY <1>2, HandStays
  <2>3. \A w \in Workers : (WorkerAt(w, "index") /\ p \in worker[w].todo)' =>
             WorkerAt(w, "index") /\ p \in worker[w].todo /\ worker'[w].docs = worker[w].docs
    BY <1>2 DEF WorkerAt
  <2> QED
    BY <2>1, <2>2, <2>3 DEF DocOK
<1> QED
  BY <1>1, <1>2

\* Steps that leave the workers alone.
LEMMA DocsStay ==
    ASSUME SearchInv, DocsInv, RunsGrow, UNCHANGED <<worker, index>>,
           \A p \in Products : (Wanted(p) => Wanted(p)') /\ (Content(p)' = Content(p) \/ Wanted(p)'),
           \A i \in Runs : \A p \in Products : job[i].status = "pending" => job'[i].status = "pending"
    PROVE  DocsInv'
<1> SUFFICES ASSUME NEW p \in Products PROVE DocOK(p)'
  BY DEF DocsInv
<1>1. Hoped(p) => Hoped(p)'
  BY HopeStays
<1>2. Content(p)' = Content(p) \/ Hoped(p)'
  BY DEF Hoped
<1>3. DocOK(p)
  BY DEF DocsInv
<1> QED
  BY <1>1, <1>2, <1>3, DocStays

LEMMA ContentSame == UNCHANGED db => \A p \in Products : Content(p)' = Content(p)
  BY DEF Content

LEMMA DocsInit == Init => DocsInv
<1> SUFFICES ASSUME Init, NEW p \in Products PROVE DocOK(p)
  BY DEF DocsInv
<1>1. index[p] = Content(p) /\ \A w \in Workers : worker[w].pc = "idle"
  BY DEF Init, SearchInit, IdleWorker
<1> QED
  BY <1>1 DEF DocOK, WorkerAt

\* Events, triggers and the sweep.
LEMMA TriggerDocs ==
    ASSUME AllInv, DocsInv,
           \/ \E t \in Tasks : \/ LookupFails(t) \/ Allow(t) \/ ScheduleTrailingFlush(t)
                               \/ CreateRun(t) \/ Enqueue(t) \/ TriggerFails(t) \/ UndoRun(t)
           \/ \E p \in Products : FlushTrailing(p) \/ WindowEnds(p)
           \/ (\E i \in Runs : SweepLooks(i) \/ ReconcileManually(i)) \/ SweepFinishes
    PROVE  DocsInv'
<1>0. SearchTypeOK /\ SearchInv /\ sweep \in {0} \cup Runs /\ runs \in [Runs -> Run]
  BY DEF AllInv, TypeOK, SearchTypeOK
<1>1. UNCHANGED <<db, index, worker>> /\ \A p \in Products : Content(p)' = Content(p)
  BY ContentSame DEF LookupFails, Allow, ScheduleTrailingFlush, CreateRun, Enqueue, TriggerFails, UndoRun,
     FlushTrailing, WindowEnds, SweepLooks, ReconcileManually, SweepFinishes, triggering
<1>2. ASSUME UNCHANGED job, RunsKept, TasksKept PROVE DocsInv'
  BY <1>0, <1>1, <1>2, RunsKeptUsed, DocsStay DEF TasksKept
<1>3. ASSUME NEW t \in Tasks, LookupFails(t) \/ Allow(t) \/ ScheduleTrailingFlush(t) \/ TriggerFails(t) \/ UndoRun(t) PROVE DocsInv'
  <2>1. UNCHANGED job
    BY <1>3 DEF LookupFails, Allow, ScheduleTrailingFlush, TriggerFails, UndoRun
  <2> QED
    BY <1>0, <1>2, <1>3, <2>1, TaskStep
<1>4. ASSUME NEW t \in Tasks, CreateRun(t) PROVE DocsInv'
  <2>1. UNCHANGED job
    BY <1>4 DEF CreateRun
  <2> QED
    BY <1>0, <1>1, <1>4, <2>1, CreateStep, DocsStay
<1>5. ASSUME NEW t \in Tasks, Enqueue(t) PROVE DocsInv'
  <2> DEFINE i == task[t].run
  <2>1. /\ RunsGrow /\ i \in Used /\ job[i].status = "none" /\ job'[i].status = "pending"
        /\ \A j \in Runs \ {i} : job'[j] = job[j]
        /\ Asking(t) \subseteq runs[i].ids /\ Awaited(t)' = Later(t)
        /\ \A u \in Tasks \ {t} : Awaited(u)' = Awaited(u)
    BY <1>0, <1>5, EnqueueStep
  <2>2. UNCHANGED <<lost, trailing>>
    BY <1>5 DEF Enqueue
  <2> SUFFICES ASSUME NEW p \in Products PROVE DocOK(p)'
    BY DEF DocsInv
  <2> HIDE DEF i
  <2>3. p \in Asking(t) => Hoped(p)'
    <3>1. i \in Runs /\ runs'[i].ids = runs[i].ids
      BY <2>1 DEF RunsGrow, Used
    <3> QED
      BY <2>1, <3>1 DEF Hoped
  <2>4. Wanted(p) => Wanted(p)' \/ Hoped(p)'
    BY <2>1, <2>2, <2>3 DEF Wanted, Awaited
  <2>5. \A j \in Runs : job[j].status = "pending" => job'[j].status = "pending"
    BY <2>1
  <2>6. Hoped(p) => Hoped(p)'
    <3>1. CASE Wanted(p) => Wanted(p)'
      BY <1>0, <1>1, <2>1, <2>5, <3>1, HopeStays
    <3> QED
      BY <2>4, <3>1
  <2>7. DocOK(p)
    BY DEF DocsInv
  <2> QED
    BY <1>0, <1>1, <2>1, <2>6, <2>7, DocStays
<1>6. ASSUME NEW p \in Products, FlushTrailing(p) PROVE DocsInv'
  BY <1>0, <1>2, <1>6, FlushStep DEF FlushTrailing
<1>7. ASSUME UNCHANGED <<job, trailing, task, lost>>, RunsKept PROVE DocsInv'
  BY <1>0, <1>1, <1>7, WantedAlone, RunsKeptUsed, DocsStay
<1>8. ASSUME NEW p \in Products, WindowEnds(p) PROVE DocsInv'
  BY <1>0, <1>7, <1>8, RunsUnchanged DEF WindowEnds
<1>9. ASSUME (\E i \in Runs : SweepLooks(i) \/ ReconcileManually(i)) \/ SweepFinishes PROVE DocsInv'
  <2>1. UNCHANGED <<job, trailing, task, lost>>
    BY <1>9 DEF SweepLooks, ReconcileManually, SweepFinishes, triggering
  <2>2. RunsKept
    <3>1. ASSUME NEW i \in Runs, SweepLooks(i) PROVE RunsKept
      BY <1>0, <3>1, RunsUnchanged DEF SweepLooks
    <3>2. ASSUME NEW i \in Runs, ReconcileManually(i) PROVE RunsKept
      BY <1>0, <3>2, VerdictKeeps DEF ReconcileManually
    <3>3. ASSUME SweepFinishes PROVE RunsKept
      BY <1>0, <3>3, VerdictKeeps DEF SweepFinishes
    <3> QED
      BY <1>9, <3>1, <3>2, <3>3
  <2> QED
    BY <1>7, <2>1, <2>2
<1> QED
  BY <1>3, <1>4, <1>5, <1>6, <1>8, <1>9

\* The worker reads its products, and writes them one by one.
LEMMA ListDocs ==
    ASSUME AllInv, DocsInv, SingleWorker, NEW w \in Workers, ListProducts(w)
    PROVE  DocsInv'
<1>0. SearchTypeOK /\ SearchInv /\ UNCHANGED <<db, index, job, trailing, task, lost, runs>> /\ WorkerAt(w, "list")
  BY DEF AllInv, TypeOK, ListProducts, triggering
<1>1. /\ RunsGrow /\ WorkerAt(w, "index")' /\ worker'[w].todo = runs[RunOf(w)].ids
      /\ worker'[w].docs = [p \in runs[RunOf(w)].ids |-> Content(p)]
  BY <1>0, ListStep, RunsKeptUsed
<1>2. \A u \in Workers : u = w
  BY DEF SingleWorker
<1> SUFFICES ASSUME NEW p \in Products PROVE DocOK(p)'
  BY DEF DocsInv
<1>3. Content(p)' = Content(p) /\ DocOK(p)
  BY <1>0, ContentSame DEF DocsInv
<1>4. CASE p \in runs[RunOf(w)].ids
  <2>1. worker'[w].docs[p] = Content(p)
    BY <1>1, <1>4
  <2>2. InHand(w, p)'
    BY <1>1, <1>4 DEF InHand
  <2> QED
    BY <1>2, <1>3, <2>1, <2>2 DEF DocOK
<1>5. CASE p \notin runs[RunOf(w)].ids
  <2>1. Hoped(p) => Hoped(p)'
    BY <1>0, <1>1, <1>2, <1>5, WantedAlone, HopeStays
  <2>2. Hoped(p) \/ index'[p] = Content(p)'
    BY <1>0, <1>2, <1>3 DEF DocOK, InHand, WorkerAt
  <2>3. \A u \in Workers : p \notin worker'[u].todo
    BY <1>1, <1>2, <1>5
  <2> QED
    BY <2>1, <2>2, <2>3 DEF DocOK
<1> QED
  BY <1>4, <1>5

LEMMA WriteDocs ==
    ASSUME AllInv, DocsInv, SingleWorker, NEW w \in Workers, NEW q \in Products, IndexProduct(w, q)
    PROVE  DocsInv'
<1>0. /\ SearchTypeOK /\ SearchInv /\ UNCHANGED <<db, job, trailing, task, lost>> /\ WorkerAt(w, "index")
      /\ q \in worker[w].todo /\ index \in [Products -> Documents] /\ index' = [index EXCEPT ![q] = worker[w].docs[q]]
  BY DEF AllInv, TypeOK, IndexProduct, triggering, SearchTypeOK
<1>1. /\ RunsGrow /\ worker'[w].docs = worker[w].docs /\ worker'[w].todo = worker[w].todo \ {q}
      /\ worker'[w].pc = IF worker[w].todo = {q} THEN "finish" ELSE "index"
  BY <1>0, IndexStep, RunsKeptUsed
<1>2. \A u \in Workers : u = w
  BY DEF SingleWorker
<1> SUFFICES ASSUME NEW p \in Products PROVE DocOK(p)'
  BY DEF DocsInv
<1>3. Content(p)' = Content(p) /\ DocOK(p)
  BY <1>0, ContentSame DEF DocsInv
<1>4. Hoped(p) => Hoped(p)'
  BY <1>0, <1>1, <1>2, WantedAlone, HopeStays DEF WorkerAt
<1>5. CASE ~Hoped(p) /\ p = q
  <2>1. index'[p] = Content(p)'
    BY <1>0, <1>3, <1>5 DEF DocOK
  <2>2. \A u \in Workers : p \notin worker'[u].todo
    BY <1>1, <1>2, <1>5
  <2> QED
    BY <2>1, <2>2 DEF DocOK
<1>6. CASE ~Hoped(p) /\ p # q
  <2>1. index'[p] = index[p] /\ (p \in worker'[w].todo <=> p \in worker[w].todo)
    BY <1>0, <1>1, <1>6
  <2>2. p \in worker[w].todo => WorkerAt(w, "index")'
    BY <1>1, <1>6 DEF WorkerAt
  <2>3. p \in worker[w].todo => worker'[w].docs[p] = Content(p)' /\ InHand(w, p)'
    BY <1>0, <1>1, <1>3, <1>6, <2>1, <2>2 DEF DocOK, InHand
  <2>4. p \notin worker[w].todo => index'[p] = Content(p)'
    BY <1>0, <1>2, <1>3, <1>6, <2>1 DEF DocOK, InHand, WorkerAt
  <2> QED
    BY <1>2, <2>1, <2>3, <2>4 DEF DocOK
<1> QED
  BY <1>4, <1>5, <1>6 DEF DocOK

\* The worker takes a job, gives it up, writes a verdict, purges, reports or dies.
LEMMA WorkerDocs ==
    ASSUME AllInv, DocsInv, SingleWorker, NEW w \in Workers,
           \/ \E i \in Runs : Dequeue(w, i)
           \/ HandleFails(w) \/ GiveUp(w) \/ FinishRun(w) \/ Complete(w) \/ Fail(w)
           \/ AfterProductsIndexed(w) \/ IndexedPagesPurged(w) \/ WorkerCrashes(w)
    PROVE  DocsInv'
<1>0. /\ SearchTypeOK /\ SearchInv /\ UNCHANGED <<db, index, trailing, task>>
  BY DEF AllInv, TypeOK, Dequeue, HandleFails, GiveUp, FinishRun, Complete, Fail,
     AfterProductsIndexed, IndexedPagesPurged, WorkerCrashes, WorkerDies, triggering
<1>1. \A u \in Workers : u = w
  BY DEF SingleWorker
<1> SUFFICES ASSUME NEW p \in Products PROVE DocOK(p)'
  BY DEF DocsInv
<1>2. Content(p)' = Content(p) /\ DocOK(p) /\ index'[p] = index[p]
  BY <1>0, ContentSame DEF DocsInv
<1>3. ASSUME RunsGrow, Wanted(p) => Wanted(p)' \/ Hoped(p)', ~WorkerAt(w, "index")',
             \A i \in Runs : job[i].status = "pending" /\ p \in runs[i].ids => job'[i].status = "pending" \/ Hoped(p)',
             WorkerAt(w, "list") => p \notin runs[RunOf(w)].ids \/ Hoped(p)' \/ InHand(w, p)',
             InHand(w, p) => InHand(w, p)' \/ Hoped(p)'
      PROVE  DocOK(p)'
  <2>1. CASE Hoped(p)'
    BY <2>1 DEF DocOK
  <2>2. CASE InHand(w, p)'
    BY <1>1, <1>3, <2>2 DEF DocOK
  <2>3. CASE ~Hoped(p)' /\ ~InHand(w, p)'
    <3>1. Hoped(p) => Hoped(p)'
      BY <1>0, <1>1, <1>3, <2>3, HopeStays
    <3> QED
      BY <1>0, <1>1, <1>2, <1>3, <2>3, <3>1, DocStays
  <2> QED
    BY <2>1, <2>2, <2>3
<1>4. ASSUME NEW i \in Runs, Dequeue(w, i) PROVE DocOK(p)'
  <2>1. /\ RunsGrow /\ job[i].status = "pending" /\ (\A j \in Runs \ {i} : job'[j] = job[j])
        /\ WorkerAt(w, "list")' /\ RunOf(w)' = i /\ UNCHANGED <<runs, lost>> /\ WorkerAt(w, "idle")
    BY <1>0, <1>4, DequeueStep DEF Dequeue
  <2>2. Wanted(p) => Wanted(p)'
    BY <1>0, <2>1, WantedAlone
  <2>3. p \in runs[i].ids => Hoped(p)'
    BY <2>1 DEF Hoped
  <2>4. ~InHand(w, p) /\ ~WorkerAt(w, "list") /\ ~WorkerAt(w, "index")'
    BY <2>1 DEF InHand, WorkerAt
  <2> QED
    BY <1>3, <2>1, <2>2, <2>3, <2>4
<1>5. CASE HandleFails(w) \/ GiveUp(w) \/ FinishRun(w) \/ AfterProductsIndexed(w) \/ IndexedPagesPurged(w)
  <2>1. /\ RunsKept /\ RunsGrow /\ RunOf(w)' = RunOf(w)
        /\ worker'[w].pc \in {"insist", "giveup", "nack", "purge", "purging", "ack"}
    BY <1>0, <1>5, WorkerStep, RunsKeptUsed
  <2>2. UNCHANGED <<job, lost>> /\ worker \in [Workers -> Worker]
    BY <1>0, <1>5 DEF HandleFails, GiveUp, FinishRun, AfterProductsIndexed, IndexedPagesPurged, SearchTypeOK
  <2>3. Wanted(p) => Wanted(p)'
    BY <1>0, <2>2, WantedAlone
  <2>4. WorkerAt(w, "list") \/ InHand(w, p) => worker'[w].pc \in {"giveup", "nack"}
    <3>1. CASE HandleFails(w)
      BY <2>2, <3>1 DEF HandleFails, WorkerGoto
    <3>2. CASE GiveUp(w)
      BY <2>2, <3>2 DEF GiveUp, WorkerGoto
    <3>3. CASE FinishRun(w) \/ AfterProductsIndexed(w) \/ IndexedPagesPurged(w)
      BY <3>3 DEF FinishRun, AfterProductsIndexed, IndexedPagesPurged, WorkerAt, InHand
    <3> QED
      BY <1>5, <3>1, <3>2, <3>3
  <2>5. (WorkerAt(w, "list") /\ p \in runs[RunOf(w)].ids) \/ InHand(w, p) => InHand(w, p)'
    <3> SUFFICES ASSUME (WorkerAt(w, "list") /\ p \in runs[RunOf(w)].ids) \/ InHand(w, p) PROVE InHand(w, p)'
      OBVIOUS
    <3>1. ~WorkerAt(w, "idle")
      BY DEF WorkerAt, InHand
    <3>2. RunOf(w) \in Runs /\ p \in runs[RunOf(w)].ids
      BY <1>0, <3>1, WorkersRun DEF InHand
    <3>3. p \in runs'[RunOf(w)].ids
      BY <2>1, <3>2 DEF RunsKept
    <3> QED
      BY <2>1, <2>4, <3>3 DEF InHand
  <2>6. ~WorkerAt(w, "index")'
    BY <2>1 DEF WorkerAt
  <2> QED
    BY <1>3, <2>1, <2>2, <2>3, <2>5, <2>6
<1>6. CASE Complete(w) \/ Fail(w)
  <2>1. /\ job'[RunOf(w)].status = IF WorkerAt(w, "ack") THEN "done" ELSE IF LastAttempt(w) THEN "failed" ELSE "pending"
        /\ job[RunOf(w)].status = "processing" /\ (\A j \in Runs \ {RunOf(w)} : job'[j] = job[j])
        /\ WorkerAt(w, "idle")' /\ RunsGrow /\ RunOf(w) \in Used
    BY <1>0, <1>6, ReportStep
  <2>2. UNCHANGED runs /\ lost \subseteq lost' /\ worker[w].pc \in {"ack", "nack"}
    BY <1>6 DEF Complete, Fail, WorkerAt
  <2>3. Wanted(p) => Wanted(p)'
    BY <1>0, <2>2, WantedAlone
  <2>4. InHand(w, p) => Hoped(p)'
    <3> SUFFICES ASSUME InHand(w, p) PROVE Hoped(p)'
      OBVIOUS
    <3>1. Fail(w) /\ p \in runs[RunOf(w)].ids /\ ~WorkerAt(w, "ack")
      BY <1>6, <2>2 DEF InHand, WorkerAt, Complete
    <3>2. CASE LastAttempt(w)
      BY <3>1, <3>2 DEF Fail, Hoped, Wanted
    <3>3. CASE ~LastAttempt(w)
      <4>1. PICK i \in Runs : i = RunOf(w)
        BY <2>1 DEF Used
      <4> QED
        BY <2>1, <2>2, <3>1, <3>3, <4>1 DEF Hoped
    <3> QED
      BY <3>2, <3>3
  <2>5. ~WorkerAt(w, "list") /\ ~WorkerAt(w, "index")' /\ \A i \in Runs : job[i].status = "pending" => job'[i].status = "pending"
    BY <2>1, <2>2 DEF WorkerAt
  <2> QED
    BY <1>3, <2>1, <2>3, <2>4, <2>5
<1>7. CASE WorkerCrashes(w)
  <2>1. /\ WorkerDies(w) /\ ~WorkerAt(w, "idle") /\ lost' = lost \cup runs[RunOf(w)].ids /\ UNCHANGED <<runs, job>>
    BY <1>7 DEF WorkerCrashes, WorkerDies
  <2>2. WorkerAt(w, "idle")' /\ RunsGrow
    BY <1>0, <2>1, DeathStep, RunsKeptUsed
  <2>3. Wanted(p) => Wanted(p)'
    BY <1>0, <2>1, WantedAlone
  <2>4. p \in runs[RunOf(w)].ids => Hoped(p)'
    BY <2>1 DEF Hoped, Wanted
  <2>5. InHand(w, p) => p \in runs[RunOf(w)].ids
    BY <1>0, <2>1, WorkersRun DEF InHand
  <2>6. ~WorkerAt(w, "index")'
    BY <2>2 DEF WorkerAt
  <2> QED
    BY <1>3, <2>1, <2>2, <2>3, <2>4, <2>5, <2>6
<1> QED
  BY <1>4, <1>5, <1>6, <1>7

LEMMA EditDocs ==
    ASSUME AllInv, DocsInv, NEW e \in Events, Edit(e) \/ EditUnheard(e)
    PROVE  DocsInv'
<1> DEFINE p == up.events[e].product
<1>0. SearchTypeOK /\ SearchInv /\ FreshInv /\ up \in Setups /\ db \in [Products -> Nat]
  BY DEF AllInv, TypeOK, SearchTypeOK
<1>1. p \in Products
  BY <1>0, CatalogueAssumption DEF CatalogueAssumption
<1>2. e \in fresh /\ db' = [db EXCEPT ![p] = @ + 1] /\ UNCHANGED <<index, worker, job, runs, recent, trailing>>
  BY DEF Edit, EditUnheard, Commit
<1>3. TaskAt(<<"event", e>>, "idle")
  BY <1>0, <1>2 DEF FreshInv
<1>4. \A q \in Products : q \notin {p} \cup Parents[p] => Content(q)' = Content(q)
  <2> SUFFICES ASSUME NEW q \in Products, q \notin {p} \cup Parents[p] PROVE Content(q)' = Content(q)
    OBVIOUS
  <2>1. \A x \in {y \in Products : y = q \/ q \in Parents[y]} : db'[x] = db[x]
    BY <1>0, <1>2
  <2> QED
    BY <2>1 DEF Content
<1>5. RunsGrow
  BY <1>0, <1>2, RunsUnchanged, RunsKeptUsed
<1>6. \A q \in Products : (Wanted(q) => Wanted(q)') /\ (q \in {p} \cup Parents[p] => Wanted(q)')
  <2>1. CASE Edit(e)
    <3>1. StartReindex(e, p) /\ lost' = lost \ ({p} \cup Parents[p])
      BY <2>1 DEF Edit
    <3>2. TasksKept /\ \A q \in {p} \cup Parents[p] : q \in Awaited(<<"event", e>>)'
      BY <1>0, <1>1, <1>2, <1>3, <3>1, EventStep
    <3>3. <<"event", e>> \in Tasks
      BY Names
    <3> QED
      BY <3>2, <3>3 DEF TasksKept, Wanted
  <2>2. CASE EditUnheard(e)
    <3>1. lost' = lost \cup {p} \cup Parents[p] /\ UNCHANGED task
      BY <2>2 DEF EditUnheard
    <3> QED
      BY <1>2, <3>1, WantedAlone DEF Wanted
  <2> QED
    BY <2>1, <2>2
<1> QED
  BY <1>0, <1>2, <1>4, <1>5, <1>6, DocsStay

LEMMA DocsStep == SingleWorker /\ AllInv /\ DocsInv /\ [Next]_vars => DocsInv'
<1> SUFFICES ASSUME SingleWorker, AllInv, DocsInv, [Next]_vars PROVE DocsInv'
  OBVIOUS
<1>0. SearchTypeOK /\ SearchInv /\ FreshInv /\ fresh \subseteq Events
  BY DEF AllInv, TypeOK
<1>1. ASSUME UNCHANGED <<db, index, worker, job>>, RunsKept, TasksKept PROVE DocsInv'
  BY <1>0, <1>1, ContentSame, RunsKeptUsed, DocsStay DEF TasksKept
<1>2. ASSUME UNCHANGED <<db, index, worker, job, runs, trailing, task, lost>> PROVE DocsInv'
  BY <1>0, <1>2, ContentSame, RunsUnchanged, RunsKeptUsed, WantedAlone, DocsStay
<1>3. CASE SearchStep
  BY <1>3, TriggerDocs, ListDocs, WriteDocs, WorkerDocs DEF SearchStep
<1>4. CASE ServerRestarts
  BY <1>0, <1>1, <1>4, RestartStep DEF ServerRestarts
<1>5. ASSUME NEW e \in Events, ReindexAll(e) PROVE DocsInv'
  <2>1. e \in fresh /\ StartReindexAll(e) /\ UNCHANGED <<db, index, worker, job, recent, trailing, lost, runs>>
    BY <1>5 DEF ReindexAll
  <2> QED
    BY <1>0, <1>1, <2>1, FullScanStep DEF FreshInv
<1>6. CASE (\E p \in Purgers : PurgeGoesWrong(p)) \/ (\E r \in Requests : StoreGoesWrong(r)) \/ PageStep \/ CategoryStep \/ UNCHANGED vars
  BY <1>2, <1>6 DEF PurgeGoesWrong, StoreGoesWrong, PageStep, CategoryStep, vars, searchVars, triggering
<1> QED
  BY <1>3, <1>4, <1>5, <1>6, EditDocs, WorkerDocs DEF Next

\* With one worker, the search engine holds the latest state of every product when no event
\* is being debounced, no trigger is under way and no reindex job waits or runs, except
\* where a trigger, a job or a process was lost (ReindexSubscriber, ReindexHandler).
THEOREM IndexIsCurrent == SingleWorker => (Spec => []IndexSettles)
<1> SUFFICES ASSUME SingleWorker PROVE Spec => []IndexSettles
  OBVIOUS
<1>1. AllInv /\ DocsInv => IndexSettles
  <2> SUFFICES ASSUME AllInv, DocsInv, Quiet, NEW p \in Products PROVE p \in lost \/ index[p] = Content(p)
    BY DEF IndexSettles
  <2>1. /\ trailing = {} /\ (\A t \in Tasks : task[t].pc = "idle") /\ (\A w \in Workers : worker[w].pc = "idle")
        /\ \A i \in Runs : job[i].status # "pending"
    BY DEF Quiet, TaskAt, WorkerAt
  <2>2. \A t \in Tasks : Awaited(t) = {}
    BY <2>1 DEF AllInv, SearchInv, TaskInv, TaskAt, Awaited, Asking, Later
  <2>3. ~Hoped(p) \/ p \in lost
    BY <2>1, <2>2 DEF Hoped, Wanted, WorkerAt
  <2>4. \A w \in Workers : ~InHand(w, p)
    BY <2>1 DEF InHand, WorkerAt
  <2> QED
    BY <2>3, <2>4 DEF DocsInv, DocOK
<1>2. DocsInv /\ AllInv /\ [Next]_vars => DocsInv'
  BY DocsStep
<1> QED
  BY <1>1, <1>2, DocsInit, AllInvariant, PTL DEF Spec
==============================================================================
