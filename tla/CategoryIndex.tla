---------------------------- MODULE CategoryIndex ----------------------------
(***************************************************************************)
(* A category as readers see it: its document in the search engine, kept    *)
(* by event handlers of any server instance under an advisory lock          *)
(* (internal/application/search, internal/infrastructure/postgres), and the *)
(* category tree each instance holds in its own memory                      *)
(* (internal/infrastructure/localcache).                                    *)
(***************************************************************************)
EXTENDS Naturals

CONSTANTS
    CatEdits,    \* requests of administrators: update, delete, assign a product
    Instances,   \* server processes
    Readers,     \* requests that read the category tree
    Absent       \* no document, no entry, nobody

ASSUME CategoryAssumption == Absent \notin Nat \cup CatEdits

VARIABLES
    cat,       \* categories: version of the row, and whether it is there
    catDoc,    \* the version in the search engine, or Absent
    catLock,   \* holder of pg_advisory_xact_lock(category)
    catEdit,   \* requests and, after their Publish, the asynchronous handler
    nav,       \* catNav of each instance: entry and generation
    reader,    \* GetOrLoad calls
    catLost,   \* history: a handler or a Publish gave up
    told       \* history: newest version whose request has cleared the instance's tree

catVars == <<cat, catDoc, catLock, catEdit, nav, reader, catLost, told>>

NoEdit == [pc |-> "none", op |-> "update", at |-> Absent, ver |-> 0]
NoLoad == [pc |-> "idle", at |-> Absent, gen |-> 0, ver |-> 0]

CatInit ==
    /\ cat = [ver |-> 0, live |-> TRUE] /\ catDoc = 0 /\ catLock = Absent
    /\ catEdit = [e \in CatEdits |-> NoEdit]
    /\ nav = [i \in Instances |-> [entry |-> Absent, gen |-> 0]]
    /\ reader = [r \in Readers |-> NoLoad]
    /\ catLost = FALSE /\ told = [i \in Instances |-> 0]

CategoryEdit == [pc : {"none", "publish", "lock", "read", "engine", "done"}, op : {"update", "delete", "assign"},
                 at : Instances \cup {Absent}, ver : Nat]
TreeStore == [entry : Nat \cup {Absent}, gen : Nat]
TreeLoad == [pc : {"idle", "load", "store"}, at : Instances \cup {Absent}, gen : Nat, ver : Nat]

CatTypeOK ==
    /\ cat \in [ver : Nat, live : BOOLEAN] /\ catDoc \in Nat \cup {Absent}
    /\ catLock \in CatEdits \cup {Absent} /\ catEdit \in [CatEdits -> CategoryEdit]
    /\ nav \in [Instances -> TreeStore] /\ reader \in [Readers -> TreeLoad]
    /\ catLost \in BOOLEAN /\ told \in [Instances -> Nat]

EditAt(e, pc) == catEdit[e].pc = pc
EditGoto(e, pc) == catEdit' = [catEdit EXCEPT ![e].pc = pc]

------------------------------------------------------------------------------
(* The administrator's request: the row, then the event *)

\* The row is committed.  An assignment of a product counts as a new version of the
\* document, which holds the number of products, not of the tree.
CommitCategory(e, op, i) ==
    /\ EditAt(e, "none") /\ cat.live
    /\ cat' = [ver |-> cat.ver + 1, live |-> op # "delete"]
    /\ catEdit' = [catEdit EXCEPT ![e] = [pc |-> "publish", op |-> op, at |-> i, ver |-> cat.ver + 1]]
    /\ UNCHANGED <<catDoc, catLock, nav, reader, catLost, told>>

\* Mutant: only the entry goes.
ClearedEntry(store) == [store EXCEPT !.entry = Absent]

\* Clear, and every write from outside GetOrLoad, starts a new generation.
Cleared(store) == [entry |-> Absent, gen |-> store.gen + 1]

\* Publish: the tree of this instance is cleared before the request returns, unless
\* the change is an assignment; the handler of the search index starts.
PublishCategory(e) ==
    /\ EditAt(e, "publish") /\ EditGoto(e, "lock")
    /\ LET i == catEdit[e].at
           clears == catEdit[e].op # "assign"
       IN /\ nav' = IF clears THEN [nav EXCEPT ![i] = Cleared(@)] ELSE nav
          /\ told' = IF clears /\ told[i] < catEdit[e].ver THEN [told EXCEPT ![i] = catEdit[e].ver] ELSE told
    /\ UNCHANGED <<cat, catDoc, catLock, reader, catLost>>

\* A synchronous handler fails before: Publish stops and its caller ignores it.
PublishCategoryFails(e) ==
    /\ EditAt(e, "publish") /\ catEdit[e].op # "assign" /\ EditGoto(e, "done")
    /\ catLost' = TRUE
    /\ UNCHANGED <<cat, catDoc, catLock, nav, reader, told>>

------------------------------------------------------------------------------
(* HandleCategoryUpdated and HandleCategoryDeleted *)

\* Mutant: handlers do not wait for each other.
LockIgnored == TRUE

LockFree == catLock = Absent

LockCategory(e) ==
    /\ EditAt(e, "lock") /\ LockFree /\ catLock' = e
    /\ EditGoto(e, IF catEdit[e].op = "delete" THEN "engine" ELSE "read")
    /\ UNCHANGED <<cat, catDoc, nav, reader, catLost, told>>

\* GetByID under the lock: the current row, or nothing to index.
ReadCategory(e) ==
    /\ EditAt(e, "read")
    /\ IF cat.live
       THEN /\ catEdit' = [catEdit EXCEPT ![e].pc = "engine", ![e].ver = cat.ver]
            /\ UNCHANGED catLock
       ELSE EditGoto(e, "done") /\ catLock' = Absent
    /\ UNCHANGED <<cat, catDoc, nav, reader, catLost, told>>

\* IndexCategory or RemoveCategory, with its retries, and the unlock.
EngineCall(e) ==
    /\ EditAt(e, "engine") /\ EditGoto(e, "done") /\ catLock' = Absent
    /\ catDoc' = IF catEdit[e].op = "delete" THEN Absent ELSE catEdit[e].ver
    /\ UNCHANGED <<cat, nav, reader, catLost, told>>

\* The lock, the read or every attempt of the engine fails: the change is dropped.
CategoryHandlerFails(e) ==
    /\ catEdit[e].pc \in {"lock", "read", "engine"} /\ EditGoto(e, "done")
    /\ catLock' = IF catLock = e THEN Absent ELSE catLock
    /\ catLost' = TRUE
    /\ UNCHANGED <<cat, catDoc, nav, reader, told>>

------------------------------------------------------------------------------
(* GetOrLoad *)

\* Get misses; the generation is read next.
StartLoad(r, i) ==
    /\ reader[r].pc = "idle" /\ nav[i].entry = Absent
    /\ reader' = [reader EXCEPT ![r] = [pc |-> "load", at |-> i, gen |-> nav[i].gen, ver |-> 0]]
    /\ UNCHANGED <<cat, catDoc, catLock, catEdit, nav, catLost, told>>

\* The loader: FindAll.
LoadTree(r) ==
    /\ reader[r].pc = "load"
    /\ reader' = [reader EXCEPT ![r].pc = "store", ![r].ver = cat.ver]
    /\ UNCHANGED <<cat, catDoc, catLock, catEdit, nav, catLost, told>>

\* The tree is kept if nothing was invalidated meanwhile.
StoreTree(r) ==
    /\ reader[r].pc = "store" /\ reader' = [reader EXCEPT ![r] = NoLoad]
    /\ LET i == reader[r].at IN
       nav' = IF nav[i].gen = reader[r].gen THEN [nav EXCEPT ![i].entry = reader[r].ver] ELSE nav
    /\ UNCHANGED <<cat, catDoc, catLock, catEdit, catLost, told>>

\* The entry's time is over: the next Get removes it, in the same generation.
ExpireTree(i) ==
    /\ nav[i].entry # Absent
    /\ nav' = [nav EXCEPT ![i].entry = Absent]
    /\ UNCHANGED <<cat, catDoc, catLock, catEdit, reader, catLost, told>>
==============================================================================
