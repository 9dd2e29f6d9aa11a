------------------------------ MODULE Catalogue ------------------------------
(***************************************************************************)
(* What follows an edit of the catalogue: the event it publishes reindexes  *)
(* the product (SearchIndex) and purges the pages that show it (PageCache), *)
(* the reindex purges them again, and visitors render and store pages all   *)
(* the while.  Categories (CategoryIndex) share nothing with products but   *)
(* the bus.                                                                 *)
(***************************************************************************)
EXTENDS SearchIndex, PageCache, CategoryIndex

CONSTANTS
    Subject,        \* Subject[k]: the product of a product page, or Listing
    PurgeListings,  \* catalog.visibility.enforce
    Setups          \* what a behaviour consists of: product events, the page each request asks
                    \* for, faults, whether a server restarts,
                    \* whether pages expire, and whether categories change

ASSUME CatalogueAssumption ==
    /\ Tags = Products \cup {Listing} /\ Subject \in [Keys -> Tags]
    /\ TagsOf = [k \in Keys |-> IF Subject[k] = Listing THEN Tags ELSE {Subject[k]}]
    /\ Purgers = {<<"event", e>> : e \in Events} \cup {<<"indexed", w>> : w \in Workers}
    /\ Setups \subseteq [events : [Events -> [kind : {"none", "product", "price", "full"}, product : Products]],
                         asks : [Requests -> Keys \cup {NoPage}], faults : Nat,
                         restart : BOOLEAN, expiry : BOOLEAN, categories : BOOLEAN]

\* What a product page and a listing show.
Contents == Documents \cup [Products -> Documents]
ASSUME ContentAssumption ==
    /\ \A S \in SUBSET Products : NoPage \notin [S -> Nat]
    /\ NoPage \notin [Products -> Documents] /\ NoPage \notin PageRow(Contents)

VARIABLES
    up,     \* the setup of this behaviour
    fresh   \* product events that have not happened

vars == <<up, fresh, searchVars, pageVars, catVars>>

Init ==
    /\ up \in Setups
    /\ fresh = {e \in Events : up.events[e].kind # "none"}
    /\ SearchInit(up.faults) /\ PageInit /\ CatInit

\* A product page shows rows of the database, a listing what the search engine returns.
Rendered(k) == IF Subject[k] = Listing THEN index ELSE Content(Subject[k])

------------------------------------------------------------------------------
(* Edits *)

EventPurge(e) == <<"event", e>>
IndexedPurge(w) == <<"indexed", w>>

Commit(e) ==
    /\ e \in fresh /\ fresh' = fresh \ {e} /\ up.events[e].kind # "full"
    /\ db' = [db EXCEPT ![up.events[e].product] = @ + 1]

\* HandleProductUpdated purges the listings too; HandlePriceUpserted and
\* HandleStockUpdated do where visibility depends on them.
EventTags(e) ==
    LET p == up.events[e].product
        products == <<p>> \o SetToSeq(Parents[p] \ {p})
    IN IF up.events[e].kind = "product" \/ PurgeListings THEN <<Listing>> \o products ELSE products

\* A product, a price or a stock level is saved and its event published.
Edit(e) ==
    /\ Commit(e) /\ StartReindex(e, up.events[e].product) /\ StartPurge(EventPurge(e), EventTags(e))
    /\ lost' = lost \ ({up.events[e].product} \cup Parents[up.events[e].product])
    /\ UNCHANGED <<index, recent, trailing, runs, job, worker, sweep, budget>>
    /\ UNCHANGED <<up, store, req, coalescer, purgeFailed, catVars>>

\* It is saved, and no handler hears of it: the server dies, or a synchronous handler
\* fails and the caller ignores what Publish returns.
EditUnheard(e) ==
    /\ Commit(e) /\ Fault /\ purgeFailed' = TRUE
    /\ lost' = lost \cup {up.events[e].product} \cup Parents[up.events[e].product]
    /\ UNCHANGED <<index, recent, trailing, task, runs, job, worker, sweep>>
    /\ UNCHANGED <<up, store, req, coalescer, purge, catVars>>

ReindexAll(e) ==
    /\ e \in fresh /\ fresh' = fresh \ {e} /\ up.events[e].kind = "full"
    /\ StartReindexAll(e)
    /\ UNCHANGED <<db, index, recent, trailing, runs, job, worker, sweep, budget, lost>>
    /\ UNCHANGED <<up, pageVars, catVars>>

------------------------------------------------------------------------------
(* AfterProductsIndexed *)

\* The listing, and the products of a scoped run.
IndexedTags(i) == <<Listing>> \o (IF runs[i].all THEN <<>> ELSE SetToSeq(runs[i].ids))

\* Mutant: only the event purges.
NothingAfterIndexed(w) ==
    /\ WorkerAt(w, "purge") /\ WorkerGoto(w, "ack")
    /\ UNCHANGED <<db, index, triggering, runs, job, sweep, budget, lost>>
    /\ UNCHANGED <<up, fresh, pageVars, catVars>>

AfterProductsIndexed(w) ==
    /\ WorkerAt(w, "purge") /\ WorkerGoto(w, "purging")
    /\ StartPurge(IndexedPurge(w), IndexedTags(RunOf(w)))
    /\ UNCHANGED <<db, index, triggering, runs, job, sweep, budget, lost>>
    /\ UNCHANGED <<up, fresh, store, req, coalescer, purgeFailed, catVars>>

\* A failed purge does not fail the reindex.
IndexedPagesPurged(w) ==
    /\ WorkerAt(w, "purging") /\ purge[IndexedPurge(w)].pc = "idle" /\ WorkerGoto(w, "ack")
    /\ UNCHANGED <<db, index, triggering, runs, job, sweep, budget, lost>>
    /\ UNCHANGED <<up, fresh, pageVars, catVars>>

\* The worker process dies, and with it the purge it was in.
WorkerCrashes(w) ==
    /\ WorkerDies(w)
    /\ purge' = [purge EXCEPT ![IndexedPurge(w)] = IdlePurge]
    /\ purgeFailed' = (purgeFailed \/ WorkerAt(w, "purge") \/ WorkerAt(w, "purging"))
    /\ UNCHANGED <<up, fresh, store, req, coalescer, catVars>>

\* The server restarts: requests, handlers, timers, the debounce and the coalescer are gone.
ServerRestarts ==
    /\ up.restart /\ Fault
    /\ task' = [t \in Tasks |-> NoTask] /\ trailing' = {} /\ recent' = {}
    /\ lost' = lost \cup trailing \cup UNION {Covered(x) : x \in UNION {ToSet(task[t].todo) : t \in Tasks}}
    /\ req' = [r \in Requests |-> IF req[r].pc \in {"idle", "served"} THEN req[r] ELSE [IdleRequest EXCEPT !.pc = "dead"]]
    /\ inflight' = [k \in Keys |-> NoRequest]
    /\ purge' = [p \in Purgers |-> IF p \in {EventPurge(e) : e \in Events} THEN IdlePurge ELSE purge[p]]
    /\ purgeFailed' = (purgeFailed \/ \E e \in Events : purge[EventPurge(e)].pc # "idle")
    /\ UNCHANGED <<up, fresh, db, index, runs, job, worker, sweep, store, call, catVars>>

------------------------------------------------------------------------------
(* The next-state relation *)

\* Handlers stop at a listing that fails, and after a reindex at any tag; a product's
\* handler goes on to the bundles.  Their lookup counts as part of the first one's purge.
Onward(p) == p[1] = "event" /\ Head(purge[p].tags) # Listing

PurgeGoesWrong(p) ==
    /\ purge[p].pc # "idle" /\ PurgeFails(p, Onward(p))
    /\ \/ (\E r \in Requests : Deadlocked(r, p)) /\ NoFault
       \/ Fault
    /\ UNCHANGED <<up, fresh, catVars, db, index, triggering, runs, job, worker, sweep, lost>>

StoreGoesWrong(r) ==
    /\ StoreFails(r) /\ Fault
    /\ UNCHANGED <<up, fresh, catVars, db, index, triggering, runs, job, worker, sweep, lost>>

RequestStep(r) ==
    \/ EnterDo(r) \/ JoinCall(r) \/ StopWaiting(r) \/ LookAgain(r) \/ EvictPage(r) \/ Bypass(r)
    \/ CloseCall(r) \/ RemoveCall(r)
    \/ UpsertPage(r) \/ TagPage(r) \/ CommitPage(r) \/ DeadlockAbortsStore(r)
RenderStep(r) == Render(r, Rendered(KeyOf(r))) \/ Panic(r)
PurgeStep(p) == DeleteTagRows(p) \/ DeletePages(p)

PageStep ==
    /\ \/ \E r \in Requests : RequestStep(r) \/ RenderStep(r)
       \/ \E r \in Requests : up.asks[r] # NoPage /\ Lookup(r, up.asks[r])
       \/ \E p \in Purgers : PurgeStep(p)
       \/ \E k \in Keys : up.expiry /\ ExpirePage(k)
       \/ SweepPages \/ SweepTags
    /\ UNCHANGED <<up, fresh, searchVars, catVars>>

CategoryStep ==
    /\ up.categories
    /\ \/ \E e \in CatEdits : \/ \E op \in {"update", "delete", "assign"}, i \in Instances : CommitCategory(e, op, i)
                              \/ PublishCategory(e) \/ PublishCategoryFails(e) \/ LockCategory(e)
                              \/ ReadCategory(e) \/ EngineCall(e) \/ CategoryHandlerFails(e)
       \/ \E r \in Readers : (\E i \in Instances : StartLoad(r, i)) \/ LoadTree(r) \/ StoreTree(r)
       \/ \E i \in Instances : ExpireTree(i)
    /\ UNCHANGED <<up, fresh, searchVars, pageVars>>

Next ==
    \/ \E e \in Events : Edit(e) \/ EditUnheard(e) \/ ReindexAll(e)
    \/ \E w \in Workers : AfterProductsIndexed(w) \/ IndexedPagesPurged(w) \/ WorkerCrashes(w)
    \/ \E p \in Purgers : PurgeGoesWrong(p)
    \/ \E r \in Requests : StoreGoesWrong(r)
    \/ ServerRestarts
    \/ SearchStep /\ UNCHANGED <<up, fresh, pageVars, catVars>>
    \/ PageStep \/ CategoryStep

Spec == Init /\ [][Next]_vars

\* Goroutines and workers run and statements return; a renderer may hang.  One condition
\* for all of them is enough, and asks for less than one each: a system that can go on does.
Progress ==
    \/ SearchProgress /\ UNCHANGED <<up, fresh, pageVars, catVars>>
    \/ \E w \in Workers : AfterProductsIndexed(w) \/ IndexedPagesPurged(w)
    \/ /\ \/ \E p \in Purgers : PurgeStep(p)
          \/ \E r \in Requests : RequestStep(r)
          \/ \E r \in Requests \ Hanging : RenderStep(r)
       /\ UNCHANGED <<up, fresh, searchVars, catVars>>

FairSpec == Spec /\ WF_vars(Progress)

------------------------------------------------------------------------------
(* Properties *)

TypeOK ==
    /\ up \in Setups /\ fresh \subseteq Events
    /\ SearchTypeOK /\ PageTypeOK(Contents) /\ CatTypeOK

\* Once edits end, the search engine holds the latest state of every product, however
\* the events were debounced; except where a trigger, a job or a process was lost.  This
\* needs a single worker: nothing keeps a second one from writing an older read later.
IndexConverges == <>[](\A p \in Products : p \in lost \/ index[p] = Content(p))

\* No run stays without a verdict, whatever fails, unless its worker died and its job
\* is processing for ever; and no job is done over a run that has none.
EveryRunGetsVerdict ==
    []<>(\A i \in Runs : /\ runs[i].status = "processing" => Abandoned(i)
                         /\ job[i].status = "done" => runs[i].status \in {"completed", "failed"})

\* A request does not hang with the renderer of another one.
EveryRequestIsServed == []<>(\A r \in Requests \ Hanging : req[r].pc \in {"idle", "served", "dead"})

\* No edit, event, reindex or purge is under way, and none has failed.
Settled ==
    /\ lost = {} /\ ~purgeFailed /\ trailing = {}
    /\ \A t \in Tasks : TaskAt(t, "idle")
    /\ \A p \in Purgers : purge[p].pc = "idle"
    /\ \A w \in Workers : WorkerAt(w, "idle")
    /\ \A i \in Runs : job[i].status \in {"none", "done"}

\* When all is settled, a page that shows an old state was rendered before a purge that
\* overtook it, or has lost one of its tags: purges reach every other page, and the one
\* after the reindex comes after the new documents.
StalePageIsExplained ==
    Settled => \A k \in Keys : Live(k) /\ row[k].content # Rendered(k)
                   => row[k].raced \/ \E t \in TagsOf[k] : <<t, k>> \notin tagRow

\* When no handler is at work and none gave up, a deleted category is not searchable and
\* another one is indexed in its latest version, whatever instances handled the events.
CategoryIndexSettles ==
    (~catLost /\ \A e \in CatEdits : catEdit[e].pc \in {"none", "done"})
        => catDoc = IF cat.live THEN cat.ver ELSE Absent

\* After the request that changed a category has returned, its instance never holds the
\* tree as it was before.
TreeIsNotStale == \A i \in Instances : nav[i].entry # Absent => nav[i].entry >= told[i]
==============================================================================
