------------------------------ MODULE PageCache ------------------------------
(***************************************************************************)
(* The full-page cache of the storefront: requests that look a page up,     *)
(* coalesce their misses (internal/application/cache/stampede.go), render   *)
(* and store (internal/interfaces/http/storefront/full_page_cache.go), the  *)
(* cache and cache_tags tables of Postgres, and the purges by tag.  The     *)
(* transaction that stores a page and the statement that purges a tag take  *)
(* two steps each, with the row locks Postgres holds between them.          *)
(***************************************************************************)
EXTENDS Naturals, FiniteSets, Sequences

CONSTANTS
    Keys,       \* cached pages
    Tags,
    TagsOf,     \* TagsOf[k]: the tags the renderer of k collects
    Listing,    \* the tag fpc:listing
    Requests,
    Hanging,    \* requests whose renderer may never return
    Purgers,    \* callers of DeleteByTag
    NoPage, NoRequest

ASSUME PageAssumption ==
    /\ TagsOf \in [Keys -> SUBSET Tags] /\ Listing \in Tags /\ Hanging \subseteq Requests

VARIABLES
    row,        \* cache: the committed page of each key
    tagRow,     \* cache_tags: committed <<tag, key>> rows
    req,        \* requests
    inflight,   \* MissCoalescer.m: the leader of each key
    call,       \* the outcome a leader has published
    purge,      \* DeleteByTag calls
    purgeFailed \* history: a purge failed

pageVars == <<row, tagRow, req, inflight, call, purge, purgeFailed>>

IdleRequest == [pc |-> "idle", key |-> NoPage, call |-> NoRequest, page |-> NoPage, new |-> {},
                raced |-> FALSE, outcome |-> "open"]
IdlePurge == [pc |-> "idle", tags |-> <<>>, rows |-> {}, keys |-> {}]
Outcomes == {"open", "hit", "stored", "unstored", "panic"}

PageInit ==
    /\ row = [k \in Keys |-> NoPage] /\ tagRow = {}
    /\ req = [r \in Requests |-> IdleRequest]
    /\ inflight = [k \in Keys |-> NoRequest] /\ call = [r \in Requests |-> "open"]
    /\ purge = [p \in Purgers |-> IdlePurge] /\ purgeFailed = FALSE

\* Types, where pages show members of contents.
PageRow(contents) == [content : contents, expired : BOOLEAN, raced : BOOLEAN]
Request(contents) ==
    [pc : {"idle", "do", "wait", "fn", "render", "upsert", "tag", "commit", "evict",
           "close", "remove", "bypass", "served", "dead"},
     key : Keys \cup {NoPage}, call : Requests \cup {NoRequest}, page : contents \cup {NoPage},
     new : SUBSET (Tags \X Keys), raced : BOOLEAN, outcome : Outcomes]
Purge == [pc : {"idle", "begin", "values"}, tags : Seq(Tags), rows : SUBSET (Tags \X Keys), keys : SUBSET Keys]

PageTypeOK(contents) ==
    /\ row \in [Keys -> PageRow(contents) \cup {NoPage}] /\ tagRow \subseteq Tags \X Keys
    /\ req \in [Requests -> Request(contents)]
    /\ inflight \in [Keys -> Requests \cup {NoRequest}] /\ call \in [Requests -> Outcomes]
    /\ purge \in [Purgers -> Purge] /\ purgeFailed \in BOOLEAN

ReqAt(r, pc) == req[r].pc = pc
ReqGoto(r, pc) == req' = [req EXCEPT ![r].pc = pc]
KeyOf(r) == req[r].key
Leads(r) == req[r].call = r
Live(k) == row[k] # NoPage /\ ~row[k].expired
store == <<row, tagRow>>
coalescer == <<inflight, call>>
purging == <<purge, purgeFailed>>

Answer(r) == req' = [req EXCEPT ![r] = [IdleRequest EXCEPT !.pc = "served"]]

\* fn returns: a leader has waiters to release, another request answers.
Return(r, outcome) ==
    IF Leads(r) THEN req' = [req EXCEPT ![r].pc = "close", ![r].outcome = outcome, ![r].page = NoPage, ![r].new = {},
                                        ![r].raced = FALSE]
    ELSE IF outcome = "panic" THEN req' = [req EXCEPT ![r] = [IdleRequest EXCEPT !.pc = "dead"]]
    ELSE Answer(r)

------------------------------------------------------------------------------
(* Lookup and the coalescer *)

\* The entry knows its time too, and may be over before its row is: it is evicted first.
SoftExpired(k) == row[k] # NoPage /\ row[k].expired

\* Get: a live page is served; else the request goes to Do.  It goes there from a live
\* page too, when the Get fails or the page cannot be served to this request: its HTML
\* is unsafe for it, or the nonce cannot be replaced.
Lookup(r, k) ==
    /\ ReqAt(r, "idle")
    /\ \/ Live(k) /\ Answer(r)
       \/ req' = [req EXCEPT ![r].pc = "do", ![r].key = k]
       \/ SoftExpired(k) /\ req' = [req EXCEPT ![r].pc = "evict", ![r].key = k]
    /\ UNCHANGED <<store, coalescer, purging>>

\* Do under the mutex: the first caller of a key leads, the others wait for its call.
EnterDo(r) ==
    /\ ReqAt(r, "do")
    /\ IF inflight[KeyOf(r)] = NoRequest
       THEN /\ inflight' = [inflight EXCEPT ![KeyOf(r)] = r]
            /\ req' = [req EXCEPT ![r].pc = "fn", ![r].call = r]
       ELSE /\ req' = [req EXCEPT ![r].pc = "wait", ![r].call = inflight[KeyOf(r)]]
            /\ UNCHANGED inflight
    /\ UNCHANGED <<store, call, purging>>

\* The leader is done.  Its raw page is never replayed: a stored page is read again,
\* and without one, or when that read fails or its page is not for this request, the
\* request renders for itself.
JoinCall(r) ==
    LET published == call[req[r].call] IN
    /\ ReqAt(r, "wait")
    /\ \/ published \in {"panic", "hit"} /\ ReqGoto(r, "bypass")
       \/ published = "hit" /\ Answer(r)
       \/ published = "stored" /\ Live(KeyOf(r)) /\ Answer(r)
       \/ published \in {"stored", "unstored"} /\ ReqGoto(r, "render")
    /\ UNCHANGED <<store, coalescer, purging>>

\* Mutant: the wait has no limit.
WaitForever(r) == FALSE /\ UNCHANGED pageVars

\* The wait is over before the leader is done: this request calls fn itself.
StopWaiting(r) ==
    /\ ReqAt(r, "wait") /\ call[req[r].call] = "open" /\ ReqGoto(r, "fn")
    /\ UNCHANGED <<store, coalescer, purging>>

\* fn looks again before it renders, with the same exceptions.
LookAgain(r) ==
    /\ ReqAt(r, "fn")
    /\ \/ Live(KeyOf(r)) /\ Return(r, "hit")
       \/ ReqGoto(r, "render")
       \/ SoftExpired(KeyOf(r)) /\ ReqGoto(r, "evict")
    /\ UNCHANGED <<store, coalescer, purging>>

\* A panic of the inner handler is published to the waiters and raised again.
Panic(r) ==
    /\ ReqAt(r, "render") /\ Return(r, "panic")
    /\ UNCHANGED <<store, coalescer, purging>>

\* A waiter of a call that panicked, or of a page it cannot be served, renders past the
\* cache.
Bypass(r) ==
    /\ ReqAt(r, "bypass") /\ Answer(r)
    /\ UNCHANGED <<store, coalescer, purging>>

\* The deferred function of Do: the waiters are released, then the entry is removed.
CloseCall(r) ==
    /\ ReqAt(r, "close") /\ ReqGoto(r, "remove")
    /\ call' = [call EXCEPT ![r] = req[r].outcome]
    /\ UNCHANGED <<store, inflight, purging>>

RemoveCall(r) ==
    /\ ReqAt(r, "remove")
    /\ inflight' = [inflight EXCEPT ![KeyOf(r)] = NoRequest]
    /\ IF call[r] = "panic" THEN req' = [req EXCEPT ![r] = [IdleRequest EXCEPT !.pc = "dead"]] ELSE Answer(r)
    /\ UNCHANGED <<store, call, purging>>

------------------------------------------------------------------------------
(* renderFPCMiss and SetWithTags *)

\* The inner handler renders what it reads now; an incomplete or unsafe page is not kept.
Render(r, content) ==
    /\ ReqAt(r, "render")
    /\ \/ req' = [req EXCEPT ![r].pc = "upsert", ![r].page = content]
       \/ Return(r, "unstored")
    /\ UNCHANGED <<store, coalescer, purging>>

\* Requests whose transaction has written the row of k and holds its lock.
Writing(k) == {r \in Requests : KeyOf(r) = k /\ req[r].pc \in {"tag", "commit"}}
\* Tag rows that a purge has deleted and not committed.
Doomed(p) == IF purge[p].pc = "values" THEN purge[p].rows ELSE {}

\* INSERT INTO cache ... ON CONFLICT DO UPDATE waits for another writer of the key.
UpsertPage(r) ==
    /\ ReqAt(r, "upsert") /\ Writing(KeyOf(r)) = {} /\ ReqGoto(r, "tag")
    /\ UNCHANGED <<store, coalescer, purging>>

\* INSERT INTO cache_tags ... ON CONFLICT DO NOTHING: a committed row stays as it is,
\* unlocked; one whose deletion is in progress is waited for.
WantedRows(r) == {<<t, KeyOf(r)>> : t \in TagsOf[KeyOf(r)]}

TagPage(r) ==
    /\ ReqAt(r, "tag") /\ \A p \in Purgers : WantedRows(r) \cap Doomed(p) = {}
    /\ req' = [req EXCEPT ![r].pc = "commit", ![r].new = WantedRows(r) \ tagRow]
    /\ UNCHANGED <<store, coalescer, purging>>

CommitPage(r) ==
    /\ ReqAt(r, "commit")
    /\ row' = [row EXCEPT ![KeyOf(r)] = [content |-> req[r].page, expired |-> FALSE, raced |-> req[r].raced]]
    /\ tagRow' = tagRow \cup req[r].new
    /\ Return(r, "stored")
    /\ UNCHANGED <<coalescer, purging>>

\* A statement of SetWithTags fails, and its transaction is rolled back.
StoreFails(r) ==
    /\ req[r].pc \in {"upsert", "tag", "commit"} /\ Return(r, "unstored")
    /\ UNCHANGED <<store, coalescer, purging>>

------------------------------------------------------------------------------
(* DeleteByTag and the other statements that delete *)

\* A handler is about to delete these tags, one statement each.
StartPurge(p, tags) == purge' = [purge EXCEPT ![p] = [IdlePurge EXCEPT !.pc = "begin", !.tags = tags]]
NextTag(p) ==
    purge' = [purge EXCEPT ![p] = IF Len(purge[p].tags) = 1 THEN IdlePurge
                                  ELSE [IdlePurge EXCEPT !.pc = "begin", !.tags = Tail(purge[p].tags)]]

\* The statement's snapshot: its tag rows are deleted, and the keys with a committed
\* page are those it will delete.  The pages it is about are no longer raced by it;
\* a page rendered before and stored after is.
DeleteRowsOf(p, tag) ==
    LET rows == {x \in tagRow : x[1] = tag}
        about == {k \in Keys : tag \in TagsOf[k]}
    IN
    /\ \A q \in Purgers : rows \cap Doomed(q) = {}
    /\ purge' = [purge EXCEPT ![p] = [pc |-> "values", tags |-> @.tags, rows |-> rows,
                                      keys |-> {k \in Keys : row[k] # NoPage /\ <<tag, k>> \in rows}]]
    /\ row' = [k \in Keys |-> IF k \in about /\ row[k] # NoPage THEN [row[k] EXCEPT !.raced = FALSE] ELSE row[k]]
    /\ req' = [r \in Requests |-> IF req[r].page # NoPage /\ KeyOf(r) \in about THEN [req[r] EXCEPT !.raced = TRUE]
                                  ELSE req[r]]
    /\ UNCHANGED <<tagRow, coalescer, purgeFailed>>

DeleteTagRows(p) ==
    /\ purge[p].pc = "begin"
    /\ DeleteRowsOf(p, Head(purge[p].tags))

\* The pages go, newer versions of the rows included, once nobody holds their locks.
DeletePages(p) ==
    /\ purge[p].pc = "values" /\ \A k \in purge[p].keys : Writing(k) = {}
    /\ row' = [k \in Keys |-> IF k \in purge[p].keys THEN NoPage ELSE row[k]]
    /\ tagRow' = tagRow \ purge[p].rows
    /\ NextTag(p)
    /\ UNCHANGED <<req, coalescer, purgeFailed>>

\* The statement fails.  Handlers stop at the listing; after a product they go on to
\* its bundles (onward).
PurgeFails(p, onward) ==
    /\ purge[p].pc # "idle" /\ purgeFailed' = TRUE
    /\ IF onward THEN NextTag(p) ELSE purge' = [purge EXCEPT ![p] = IdlePurge]
    /\ UNCHANGED <<store, req, coalescer>>

\* A purge waits for the row a request has written, and the request for the tag row
\* the purge has deleted: Postgres aborts one of them.
Deadlocked(r, p) ==
    /\ ReqAt(r, "tag") /\ WantedRows(r) \cap Doomed(p) # {} /\ KeyOf(r) \in purge[p].keys

DeadlockAbortsStore(r) ==
    /\ \E p \in Purgers : Deadlocked(r, p)
    /\ Return(r, "unstored")
    /\ UNCHANGED <<store, coalescer, purging>>

\* The page's time is over: Get no longer returns it.
ExpirePage(k) ==
    /\ Live(k) /\ row' = [row EXCEPT ![k].expired = TRUE]
    /\ UNCHANGED <<tagRow, req, coalescer, purging>>

\* evictSoftExpired deletes what is there by now, unless another request evicts the key,
\* or has renewed it, or the statement fails.  The request goes on where it was.
EvictPage(r) ==
    /\ ReqAt(r, "evict") /\ ReqGoto(r, IF req[r].call = NoRequest THEN "do" ELSE "render")
    /\ \/ /\ Writing(KeyOf(r)) = {}
          /\ row' = [row EXCEPT ![KeyOf(r)] = NoPage] /\ tagRow' = {x \in tagRow : x[2] # KeyOf(r)}
       \/ UNCHANGED store
    /\ UNCHANGED <<coalescer, purging>>

\* DeleteExpired: first the pages, then the tag rows without a committed page.
SweepPages ==
    /\ \E k \in Keys : row[k] # NoPage /\ row[k].expired
    /\ row' = [k \in Keys |-> IF row[k] # NoPage /\ row[k].expired /\ Writing(k) = {} THEN NoPage ELSE row[k]]
    /\ UNCHANGED <<tagRow, req, coalescer, purging>>

SweepTags ==
    /\ \E x \in tagRow : row[x[2]] = NoPage
    /\ tagRow' = {x \in tagRow : row[x[2]] # NoPage}
    /\ UNCHANGED <<row, req, coalescer, purging>>
==============================================================================
