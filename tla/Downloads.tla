------------------------------ MODULE Downloads ------------------------------
(***************************************************************************)
(* Download grants (internal/application/download): their issue when        *)
(* order.paid is handled or a return has been closed, their delivery, and   *)
(* the operator's revoke and re-issue.  A file stands for one asset of a    *)
(* downloadable line; a grant that has expired and one that was revoked are *)
(* the same row, expires_at <= NOW().  The product locks that order the     *)
(* issue against edits of the catalogue are left out.                       *)
(***************************************************************************)
EXTENDS UnitRows

CONSTANTS
    Limit,           \* download_limit of a new grant, and the most a re-issue gives
    MaxPaidEvents,   \* bound: deliveries of order.paid, the first one and republications
    MaxReissues      \* bound: re-issues by an operator

ASSUME DownloadAssumption == Limit \in Nat \ {0} /\ MaxPaidEvents \in Nat /\ MaxReissues \in Nat

VARIABLES
    paidEvents,  \* deliveries of order.paid still to come
    reissues,    \* re-issues so far
    served,      \* history: downloads of each file that were delivered
    allowed      \* history: downloads its grants have allowed so far

downloads == <<paidEvents, reissues, served, allowed>>

Grant == [status : {"none", "live", "expired"}, count : Nat, limit : Nat]
NoGrant == [status |-> "none", count |-> 0, limit |-> 0]

\* IssueForOrder: the order is paid, and the lines on a blocking return are read
\* before anything is locked.
Issue(w, o) == StartAt(w, "issue", "insert", [order |-> o, skip |-> {f \in Files : OnBlockingReturn(f)}])

HandleOrderPaid(w, o) ==
    /\ Free(w)
    /\ paidEvents > 0 /\ \E f \in Files \cap bought : OrderOf[f] = o
    /\ paidEvents' = paidEvents - 1
    /\ Issue(w, o)
    /\ UNCHANGED <<bought, ret, stock, asg, grant, locks, faults, reissues, served, allowed>>

\* IssueIdempotent: an existing row is kept as it is.
Issuable(f) == grant[f].status = "none"

\* The transaction of issueAllLines inserts every grant of the order, or none.
InsertGrants(w) ==
    LET new == {f \in (Files \cap bought) \ Arg(w).skip : OrderOf[f] = Arg(w).order /\ Issuable(f)} IN
    /\ At(w, "issue", "insert")
    /\ grant' = [f \in Files |-> IF f \in new THEN [status |-> "live", count |-> 0, limit |-> Limit] ELSE grant[f]]
    /\ allowed' = [f \in Files |-> IF f \in new THEN allowed[f] + Limit ELSE allowed[f]]
    /\ Answer(w)
    /\ UNCHANGED <<bought, ret, stock, asg, locks, faults, paidEvents, reissues, served>>

\* PrepareDelivery: the grant is live and not used up; then the file is read or
\* its link is signed.
Prepare(w, f) ==
    /\ Free(w)
    /\ grant[f].status = "live" /\ grant[f].count < grant[f].limit
    /\ StartAt(w, "deliver", "claim", [file |-> f])
    /\ UNCHANGED <<bought, ret, stock, asg, grant, locks, faults, downloads>>

\* Mutant: the claim trusts what PrepareDelivery saw.
ClaimAnyway(f) == TRUE

\* The WHERE clause of ClaimDownload.
Claimable(f) == grant[f].status = "live" /\ grant[f].count < grant[f].limit

\* ClaimDelivery: one conditional UPDATE; the file is served when it took a slot.
Claim(w) ==
    LET f == Arg(w).file IN
    /\ At(w, "deliver", "claim")
    /\ IF Claimable(f)
       THEN grant' = [grant EXCEPT ![f].count = @ + 1] /\ served' = [served EXCEPT ![f] = @ + 1]
       ELSE UNCHANGED <<grant, served>>
    /\ Answer(w)
    /\ UNCHANGED <<bought, ret, stock, asg, locks, faults, paidEvents, reissues, allowed>>

\* Its time is over.
Expire(f) ==
    /\ grant[f].status = "live"
    /\ grant' = [grant EXCEPT ![f].status = "expired"]
    /\ UNCHANGED <<bought, ret, stock, asg, locks, call, faults, downloads>>

\* The grants of S as Service.revoke reads them, with no lock.
GrantsOf(S) == [f \in Files \cap S |-> grant[f]]

\* ... and what its Update, whose WHERE clause has the id alone, makes of them: a
\* grant that was live when it was read ends, and whatever limit it has been given
\* since is overwritten with the one that was read.  The count is not written.
Ended(seen) ==
    [f \in Files |-> IF f \in DOMAIN seen /\ seen[f].status = "live"
                     THEN [status |-> "expired", count |-> grant[f].count, limit |-> seen[f].limit]
                     ELSE grant[f]]

\* The table refuses a row whose count is above its limit.
WithinLimits(g) == \A f \in Files : g[f].count <= g[f].limit

\* Service.Revoke, of the operator: a grant that is over already is left alone.
RevokeGrant(w, f) ==
    /\ Free(w)
    /\ grant[f].status = "live"
    /\ StartAt(w, "revoke", "update", [seen |-> GrantsOf({f})])
    /\ UNCHANGED <<bought, ret, stock, asg, grant, locks, faults, downloads>>

RevokeWrite(w) ==
    /\ At(w, "revoke", "update")
    /\ grant' = IF WithinLimits(Ended(Arg(w).seen)) THEN Ended(Arg(w).seen) ELSE grant
    /\ Answer(w)
    /\ UNCHANGED <<bought, ret, stock, asg, locks, faults, downloads>>

\* reissueLocked, with the row locked: a new expiry, perhaps a new limit, and the
\* count reset or kept, which it may only be within the limit.
Reissue(f) ==
    /\ grant[f].status # "none" /\ reissues < MaxReissues
    /\ reissues' = reissues + 1
    /\ \E reset \in BOOLEAN, limit \in 1..Limit :
          LET count == IF reset THEN 0 ELSE grant[f].count IN
          /\ count <= limit
          /\ grant' = [grant EXCEPT ![f] = [status |-> "live", count |-> count, limit |-> limit]]
          /\ allowed' = [allowed EXCEPT ![f] = served[f] + limit - count]
    /\ UNCHANGED <<bought, ret, stock, asg, locks, call, faults, paidEvents, served>>
==============================================================================
