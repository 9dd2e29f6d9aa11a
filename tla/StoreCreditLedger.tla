-------------------------- MODULE StoreCreditLedger --------------------------
(***************************************************************************)
(* What the store credit repository promises of one customer: entries are   *)
(* posted one at a time and for good, an idempotency key is used by at most *)
(* one entry, and the balance of a currency moves with its entries within   *)
(* 0 .. MaxBalance.                                                         *)
(***************************************************************************)
EXTENDS Integers

CONSTANTS
    Calls,         \* calls of Issue, Restore and Redeem; each posts at most one entry
    Currencies,
    Amounts,       \* amounts a call may carry (minor units)
    Keys,          \* idempotency keys
    NoKey,         \* the empty key
    Notes,         \* notes an entry may carry
    MaxBalance     \* largest int64

VARIABLES
    balance,     \* store_credit_accounts.balance of each currency
    ledger       \* rows of store_credit_ledger

Kinds == {"issue", "redeem"}

Entry == [id : Calls, kind : Kinds, cur : Currencies, amount : Amounts, key : Keys \cup {NoKey},
          note : Notes]

Delta(e) == IF e.kind = "issue" THEN e.amount ELSE -e.amount

Init ==
    /\ balance = [c \in Currencies |-> 0]
    /\ ledger = {}

Post(e) ==
    /\ \A f \in ledger : f.id # e.id
    /\ e.key # NoKey => \A f \in ledger : f.key # e.key
    /\ balance[e.cur] + Delta(e) \in 0 .. MaxBalance
    /\ balance' = [balance EXCEPT ![e.cur] = @ + Delta(e)]
    /\ ledger' = ledger \cup {e}

\* Every step adds a row.
Next == ledger' # ledger /\ \E e \in Entry : Post(e)

Spec == Init /\ [][Next]_<<balance, ledger>>
==============================================================================
