------------------------------- MODULE Store --------------------------------
(***************************************************************************)
(* What the front end promises to the rest of the pipeline: an append-only *)
(* store of transactions.  A transaction draws its id when its insert      *)
(* starts and becomes visible when it commits, or never does; ids grow in  *)
(* the order of the draws, not in the order of the commits.                *)
(* Ledger implements this specification; Intake builds on it.              *)
(***************************************************************************)
EXTENDS Naturals

CONSTANTS
    Bodies,     \* what a transaction row holds besides its id
    SeedTxns,   \* the rows stored to begin with
    SeedLast    \* the id drawn last for them

VARIABLES
    txns,       \* the committed rows of transactions
    last,       \* the last transaction id drawn
    open        \* rows inserted by transactions still open

vars == <<txns, last, open>>

Row(n, b) == [transaction_id |-> n, user_id |-> b.user_id, by |-> b.by]

Init ==
    /\ txns = SeedTxns
    /\ last = SeedLast
    /\ open = {}

\* A handler starts its INSERT.
Draw(b) ==
    /\ last' = last + 1
    /\ open' = open \cup {Row(last + 1, b)}
    /\ txns' = txns

\* An open insert commits: the row appears.
Commit(r) ==
    /\ r \in open
    /\ txns' = txns \cup {r}
    /\ open' = open \ {r}
    /\ last' = last

\* Open inserts end without a trace, save for the ids they used up.
Abort(rows) ==
    /\ rows \subseteq open /\ rows # {}
    /\ open' = open \ rows
    /\ UNCHANGED <<txns, last>>

Next ==
    \/ \E b \in Bodies : Draw(b)
    \/ \E r \in open : Commit(r)
    \/ \E rows \in SUBSET open : Abort(rows)

Spec == Init /\ [][Next]_vars
=============================================================================
