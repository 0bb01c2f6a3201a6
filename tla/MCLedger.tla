------------------------------ MODULE MCLedger ------------------------------
(* Small instances of Ledger: forms that clash in every way with each other *)
(* and with the seed rows.                                                  *)
EXTENDS Ledger

Seed == [sub |-> 0, client |-> "init.sql"]

\* One seed user with an explicit id, one seed transaction.
MCSeedUsers == {[user_id |-> 1, username |-> "john", email |-> "john@x", phone |-> "1",
                 by |-> Seed]}
MCSeedTxns == {[transaction_id |-> 1, user_id |-> 115, by |-> Seed]}

UserForm(q, n, e, p) ==
    [kind |-> "user", quality |-> q, username |-> n, email |-> e, phone |-> p]
TxnForm(q, u) == [kind |-> "txn", quality |-> q, user_id |-> u]

\* Two users that clash in their second and third unique column, one that
\* clashes with both, a user who left a field empty, one with a missing field.
MCUserForms == {UserForm("ok", "ann", "a@x", "2"), UserForm("ok", "bob", "a@x", "3"),
                UserForm("ok", "ann", "b@x", "3"), UserForm("null", "cid", "c@x", "4"),
                UserForm("missing", "cid", "c@x", "4")}
MCTxnForms == {TxnForm(q, 1) : q \in Qualities}

MCForms == MCUserForms \cup MCTxnForms

\* Strangers to each other and to the seed.
MCStrangers == {UserForm("ok", "ann", "a@x", "2"), UserForm("ok", "bob", "b@x", "3")}
MCOneTxn == {TxnForm("ok", 1)}
=============================================================================
