------------------------------ MODULE MCIntake ------------------------------
(* Small instances of Intake: one seed user, one who signs up later, and    *)
(* transactions of both.                                                    *)
EXTENDS Intake

MCSeedUsers == {[user_id |-> 101, email |-> "john@x"]}
MCNewUsers  == {[user_id |-> 102, email |-> "ann@x"]}
MCSeedTxns  == {[transaction_id |-> 1, user_id |-> 115, by |-> "init.sql"]}

MCBodies == [user_id : {101, 102}, by : {"web"}]
MCKnown  == [user_id : {101}, by : {"web"}]
MCNone == {}
=============================================================================
