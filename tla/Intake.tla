------------------------------- MODULE Intake -------------------------------
(***************************************************************************)
(* The bank database, as Store promises it, with the NiFi flow that moves  *)
(* stored transactions to Kafka (Ingest).  They share the tables: handlers *)
(* commit rows in any order, the flow polls what is committed.             *)
(***************************************************************************)
EXTENDS Naturals, Sequences, FiniteSets

CONSTANTS
    Bodies, SeedTxns, SeedLast, \* see Store
    SeedUsers, NewUsers,        \* rows of users at the start, rows added later
    BackPressure, MaxCrashes,   \* see Ingest
    Writers,                    \* handlers that may insert side by side
    MaxId                       \* bound: transaction ids drawn

VARIABLES
    txns, last, open,                                       \* Store
    users,
    qdt, connection, sent, topic, errorLog,                 \* Ingest
    captured, failed, crashes,
    overtaken                   \* history: rows open when the cursor passed their id

S == INSTANCE Store
I == INSTANCE Ingest

storeVars == <<txns, last, open>>
flowVars == <<qdt, connection, sent, topic, errorLog, captured, failed, crashes>>
vars == <<storeVars, users, flowVars, overtaken>>

\* init.sql lets the sequence number the seed rows.
ASSUME SeedAssumption ==
    /\ SeedLast \in Nat /\ {r.transaction_id : r \in SeedTxns} = 1 .. SeedLast
    /\ IsFiniteSet(SeedTxns)
ASSUME BoundsAssumption ==
    Writers \in Nat \ {0} /\ MaxId \in Nat /\ BackPressure \in Nat \ {0} /\ MaxCrashes \in Nat

TypeOK ==
    /\ last \in Nat
    /\ \A r \in txns \cup open : r.transaction_id \in 1 .. last
    /\ users \subseteq SeedUsers \cup NewUsers
    /\ I!TypeOK

Init == S!Init /\ I!Init /\ users = SeedUsers /\ overtaken = {}

\* A handler starts an insert: there are only so many of them.
Insert ==
    /\ Cardinality(open) < Writers
    /\ last < MaxId
    /\ \E b \in Bodies : S!Draw(b)
    /\ UNCHANGED <<users, flowVars, overtaken>>

EndInsert ==
    /\ (\E r \in open : S!Commit(r)) \/ (\E rows \in SUBSET open : S!Abort(rows))
    /\ UNCHANGED <<users, flowVars, overtaken>>

SignUp ==
    /\ \E u \in NewUsers : users' = users \cup {u}
    /\ UNCHANGED <<storeVars, flowVars, overtaken>>

\* What NiFi's steps leave alone, and what the history notes of them.
Beside ==
    /\ UNCHANGED <<last, open>>
    /\ overtaken' = overtaken \cup {r \in open : r.transaction_id <= qdt'.cursor}

Flow == I!Next /\ Beside

Next == Insert \/ EndInsert \/ SignUp \/ Flow

Spec == Init /\ [][Next]_vars

\* NiFi schedules every processor again and again: QueryDatabaseTable every
\* 20 seconds, the others whenever their queue holds something.
FairSpec ==
    /\ Spec
    /\ WF_vars(I!Capture /\ Beside)
    /\ WF_vars(I!Work /\ Beside)

-----------------------------------------------------------------------------
Copies(r) == {c \in captured : c.row = r}
Published(f) == \E i \in 1 .. Len(topic) : topic[i].split = f /\ topic[i].committed
Queued(f) ==
    \/ \E g \in connection["success"] : g.poll = f.poll /\ f.row \in g.rows
    \/ \E q \in {"split", "matched", "failure"} : f \in connection[q]

Passed(r) == r.transaction_id <= qdt.cursor

\* The cursor never passes a stored row it has not read.  (README.md line 37,
\* Kafka "serves as the source of truth for all incoming data", needs it.)  It
\* holds while one handler inserts at a time, and not for two.
CursorLeavesNoGap == \A r \in txns : Passed(r) => Copies(r) # {}

\* A stored row that the cursor passed unread had its insert open when that
\* happened: there is no other way for the poller to miss a row.
GapsWereOpen == \A r \in txns : Passed(r) => Copies(r) # {} \/ r \in overtaken

\* A row is read again only after a restart that hit QueryDatabaseTable
\* between its commit and its state update.
CapturedOnce == \A r \in txns : Cardinality(Copies(r)) <= 1 + crashes

\* A restart repeats at most two messages of a row: one because the row is
\* polled again, one because a sent flow file is still queued.
PublishedOnce ==
    \A r \in txns :
        Cardinality({i \in 1 .. Len(topic) : topic[i].split.row = r /\ topic[i].committed})
            <= 1 + 2 * crashes

\* What was read is queued, published, in the error directory, given up after
\* an error, or in conflict with the one error file its poll may have.
CapturesAccountedFor ==
    \A f \in captured :
        \/ Queued(f) \/ Published(f) \/ f \in errorLog \/ f \in failed
        \/ \E g \in errorLog : g.poll = f.poll /\ g # f

\* A connection exceeds its threshold by the splits of one poll at most.
OvershootOfOnePoll ==
    connection["split"] = {} \/
    \E n \in 1 .. qdt.polls :
        Cardinality({f \in connection["split"] : f.poll # n}) < BackPressure

\* The flow catches up with the table and drains, back pressure included.
FlowDrains ==
    []<>(/\ \A r \in txns : r.transaction_id <= qdt.cursor
         /\ \A q \in I!Queues : connection[q] = {})
=============================================================================
