------------------------------- MODULE Ingest -------------------------------
(***************************************************************************)
(* The NiFi flow combineUsersAndTransactions: QueryDatabaseTable polls the *)
(* transactions table for ids above the highest one it has seen, SplitAvro *)
(* cuts the result into one flow file per row, LookupRecord joins the row  *)
(* with its user, PublishKafkaRecord writes matched rows to the topic      *)
(* "transactions", and PutFile writes the others to an error directory.    *)
(* Every processor runs one task at a time.  The flow only reads the       *)
(* database; its connections have no prioritizer, so they are sets.        *)
(***************************************************************************)
EXTENDS Naturals, Sequences, FiniteSets

CONSTANTS
    BackPressure,   \* flow files a connection holds before its source stops
    MaxCrashes      \* bound: restarts of NiFi

VARIABLES
    users, txns,    \* the committed rows of the bank database, read only
    qdt,            \* QueryDatabaseTable: its task and its stored state
    connection,     \* connection[r]: the flow files queued in relationship r
    sent,           \* the flow file PublishKafkaRecord has sent, not removed
    topic,          \* the log of the Kafka topic "transactions"
    errorLog,       \* the files below my-error-logs
    captured,       \* history: the rows each poll read
    failed,         \* history: flow files given up after an error
    crashes         \* history: restarts so far

-----------------------------------------------------------------------------
\* A split carries its row and the poll it comes from, which is also its file
\* name: SplitAvro's children inherit the attribute "filename".
Splits == [poll : Nat, row : txns]

\* The result of one poll, written to the connection "success".
Results == [poll : Nat, rows : SUBSET txns]

\* What a consumer of the topic reads.  A producer transaction that aborts
\* leaves its record in the log.
Messages == [split : Splits, user : users, committed : BOOLEAN]

Queues == {"success", "split", "matched", "failure"}

TypeOK ==
    /\ qdt \in [task : {"idle", "polled"}, state : Nat, cursor : Nat, polls : Nat]
    /\ DOMAIN connection = Queues
    /\ \A f \in connection["success"] : f.poll \in Nat /\ f.rows \subseteq txns
    /\ \A q \in Queues \ {"success"} : connection[q] \subseteq Splits
    /\ sent \subseteq connection["matched"]
    /\ topic \in Seq(Messages)
    /\ errorLog \subseteq Splits
    /\ captured \subseteq Splits
    /\ failed \subseteq Splits
    /\ crashes \in 0 .. MaxCrashes

Init ==
    \* No stored state yet: 0 stands for its absence, ids start at 1.
    /\ qdt = [task |-> "idle", state |-> 0, cursor |-> 0, polls |-> 0]
    /\ connection = [q \in Queues |-> {}]
    /\ sent = {} /\ topic = << >> /\ errorLog = {}
    /\ captured = {} /\ failed = {} /\ crashes = 0

Ids(rows) == {r.transaction_id : r \in rows}
Highest(n, S) == n \in S /\ \A m \in S : m <= n

\* A processor is scheduled only while its outgoing connections have room.
Room(qs) == \A q \in qs : Cardinality(connection[q]) < BackPressure

Move(f, from, to) ==
    connection' = [connection EXCEPT ![from] = @ \ {f}, ![to] = @ \cup {f}]
Take(f, from) == connection' = [connection EXCEPT ![from] = @ \ {f}]

-----------------------------------------------------------------------------
(* QueryDatabaseTable                                                       *)

\* Mutant of Poll: at most one row per poll, in no order (qdbt-max-rows = 1).
PollOneRow ==
    /\ qdt.task = "idle"
    /\ Room({"success"})
    /\ \E r \in txns :
          /\ r.transaction_id > qdt.cursor
          /\ qdt' = [qdt EXCEPT !.task = "polled", !.cursor = r.transaction_id,
                                !.polls = @ + 1]
          /\ connection' = [connection EXCEPT !["success"] =
                               @ \cup {[poll |-> qdt.polls + 1, rows |-> {r}]}]
          /\ captured' = captured \cup {[poll |-> qdt.polls + 1, row |-> r]}
    /\ UNCHANGED <<users, txns, sent, topic, errorLog, failed, crashes>>

\* Select the rows above the cursor, queue them as one flow file, and move
\* the cursor to the highest id among them.  The first run, which has no state,
\* selects them all: the "initial-load-strategy" of the flow is no property of
\* QueryDatabaseTable in the version installed (1.14.0), which ignores it.
Poll ==
    /\ qdt.task = "idle"
    /\ Room({"success"})
    /\ LET new == {r \in txns : r.transaction_id > qdt.cursor}
           n == qdt.polls + 1
       IN \E max \in Ids(new) :
             /\ Highest(max, Ids(new))
             /\ qdt' = [qdt EXCEPT !.task = "polled", !.cursor = max, !.polls = n]
             /\ connection' = [connection EXCEPT !["success"] =
                                  @ \cup {[poll |-> n, rows |-> new]}]
             /\ captured' = captured \cup [poll : {n}, row : new]
    /\ UNCHANGED <<users, txns, sent, topic, errorLog, failed, crashes>>

\* Mutant of SaveState: the state stored is the one the poll started from.
SaveOldState ==
    /\ qdt.task = "polled"
    /\ qdt' = [qdt EXCEPT !.task = "idle", !.cursor = qdt.state]
    /\ UNCHANGED <<users, txns, connection, sent, topic, errorLog, captured, failed, crashes>>

\* The session is committed first and the state stored after it.
SaveState ==
    /\ qdt.task = "polled"
    /\ qdt' = [qdt EXCEPT !.task = "idle", !.state = qdt.cursor]
    /\ UNCHANGED <<users, txns, connection, sent, topic, errorLog, captured, failed, crashes>>

-----------------------------------------------------------------------------
(* SplitAvro, LookupRecord, PutFile                                         *)

\* Mutants of Split: one record of the result only; no look at the queue.
SplitFirst(f) ==
    /\ f \in connection["success"]
    /\ Room({"split"})
    /\ \E r \in f.rows :
          connection' = [connection EXCEPT !["success"] = @ \ {f},
                                           !["split"] = @ \cup {[poll |-> f.poll, row |-> r]}]
    /\ UNCHANGED <<users, txns, qdt, sent, topic, errorLog, captured, failed, crashes>>
SplitRegardless(f) ==
    /\ f \in connection["success"]
    /\ connection' = [connection EXCEPT !["success"] = @ \ {f},
                                        !["split"] = @ \cup [poll : {f.poll}, row : f.rows]]
    /\ UNCHANGED <<users, txns, qdt, sent, topic, errorLog, captured, failed, crashes>>

\* One flow file per record; the original is auto-terminated.
Split(f) ==
    /\ f \in connection["success"]
    /\ Room({"split"})
    /\ connection' = [connection EXCEPT !["success"] = @ \ {f},
                                        !["split"] = @ \cup [poll : {f.poll}, row : f.rows]]
    /\ UNCHANGED <<users, txns, qdt, sent, topic, errorLog, captured, failed, crashes>>

\* A result that cannot be read goes to failure, which is auto-terminated too.
SplitFails(f) ==
    /\ f \in connection["success"]
    /\ Room({"split"})
    /\ Take(f, "success")
    /\ failed' = failed \cup [poll : {f.poll}, row : f.rows]
    /\ UNCHANGED <<users, txns, qdt, sent, topic, errorLog, captured, crashes>>

UserOf(f) == {u \in users : u.user_id = f.row.user_id}

LookupMatched(f) ==
    /\ f \in connection["split"]
    /\ Room({"matched", "failure"})
    /\ UserOf(f) # {}
    /\ Move(f, "split", "matched")
    /\ UNCHANGED <<users, txns, qdt, sent, topic, errorLog, captured, failed, crashes>>

\* No such user, or the lookup itself failed: both go the same way.
LookupUnmatched(f) ==
    /\ f \in connection["split"]
    /\ Room({"matched", "failure"})
    /\ Move(f, "split", "failure")
    /\ UNCHANGED <<users, txns, qdt, sent, topic, errorLog, captured, failed, crashes>>

Written(n) == \E e \in errorLog : e.poll = n

\* Mutant of PutFile: the failure relationship leads back to the processor.
PutFileAgain(f) ==
    /\ f \in connection["failure"] /\ ~Written(f.poll)
    /\ Take(f, "failure")
    /\ errorLog' = errorLog \cup {f}
    /\ UNCHANGED <<users, txns, qdt, sent, topic, captured, failed, crashes>>

\* A file of the same name makes PutFile fail, and its failure is
\* auto-terminated: the flow file is gone.
PutFile(f) ==
    /\ f \in connection["failure"]
    /\ Take(f, "failure")
    /\ errorLog' = IF Written(f.poll) THEN errorLog ELSE errorLog \cup {f}
    /\ UNCHANGED <<users, txns, qdt, sent, topic, captured, failed, crashes>>

\* The directory cannot be written.
PutFileFails(f) ==
    /\ f \in connection["failure"]
    /\ Take(f, "failure")
    /\ failed' = failed \cup {f}
    /\ UNCHANGED <<users, txns, qdt, sent, topic, errorLog, captured, crashes>>

-----------------------------------------------------------------------------
(* PublishKafkaRecord: one producer transaction per flow file.              *)

Message(f, ok) ==
    [split |-> f, user |-> CHOOSE u \in UserOf(f) : TRUE, committed |-> ok]

\* The producer transaction commits; the flow file is still in the queue.
Publish(f) ==
    /\ f \in connection["matched"] /\ sent = {}
    /\ topic' = Append(topic, Message(f, TRUE))
    /\ sent' = {f}
    /\ UNCHANGED <<users, txns, qdt, connection, errorLog, captured, failed, crashes>>

\* Mutants of PublishDone: the task is not marked done; the file stays queued.
PublishDoneStuck(f) ==
    /\ f \in sent
    /\ Take(f, "matched")
    /\ UNCHANGED <<users, txns, sent, qdt, topic, errorLog, captured, failed, crashes>>
PublishDoneKept(f) ==
    /\ f \in sent
    /\ sent' = {}
    /\ UNCHANGED <<users, txns, connection, qdt, topic, errorLog, captured, failed, crashes>>

\* The NiFi session commits and success is auto-terminated.
PublishDone(f) ==
    /\ f \in sent
    /\ Take(f, "matched")
    /\ sent' = {}
    /\ UNCHANGED <<users, txns, qdt, topic, errorLog, captured, failed, crashes>>

\* "Route to Failure", which is auto-terminated: nothing reached the log, or
\* an aborted record did, or the record is committed and its ack came late.
PublishFails(f) ==
    /\ f \in connection["matched"] /\ sent = {}
    /\ Take(f, "matched")
    /\ topic' \in {topic} \cup {Append(topic, Message(f, ok)) : ok \in BOOLEAN}
    /\ failed' = failed \cup {f}
    /\ UNCHANGED <<users, txns, qdt, sent, errorLog, captured, crashes>>

-----------------------------------------------------------------------------
\* NiFi stops and resumes: queues and stored state are on disk, tasks are not.
Crash ==
    /\ crashes < MaxCrashes
    /\ crashes' = crashes + 1
    /\ qdt' = [qdt EXCEPT !.task = "idle", !.cursor = qdt.state]
    /\ sent' = {}
    /\ UNCHANGED <<users, txns, connection, topic, errorLog, captured, failed>>

Work ==
    \/ \E f \in connection["success"] : Split(f)
    \/ \E f \in connection["split"] : LookupMatched(f) \/ LookupUnmatched(f)
    \/ \E f \in connection["failure"] : PutFile(f)
    \/ \E f \in connection["matched"] : Publish(f) \/ PublishDone(f)

Fault ==
    \/ \E f \in connection["success"] : SplitFails(f)
    \/ \E f \in connection["failure"] : PutFileFails(f)
    \/ \E f \in connection["matched"] : PublishFails(f)
    \/ Crash

Capture == Poll \/ SaveState

Next == Capture \/ Work \/ Fault
=============================================================================
