------------------------------ MODULE Detector ------------------------------
(***************************************************************************)
(* The Spark job FraudDetector: three streaming queries over the topic     *)
(* "transactions".  fraud_detection copies every scored row to the topic   *)
(* processed_transactions, flagging copies the rows flagged as fraud to    *)
(* fraud_alerts, and a third query writes every row to Cassandra.          *)
(*                                                                         *)
(* KafkaIntegration.writeToKafka gives both Kafka queries the same         *)
(* checkpoint directory.  The directory holds the identity of a query, so  *)
(* Spark takes the second query for a new run of the first: it stops the   *)
(* first one, and the second continues from its offsets.  The Cassandra    *)
(* query names no checkpoint and gets a directory of its own in every run. *)
(* A row is its offset in the topic; partitions are left out.              *)
(***************************************************************************)
EXTENDS Naturals, Sequences, FiniteSets

CONSTANTS
    MaxRows,    \* bound: messages in the topic
    MaxRuns     \* bound: submissions of the job

ASSUME BoundsAssumption == MaxRows \in Nat /\ MaxRuns \in Nat

VARIABLES
    input,      \* the topic "transactions": whether the model flags each row
    main,       \* where main() is, and the query it waits for
    query,      \* query[q]: its phase, and the rows its batch still has to write
    checkpoint, \* checkpoint[d]: what directory d records of offsets and batches
    out,        \* out[q]: the rows q has written, in the order of the writes
    runs        \* history: submissions of the job so far

vars == <<input, main, query, checkpoint, out, runs>>

KafkaQueries == {"fraud_detection", "flagging"}
Queries == KafkaQueries \cup {"cassandra"}
Directories == {"shared", "temporary"}
Directory(q) == IF q \in KafkaQueries THEN "shared" ELSE "temporary"

\* start: the offset found when the source was first opened; done: the end of
\* the last batch in the commit log; to: the end of the last in the offset log.
NoCheckpoint == [known |-> FALSE, start |-> 0, done |-> 0, to |-> 0]

Off == [phase |-> "off", todo |-> {}]
Active(q) == query[q].phase \in {"starting", "idle", "batch"}

TypeOK ==
    /\ input \in Seq(BOOLEAN)
    /\ main \in {"down", "first", "second", "third"} \cup Queries
    /\ query \in [Queries -> [phase : {"off", "starting", "idle", "batch", "stopped", "failed"},
                              todo : SUBSET (1 .. Len(input))]]
    /\ checkpoint \in [Directories -> [known : BOOLEAN, start : Nat, done : Nat, to : Nat]]
    /\ out \in [Queries -> Seq(1 .. Len(input))]
    /\ runs \in 0 .. MaxRuns

Init ==
    /\ input = << >>
    /\ main = "down"
    /\ query = [q \in Queries |-> Off]
    /\ checkpoint = [d \in Directories |-> NoCheckpoint]
    /\ out = [q \in Queries |-> << >>]
    /\ runs = 0

\* NiFi publishes a row; the loaded model decides whether it is flagged.
Produce ==
    /\ Len(input) < MaxRows
    /\ \E flagged \in BOOLEAN : input' = Append(input, flagged)
    /\ UNCHANGED <<main, query, checkpoint, out, runs>>

-----------------------------------------------------------------------------
(* main()                                                                   *)

\* spark-submit: writeToKafka(requiredDF, ..., "fraud_detection").
StartFirst ==
    /\ main = "down" /\ runs < MaxRuns
    /\ main' = "first"
    /\ runs' = runs + 1
    /\ query' = [query EXCEPT !["fraud_detection"] = [phase |-> "starting", todo |-> {}]]
    /\ checkpoint' = [checkpoint EXCEPT !["temporary"] = NoCheckpoint]
    /\ UNCHANGED <<input, out>>

\* Mutant of StartSecond: the first query goes on beside the second.
StartBeside ==
    /\ main = "first"
    /\ main' = "second"
    /\ query' = [query EXCEPT !["flagging"] = [phase |-> "starting", todo |-> {}]]
    /\ UNCHANGED <<input, checkpoint, out, runs>>

\* writeToKafka(fraudTransactions, ..., "flagging"): start() finds an active
\* query of the same identity and waits until that has stopped.
StartSecond ==
    /\ main = "first"
    /\ main' = "second"
    /\ query' = [query EXCEPT
           !["fraud_detection"] = IF Active("fraud_detection")
                                  THEN [phase |-> "stopped", todo |-> {}] ELSE @,
           !["flagging"] = [phase |-> "starting", todo |-> {}]]
    /\ UNCHANGED <<input, checkpoint, out, runs>>

\* writeToCassandra(requiredDF, ...).
StartThird ==
    /\ main = "second"
    /\ main' = "third"
    /\ query' = [query EXCEPT !["cassandra"] = [phase |-> "starting", todo |-> {}]]
    /\ UNCHANGED <<input, checkpoint, out, runs>>

\* main waits for one of the active queries, whichever the map lists first.
Await ==
    /\ main = "third"
    /\ \E q \in Queries : Active(q) /\ main' = q
    /\ UNCHANGED <<input, query, checkpoint, out, runs>>

EndRun == main' = "down" /\ query' = [q \in Queries |-> Off]

\* awaitTermination throws what ended the query; the driver exits.  With no
\* query to wait for it returns at once.
Exit ==
    /\ IF main = "third" THEN \A q \in Queries : ~Active(q)
                         ELSE main \in Queries /\ query[main].phase = "failed"
    /\ EndRun
    /\ UNCHANGED <<input, checkpoint, out, runs>>

\* The job is killed, or its container stops.
Kill ==
    /\ main # "down"
    /\ EndRun
    /\ UNCHANGED <<input, checkpoint, out, runs>>

-----------------------------------------------------------------------------
(* A streaming query.                                                       *)

\* Mutant of Recover: a batch that was planned and not committed is skipped.
RecoverPast(q) ==
    /\ query[q].phase = "starting"
    /\ LET d == Directory(q)  c == checkpoint[d]
           from == IF c.known THEN c.to ELSE Len(input) IN
       /\ checkpoint' = [checkpoint EXCEPT ![d] =
              [known |-> TRUE, start |-> IF c.known THEN c.start ELSE from,
               done |-> from, to |-> from]]
       /\ query' = [query EXCEPT ![q] = [phase |-> "idle", todo |-> {}]]
    /\ UNCHANGED <<input, main, out, runs>>

\* The query reads its checkpoint.  A source opened for the first time starts
\* at the latest offset; a batch planned and not committed runs again.
Recover(q) ==
    /\ query[q].phase = "starting"
    /\ LET d == Directory(q)  c == checkpoint[d]  n == Len(input) IN
       /\ checkpoint' = [checkpoint EXCEPT ![d] =
              IF c.known THEN c
              ELSE [known |-> TRUE, start |-> n, done |-> n, to |-> n]]
       /\ query' = [query EXCEPT ![q] =
              IF c.known /\ c.done < c.to
              THEN [phase |-> "batch", todo |-> c.done + 1 .. c.to]
              ELSE [phase |-> "idle", todo |-> {}]]
    /\ UNCHANGED <<input, main, out, runs>>

\* Mutants of Plan: the first batch only (Trigger.Once); one row too many.
PlanOnce(q) ==
    /\ query[q].phase = "idle"
    /\ LET d == Directory(q)  c == checkpoint[d]  n == Len(input) IN
       /\ c.done < n /\ c.done = c.start
       /\ checkpoint' = [checkpoint EXCEPT ![d] =
              [known |-> TRUE, start |-> c.start, done |-> c.done, to |-> n]]
       /\ query' = [query EXCEPT ![q] = [phase |-> "batch", todo |-> c.done + 1 .. n]]
    /\ UNCHANGED <<input, main, out, runs>>
PlanBeyond(q) ==
    /\ query[q].phase = "idle"
    /\ LET d == Directory(q)  c == checkpoint[d]  n == Len(input) + 1 IN
       /\ c.done < n
       /\ checkpoint' = [checkpoint EXCEPT ![d] =
              [known |-> TRUE, start |-> c.start, done |-> c.done, to |-> n]]
       /\ query' = [query EXCEPT ![q] = [phase |-> "batch", todo |-> c.done + 1 .. n]]
    /\ UNCHANGED <<input, main, out, runs>>

\* Everything the topic holds goes into the next batch; the offset log first.
Plan(q) ==
    /\ query[q].phase = "idle"
    /\ LET d == Directory(q)  c == checkpoint[d]  n == Len(input) IN
       /\ c.done < n
       /\ checkpoint' = [checkpoint EXCEPT ![d] =
              [known |-> TRUE, start |-> c.start, done |-> c.done, to |-> n]]
       /\ query' = [query EXCEPT ![q] = [phase |-> "batch", todo |-> c.done + 1 .. n]]
    /\ UNCHANGED <<input, main, out, runs>>

\* The rows query q selects from those it reads.
Selects(q, r) == q = "flagging" => input[r]

\* Mutant of Write: a row is written and still counts as to be written.
WriteTwice(q) ==
    /\ query[q].phase = "batch"
    /\ \E r \in query[q].todo :
          /\ \/ query' = query /\ Len(out[q]) < 2 * MaxRows
             \/ query' = [query EXCEPT ![q] = [phase |-> "batch", todo |-> @.todo \ {r}]]
          /\ out' = [out EXCEPT ![q] = IF Selects(q, r) THEN Append(@, r) ELSE @]
    /\ UNCHANGED <<input, main, checkpoint, runs>>

\* The tasks of a batch write its rows in any order.
Write(q) ==
    /\ query[q].phase = "batch"
    /\ \E r \in query[q].todo :
          /\ query' = [query EXCEPT ![q] = [phase |-> "batch", todo |-> @.todo \ {r}]]
          /\ out' = [out EXCEPT ![q] = IF Selects(q, r) THEN Append(@, r) ELSE @]
    /\ UNCHANGED <<input, main, checkpoint, runs>>

\* The batch is done: the commit log records it.
Commit(q) ==
    /\ query[q].phase = "batch" /\ query[q].todo = {}
    /\ checkpoint' = [checkpoint EXCEPT ![Directory(q)] =
           [known |-> TRUE, start |-> @.start, done |-> @.to, to |-> @.to]]
    /\ query' = [query EXCEPT ![q] = [phase |-> "idle", todo |-> {}]]
    /\ UNCHANGED <<input, main, out, runs>>

\* The broker, the database or a task fails: the query terminates.
Fail(q) ==
    /\ Active(q)
    /\ query' = [query EXCEPT ![q] = [phase |-> "failed", todo |-> {}]]
    /\ UNCHANGED <<input, main, checkpoint, out, runs>>

-----------------------------------------------------------------------------
Main == StartFirst \/ StartSecond \/ StartThird \/ Await \/ Exit
Run(q) == Recover(q) \/ Plan(q) \/ Write(q) \/ Commit(q)

Next ==
    \/ Produce \/ Main \/ Kill
    \/ \E q \in Queries : Run(q) \/ Fail(q)

Spec == Init /\ [][Next]_vars

\* main and the query threads run; nobody has to submit the job, and nothing
\* has to fail.
FairSpec ==
    /\ Spec
    /\ WF_vars(StartSecond \/ StartThird \/ Await \/ Exit)
    /\ \A q \in Queries : WF_vars(Run(q))

-----------------------------------------------------------------------------
Wrote(q, r) == \E i \in 1 .. Len(out[q]) : out[q][i] = r

\* The rows directory d has let pass.
Passed(d) == checkpoint[d].start + 1 .. checkpoint[d].done

\* Whatever killed, failed or replaced queries, a row that a checkpoint counts
\* as done was written by a query that used it, and no batch runs past it.
CommittedIsWritten ==
    /\ \A r \in Passed("shared") : \E q \in KafkaQueries : Selects(q, r) => Wrote(q, r)
    /\ \A r \in Passed("temporary") : Wrote("cassandra", r)

\* The two queries of one checkpoint never run at the same time, so no batch
\* is planned twice under one number.
OneQueryPerCheckpoint == ~(Active("fraud_detection") /\ Active("flagging"))

\* A run of the job writes a row to one sink at most once.
OncePerRun ==
    \A q \in Queries : \A r \in 1 .. Len(input) :
        Cardinality({i \in 1 .. Len(out[q]) : out[q][i] = r}) <= runs

\* While the flagging query lives, every row is let pass in the end.
FlaggingCatchesUp ==
    \A r \in 1 .. MaxRows :
        Len(input) >= r /\ Active("flagging")
        ~> checkpoint["shared"].done >= r \/ ~Active("flagging")

\* What FraudDetector.scala:51 says, "Write flagged transactions to Kafka for
\* real-time monitoring": a flagged row is not let pass without its alert.
FlaggedAreAlerted == \A r \in Passed("shared") : input[r] => Wrote("flagging", r)

\* What FraudDetector.scala:55 says, "Write flagged transactions to Cassandra":
\* a row with an alert is not behind the Cassandra query and missing there.
AlertedAreStored ==
    \A r \in 1 .. Len(input) :
        Wrote("flagging", r) /\ r <= checkpoint["temporary"].done => Wrote("cassandra", r)
=============================================================================
