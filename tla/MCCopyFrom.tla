----------------------------- MODULE MCCopyFrom -----------------------------
(***************************************************************************)
(* COPY FROM, one part at a time: a behaviour is about the part of the       *)
(* program that `part` names, on a small instance of its module, and leaves  *)
(* the variables of the others alone.                                       *)
(***************************************************************************)
EXTENDS Integers, Sequences, FiniteSets

CONSTANTS None, End, Missing, Null, Unset, Invalid, Old, Bad, w1, w2

VARIABLES
    part,
    \* ImportWorker
    inbox, main, thread, requests, imported, stored, failed, reports, faults,
    \* CopyFrom
    settled, chunkReports, rowsFailed, feeder, pending, pill, wlock, pipe, hand,
    outbox, results, alive, parent, errFile, deaths,
    \* Feeder
    input, todo, current, stdin, exhausted, header, numRead, rows, left, pc,
    sent, errors, counted, since, pillSent,
    \* ImportRows
    file, stage, values, reported, table,
    \* Batches
    tokens, next, byPos, large, byReplica, unplaced, batches, up, changes,
    \* QueryPlan
    inFlight, plan, round, k, offered, asked

workerVars == <<inbox, main, thread, requests, imported, stored, failed, reports, faults>>
copyVars == <<settled, chunkReports, rowsFailed, feeder, pending, pill, wlock, pipe, hand,
              outbox, results, alive, parent, errFile, deaths>>
feederVars == <<input, todo, current, stdin, exhausted, header, numRead, rows, left, pc,
                sent, errors, counted, since, pillSent>>
rowsVars == <<file, stage, values, reported, table>>
batchVars == <<tokens, next, byPos, large, byReplica, unplaced, batches, up, changes>>
planVars == <<inFlight, plan, round, k, offered, asked>>
vars == <<part, workerVars, copyVars, feederVars, rowsVars, batchVars, planVars>>

-----------------------------------------------------------------------------
(* ImportWorker: two chunks with rows that can be stored and rows that         *)
(* cannot, and errors of the database; one chunk whose updates race; one chunk *)
(* and every fault once.                                                       *)
TwoChunks == {"a1", "a2", "a3", "b1"}
OneChunk == {"a1", "a2", "a3"}
FaultKinds == {"error", "statement", "raise", "false timeout"}

Worker == INSTANCE ImportWorker WITH
    Rows <- TwoChunks, ChunkOf <- [r \in TwoChunks |-> IF r = "b1" THEN "b" ELSE "a"],
    Kind <- [r \in TwoChunks |-> CASE r = "a3" -> "unparsable" [] r = "b1" -> "nokey" [] OTHER -> "good"],
    Inbox <- <<"a", "b">>, MaxBatchSize <- 2, MaxAttempts <- 2, EarlyAnswers <- FALSE,
    MaxFaults <- [f \in FaultKinds |-> IF f = "error" THEN 3 ELSE 0]
Racing == INSTANCE ImportWorker WITH
    Rows <- OneChunk, ChunkOf <- [r \in OneChunk |-> "a"], Kind <- [r \in OneChunk |-> "good"],
    Inbox <- <<"a">>, MaxBatchSize <- 2, MaxAttempts <- 2, EarlyAnswers <- TRUE,
    MaxFaults <- [f \in FaultKinds |-> IF f \in {"error", "statement"} THEN 1 ELSE 0]
Faulty == INSTANCE ImportWorker WITH
    Rows <- {"a1", "a2"}, ChunkOf <- [r \in {"a1", "a2"} |-> "a"], Kind <- [r \in {"a1", "a2"} |-> "good"],
    Inbox <- <<"a">>, MaxBatchSize <- 1, MaxAttempts <- 2, EarlyAnswers <- TRUE,
    MaxFaults <- [f \in FaultKinds |-> 1]

InitWorker == \/ part = "worker" /\ Worker!Init
              \/ part = "racing" /\ Racing!Init
              \/ part = "faulty" /\ Faulty!Init
NoWorker == /\ inbox = None /\ main = None /\ thread = None /\ requests = None /\ imported = None
            /\ stored = None /\ failed = None /\ reports = None /\ faults = None

(* CopyFrom: two chunks, each reported once or twice; for two workers when    *)
(* nothing fails, and when a child dies or is slow and no row may fail to be   *)
(* inserted.                                                                   *)
Rows3 == {"a1", "a2", "b1"}
Copy == INSTANCE CopyFrom WITH
    Rows <- Rows3, ChunkOf <- [r \in Rows3 |-> IF r = "b1" THEN 2 ELSE 1],
    Errors <- [r \in Rows3 |-> CASE r = "a2" -> {"parse"} [] r = "b1" -> {"insert"} [] OTHER -> {}],
    MaxReports <- 2, Workers <- {w1, w2}, MaxPendingChunks <- 1, PipeSize <- 1,
    ErrorLimit <- [kind \in {"parse", "insert"} |-> -1], MaxDeaths <- 0, MaxTimeouts <- 0,
    reports <- chunkReports, failed <- rowsFailed, faults <- deaths
Deadly == INSTANCE CopyFrom WITH
    Rows <- {"a1", "b1"}, ChunkOf <- [r \in {"a1", "b1"} |-> IF r = "a1" THEN 1 ELSE 2],
    Errors <- [r \in {"a1", "b1"} |-> IF r = "a1" THEN {"insert"} ELSE {}],
    MaxReports <- 2, Workers <- {w1, w2}, MaxPendingChunks <- 1, PipeSize <- 1,
    ErrorLimit <- [kind \in {"parse", "insert"} |-> IF kind = "insert" THEN 0 ELSE -1],
    MaxDeaths <- 1, MaxTimeouts <- 0,
    reports <- chunkReports, failed <- rowsFailed, faults <- deaths

Slow == INSTANCE CopyFrom WITH
    Rows <- {"a1", "b1"}, ChunkOf <- [r \in {"a1", "b1"} |-> IF r = "a1" THEN 1 ELSE 2],
    Errors <- [r \in {"a1", "b1"} |-> IF r = "a1" THEN {"insert"} ELSE {"parse"}],
    MaxReports <- 2, Workers <- {w1}, MaxPendingChunks <- 1, PipeSize <- 1,
    ErrorLimit <- [kind \in {"parse", "insert"} |-> IF kind = "insert" THEN 0 ELSE -1],
    MaxDeaths <- 0, MaxTimeouts <- 1,
    reports <- chunkReports, failed <- rowsFailed, faults <- deaths

InitCopy == \/ part = "copy" /\ Copy!Init
            \/ part = "deadly" /\ Deadly!Init
            \/ part = "slow" /\ Slow!Init
NoCopy == /\ settled = None /\ chunkReports = None /\ rowsFailed = None /\ feeder = None /\ pending = None
          /\ pill = None /\ wlock = None /\ pipe = None /\ hand = None /\ outbox = None /\ results = None
          /\ alive = None /\ parent = None /\ errFile = None /\ deaths = None

(* Feeder: up to three files of up to three lines, with and without a header,  *)
(* and STDIN with up to four lines.  The lines are numbered; one of the files   *)
(* may not be there.                                                           *)
File(n, lines) == [j \in 1..lines |-> 10 * n + j]
Files(sizes) == UNION {{[i \in 1..n |-> File(i, s[i])] : s \in [1..n -> sizes]} : n \in 1..3}
Gapped(sizes) == {<<Missing, File(1, 2)>>} \cup {<<File(1, n), Missing, File(2, 3)>> : n \in sizes}
                 \cup {<<File(1, n), File(2, m), Missing>> : n, m \in sizes}
Headed == INSTANCE Feeder WITH Stdin <- FALSE, Inputs <- Files(1..3), Header <- TRUE, MaxRows <- 5, SkipRows <- 1,
              ChunkSize <- 2, IngestRate <- 3, Interval <- 2, pipe <- stdin, pill <- pillSent
Plain == INSTANCE Feeder WITH Stdin <- FALSE, Inputs <- Files(0..3) \cup Gapped(0..3), Header <- FALSE, MaxRows <- 4, SkipRows <- 2,
              ChunkSize <- 2, IngestRate <- 3, Interval <- 2, pipe <- stdin, pill <- pillSent
Piped == INSTANCE Feeder WITH Stdin <- TRUE, Inputs <- {<<File(1, n)>> : n \in 0..4}, Header <- TRUE, MaxRows <- -1,
              SkipRows <- 0, ChunkSize <- 2, IngestRate <- 3, Interval <- 2, pipe <- stdin, pill <- pillSent

InitFeeder == \/ part = "headed" /\ Headed!Init
              \/ part = "plain" /\ Plain!Init
              \/ part = "piped" /\ Piped!Init
NoFeeder == /\ input = None /\ todo = None /\ current = None /\ stdin = None /\ exhausted = None /\ header = None
            /\ numRead = None /\ rows = None /\ left = None /\ pc = None /\ sent = None /\ errors = None
            /\ counted = None /\ since = None /\ pillSent = None

(* ImportRows: a number p as partition key, a number or text c as clustering   *)
(* column, a number v and a text t that may be skipped; two rows.              *)
Four == <<"p", "c", "v", "t">>
Prepared == INSTANCE ImportRows WITH Columns <- Four, SkipColumns <- {"t"}, PartitionKey <- <<"p">>, Clustering <- <<"c">>,
    Texts <- {"t"}, Mode <- "prepared", NullField <- "empty", InsertNull <- TRUE, Fields <- {"one", "junk", "empty"}, MaxRows <- 2
Unset_ == INSTANCE ImportRows WITH Columns <- Four, SkipColumns <- {}, PartitionKey <- <<"p">>, Clustering <- <<>>,
    Texts <- {"c", "t"}, Mode <- "prepared", NullField <- "marker", InsertNull <- FALSE, Fields <- {"one", "empty", "marker"}, MaxRows <- 2
Literal == INSTANCE ImportRows WITH Columns <- Four, SkipColumns <- {"t"}, PartitionKey <- <<"p">>, Clustering <- <<"c">>,
    Texts <- {"t"}, Mode <- "plain", NullField <- "empty", InsertNull <- TRUE, Fields <- {"one", "junk", "empty"}, MaxRows <- 2
Counter == INSTANCE ImportRows WITH Columns <- <<"p", "c", "v">>, SkipColumns <- {}, PartitionKey <- <<"p">>, Clustering <- <<"c">>,
    Texts <- {"t"}, Mode <- "counter", NullField <- "empty", InsertNull <- TRUE, Fields <- {"one", "junk", "empty"}, MaxRows <- 2

InitRows == \/ part = "prepared" /\ Prepared!Init
            \/ part = "unset" /\ Unset_!Init
            \/ part = "literal" /\ Literal!Init
            \/ part = "counter" /\ Counter!Init
NoRows == file = None /\ stage = None /\ values = None /\ reported = None /\ table = None

(* Batches: three positions on the ring, three local hosts and one in another  *)
(* data center; tokens within the ranges and beyond the last token.            *)
Split == INSTANCE Batches WITH Ring <- <<10, 20, 30>>, Replicas <- <<{"a", "b"}, {"b", "far"}, {"c", "far"}>>,
    Local <- {"a", "b", "c"}, Tokens <- {5, 15, 35}, MinBatch <- 1, MaxBatch <- 2, MaxRows <- 4, Changes <- 2,
    rows <- tokens, reported <- unplaced
NoBatches == /\ tokens = None /\ next = None /\ byPos = None /\ large = None /\ byReplica = None
             /\ unplaced = None /\ batches = None /\ up = None /\ changes = None

(* QueryPlan: two replicas and two more hosts, three rounds.                   *)
Plan == INSTANCE QueryPlan WITH Replicas <- <<"a", "b">>, Others <- <<"b", "c">>, MaxInFlight <- 1, MaxBackoff <- 3,
    Load <- 2, stage <- asked
NoPlan == /\ inFlight = None /\ plan = None /\ round = None /\ k = None /\ offered = None /\ asked = None

ASSUME ConstantsAssumption ==
    /\ Worker!RowsAssumption /\ Racing!RowsAssumption /\ Faulty!RowsAssumption
    /\ Worker!NoDoubleAnswers /\ Worker!NoRace /\ Racing!NoDoubleAnswers
    /\ Copy!ChunksAssumption /\ Deadly!ChunksAssumption /\ Slow!ChunksAssumption
    /\ Headed!FeederAssumption /\ Plain!FeederAssumption /\ Piped!FeederAssumption
    /\ Prepared!ImportRowsAssumption /\ Unset_!ImportRowsAssumption /\ Literal!ImportRowsAssumption
    /\ Counter!ImportRowsAssumption /\ Split!BatchesAssumption /\ Plan!QueryPlanAssumption

-----------------------------------------------------------------------------
Init ==
    \/ InitWorker /\ NoCopy /\ NoFeeder /\ NoRows /\ NoBatches /\ NoPlan
    \/ InitCopy /\ NoWorker /\ NoFeeder /\ NoRows /\ NoBatches /\ NoPlan
    \/ InitFeeder /\ NoWorker /\ NoCopy /\ NoRows /\ NoBatches /\ NoPlan
    \/ InitRows /\ NoWorker /\ NoCopy /\ NoFeeder /\ NoBatches /\ NoPlan
    \/ part = "batches" /\ Split!Init /\ NoWorker /\ NoCopy /\ NoFeeder /\ NoRows /\ NoPlan
    \/ part = "plan" /\ Plan!Init /\ NoWorker /\ NoCopy /\ NoFeeder /\ NoRows /\ NoBatches

OnlyWorker(p) == part = p /\ UNCHANGED <<part, copyVars, feederVars, rowsVars, batchVars, planVars>>
OnlyCopy(p) == part = p /\ UNCHANGED <<part, workerVars, feederVars, rowsVars, batchVars, planVars>>
OnlyFeeder(p) == part = p /\ UNCHANGED <<part, workerVars, copyVars, rowsVars, batchVars, planVars>>
OnlyRows(p) == part = p /\ UNCHANGED <<part, workerVars, copyVars, feederVars, batchVars, planVars>>
OnlyBatches == part = "batches" /\ UNCHANGED <<part, workerVars, copyVars, feederVars, rowsVars, planVars>>
OnlyPlan == part = "plan" /\ UNCHANGED <<part, workerVars, copyVars, feederVars, rowsVars, batchVars>>

Next ==
    \/ OnlyWorker("worker") /\ Worker!Next
    \/ OnlyWorker("racing") /\ Racing!Next
    \/ OnlyWorker("faulty") /\ Faulty!Next
    \/ OnlyCopy("copy") /\ Copy!Next
    \/ OnlyCopy("deadly") /\ Deadly!Next
    \/ OnlyCopy("slow") /\ Slow!Next
    \/ OnlyFeeder("headed") /\ Headed!Next
    \/ OnlyFeeder("plain") /\ Plain!Next
    \/ OnlyFeeder("piped") /\ Piped!Next
    \/ OnlyRows("prepared") /\ Prepared!Next
    \/ OnlyRows("unset") /\ Unset_!Next
    \/ OnlyRows("literal") /\ Literal!Next
    \/ OnlyRows("counter") /\ Counter!Next
    \/ OnlyBatches /\ Split!Next
    \/ OnlyPlan /\ Plan!Next

(* The fairness each module states, gathered by kind, as a behaviour has one    *)
(* part: threads and processes run, the database answers, time passes; nothing  *)
(* has to fail.                                                                *)
Run ==
    \/ OnlyWorker("worker") /\ Worker!MainStep
    \/ OnlyCopy("copy") /\ Copy!FeedStep
    \/ OnlyCopy("deadly") /\ Deadly!FeedStep
    \/ OnlyCopy("slow") /\ Slow!FeedStep
    \/ OnlyFeeder("headed") /\ Headed!FeederStep
    \/ OnlyFeeder("piped") /\ Piped!FeederStep
    \/ OnlyPlan /\ Plan!Step
Continue ==
    \/ OnlyWorker("worker") /\ Worker!UpdateChunk
    \/ OnlyCopy("copy") /\ Copy!WorkStep
    \/ OnlyCopy("deadly") /\ Deadly!WorkStep
    \/ OnlyCopy("slow") /\ Slow!WorkStep
    \/ OnlyFeeder("headed") /\ Headed!Tick
    \/ OnlyFeeder("piped") /\ Piped!Tick
Respond ==
    \/ OnlyWorker("worker") /\ Worker!Answer
    \/ OnlyCopy("copy") /\ Copy!SendStep
    \/ OnlyCopy("deadly") /\ Deadly!SendStep
    \/ OnlyCopy("slow") /\ Slow!SendStep
    \/ OnlyFeeder("headed") /\ Headed!SendPill
    \/ OnlyFeeder("piped") /\ Piped!SendPill
Callback ==
    \/ OnlyWorker("worker") /\ \E t \in Worker!Threads : Worker!Attach(t)
    \/ OnlyCopy("copy") /\ Copy!PillStep
    \/ OnlyCopy("deadly") /\ Deadly!PillStep
    \/ OnlyCopy("slow") /\ Slow!PillStep
Progress ==
    \/ OnlyWorker("worker") /\ \E q \in requests : Worker!Apply(q) \/ Worker!TimerSends(q)
    \/ OnlyCopy("copy") /\ Copy!ParentStep
    \/ OnlyCopy("deadly") /\ Deadly!ParentStep
    \/ OnlyCopy("slow") /\ Slow!ParentStep

Spec == /\ Init /\ [][Next]_vars
        /\ WF_vars(Run) /\ WF_vars(Continue) /\ WF_vars(Respond) /\ WF_vars(Callback) /\ WF_vars(Progress)

-----------------------------------------------------------------------------
(* A worker does what the parent counts on (ChunkWork): it reports a chunk     *)
(* once, and not before all its rows are stored or given up.  Callbacks that   *)
(* race for chunk['imported'] may report it once each, but not early either.   *)
KeepsPromise ==
    /\ part = "worker" => Worker!Promise!Init
    /\ part = "racing" => Racing!RacyPromise!Init
    /\ [][/\ part = "worker" => [Worker!Promise!Next]_<<Worker!Settled, reports>>
          /\ part = "racing" => [Racing!RacyPromise!Next]_<<Racing!Settled, reports>>]_vars

(* Whatever fails, a worker that has nothing more to do has stored or reported *)
(* every row it received; and racing updates lose counts but never make them:  *)
(* only rows that are stored or reported are counted.                          *)
NoRowForgotten == /\ part = "worker" => Worker!NoRowForgotten
                  /\ part = "racing" => Racing!NoRowForgotten /\ Racing!CountsOnlySettledRows
                  /\ part = "faulty" => Faulty!NoRowForgotten

(* An import that completes misses no more rows than racing threads made the  *)
(* parent count again: every other row is settled, and on file if it was       *)
(* given up, whatever died or was slow on the way.                             *)
CompletedMeansSettled ==
    /\ part = "copy" => Copy!MissingIsCountedAgain
    /\ part = "deadly" => Deadly!MissingIsCountedAgain
    /\ part = "slow" => Slow!MissingIsCountedAgain

(* The rows sent to workers are those the options ask for, in order and each   *)
(* once, whatever the chunks, the rate and the sizes of the files; a source     *)
(* that cannot be opened is reported, and takes only the chunk in hand and the *)
(* sources after it with it; and no more than INGESTRATE rows are sent before  *)
(* the meter starts again.                                                     *)
SentIsWanted ==
    /\ part = "headed" => Headed!SentIsWanted /\ Headed!RateKept
    /\ part = "plain" => Plain!SentIsWanted /\ Plain!CutShort /\ Plain!RateKept
    /\ part = "piped" => Piped!SentIsWanted /\ Piped!RateKept

(* What the table holds afterwards is what the fields of the rows that were    *)
(* not reported say, missing values and skipped columns included; a row with   *)
(* nothing wrong is not reported because of others in its batch, and no        *)
(* statement is sent without its key.  Literal statements and counters go to    *)
(* the server a batch at a time, which refuses good rows with bad ones.        *)
StoredAsRead ==
    /\ part = "prepared" => Prepared!StoredAsRead /\ Prepared!GoodRowsStored /\ Prepared!KeysPresent
    /\ part = "unset" => Unset_!StoredAsRead /\ Unset_!GoodRowsStored
    /\ part = "literal" => Literal!StoredAsRead /\ Literal!KeysPresent
    /\ part = "counter" => Counter!StoredAsRead

(* Each row of a chunk is in one batch or reported; the hosts of a batch have  *)
(* the ranges of all its rows; no batch is too large, or smaller than it has   *)
(* to be.                                                                      *)
BatchesFollowTheRing ==
    part = "batches" => Split!RowsPartitioned /\ Split!CommonReplicas /\ Split!FewAndFull

(* In a round a host is offered at most once, and one without the rows only    *)
(* after each replica was offered or too busy.                                 *)
ReplicasFirst == [][part = "plan" => Plan!OffersInOrder]_vars

(* Every chunk is reported, although the database answers with errors; a copy  *)
(* without faults completes; one whose children die or are slow ends and leaves *)
(* no process behind; the feeder ends; a query plan finds a host or gives up.  *)
Ended == CASE part = "worker" -> \A c \in Worker!Chunks : reports[c] > 0
           [] part = "copy" -> Copy!Completed
           [] part \in {"deadly", "slow"} -> parent.at = "done" /\ alive = {}
           [] part \in {"headed", "piped"} -> pc = "ended"
           [] part = "plan" -> asked \in {"sent", "failed"}
           [] OTHER -> TRUE
ImportEnds == <>Ended
=============================================================================
