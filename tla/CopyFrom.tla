------------------------------ MODULE CopyFrom ------------------------------
(***************************************************************************)
(* COPY FROM: the parent (ImportTask), the feeding process and the worker  *)
(* processes, joined by pipes.  Every process sends through a queue and a  *)
(* thread that writes the pipe; parent and feeder write the same pipe of a *)
(* worker under its lock.  Workers are what module ChunkWork promises of   *)
(* them; ImportWorker shows how they keep that.                            *)
(***************************************************************************)
EXTENDS Integers, Sequences, FiniteSets

CONSTANTS
    Rows, ChunkOf,      \* the rows of the input; chunks are 1, 2, ...
    MaxReports,         \* how often a worker may report a chunk
    Errors,             \* Errors[r]: the kinds of error row r may meet
    Workers,
    MaxPendingChunks,   \* chunks the feeder may queue for a worker
    PipeSize,           \* messages a worker's pipe holds
    ErrorLimit,         \* ErrorLimit[k]: MAXPARSEERRORS, MAXINSERTERRORS; -1 for none
    MaxDeaths,          \* bound: children that die unexpectedly
    MaxTimeouts         \* bound: child timeouts

VARIABLES
    settled, reports,   \* rows stored or given up, results per chunk (ChunkWork)
    failed,             \* rows given up
    feeder,             \* the feeding process: next chunk, whether it waits for the pill
    pending,            \* pending[w]: chunks queued in the feeder for worker w
    pill,               \* pill[p]: the poison pill in the parent, on its way to p
    wlock,              \* wlock[w]: who is writing the pipe of worker w
    pipe,               \* pipe[p]: what child p can receive
    hand,               \* hand[w]: chunks worker w has taken
    outbox, results,    \* what child p has queued for the parent; has written
    alive,              \* processes that are running
    parent,             \* ImportTask: where it is, its totals
    errFile,            \* rows written to the error file
    faults              \* deaths and timeouts so far

feederVars == <<feeder, pending>>
parentVars == <<parent, errFile, pill>>
workVars == <<settled, reports, failed, hand>>
vars == <<settled, reports, failed, feeder, pending, pill, wlock, pipe, hand,
          outbox, results, alive, parent, errFile, faults>>

Work == INSTANCE ChunkWork
Chunks == Work!Chunks
RowsOf(c) == Work!RowsOf(c)
Size(c) == Cardinality(RowsOf(c))

Feeder == "feeder"
Children == Workers \cup {Feeder}
Pill == 0

ChunksAssumption ==
    /\ IsFiniteSet(Rows)
    /\ Feeder \notin Workers
    /\ Chunks = 1 .. Cardinality(Chunks)
    /\ MaxReports \in Nat /\ MaxDeaths \in Nat /\ MaxTimeouts \in Nat

ErrorKinds == {"parse", "insert"}
Results ==
    [type : {"imported"}, n : Nat]
    \cup [type : {"error"}, kind : ErrorKinds, rows : SUBSET Rows]
    \cup [type : {"fed"}, sent : Nat]

NoResult == -1      \* feeding_result is NoResult

TypeOK ==
    /\ settled \subseteq Rows /\ failed \subseteq settled
    /\ reports \in [Chunks -> 0 .. MaxReports]
    /\ feeder \in [next : 1 .. Cardinality(Chunks) + 1, sent : Nat, at : {"feed", "pill", "ended"}]
    /\ pending \in [Workers -> Seq(Chunks)]
    /\ pill \in [Children -> {"none", "queued", "writing", "sent"}]
    /\ wlock \in [Workers -> {"free", "feeder", "parent"}]
    /\ pipe \in [Children -> Seq(Chunks \cup {Pill})]
    /\ hand \in [Workers -> SUBSET Chunks]
    /\ outbox \in [Children -> Seq(Results)]
    /\ results \in [Children -> Seq(Results)]
    /\ alive \subseteq Children
    /\ parent \in [at : {"loop", "report", "pill", "wait", "done"}, total : Nat, sent : Nat \cup {NoResult},
                   errors : [ErrorKinds -> Nat], aborted : BOOLEAN]
    /\ errFile \subseteq failed
    /\ faults \in [deaths : 0 .. MaxDeaths, timeouts : 0 .. MaxTimeouts]

Init ==
    /\ Work!Init
    /\ failed = {}
    /\ feeder = [next |-> 1, sent |-> 0, at |-> "feed"]
    /\ pending = [w \in Workers |-> << >>]
    /\ pill = [p \in Children |-> "none"]
    /\ wlock = [w \in Workers |-> "free"]
    /\ pipe = [p \in Children |-> << >>]
    /\ hand = [w \in Workers |-> {}]
    /\ outbox = [p \in Children |-> << >>]
    /\ results = [p \in Children |-> << >>]
    /\ alive = Children
    /\ parent = [at |-> "loop", total |-> 0, sent |-> NoResult,
                 errors |-> [k \in ErrorKinds |-> 0], aborted |-> FALSE]
    /\ errFile = {}
    /\ faults = [deaths |-> 0, timeouts |-> 0]

\* A message for the parent, written by the sending thread of p.
Queue(p, msgs) == outbox' = [outbox EXCEPT ![p] = @ \o msgs]
WriteResult(p) ==
    /\ p \in alive /\ outbox[p] # << >>
    /\ results' = [results EXCEPT ![p] = Append(@, Head(outbox[p]))]
    /\ outbox' = [outbox EXCEPT ![p] = Tail(@)]
    /\ UNCHANGED <<workVars, feederVars, parentVars, wlock, pipe, alive, faults>>

-----------------------------------------------------------------------------
(* The feeding process                                                      *)

\* A chunk goes to a worker with fewer than maxpendingchunks queued.  What a
\* read returns and how many is the matter of module Feeder.
SendChunk(w) ==
    /\ Feeder \in alive /\ feeder.at = "feed" /\ feeder.next \in Chunks
    /\ Len(pending[w]) < MaxPendingChunks
    /\ pending' = [pending EXCEPT ![w] = Append(@, feeder.next)]
    /\ feeder' = [feeder EXCEPT !.next = @ + 1, !.sent = @ + Size(feeder.next)]
    /\ UNCHANGED <<workVars, parentVars, wlock, pipe, outbox, results, alive, faults>>

\* Mutant of Fed: the number of chunks is sent instead of that of rows.
FedChunks ==
    /\ Feeder \in alive /\ feeder.at = "feed" /\ feeder.next \notin Chunks
    /\ feeder' = [feeder EXCEPT !.at = "pill"]
    /\ Queue(Feeder, <<[type |-> "fed", sent |-> feeder.next - 1]>>)
    /\ UNCHANGED <<workVars, pending, parentVars, wlock, pipe, results, alive, faults>>

\* The reader is exhausted: the number of rows sent goes to the parent.
Fed ==
    /\ Feeder \in alive /\ feeder.at = "feed" /\ feeder.next \notin Chunks
    /\ feeder' = [feeder EXCEPT !.at = "pill"]
    /\ Queue(Feeder, <<[type |-> "fed", sent |-> feeder.sent]>>)
    /\ UNCHANGED <<workVars, pending, parentVars, wlock, pipe, results, alive, faults>>

\* The sending thread for worker w holds the lock of the pipe while it writes.
Lock(w) ==
    /\ Feeder \in alive /\ pending[w] # << >> /\ wlock[w] = "free"
    /\ wlock' = [wlock EXCEPT ![w] = "feeder"]
    /\ UNCHANGED <<workVars, feederVars, parentVars, pipe, outbox, results, alive, faults>>

WriteChunk(w) ==
    /\ Feeder \in alive /\ wlock[w] = "feeder" /\ Len(pipe[w]) < PipeSize
    /\ pipe' = [pipe EXCEPT ![w] = Append(@, Head(pending[w]))]
    /\ pending' = [pending EXCEPT ![w] = Tail(@)]
    /\ wlock' = [wlock EXCEPT ![w] = "free"]
    /\ UNCHANGED <<workVars, feeder, parentVars, outbox, results, alive, faults>>

\* recv of the pill, and the end of the process with its threads.
FeederEnds ==
    /\ Feeder \in alive /\ feeder.at = "pill" /\ pipe[Feeder] # << >>
    /\ pipe' = [pipe EXCEPT ![Feeder] = Tail(@)]
    /\ feeder' = [feeder EXCEPT !.at = "ended"]
    /\ alive' = alive \ {Feeder}
    /\ outbox' = [outbox EXCEPT ![Feeder] = << >>]
    /\ UNCHANGED <<workVars, pending, parentVars, wlock, results, faults>>

-----------------------------------------------------------------------------
(* The worker processes                                                     *)

Receive(w) ==
    /\ w \in alive /\ pipe[w] # << >> /\ Head(pipe[w]) # Pill
    /\ hand' = [hand EXCEPT ![w] = @ \cup {Head(pipe[w])}]
    /\ pipe' = [pipe EXCEPT ![w] = Tail(@)]
    /\ UNCHANGED <<settled, reports, failed, feederVars, parentVars, wlock, outbox, results, alive, faults>>

\* Rows of a chunk are stored, or given up and reported with their error.
StoreRows(w, c) ==
    /\ w \in alive /\ c \in hand[w] /\ ~ RowsOf(c) \subseteq settled
    /\ \E R \in SUBSET (RowsOf(c) \ settled) : R # {} /\ Work!Settle(R)
    /\ UNCHANGED <<failed, hand, feederVars, parentVars, wlock, pipe, outbox, results, alive, faults>>

GiveUpRows(w, c) ==
    /\ w \in alive /\ c \in hand[w]
    /\ \E R \in SUBSET (RowsOf(c) \ settled), k \in ErrorKinds :
        /\ R # {} /\ \A r \in R : k \in Errors[r]
        /\ Work!Settle(R)
        /\ failed' = failed \cup R
        /\ Queue(w, <<[type |-> "error", kind |-> k, rows |-> R]>>)
    /\ UNCHANGED <<hand, feederVars, parentVars, wlock, pipe, results, alive, faults>>

ReportChunk(w, c) ==
    /\ w \in alive /\ c \in hand[w]
    /\ Work!Report(c)
    /\ Queue(w, <<[type |-> "imported", n |-> Size(c)]>>)
    /\ UNCHANGED <<failed, hand, feederVars, parentVars, wlock, pipe, results, alive, faults>>

\* The pill ends the loop; close() cuts off what is not written.
WorkerEnds(w) ==
    /\ w \in alive /\ pipe[w] # << >> /\ Head(pipe[w]) = Pill
    /\ pipe' = [pipe EXCEPT ![w] = Tail(@)]
    /\ alive' = alive \ {w}
    /\ outbox' = [outbox EXCEPT ![w] = << >>]
    /\ UNCHANGED <<workVars, feederVars, parentVars, wlock, results, faults>>

-----------------------------------------------------------------------------
(* The parent                                                               *)

Exceeded == \E k \in ErrorKinds : 0 <= ErrorLimit[k] /\ ErrorLimit[k] < parent.errors[k]

\* receive_results: one message of a pipe that is ready.
ReceiveResult(p) ==
    LET msg == Head(results[p]) IN
    /\ parent.at = "loop" /\ results[p] # << >>
    /\ results' = [results EXCEPT ![p] = Tail(@)]
    /\ \/ /\ msg.type = "imported"
          /\ parent' = [parent EXCEPT !.total = @ + msg.n]
          /\ UNCHANGED errFile
       \/ /\ msg.type = "fed"
          /\ parent' = [parent EXCEPT !.sent = msg.sent]
          /\ UNCHANGED errFile
       \/ /\ msg.type = "error"
          /\ parent' = [parent EXCEPT !.errors[msg.kind] = @ + Cardinality(msg.rows)]
          /\ errFile' = errFile \cup msg.rows
    /\ UNCHANGED <<workVars, feederVars, pill, wlock, pipe, outbox, alive, faults>>

Leave(aborted) == parent' = [parent EXCEPT !.at = "report", !.aborted = aborted]

\* The condition of the while loop.
AllReceived ==
    /\ parent.at = "loop" /\ ~ Exceeded
    /\ parent.sent # NoResult /\ parent.total >= parent.sent
    /\ Leave(FALSE)
    /\ UNCHANGED <<workVars, feederVars, errFile, pill, wlock, pipe, outbox, results, alive, faults>>

\* Its breaks: too many errors, a child that has died, no record for a while.
Abort ==
    /\ parent.at = "loop" /\ (Exceeded \/ alive # Children)
    /\ Leave(TRUE)
    /\ UNCHANGED <<workVars, feederVars, errFile, pill, wlock, pipe, outbox, results, alive, faults>>

ChildTimeout ==
    /\ parent.at = "loop" /\ faults.timeouts < MaxTimeouts
    /\ faults' = [faults EXCEPT !.timeouts = @ + 1]
    /\ Leave(TRUE)
    /\ UNCHANGED <<workVars, feederVars, errFile, pill, wlock, pipe, outbox, results, alive>>

\* Without all children there is no pill; with too many errors the feeder is
\* killed first, whatever its threads are doing.
SendPoisonPill ==
    /\ parent.at = "report"
    /\ LET alive2 == IF Exceeded THEN alive \ {Feeder} ELSE alive IN
       IF alive # Children
       THEN parent' = [parent EXCEPT !.at = "done"] /\ alive' = {} /\ UNCHANGED <<pill, outbox>>
       ELSE /\ parent' = [parent EXCEPT !.at = "wait"]
            /\ alive' = alive2
            /\ pill' = [p \in Children |-> IF p \in alive2 THEN "queued" ELSE "none"]
            /\ outbox' = [p \in Children |-> IF p \in alive2 THEN outbox[p] ELSE << >>]
    /\ UNCHANGED <<workVars, feederVars, errFile, wlock, pipe, results, faults>>

\* The parent's sending threads: the pipe of a worker is shared with the feeder.
LockPill(w) ==
    /\ pill[w] = "queued" /\ wlock[w] = "free"
    /\ pill' = [pill EXCEPT ![w] = "writing"]
    /\ wlock' = [wlock EXCEPT ![w] = "parent"]
    /\ UNCHANGED <<workVars, feederVars, parent, errFile, pipe, outbox, results, alive, faults>>

WritePill(w) ==
    /\ pill[w] = "writing" /\ Len(pipe[w]) < PipeSize
    /\ pipe' = [pipe EXCEPT ![w] = Append(@, Pill)]
    /\ pill' = [pill EXCEPT ![w] = "sent"]
    /\ wlock' = [wlock EXCEPT ![w] = "free"]
    /\ UNCHANGED <<workVars, feederVars, parent, errFile, outbox, results, alive, faults>>

WriteFeederPill ==
    /\ pill[Feeder] = "queued"
    /\ pipe' = [pipe EXCEPT ![Feeder] = Append(@, Pill)]
    /\ pill' = [pill EXCEPT ![Feeder] = "sent"]
    /\ UNCHANGED <<workVars, feederVars, parent, errFile, wlock, outbox, results, alive, faults>>

\* All children have ended, or five seconds have passed: close() kills the rest.
Close ==
    /\ parent.at = "wait"
    /\ parent' = [parent EXCEPT !.at = "done"]
    /\ alive' = {}
    /\ UNCHANGED <<workVars, feederVars, errFile, pill, wlock, pipe, outbox, results, faults>>

Die(p) ==
    /\ p \in alive /\ faults.deaths < MaxDeaths /\ parent.at = "loop"
    /\ faults' = [faults EXCEPT !.deaths = @ + 1]
    /\ alive' = alive \ {p}
    /\ outbox' = [outbox EXCEPT ![p] = << >>]
    /\ UNCHANGED <<workVars, feederVars, parentVars, wlock, pipe, results>>

-----------------------------------------------------------------------------
FeedStep == Fed \/ FeederEnds \/ \E w \in Workers : SendChunk(w) \/ Lock(w) \/ WriteChunk(w)
WorkStep == \E w \in Workers :
    Receive(w) \/ WorkerEnds(w) \/ \E c \in hand[w] : StoreRows(w, c) \/ ReportChunk(w, c)
SendStep == \E p \in Children : WriteResult(p)
PillStep == WriteFeederPill \/ \E w \in Workers : LockPill(w) \/ WritePill(w)
ParentStep == AllReceived \/ Abort \/ SendPoisonPill \/ Close \/ \E p \in Children : ReceiveResult(p)

Fault ==
    \/ ChildTimeout
    \/ \E p \in Children : Die(p)
    \/ \E w \in Workers : \E c \in hand[w] : GiveUpRows(w, c)

Next == FeedStep \/ WorkStep \/ SendStep \/ PillStep \/ ParentStep \/ Fault

Spec == Init /\ [][Next]_vars

\* Processes and their threads run; nothing has to fail or to be slow.
FairSpec ==
    /\ Spec
    /\ WF_vars(FeedStep) /\ WF_vars(WorkStep) /\ WF_vars(SendStep)
    /\ WF_vars(PillStep) /\ WF_vars(ParentStep)

-----------------------------------------------------------------------------
(* Properties                                                               *)

\* The parent left its loop because it has counted everything.
Completed == parent.at # "loop" /\ ~ parent.aborted

\* Threads of a worker that race for a chunk's count report it once each, and
\* the parent counts its rows as often: here each row with its further reports.
CountedAgain == {c \in Rows \X (2 .. MaxReports) : c[2] <= reports[ChunkOf[c[1]]]}

\* Rows without an outcome, and rows that were given up and are not on file.
Unaccounted == (Rows \ settled) \cup (failed \ errFile)

\* Nothing else hides a row from an import that completes: it misses no more
\* rows than were counted again.
MissingIsCountedAgain == Completed => Cardinality(Unaccounted) <= Cardinality(CountedAgain)

\* So when no chunk was reported twice, an import that completes has settled
\* every row of its input: nothing is left in a queue, in a pipe or with a
\* worker; and the rows that were given up are in the error file: errors come
\* through the same pipe as the result that ends the wait, before it.
CompletedMeansSettled == Completed /\ CountedAgain = {} => settled = Rows
ErrorFileIsComplete == Completed /\ CountedAgain = {} => errFile = failed

=============================================================================
