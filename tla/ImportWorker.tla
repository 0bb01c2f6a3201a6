---------------------------- MODULE ImportWorker ----------------------------
(***************************************************************************)
(* One worker process of COPY FROM: ImportProcess in copyutil.py.  The     *)
(* main thread takes chunks, converts rows, cuts batches and sends them;   *)
(* the driver's event loop runs the callbacks of answers; a Timer thread   *)
(* sends a batch again after a write timeout.  All of them add to          *)
(* chunk['imported'] without a lock: a load, a store, and a second load    *)
(* that decides whether the chunk is reported.                             *)
(***************************************************************************)
EXTENDS Naturals, Sequences, FiniteSets

CONSTANTS
    Rows,               \* the rows of all chunks
    ChunkOf,            \* ChunkOf[r]: the chunk row r comes in
    Kind,               \* Kind[r]: "good", "unparsable", "nokey" when only
                        \* its partition key cannot be computed, or
                        \* "continuation" for a line of a quoted field that
                        \* csv.reader joins to the row before it
    Inbox,              \* the chunks in the order they are received
    MaxBatchSize,
    MaxAttempts,
    MaxFaults,          \* bound: MaxFaults[f] faults of kind f
    EarlyAnswers        \* an answer may come before its callback is attached

VARIABLES
    inbox,      \* chunks not received yet
    main,       \* where inner_run is: its chunk, the rows to report, to send
    thread,     \* thread[t]: what t does in update_chunk or add_callbacks
    requests,   \* the batches sent, by their rows
    imported,   \* imported[c]: chunk['imported']
    stored,     \* rows the database holds
    failed,     \* rows reported as failed for good
    reports,    \* reports[c]: results sent to the parent for chunk c
    faults      \* how often each kind of fault has happened

vars == <<inbox, main, thread, requests, imported, stored, failed, reports, faults>>

Chunks == {ChunkOf[r] : r \in Rows}
RowsOf(c) == {r \in Rows : ChunkOf[r] = c}
NumRowsSent(c) == Cardinality(RowsOf(c))
Converted(c) == {r \in RowsOf(c) : Kind[r] \in {"good", "nokey"}}

Threads == {"main", "loop", "timer"}

\* "error": the answer is an error; "statement": no statement can be made of
\* a batch; "raise": an exception between two batches of a chunk; "false
\* timeout": the driver reports a timeout after the answer.
Faults == {"error", "statement", "raise", "false timeout"}
Fails(f) ==
    /\ faults[f] < MaxFaults[f]
    /\ faults' = [faults EXCEPT ![f] = @ + 1]

\* Every row's chunk is received, and each chunk once.
RowsAssumption ==
    /\ IsFiniteSet(Rows)
    /\ Kind \in [Rows -> {"good", "unparsable", "nokey", "continuation"}]
    /\ MaxBatchSize \in Nat \ {0} /\ MaxAttempts \in Nat \ {0}
    /\ MaxFaults \in [Faults -> Nat]
    /\ Inbox \in Seq(Chunks) /\ Inbox # << >>
    /\ \A c \in Chunks : c \in {Inbox[i] : i \in DOMAIN Inbox}
    /\ \A i, j \in DOMAIN Inbox : Inbox[i] = Inbox[j] => i = j

\* No request is answered twice and no exception comes between two batches:
\* then every row is counted at most once.
NoDoubleAnswers == MaxFaults["raise"] = 0 /\ MaxFaults["false timeout"] = 0

\* Answers come after their callbacks are attached, and a statement can be
\* made of every batch: then two threads never update the same chunk.
NoRace == ~ EarlyAnswers /\ MaxFaults["statement"] = 0

\* A thread in update_chunk has rows to add; what it loaded last is "read".
Updates == [at : {"load", "store", "check"}, rows : SUBSET Rows, chunk : Chunks, read : Nat]
Free == [at |-> "free"]
\* Between execute_async and add_callbacks.
Attaching(b) == [at |-> "attach", rows |-> b]

Requests == [rows : SUBSET Rows, attempts : 1 .. MaxAttempts,
             at : {"sent", "attached", "timer", "answered"}]

TypeOK ==
    /\ inbox \in Seq(Chunks)
    /\ main \in [at : {"recv", "convert", "key", "split"}, chunk : Chunks, bad : SUBSET Rows, todo : SUBSET Rows]
    /\ thread \in [Threads -> Updates \cup {Free} \cup [at : {"attach"}, rows : SUBSET Rows]]
    /\ requests \subseteq Requests
    /\ imported \in [Chunks -> Nat]
    /\ stored \subseteq Rows /\ failed \subseteq Rows
    /\ reports \in [Chunks -> Nat]
    /\ faults \in [Faults -> Nat] /\ \A f \in Faults : faults[f] <= MaxFaults[f]

Init ==
    /\ inbox = Inbox
    /\ main = [at |-> "recv", chunk |-> Inbox[1], bad |-> {}, todo |-> {}]
    /\ thread = [t \in Threads |-> Free]
    /\ requests = {}
    /\ imported = [c \in Chunks |-> 0]
    /\ stored = {} /\ failed = {}
    /\ reports = [c \in Chunks |-> 0]
    /\ faults = [f \in Faults |-> 0]

-----------------------------------------------------------------------------
(* update_chunk, in any thread                                              *)

Update(t, c, R) ==
    thread' = [thread EXCEPT ![t] = [at |-> "load", rows |-> R, chunk |-> c, read |-> 0]]

Load(t) ==
    /\ thread[t].at = "load"
    /\ thread' = [thread EXCEPT ![t] = [@ EXCEPT !.at = "store", !.read = imported[thread[t].chunk]]]
    /\ UNCHANGED <<inbox, main, requests, imported, stored, failed, reports, faults>>

Store(t) ==
    LET u == thread[t] IN
    /\ u.at = "store"
    /\ imported' = [imported EXCEPT ![u.chunk] = u.read + Cardinality(u.rows)]
    /\ thread' = [thread EXCEPT ![t] = [u EXCEPT !.at = "check"]]
    /\ UNCHANGED <<inbox, main, requests, stored, failed, reports, faults>>

\* Mutant of Check: a chunk that reaches its count is reported by whoever
\* looks, and so is one that is a row short.
CheckShort(t) ==
    LET u == thread[t]
        full == imported[u.chunk] + 1 >= NumRowsSent(u.chunk) IN
    /\ u.at = "check"
    /\ reports' = [reports EXCEPT ![u.chunk] = @ + IF full THEN 1 ELSE 0]
    /\ thread' = [thread EXCEPT ![t] = Free]
    /\ UNCHANGED <<inbox, main, requests, imported, stored, failed, faults>>

\* if chunk['imported'] == chunk['num_rows_sent']: send ImportProcessResult
Check(t) ==
    LET u == thread[t]
        full == imported[u.chunk] = NumRowsSent(u.chunk) IN
    /\ u.at = "check"
    /\ reports' = [reports EXCEPT ![u.chunk] = @ + IF full THEN 1 ELSE 0]
    /\ thread' = [thread EXCEPT ![t] = Free]
    /\ UNCHANGED <<inbox, main, requests, imported, stored, failed, faults>>

UpdateChunk == \E t \in Threads : Load(t) \/ Store(t) \/ Check(t)

-----------------------------------------------------------------------------
(* The main thread: inner_run                                               *)

MainFree == thread["main"] = Free

Receive ==
    /\ main.at = "recv" /\ MainFree /\ inbox # << >>
    /\ inbox' = Tail(inbox)
    /\ LET c == Head(inbox) IN
       main' = [at |-> "convert", chunk |-> c, bad |-> {r \in RowsOf(c) : Kind[r] = "unparsable"}, todo |-> {}]
    /\ UNCHANGED <<thread, requests, imported, stored, failed, reports, faults>>

\* Rows with the same error message are reported together: final, and so
\* counted in the chunk.  Afterwards chunk['rows'] are the converted rows.
ReportGroup(place, G) ==
    /\ main.at = place /\ MainFree
    /\ G # {} /\ G \subseteq main.bad
    /\ failed' = failed \cup G
    /\ main' = [main EXCEPT !.bad = @ \ G]
    /\ Update("main", main.chunk, G)
    /\ UNCHANGED <<inbox, requests, imported, stored, reports, faults>>

ConvertRows ==
    /\ main.at = "convert" /\ MainFree /\ main.bad = {}
    /\ LET rows == Converted(main.chunk) IN
       main' = [main EXCEPT !.at = "key", !.bad = {r \in rows : Kind[r] = "nokey"},
                            !.todo = {r \in rows : Kind[r] = "good"}]
    /\ UNCHANGED <<inbox, thread, requests, imported, stored, failed, reports, faults>>

SplitIntoBatches ==
    /\ main.at = "key" /\ MainFree /\ main.bad = {}
    /\ main' = [main EXCEPT !.at = "split"]
    /\ UNCHANGED <<inbox, thread, requests, imported, stored, failed, reports, faults>>

\* Mutant of EndChunk: the last rows of the chunk are not sent.
EndEarly ==
    /\ main.at = "split" /\ MainFree /\ Cardinality(main.todo) <= 1
    /\ main' = [main EXCEPT !.at = "recv", !.todo = {}]
    /\ UNCHANGED <<inbox, thread, requests, imported, stored, failed, reports, faults>>

EndChunk ==
    /\ main.at = "split" /\ MainFree /\ main.todo = {}
    /\ main' = [main EXCEPT !.at = "recv"]
    /\ UNCHANGED <<inbox, thread, requests, imported, stored, failed, reports, faults>>

\* make_statement and execute_async; the callbacks are attached afterwards.
\* Which rows share a batch is the matter of module Batches.
SendBatch(b) ==
    /\ main.at = "split" /\ MainFree
    /\ b # {} /\ b \subseteq main.todo /\ Cardinality(b) <= MaxBatchSize
    /\ main' = [main EXCEPT !.todo = @ \ b]
    /\ requests' = requests \cup {[rows |-> b, attempts |-> 1, at |-> "sent"]}
    /\ thread' = [thread EXCEPT !["main"] = Attaching(b)]
    /\ UNCHANGED <<inbox, imported, stored, failed, reports, faults>>

\* wrap_make_statement: a batch no statement can be made of is given up.
MakeStatementFails(b) ==
    /\ main.at = "split" /\ MainFree /\ Fails("statement")
    /\ b # {} /\ b \subseteq main.todo /\ Cardinality(b) <= MaxBatchSize
    /\ main' = [main EXCEPT !.todo = @ \ b]
    /\ failed' = failed \cup b
    /\ Update("main", main.chunk, b)
    /\ UNCHANGED <<inbox, requests, imported, stored, reports>>

\* "except Exception": all converted rows are reported, those sent included.
Raise ==
    /\ main.at = "split" /\ MainFree /\ Fails("raise")
    /\ failed' = failed \cup Converted(main.chunk)
    /\ Update("main", main.chunk, Converted(main.chunk))
    /\ main' = [main EXCEPT !.at = "recv", !.todo = {}]
    /\ UNCHANGED <<inbox, requests, imported, stored, reports>>

-----------------------------------------------------------------------------
(* Requests and their answers                                               *)

Replace(q, p) == requests' = (requests \ {q}) \cup {p}
ChunkIn(q) == ChunkOf[CHOOSE r \in q.rows : TRUE]

\* add_callbacks: from now on the event loop runs them.
Attach(t) ==
    /\ thread[t].at = "attach"
    /\ \E q \in requests :
        /\ q.at = "sent" /\ q.rows = thread[t].rows
        /\ Replace(q, [q EXCEPT !.at = "attached"])
    /\ thread' = [thread EXCEPT ![t] = Free]
    /\ UNCHANGED <<inbox, main, imported, stored, failed, reports, faults>>

\* Thread t runs the callback of q: the event loop, or the thread that is
\* about to attach it when the answer is there already.
Runs(t, q) ==
    \/ t = "loop" /\ thread[t] = Free /\ q.at = "attached"
    \/ EarlyAnswers /\ q.at = "sent" /\ thread[t] = Attaching(q.rows)

\* The database applies a batch at any time, even one that was given up.
Apply(q) ==
    /\ ~ q.rows \subseteq stored
    /\ stored' = stored \cup q.rows
    /\ UNCHANGED <<inbox, main, thread, requests, imported, failed, reports, faults>>

ResultCallback(t, q) ==
    /\ Runs(t, q) /\ q.rows \subseteq stored
    /\ Replace(q, [q EXCEPT !.at = "answered"])
    /\ Update(t, ChunkIn(q), q.rows)
    /\ UNCHANGED <<inbox, main, imported, stored, failed, reports, faults>>

\* err_callback when attempts are left: _send at once, or by a Timer after a
\* write timeout.  The error itself is reported as not final.
Retry(t, q, delayed) ==
    LET again == [q EXCEPT !.attempts = @ + 1,
                           !.at = IF delayed THEN "timer" ELSE IF t = "loop" THEN "attached" ELSE "sent"] IN
    /\ q.attempts < MaxAttempts
    /\ Replace(q, again)
    /\ thread' = [thread EXCEPT ![t] = IF again.at = "sent" THEN Attaching(q.rows) ELSE Free]
    /\ UNCHANGED <<inbox, main, imported, stored, failed, reports>>

\* err_callback when none is left: reported as failed, counted in the chunk.
GiveUp(t, q) ==
    /\ q.attempts >= MaxAttempts
    /\ failed' = failed \cup q.rows
    /\ Replace(q, [q EXCEPT !.at = "answered"])
    /\ Update(t, ChunkIn(q), q.rows)
    /\ UNCHANGED <<inbox, main, imported, stored, reports>>

ErrCallback(t, q) ==
    /\ Runs(t, q) /\ Fails("error")
    /\ GiveUp(t, q) \/ \E delayed \in BOOLEAN : Retry(t, q, delayed)

\* PYTHON-652: the driver reports a timeout for a request it has answered.
\* err_callback ignores it when the whole chunk is counted.
FalseTimeout(q) ==
    /\ q.at = "answered" /\ q.rows \cap failed = {} /\ thread["loop"] = Free
    /\ imported[ChunkIn(q)] # NumRowsSent(ChunkIn(q))
    /\ Fails("false timeout")
    /\ GiveUp("loop", q) \/ Retry("loop", q, FALSE)

TimerSends(q) ==
    /\ q.at = "timer" /\ thread["timer"] = Free
    /\ Replace(q, [q EXCEPT !.at = "sent"])
    /\ thread' = [thread EXCEPT !["timer"] = Attaching(q.rows)]
    /\ UNCHANGED <<inbox, main, imported, stored, failed, reports, faults>>

-----------------------------------------------------------------------------
MainStep ==
    \/ Receive \/ ConvertRows \/ SplitIntoBatches \/ EndChunk
    \/ \E G \in SUBSET main.bad : ReportGroup("convert", G) \/ ReportGroup("key", G)
    \/ \E b \in SUBSET main.todo : SendBatch(b)

Answer == \E t \in Threads, q \in requests : ResultCallback(t, q)

Fault ==
    \/ \E b \in SUBSET main.todo : MakeStatementFails(b)
    \/ Raise
    \/ \E q \in requests : FalseTimeout(q) \/ \E t \in Threads : ErrCallback(t, q)

Next ==
    \/ MainStep \/ UpdateChunk \/ Answer \/ Fault
    \/ \E t \in Threads : Attach(t)
    \/ \E q \in requests : Apply(q) \/ TimerSends(q)

Spec == Init /\ [][Next]_vars

\* Threads run, the database answers what waits for it; nothing has to fail.
FairSpec ==
    /\ Spec
    /\ WF_vars(MainStep) /\ WF_vars(UpdateChunk) /\ WF_vars(Answer)
    /\ WF_vars(\E t \in Threads : Attach(t))
    /\ WF_vars(\E q \in requests : Apply(q) \/ TimerSends(q))

-----------------------------------------------------------------------------
(* Properties                                                               *)

Settled == stored \cup failed
Quiet == main.at = "recv" /\ \A q \in requests : q.at = "answered"

\* Whatever fails and whichever updates are lost, a worker that has nothing
\* more to do has stored or reported every row it received.
NoRowForgotten ==
    Quiet => \A r \in Rows :
        \/ ChunkOf[r] \in {inbox[i] : i \in DOMAIN inbox}
        \/ Kind[r] = "continuation" \/ r \in Settled

\* What threads that race for chunk['imported'] can do is lose counts, never
\* make them: a chunk has counted only rows that are stored or reported.
CountsOnlySettledRows ==
    \A c \in Chunks : imported[c] <= Cardinality(RowsOf(c) \cap Settled)

\* A worker does what the parent is promised when counts do not race (NoRace
\* and NoDoubleAnswers): it reports a chunk once, after all its rows are settled.
Promise == INSTANCE ChunkWork WITH settled <- Settled, MaxReports <- 1

\* With racing threads a chunk may be reported by each of them, but still
\* not before all its rows are settled.
RacyPromise == INSTANCE ChunkWork WITH settled <- Settled, MaxReports <- Cardinality(Threads)

=============================================================================
