------------------------- MODULE ImportWorkerProofs --------------------------
(***************************************************************************)
(* Proofs about ImportWorker, for every set of rows, every size of a batch *)
(* and any number of faults.                                               *)
(***************************************************************************)
EXTENDS ImportWorker, FiniteSetTheorems, TLAPS

Updating(t) == thread[t].at \in {"load", "store", "check"}
Adding(t) == thread[t].at \in {"load", "store"}
Unanswered == {q \in requests : q.at # "answered"}

\* The rows of the chunks not received yet, those the main thread has, those
\* in batches without an answer, those a thread is about to count.
Chunked == {r \in Rows : ChunkOf[r] \in {inbox[i] : i \in DOMAIN inbox}}
MainRows == main.bad \cup main.todo \cup IF main.at = "convert" THEN Converted(main.chunk) ELSE {}
OpenRows == UNION {q.rows : q \in Unanswered}
AddedRows == UNION {thread[t].rows : t \in {u \in Threads : Adding(u)}}
Uncounted == Chunked \cup MainRows \cup OpenRows \cup AddedRows

\* What the main thread has at each of its places.
MainInv ==
    /\ main.bad \subseteq RowsOf(main.chunk) /\ main.todo \subseteq RowsOf(main.chunk)
    /\ main.at \in {"recv", "split"} => main.bad = {}
    /\ main.at \in {"recv", "convert"} => main.todo = {}
    /\ \A r \in main.bad : Kind[r] = IF main.at = "convert" THEN "unparsable" ELSE "nokey"
    /\ \A r \in main.todo : Kind[r] = "good"

\* A batch is made of rows of one chunk.
BatchInv == \A q \in requests : q.rows # {} /\ \A r, s \in q.rows : ChunkOf[r] = ChunkOf[s]

\* Every row is still to come, with the main thread, in a batch without an
\* answer, or settled.
NoRowLost == \A r \in Rows :
    r \in Chunked \cup MainRows \cup OpenRows \cup Settled \/ Kind[r] = "continuation"

IInv == TypeOK /\ MainInv /\ BatchInv /\ NoRowLost

\* A row is in one place, so that it is counted once: this takes that nothing
\* is answered twice and that no exception interrupts a chunk.
UpdateInv ==
    \A t \in Threads : Updating(t) =>
        /\ thread[t].rows # {}
        /\ thread[t].rows \subseteq RowsOf(thread[t].chunk)
        /\ thread[t].rows \subseteq Settled
InboxOnce == \A i, j \in DOMAIN inbox : inbox[i] = inbox[j] => i = j
Apart ==
    /\ main.at # "recv" => RowsOf(main.chunk) \cap Chunked = {}
    /\ (OpenRows \cup AddedRows) \cap (Chunked \cup MainRows) = {}
    /\ OpenRows \cap AddedRows = {}
BatchesApart == \A q, p \in Unanswered : q.rows \cap p.rows # {} => q = p
AddsApart == \A t, u \in Threads :
    Adding(t) /\ Adding(u) /\ thread[t].rows \cap thread[u].rows # {} => t = u
OnePlaceInv == InboxOnce /\ Apart /\ BatchesApart /\ AddsApart

\* What is counted, or about to be stored as the count, was counted once for
\* a row that is settled and in none of those places any more.
Counted(c) == {r \in RowsOf(c) \cap Settled : r \notin Uncounted}
CountInv ==
    /\ \A c \in Chunks : imported[c] <= Cardinality(Counted(c))
    /\ \A t \in Threads, c \in Chunks :
        thread[t].at = "store" /\ thread[t].chunk = c => thread[t].read <= Cardinality(Counted(c))

Checkers(c) == {t \in Threads : thread[t].at = "check" /\ thread[t].chunk = c}
ReportInv ==
    \A c \in Chunks :
        /\ reports[c] > 0 => imported[c] = NumRowsSent(c)
        /\ reports[c] + Cardinality(Checkers(c)) <= Cardinality(Threads)

-----------------------------------------------------------------------------
(* Types                                                                    *)

Attachings == [at : {"attach"}, rows : SUBSET Rows]

\* A batch lies in its chunk.
LEMMA BatchChunk ==
    ASSUME NEW q, q.rows \subseteq Rows, q.rows # {}, \A r, s \in q.rows : ChunkOf[r] = ChunkOf[s]
    PROVE  ChunkIn(q) \in Chunks /\ q.rows \subseteq RowsOf(ChunkIn(q))
  <1>1. PICK x \in q.rows : x = CHOOSE r \in q.rows : TRUE
    OBVIOUS
  <1>2. ChunkIn(q) = ChunkOf[x]
    BY <1>1 DEF ChunkIn
  <1> QED BY <1>1, <1>2 DEF Chunks, RowsOf

\* What a request may become.
LEMMA RequestTypes ==
    ASSUME NEW q \in Requests
    PROVE  /\ q.rows \subseteq Rows
           /\ \A a \in {"sent", "attached", "timer", "answered"} : [q EXCEPT !.at = a] \in Requests
           /\ MaxAttempts \in Nat /\ q.attempts < MaxAttempts =>
                \A a \in {"sent", "attached", "timer", "answered"} :
                    [q EXCEPT !.attempts = @ + 1, !.at = a] \in Requests
  <1>1. q.rows \subseteq Rows /\ q.attempts \in 1 .. MaxAttempts
    BY DEF Requests
  <1>2. \A a \in {"sent", "attached", "timer", "answered"} : [q EXCEPT !.at = a] \in Requests
    BY DEF Requests
  <1>3. q.attempts + 1 \in 1 .. MaxAttempts =>
           \A a \in {"sent", "attached", "timer", "answered"} : [q EXCEPT !.attempts = @ + 1, !.at = a] \in Requests
    BY <1>1 DEF Requests
  <1>4. MaxAttempts \in Nat /\ q.attempts < MaxAttempts => q.attempts + 1 \in 1 .. MaxAttempts
    BY <1>1
  <1> QED BY <1>1, <1>2, <1>3, <1>4

\* What a thread in update_chunk may become.
LEMMA ThreadTypes ==
    ASSUME TypeOK, NEW t \in Threads
    PROVE  /\ \A c \in Chunks, R \in SUBSET Rows :
                  [thread EXCEPT ![t] = [at |-> "load", rows |-> R, chunk |-> c, read |-> 0]]
                      \in [Threads -> Updates \cup {Free} \cup Attachings]
           /\ \A R \in SUBSET Rows :
                  [thread EXCEPT ![t] = Attaching(R)] \in [Threads -> Updates \cup {Free} \cup Attachings]
           /\ [thread EXCEPT ![t] = Free] \in [Threads -> Updates \cup {Free} \cup Attachings]
           /\ Updating(t) => thread[t] \in Updates
  BY DEF TypeOK, Updates, Attachings, Attaching, Free, Updating

LEMMA TypeStep == RowsAssumption /\ TypeOK /\ BatchInv /\ [Next]_vars => TypeOK'
  <1> SUFFICES ASSUME RowsAssumption, TypeOK, BatchInv, [Next]_vars PROVE TypeOK'
    OBVIOUS
  <1>1. /\ inbox \in Seq(Chunks)
        /\ main \in [at : {"recv", "convert", "key", "split"}, chunk : Chunks, bad : SUBSET Rows, todo : SUBSET Rows]
        /\ thread \in [Threads -> Updates \cup {Free} \cup Attachings]
        /\ requests \subseteq Requests
        /\ imported \in [Chunks -> Nat] /\ reports \in [Chunks -> Nat]
        /\ stored \subseteq Rows /\ failed \subseteq Rows
        /\ faults \in [Faults -> Nat] /\ \A f \in Faults : faults[f] <= MaxFaults[f]
    BY DEF TypeOK, Attachings
  <1>2. MaxAttempts \in Nat \ {0} /\ MaxFaults \in [Faults -> Nat] /\ IsFiniteSet(Rows)
    BY DEF RowsAssumption
  <1>3. \A c : RowsOf(c) \subseteq Rows /\ Converted(c) \subseteq Rows
    BY DEF RowsOf, Converted
  <1>4. \A f \in Faults : Fails(f) =>
           faults' \in [Faults -> Nat] /\ \A g \in Faults : faults'[g] <= MaxFaults[g]
    BY <1>1, <1>2 DEF Fails
  <1>5. ASSUME NEW t \in Threads, Load(t) PROVE TypeOK'
    <2>1. thread[t] \in Updates
      BY <1>5, ThreadTypes DEF Load, Updating
    <2>2. imported[thread[t].chunk] \in Nat
      BY <1>1, <2>1 DEF Updates
    <2>3. [thread[t] EXCEPT !.at = "store", !.read = imported[thread[t].chunk]] \in Updates
      BY <2>1, <2>2 DEF Updates
    <2> QED BY <1>1, <1>5, <2>3 DEF Load, TypeOK, Attachings
  <1>6. ASSUME NEW t \in Threads, Store(t) PROVE TypeOK'
    <2>1. thread[t] \in Updates
      BY <1>6, ThreadTypes DEF Store, Updating
    <2>2. Cardinality(thread[t].rows) \in Nat /\ thread[t].read \in Nat /\ thread[t].chunk \in Chunks
      BY <1>2, <2>1, FS_Subset, FS_CardinalityType DEF Updates
    <2>3. [thread[t] EXCEPT !.at = "check"] \in Updates
      BY <2>1 DEF Updates
    <2>4. imported' \in [Chunks -> Nat]
      BY <1>1, <1>6, <2>2 DEF Store
    <2> QED BY <1>1, <1>6, <2>3, <2>4 DEF Store, TypeOK, Attachings
  <1>7. ASSUME NEW t \in Threads, Check(t) PROVE TypeOK'
    <2>1. PICK k \in {0, 1} : reports' = [reports EXCEPT ![thread[t].chunk] = @ + k]
      BY <1>7 DEF Check
    <2>2. reports' \in [Chunks -> Nat]
      <3>1. thread[t].chunk \in Chunks
        BY <1>7, ThreadTypes DEF Check, Updating, Updates
      <3>2. reports[thread[t].chunk] + k \in Nat
        BY <1>1, <3>1
      <3> QED BY <1>1, <2>1, <3>1, <3>2
    <2> QED BY <1>1, <1>7, <2>2, ThreadTypes DEF Check, TypeOK, Attachings
  <1>8. CASE Receive
    <2>1. Head(inbox) \in Chunks /\ Tail(inbox) \in Seq(Chunks)
      BY <1>1, <1>8 DEF Receive
    <2>2. main' = [at |-> "convert", chunk |-> Head(inbox), todo |-> {},
                   bad |-> {r \in RowsOf(Head(inbox)) : Kind[r] = "unparsable"}]
      BY <1>8 DEF Receive
    <2>3. main' \in [at : {"recv", "convert", "key", "split"}, chunk : Chunks, bad : SUBSET Rows, todo : SUBSET Rows]
      BY <1>3, <2>1, <2>2
    <2> QED BY <1>1, <1>8, <2>1, <2>3 DEF Receive, TypeOK, Attachings
  <1>9. CASE ConvertRows \/ SplitIntoBatches \/ EndChunk
    <2>1. \A c : {r \in Converted(c) : Kind[r] = "nokey"} \subseteq Rows /\ {r \in Converted(c) : Kind[r] = "good"} \subseteq Rows
      BY <1>3
    <2>2. main' \in [at : {"recv", "convert", "key", "split"}, chunk : Chunks, bad : SUBSET Rows, todo : SUBSET Rows]
      BY <1>1, <1>9, <2>1 DEF ConvertRows, SplitIntoBatches, EndChunk
    <2> QED BY <1>1, <1>9, <2>2 DEF ConvertRows, SplitIntoBatches, EndChunk, TypeOK, Attachings
  <1>10. ASSUME NEW place, NEW G, ReportGroup(place, G) PROVE TypeOK'
    <2>1. G \in SUBSET Rows /\ main.chunk \in Chunks /\ "main" \in Threads
      BY <1>1, <1>10 DEF ReportGroup, Threads
    <2> QED BY <1>1, <1>10, <2>1, ThreadTypes DEF ReportGroup, Update, TypeOK, Attachings
  <1>11. ASSUME NEW b, SendBatch(b) PROVE TypeOK'
    <2>1. b \in SUBSET Rows /\ "main" \in Threads
      BY <1>1, <1>11 DEF SendBatch, Threads
    <2>2. [rows |-> b, attempts |-> 1, at |-> "sent"] \in Requests
      BY <1>2, <2>1 DEF Requests
    <2> QED BY <1>1, <1>11, <2>1, <2>2, ThreadTypes DEF SendBatch, TypeOK, Attachings
  <1>12. ASSUME NEW b, MakeStatementFails(b) PROVE TypeOK'
    <2>1. b \in SUBSET Rows /\ main.chunk \in Chunks /\ "main" \in Threads /\ "statement" \in Faults
      BY <1>1, <1>12 DEF MakeStatementFails, Threads, Faults
    <2> QED BY <1>1, <1>4, <1>12, <2>1, ThreadTypes DEF MakeStatementFails, Update, TypeOK, Attachings
  <1>13. CASE Raise
    <2>1. main.chunk \in Chunks /\ "main" \in Threads /\ "raise" \in Faults
      BY <1>1 DEF Threads, Faults
    <2> QED BY <1>1, <1>3, <1>4, <1>13, <2>1, ThreadTypes DEF Raise, Update, TypeOK, Attachings
  <1>14. ASSUME NEW t \in Threads, NEW q \in requests, ResultCallback(t, q) PROVE TypeOK'
    <2>1. q \in Requests /\ q.rows \in SUBSET Rows /\ ChunkIn(q) \in Chunks
      BY <1>1, RequestTypes, BatchChunk DEF BatchInv
    <2> QED BY <1>1, <1>14, <2>1, RequestTypes, ThreadTypes DEF ResultCallback, Replace, Update, TypeOK, Attachings
  <1>15. ASSUME NEW t \in Threads, NEW q \in requests, NEW delayed \in BOOLEAN, NEW f \in Faults, Fails(f),
                GiveUp(t, q) \/ Retry(t, q, delayed)
         PROVE  TypeOK'
    <2>1. q \in Requests /\ q.rows \in SUBSET Rows /\ ChunkIn(q) \in Chunks
      BY <1>1, RequestTypes, BatchChunk DEF BatchInv
    <2>2. CASE GiveUp(t, q)
      BY <1>1, <1>4, <1>15, <2>1, <2>2, RequestTypes, ThreadTypes DEF GiveUp, Replace, Update, TypeOK, Attachings
    <2>3. CASE Retry(t, q, delayed)
      <3>1. requests' \subseteq Requests
        BY <1>1, <1>2, <2>1, <2>3, RequestTypes DEF Retry, Replace
      <3>2. thread' \in [Threads -> Updates \cup {Free} \cup Attachings]
        BY <2>1, <2>3, ThreadTypes DEF Retry
      <3> QED BY <1>1, <1>4, <1>15, <2>3, <3>1, <3>2 DEF Retry, TypeOK, Attachings
    <2> QED BY <1>15, <2>2, <2>3
  <1>16. ASSUME NEW t \in Threads, Attach(t) PROVE TypeOK'
    <2>1. PICK q \in requests : Replace(q, [q EXCEPT !.at = "attached"])
      BY <1>16 DEF Attach
    <2>2. requests' \subseteq Requests
      BY <1>1, <2>1, RequestTypes DEF Replace
    <2> QED BY <1>1, <1>16, <2>2, ThreadTypes DEF Attach, TypeOK, Attachings
  <1>17. ASSUME NEW q \in requests, Apply(q) PROVE TypeOK'
    BY <1>1, <1>17, RequestTypes DEF Apply, TypeOK, Attachings
  <1>18. ASSUME NEW q \in requests, TimerSends(q) PROVE TypeOK'
    <2>1. "timer" \in Threads /\ q \in Requests
      BY <1>1 DEF Threads
    <2>2. requests' \subseteq Requests
      BY <1>1, <1>18, <2>1, RequestTypes DEF TimerSends, Replace
    <2> QED BY <1>1, <1>18, <2>1, <2>2, RequestTypes, ThreadTypes DEF TimerSends, TypeOK, Attachings
  <1>19. CASE UNCHANGED vars
    BY <1>19 DEF vars, TypeOK
  <1>20. \A t \in Threads, q \in requests : ErrCallback(t, q) => TypeOK'
    BY <1>15 DEF ErrCallback, Faults
  <1>21. \A q \in requests : FalseTimeout(q) => TypeOK'
    BY <1>15 DEF FalseTimeout, Faults, Threads
  <1> QED
    BY <1>5, <1>6, <1>7, <1>8, <1>9, <1>10, <1>11, <1>12, <1>13, <1>14, <1>16, <1>17, <1>18, <1>19, <1>20, <1>21
    DEF Next, MainStep, UpdateChunk, Answer, Fault

-----------------------------------------------------------------------------
(* No row is forgotten                                                      *)

\* A request that is replaced by one with the same rows keeps them open,
\* unless it is answered by that.
LEMMA OpenReplace ==
    ASSUME NEW q \in requests, NEW p, Replace(q, p), p.rows = q.rows
    PROVE  /\ OpenRows \subseteq OpenRows' \cup q.rows
           /\ OpenRows' \subseteq OpenRows \cup q.rows
           /\ q.rows \subseteq OpenRows' \/ p.at = "answered"
           /\ BatchInv => BatchInv'
  BY DEF Replace, OpenRows, Unanswered, BatchInv

\* What the steps of callbacks and timers do to requests and settled rows.
LEMMA CallbackEffect ==
    ASSUME TypeOK, NEW t \in Threads, NEW q \in requests,
           \/ ResultCallback(t, q) \/ GiveUp(t, q) \/ TimerSends(q)
           \/ \E delayed \in BOOLEAN : Retry(t, q, delayed)
    PROVE  /\ UNCHANGED <<inbox, main>>
           /\ \E p : Replace(q, p) /\ p.rows = q.rows /\ (p.at = "answered" => q.rows \subseteq Settled')
           /\ Settled \subseteq Settled'
  <1>1. \A a : [q EXCEPT !.at = a].rows = q.rows /\ [q EXCEPT !.at = a].at = a
    BY DEF TypeOK, Requests
  <1>2. \A a, n : [q EXCEPT !.attempts = n, !.at = a].rows = q.rows /\ [q EXCEPT !.attempts = n, !.at = a].at = a
    BY DEF TypeOK, Requests
  <1>3. CASE ResultCallback(t, q)
    BY <1>1, <1>3 DEF ResultCallback, Settled
  <1>4. CASE GiveUp(t, q)
    BY <1>1, <1>4 DEF GiveUp, Settled
  <1>5. CASE TimerSends(q)
    BY <1>1, <1>5 DEF TimerSends, Settled
  <1>6. ASSUME NEW delayed \in BOOLEAN, Retry(t, q, delayed)
        PROVE  \E p : Replace(q, p) /\ p.rows = q.rows /\ p.at # "answered"
    <2>1. PICK a \in {"timer", "attached", "sent"} : Replace(q, [q EXCEPT !.attempts = q.attempts + 1, !.at = a])
      BY <1>6 DEF Retry
    <2> DEFINE p == [q EXCEPT !.attempts = q.attempts + 1, !.at = a]
    <2>2. p.rows = q.rows /\ p.at = a
      BY <1>2
    <2>3. Replace(q, p) /\ a # "answered"
      BY <2>1
    <2> HIDE DEF p
    <2> QED BY <2>2, <2>3
  <1> QED BY <1>3, <1>4, <1>5, <1>6 DEF Retry, Settled

Placed == Chunked \cup MainRows \cup OpenRows \cup Settled

LEMMA RowsStep == IInv /\ RowsAssumption /\ [Next]_vars => MainInv' /\ BatchInv' /\ NoRowLost'
  <1> SUFFICES ASSUME IInv, RowsAssumption, [Next]_vars
               PROVE  MainInv' /\ BatchInv' /\ NoRowLost'
    OBVIOUS
  <1>1. TypeOK /\ MainInv /\ BatchInv
    BY DEF IInv
  <1>2. \A r \in Rows : r \in Placed \/ Kind[r] = "continuation"
    BY DEF IInv, NoRowLost, Placed
  <1>3. SUFFICES MainInv' /\ BatchInv' /\ \A r \in Placed : r \in Placed' \/ Kind[r] = "continuation"
    BY <1>2 DEF NoRowLost, Placed
  <1>4. main \in [at : {"recv", "convert", "key", "split"}, chunk : Chunks, bad : SUBSET Rows, todo : SUBSET Rows]
    BY <1>1 DEF TypeOK
  <1>5. \A c : \A r \in RowsOf(c) : Kind[r] \in {"good", "unparsable", "nokey", "continuation"}
    BY DEF RowsOf, RowsAssumption
  <1>6. ASSUME UNCHANGED <<inbox, main, requests>>, Settled \subseteq Settled'
        PROVE  MainInv' /\ BatchInv' /\ Placed \subseteq Placed'
    BY <1>1, <1>6 DEF MainInv, BatchInv, Placed, Chunked, MainRows, OpenRows, Unanswered
  <1>7. ASSUME NEW t \in Threads, Load(t) \/ Store(t) \/ Check(t)
        PROVE  UNCHANGED <<inbox, main, requests>> /\ Settled \subseteq Settled'
    BY <1>7 DEF Load, Store, Check, Settled
  <1>8. CASE Receive
    <2>1. inbox \in Seq(Chunks) /\ inbox # << >>
      BY <1>1, <1>8 DEF Receive, TypeOK
    <2>2. \A i \in DOMAIN inbox : inbox[i] = Head(inbox) \/ inbox[i] \in {Tail(inbox)[j] : j \in DOMAIN Tail(inbox)}
      <3>1. DOMAIN inbox = 1 .. Len(inbox) /\ DOMAIN Tail(inbox) = 1 .. Len(inbox) - 1
        BY <2>1
      <3>2. \A j \in DOMAIN Tail(inbox) : Tail(inbox)[j] = inbox[j + 1]
        BY <2>1
      <3>3. \A i \in DOMAIN inbox : i = 1 \/ i - 1 \in DOMAIN Tail(inbox)
        BY <2>1, <3>1
      <3>4. \A i \in DOMAIN inbox : i - 1 + 1 = i
        BY <3>1
      <3> QED BY <2>1, <3>2, <3>3, <3>4
    <2>3. main' = [at |-> "convert", chunk |-> Head(inbox), todo |-> {},
                   bad |-> {r \in RowsOf(Head(inbox)) : Kind[r] = "unparsable"}]
      BY <1>8 DEF Receive
    <2>4. MainInv'
      BY <2>3 DEF MainInv
    <2>5. BatchInv' /\ UNCHANGED <<OpenRows, Settled>>
      BY <1>1, <1>8 DEF Receive, BatchInv, OpenRows, Unanswered, Settled
    <2>6. \A r \in MainRows : FALSE
      BY <1>1, <1>8 DEF Receive, MainInv, MainRows
    <2>7. \A r \in Chunked : r \in Chunked' \/ r \in RowsOf(Head(inbox))
      BY <1>8, <2>2 DEF Receive, Chunked, RowsOf
    <2>8. \A r \in RowsOf(Head(inbox)) : r \in MainRows' \/ Kind[r] = "continuation"
      BY <1>5, <2>3 DEF MainRows, Converted
    <2> QED BY <2>4, <2>5, <2>6, <2>7, <2>8 DEF Placed
  <1>9. ASSUME NEW place \in {"convert", "key"}, NEW G, ReportGroup(place, G)
        PROVE  MainInv' /\ BatchInv' /\ Placed \subseteq Placed'
    <2>1. main' = [at |-> main.at, chunk |-> main.chunk, bad |-> main.bad \ G, todo |-> main.todo]
      BY <1>4, <1>9 DEF ReportGroup
    <2>2. MainInv' /\ BatchInv'
      BY <1>1, <1>9, <2>1 DEF ReportGroup, MainInv, BatchInv
    <2>3. Placed \subseteq Placed'
      BY <1>9, <2>1 DEF ReportGroup, Placed, Chunked, MainRows, OpenRows, Unanswered, Settled
    <2> QED BY <2>2, <2>3
  <1>10. CASE ConvertRows
    <2>1. main' = [at |-> "key", chunk |-> main.chunk, bad |-> {r \in Converted(main.chunk) : Kind[r] = "nokey"},
                   todo |-> {r \in Converted(main.chunk) : Kind[r] = "good"}]
      BY <1>4, <1>10 DEF ConvertRows
    <2>2. MainInv'
      BY <2>1 DEF MainInv, Converted
    <2>3. BatchInv'
      BY <1>1, <1>10 DEF ConvertRows, BatchInv
    <2>4. MainRows \subseteq MainRows'
      BY <1>1, <1>10, <2>1 DEF ConvertRows, MainInv, MainRows, Converted
    <2>5. Placed \subseteq Placed'
      BY <1>10, <2>4 DEF ConvertRows, Placed, Chunked, OpenRows, Unanswered, Settled
    <2> QED BY <2>2, <2>3, <2>5
  <1>11. CASE SplitIntoBatches \/ EndChunk
    <2>1. PICK a \in {"split", "recv"} :
             /\ main' = [at |-> a, chunk |-> main.chunk, bad |-> main.bad, todo |-> main.todo]
             /\ main.bad = {} /\ main.at \in {"key", "split"}
             /\ a = "recv" => main.todo = {}
      <3>1. CASE SplitIntoBatches
        BY <1>4, <3>1 DEF SplitIntoBatches
      <3>2. CASE EndChunk
        BY <1>1, <1>4, <3>2 DEF EndChunk, MainInv
      <3> QED BY <1>11, <3>1, <3>2
    <2>2. MainInv' /\ BatchInv'
      BY <1>1, <1>11, <2>1 DEF SplitIntoBatches, EndChunk, MainInv, BatchInv
    <2>3. Placed \subseteq Placed'
      BY <1>11, <2>1 DEF SplitIntoBatches, EndChunk, Placed, Chunked, MainRows, OpenRows, Unanswered, Settled
    <2> QED BY <2>2, <2>3
  <1>12. ASSUME NEW b, SendBatch(b) PROVE MainInv' /\ BatchInv' /\ Placed \subseteq Placed'
    <2>1. main' = [at |-> "split", chunk |-> main.chunk, bad |-> main.bad, todo |-> main.todo \ b]
      BY <1>4, <1>12 DEF SendBatch
    <2>2. MainInv'
      BY <1>1, <1>12, <2>1 DEF SendBatch, MainInv
    <2>3. b # {} /\ b \subseteq RowsOf(main.chunk) /\ b \subseteq main.todo
      BY <1>1, <1>12 DEF SendBatch, MainInv
    <2>4. BatchInv'
      BY <1>1, <1>12, <2>3 DEF SendBatch, BatchInv, RowsOf
    <2>5. OpenRows \cup b \subseteq OpenRows'
      <3>1. /\ [rows |-> b, attempts |-> 1, at |-> "sent"].at = "sent"
            /\ [rows |-> b, attempts |-> 1, at |-> "sent"].rows = b
        OBVIOUS
      <3> QED BY <1>12, <3>1 DEF SendBatch, OpenRows, Unanswered
    <2>6. MainRows \subseteq MainRows' \cup b
      BY <1>1, <1>12, <2>1 DEF SendBatch, MainInv, MainRows
    <2>7. Placed \subseteq Placed'
      BY <1>12, <2>5, <2>6 DEF SendBatch, Placed, Chunked, Settled
    <2> QED BY <2>2, <2>4, <2>7
  <1>13. ASSUME NEW b, MakeStatementFails(b) PROVE MainInv' /\ BatchInv' /\ Placed \subseteq Placed'
    <2>1. main' = [at |-> "split", chunk |-> main.chunk, bad |-> main.bad, todo |-> main.todo \ b]
      BY <1>4, <1>13 DEF MakeStatementFails
    <2>2. MainInv' /\ BatchInv'
      BY <1>1, <1>13, <2>1 DEF MakeStatementFails, MainInv, BatchInv
    <2>3. MainRows \subseteq MainRows' \cup b
      BY <1>1, <1>13, <2>1 DEF MakeStatementFails, MainInv, MainRows
    <2>4. Placed \subseteq Placed'
      BY <1>13, <2>3 DEF MakeStatementFails, Placed, Chunked, OpenRows, Unanswered, Settled
    <2> QED BY <2>2, <2>4
  <1>14. CASE Raise
    <2>1. main' = [at |-> "recv", chunk |-> main.chunk, bad |-> main.bad, todo |-> {}]
      BY <1>4, <1>14 DEF Raise
    <2>2. MainInv' /\ BatchInv'
      BY <1>1, <1>14, <2>1 DEF Raise, MainInv, BatchInv
    <2>3. MainRows \subseteq Converted(main.chunk)
      BY <1>1, <1>14 DEF Raise, MainInv, MainRows, Converted
    <2>4. Placed \subseteq Placed'
      BY <1>14, <2>3 DEF Raise, Placed, Chunked, OpenRows, Unanswered, Settled
    <2> QED BY <2>2, <2>4
  <1>15. ASSUME NEW t \in Threads, NEW q \in requests,
                \/ ResultCallback(t, q) \/ GiveUp(t, q) \/ TimerSends(q)
                \/ \E delayed \in BOOLEAN : Retry(t, q, delayed)
         PROVE  MainInv' /\ BatchInv' /\ Placed \subseteq Placed'
    <2>1. UNCHANGED <<inbox, main>> /\ Settled \subseteq Settled'
      BY <1>1, <1>15, CallbackEffect
    <2>2. PICK p : Replace(q, p) /\ p.rows = q.rows /\ (p.at = "answered" => q.rows \subseteq Settled')
      BY <1>1, <1>15, CallbackEffect
    <2>3. OpenRows \subseteq OpenRows' \cup Settled' /\ BatchInv'
      BY <1>1, <2>2, OpenReplace
    <2>4. MainInv' /\ Chunked \subseteq Chunked' /\ MainRows \subseteq MainRows'
      BY <1>1, <2>1 DEF MainInv, Chunked, MainRows
    <2> QED BY <2>1, <2>3, <2>4 DEF Placed
  <1>16. ASSUME NEW t \in Threads, Attach(t) PROVE MainInv' /\ BatchInv' /\ Placed \subseteq Placed'
    <2>1. PICK q \in requests : Replace(q, [q EXCEPT !.at = "attached"]) /\ q.at = "sent"
      BY <1>16 DEF Attach
    <2>2. [q EXCEPT !.at = "attached"].rows = q.rows /\ [q EXCEPT !.at = "attached"].at = "attached"
      BY <1>1, <2>1 DEF TypeOK, Requests
    <2>3. OpenRows \subseteq OpenRows' /\ BatchInv'
      BY <1>1, <2>1, <2>2, OpenReplace
    <2>4. MainInv' /\ Chunked \subseteq Chunked' /\ MainRows \subseteq MainRows' /\ Settled \subseteq Settled'
      BY <1>1, <1>16 DEF Attach, MainInv, Chunked, MainRows, Settled
    <2> QED BY <2>3, <2>4 DEF Placed
  <1>17. ASSUME NEW q \in requests, Apply(q) PROVE MainInv' /\ BatchInv' /\ Placed \subseteq Placed'
    BY <1>6, <1>17 DEF Apply, Settled
  <1>18. ASSUME UNCHANGED vars PROVE MainInv' /\ BatchInv' /\ Placed \subseteq Placed'
    BY <1>6, <1>18 DEF vars, Settled
  <1>19. \A t \in Threads, q \in requests : ErrCallback(t, q) =>
             MainInv' /\ BatchInv' /\ Placed \subseteq Placed'
    BY <1>15 DEF ErrCallback
  <1>20. \A q \in requests : FalseTimeout(q) => MainInv' /\ BatchInv' /\ Placed \subseteq Placed'
    BY <1>15 DEF FalseTimeout, Threads
  <1>21. \A q \in requests : TimerSends(q) => MainInv' /\ BatchInv' /\ Placed \subseteq Placed'
    BY <1>15 DEF Threads
  <1> QED
    BY <1>6, <1>7, <1>8, <1>9, <1>10, <1>11, <1>12, <1>13, <1>14, <1>15, <1>16, <1>17, <1>18, <1>19, <1>20, <1>21
    DEF Next, MainStep, UpdateChunk, Answer, Fault

LEMMA Always == ASSUME RowsAssumption PROVE Spec => []IInv
  <1>1. Init => IInv
    <2> SUFFICES ASSUME Init PROVE IInv
      OBVIOUS
    <2>1. Inbox \in Seq(Chunks) /\ Inbox # << >> /\ Inbox[1] \in Chunks
      BY DEF RowsAssumption
    <2>2. Free \in {Free} /\ \A f \in Faults : 0 <= MaxFaults[f]
      BY DEF RowsAssumption
    <2>3. TypeOK
      BY <2>1, <2>2 DEF Init, TypeOK
    <2>4. MainInv /\ BatchInv
      BY DEF Init, MainInv, BatchInv
    <2>5. NoRowLost
      <3>1. \A r \in Rows : ChunkOf[r] \in {Inbox[i] : i \in DOMAIN Inbox}
        BY DEF RowsAssumption, Chunks
      <3> QED BY <3>1 DEF Init, NoRowLost, Chunked
    <2> QED BY <2>3, <2>4, <2>5 DEF IInv
  <1>2. IInv /\ [Next]_vars => IInv'
    BY TypeStep, RowsStep DEF IInv
  <1> QED BY <1>1, <1>2, PTL DEF Spec

\* Every variable keeps its type: what a thread holds while it updates a
\* chunk, the requests with their attempts, the counts.
THEOREM TypesHold == ASSUME RowsAssumption PROVE Spec => []TypeOK
  <1>1. IInv => TypeOK
    BY DEF IInv
  <1> QED BY <1>1, Always, PTL

\* A worker forgets no row, whatever fails: when the main thread waits for a
\* chunk and every batch is answered, each row received is stored or reported.
THEOREM NothingForgotten == ASSUME RowsAssumption PROVE Spec => []NoRowForgotten
  <1>1. IInv => NoRowForgotten
    <2> SUFFICES ASSUME IInv, Quiet, NEW r \in Rows
                 PROVE  ChunkOf[r] \in {inbox[i] : i \in DOMAIN inbox} \/ Kind[r] = "continuation" \/ r \in Settled
      BY DEF NoRowForgotten
    <2>1. r \in Chunked \cup MainRows \cup OpenRows \cup Settled \/ Kind[r] = "continuation"
      BY DEF IInv, NoRowLost
    <2>2. MainRows = {} /\ OpenRows = {}
      BY DEF IInv, MainInv, Quiet, MainRows, OpenRows, Unanswered
    <2> QED BY <2>1, <2>2 DEF Chunked
  <1> QED BY <1>1, Always, PTL

-----------------------------------------------------------------------------
(* Counts                                                                   *)

LEMMA SingleAnswers ==
    ASSUME TypeOK, NoDoubleAnswers
    PROVE  ~ Raise /\ \A q : ~ FalseTimeout(q)
  <1>1. "raise" \in Faults /\ "false timeout" \in Faults
    BY DEF Faults
  <1>2. faults["raise"] \in Nat /\ faults["false timeout"] \in Nat
    BY <1>1 DEF TypeOK
  <1>3. \A n \in Nat : ~ n < 0
    OBVIOUS
  <1> QED BY <1>2, <1>3 DEF Raise, FalseTimeout, Fails, NoDoubleAnswers

LEMMA ThreadsCount == IsFiniteSet(Threads) /\ Cardinality(Threads) = 3
  <1>1. IsFiniteSet({"main"}) /\ Cardinality({"main"}) = 1
    BY FS_Singleton
  <1>2. IsFiniteSet({"main"} \cup {"loop"}) /\ Cardinality({"main"} \cup {"loop"}) = 2
    BY <1>1, FS_AddElement
  <1>3. /\ IsFiniteSet(({"main"} \cup {"loop"}) \cup {"timer"})
        /\ Cardinality(({"main"} \cup {"loop"}) \cup {"timer"}) = 3
    BY <1>2, FS_AddElement
  <1>4. Threads = ({"main"} \cup {"loop"}) \cup {"timer"}
    BY DEF Threads
  <1> QED BY <1>3, <1>4

\* A thread that goes on to something else adds nothing any more.
LEMMA ThreadLeaves ==
    ASSUME TypeOK, UpdateInv, AddsApart, NEW t \in Threads, NEW u,
           thread' = [thread EXCEPT ![t] = u], u.at \notin {"load", "store", "check"},
           Settled \subseteq Settled'
    PROVE  UpdateInv' /\ AddsApart' /\ AddedRows' \subseteq AddedRows
  <1>1. thread'[t] = u /\ \A x \in Threads \ {t} : thread'[x] = thread[x]
    BY DEF TypeOK
  <1>2. UpdateInv'
    BY <1>1 DEF UpdateInv, Updating
  <1>3. AddsApart' /\ AddedRows' \subseteq AddedRows
    BY <1>1 DEF AddsApart, AddedRows, Adding
  <1> QED BY <1>2, <1>3

\* A thread that begins to add rows no other thread adds.
LEMMA ThreadStarts ==
    ASSUME TypeOK, UpdateInv, AddsApart, NEW t \in Threads, NEW c \in Chunks, NEW R, Update(t, c, R),
           R # {}, R \subseteq RowsOf(c), R \subseteq Settled', R \cap AddedRows = {},
           Settled \subseteq Settled'
    PROVE  UpdateInv' /\ AddsApart' /\ AddedRows' \subseteq AddedRows \cup R
  <1>1. thread'[t] = [at |-> "load", rows |-> R, chunk |-> c, read |-> 0]
        /\ \A x \in Threads \ {t} : thread'[x] = thread[x]
    BY DEF TypeOK, Update
  <1>2. UpdateInv'
    BY <1>1 DEF UpdateInv, Updating
  <1>3. \A x \in Threads : Adding(x) => thread[x].rows \cap R = {}
    BY DEF AddedRows
  <1>4. AddsApart'
    BY <1>1, <1>3 DEF AddsApart, Adding
  <1>5. AddedRows' \subseteq AddedRows \cup R
    BY <1>1 DEF AddedRows, Adding
  <1> QED BY <1>2, <1>4, <1>5

\* A request that is replaced takes no row of another one.
LEMMA ReplaceApart ==
    ASSUME BatchesApart, BatchInv, NEW q \in Unanswered, NEW p, Replace(q, p), p.rows = q.rows
    PROVE  /\ BatchesApart' /\ OpenRows' \subseteq OpenRows /\ q.rows \subseteq OpenRows
           /\ p.at = "answered" => OpenRows' \cap q.rows = {}
  <1>0. \A x \in Unanswered' : x = p \/ (x \in Unanswered /\ x # q)
    BY DEF Replace, Unanswered
  <1>1. \A x \in Unanswered' : x = p \/ (x \in Unanswered /\ x.rows \cap q.rows = {})
    BY <1>0 DEF BatchesApart
  <1>2. p.at = "answered" => p \notin Unanswered'
    BY DEF Unanswered
  <1>3. BatchesApart'
    BY <1>1 DEF BatchesApart
  <1>4. OpenRows' \subseteq OpenRows /\ q.rows \subseteq OpenRows
    BY <1>1 DEF OpenRows
  <1>5. p.at = "answered" => OpenRows' \cap q.rows = {}
    BY <1>1, <1>2 DEF OpenRows
  <1> QED BY <1>3, <1>4, <1>5

\* When no row goes back to a place where it is not counted yet, no count becomes wrong.
LEMMA CountedGrows ==
    ASSUME RowsAssumption, Uncounted' \subseteq Uncounted, Settled \subseteq Settled', NEW c
    PROVE  /\ Counted(c) \subseteq Counted(c)'
           /\ IsFiniteSet(Counted(c)) /\ IsFiniteSet(Counted(c)')
           /\ Cardinality(Counted(c)) \in Nat /\ Cardinality(Counted(c)') \in Nat
           /\ Cardinality(Counted(c)) <= Cardinality(Counted(c)')
  <1>1. Counted(c) \subseteq Counted(c)' /\ Counted(c) \subseteq Rows /\ Counted(c)' \subseteq Rows
    BY DEF Counted, RowsOf
  <1>2. IsFiniteSet(Counted(c)) /\ IsFiniteSet(Counted(c)')
    BY <1>1, FS_Subset DEF RowsAssumption
  <1> QED BY <1>1, <1>2, FS_Subset, FS_CardinalityType

LEMMA CountsKept ==
    ASSUME TypeOK, RowsAssumption, CountInv, ReportInv,
           Uncounted' \subseteq Uncounted, Settled \subseteq Settled',
           UNCHANGED <<imported, reports>>,
           \A t \in Threads : thread'[t] = thread[t] \/ thread'[t].at \notin {"store", "check"}
    PROVE  CountInv' /\ ReportInv'
  <1>1. CountInv'
    <2>1. ASSUME NEW c \in Chunks PROVE imported'[c] <= Cardinality(Counted(c)')
      <3>1. imported[c] <= Cardinality(Counted(c)) /\ imported[c] \in Nat
        BY DEF CountInv, TypeOK
      <3> QED BY <3>1, CountedGrows
    <2>2. ASSUME NEW t \in Threads, NEW c \in Chunks, thread'[t].at = "store", thread'[t].chunk = c
          PROVE  thread'[t].read <= Cardinality(Counted(c)')
      <3>1. thread'[t] = thread[t]
        BY <2>2
      <3>2. thread[t].read <= Cardinality(Counted(c)) /\ thread[t].read \in Nat
        BY <2>2, <3>1, ThreadTypes DEF CountInv, Updating, Updates
      <3> QED BY <3>1, <3>2, CountedGrows
    <2> QED BY <2>1, <2>2 DEF CountInv
  <1>2. ReportInv'
    <2> SUFFICES ASSUME NEW c \in Chunks
                 PROVE  /\ reports'[c] > 0 => imported'[c] = NumRowsSent(c)
                        /\ reports'[c] + Cardinality(Checkers(c)') <= Cardinality(Threads)
      BY DEF ReportInv
    <2>1. Checkers(c)' \subseteq Checkers(c) /\ Checkers(c) \subseteq Threads
      BY DEF Checkers
    <2>2. IsFiniteSet(Threads)
      BY ThreadsCount
    <2>3. /\ Cardinality(Checkers(c)) \in Nat /\ Cardinality(Checkers(c)') \in Nat /\ Cardinality(Threads) \in Nat
          /\ Cardinality(Checkers(c)') <= Cardinality(Checkers(c))
      BY <2>1, <2>2, FS_Subset, FS_CardinalityType
    <2>4. reports[c] \in Nat
      BY DEF TypeOK
    <2> QED BY <2>3, <2>4 DEF ReportInv
  <1> QED BY <1>1, <1>2

CountingInv == UpdateInv /\ OnePlaceInv /\ CountInv /\ ReportInv

\* Steps of the main thread that send or report nothing.
LEMMA MainMoves ==
    ASSUME IInv, RowsAssumption, CountingInv, Receive \/ ConvertRows \/ SplitIntoBatches \/ EndChunk
    PROVE  CountingInv'
  <1>1. TypeOK /\ MainInv /\ UpdateInv /\ InboxOnce /\ Apart /\ BatchesApart /\ AddsApart /\ CountInv /\ ReportInv
    BY DEF IInv, CountingInv, OnePlaceInv
  <1>2. UNCHANGED <<thread, requests, imported, stored, failed, reports>>
    BY DEF Receive, ConvertRows, SplitIntoBatches, EndChunk
  <1>3. UpdateInv' /\ BatchesApart' /\ AddsApart' /\ UNCHANGED <<OpenRows, AddedRows, Settled>>
    BY <1>1, <1>2 DEF UpdateInv, Updating, BatchesApart, AddsApart, Adding, OpenRows, AddedRows, Unanswered, Settled
  <1>4. main \in [at : {"recv", "convert", "key", "split"}, chunk : Chunks, bad : SUBSET Rows, todo : SUBSET Rows]
    BY <1>1 DEF TypeOK
  <1>5. InboxOnce' /\ Apart' /\ Uncounted' \subseteq Uncounted
    <2>1. CASE Receive
      <3>1. inbox \in Seq(Chunks) /\ inbox # << >> /\ inbox' = Tail(inbox)
        BY <1>1, <2>1 DEF Receive, TypeOK
      <3>2. /\ DOMAIN inbox = 1 .. Len(inbox) /\ DOMAIN inbox' = 1 .. Len(inbox) - 1 /\ Len(inbox) \in Nat
            /\ \A j \in DOMAIN inbox' : inbox'[j] = inbox[j + 1]
            /\ Head(inbox) = inbox[1] /\ 1 \in DOMAIN inbox
        BY <3>1
      <3>3. \A j \in DOMAIN inbox' : j + 1 \in DOMAIN inbox /\ j + 1 # 1
        BY <3>2
      <3>4. \A i, j \in DOMAIN inbox' : i + 1 = j + 1 => i = j
        BY <3>2
      <3>5. InboxOnce'
        BY <1>1, <3>2, <3>3, <3>4 DEF InboxOnce
      <3>6. \A j \in DOMAIN inbox' : inbox'[j] # Head(inbox) /\ inbox'[j] \in {inbox[i] : i \in DOMAIN inbox}
        BY <1>1, <3>2, <3>3 DEF InboxOnce
      <3>7. Chunked' \subseteq Chunked /\ RowsOf(Head(inbox)) \cap Chunked' = {}
        BY <3>6 DEF Chunked, RowsOf
      <3>8. RowsOf(Head(inbox)) \subseteq Chunked
        BY <3>2 DEF Chunked, RowsOf
      <3>9. main' = [at |-> "convert", chunk |-> Head(inbox), todo |-> {},
                     bad |-> {r \in RowsOf(Head(inbox)) : Kind[r] = "unparsable"}]
        BY <2>1 DEF Receive
      <3>10. MainRows' \subseteq RowsOf(Head(inbox))
        BY <3>9 DEF MainRows, Converted
      <3> QED BY <1>1, <1>3, <3>5, <3>7, <3>8, <3>9, <3>10 DEF Apart, Uncounted
    <2>2. CASE ConvertRows
      <3>1. main' = [at |-> "key", chunk |-> main.chunk, bad |-> {r \in Converted(main.chunk) : Kind[r] = "nokey"},
                     todo |-> {r \in Converted(main.chunk) : Kind[r] = "good"}]
        BY <1>4, <2>2 DEF ConvertRows
      <3>2. MainRows' \subseteq MainRows
        BY <2>2, <3>1 DEF ConvertRows, MainRows
      <3>3. InboxOnce' /\ UNCHANGED Chunked
        BY <1>1, <2>2 DEF ConvertRows, InboxOnce, Chunked
      <3> QED BY <1>1, <1>3, <2>2, <3>1, <3>2, <3>3 DEF ConvertRows, Apart, Uncounted
    <2>3. CASE SplitIntoBatches \/ EndChunk
      <3>1. PICK a \in {"split", "recv"} : main' = [at |-> a, chunk |-> main.chunk, bad |-> main.bad, todo |-> main.todo]
        BY <1>4, <2>3 DEF SplitIntoBatches, EndChunk
      <3>2. main.at # "recv"
        BY <2>3 DEF SplitIntoBatches, EndChunk
      <3>3. MainRows' \subseteq MainRows
        BY <3>1 DEF MainRows
      <3>4. InboxOnce' /\ UNCHANGED Chunked
        BY <1>1, <2>3 DEF SplitIntoBatches, EndChunk, InboxOnce, Chunked
      <3> QED BY <1>1, <1>3, <3>1, <3>2, <3>3, <3>4 DEF Apart, Uncounted
    <2> QED BY <2>1, <2>2, <2>3
  <1>6. CountInv' /\ ReportInv'
    BY <1>1, <1>2, <1>3, <1>5, CountsKept
  <1> QED BY <1>3, <1>5, <1>6 DEF CountingInv, OnePlaceInv

\* The main thread takes R from its rows: they go into a batch, or are reported.
LEMMA MainTakes ==
    ASSUME IInv, RowsAssumption, CountingInv, NEW R, R # {}, R \subseteq main.bad \cup main.todo, main.at # "recv",
           UNCHANGED <<inbox, imported, reports, stored>>, failed \subseteq failed',
           main'.at = main.at, main'.chunk = main.chunk, main'.bad \subseteq main.bad, main'.todo \subseteq main.todo,
           MainRows' \cap R = {},
           \/ /\ requests' = requests \cup {[rows |-> R, attempts |-> 1, at |-> "sent"]}
              /\ thread' = [thread EXCEPT !["main"] = Attaching(R)]
           \/ UNCHANGED requests /\ R \subseteq failed' /\ Update("main", main.chunk, R)
    PROVE  CountingInv'
  <1>1. TypeOK /\ MainInv /\ UpdateInv /\ InboxOnce /\ Apart /\ BatchesApart /\ AddsApart /\ CountInv /\ ReportInv
    BY DEF IInv, CountingInv, OnePlaceInv
  <1>2. R \subseteq RowsOf(main.chunk) /\ R \subseteq MainRows /\ main.chunk \in Chunks /\ "main" \in Threads
    BY <1>1 DEF MainInv, MainRows, TypeOK, Threads
  <1>3. UNCHANGED Chunked /\ InboxOnce' /\ MainRows' \subseteq MainRows /\ Settled \subseteq Settled'
    BY <1>1 DEF Chunked, InboxOnce, MainRows, Settled
  <1>4. R \cap (Chunked \cup OpenRows \cup AddedRows) = {}
    BY <1>1, <1>2 DEF Apart
  <1>5. \A t \in Threads : thread'[t] = thread[t] \/ thread'[t].at \notin {"store", "check"}
    BY <1>1 DEF Update, Attaching, TypeOK
  <1>6. CASE /\ requests' = requests \cup {[rows |-> R, attempts |-> 1, at |-> "sent"]}
             /\ thread' = [thread EXCEPT !["main"] = Attaching(R)]
    <2>1. Attaching(R).at = "attach"
      BY DEF Attaching
    <2>2. UpdateInv' /\ AddsApart' /\ AddedRows' \subseteq AddedRows
      BY <1>1, <1>2, <1>3, <1>6, <2>1, ThreadLeaves
    <2>3. \A q \in Unanswered' : q.rows = R \/ q \in Unanswered
      BY <1>6 DEF Unanswered
    <2>4. OpenRows' \subseteq OpenRows \cup R
      BY <2>3 DEF OpenRows
    <2>5. \A q \in Unanswered : q.rows \cap R = {}
      BY <1>4 DEF OpenRows
    <2>6. \A q \in Unanswered' : q \in Unanswered \/ q = [rows |-> R, attempts |-> 1, at |-> "sent"]
      BY <1>6 DEF Unanswered
    <2>7. BatchesApart'
      BY <1>1, <2>5, <2>6 DEF BatchesApart
    <2>8. Apart'
      BY <1>1, <1>2, <1>3, <1>4, <2>2, <2>4 DEF Apart
    <2>9. Uncounted' \subseteq Uncounted
      BY <1>2, <1>3, <2>2, <2>4 DEF Uncounted
    <2> QED BY <1>1, <1>3, <1>5, <2>2, <2>7, <2>8, <2>9, CountsKept DEF CountingInv, OnePlaceInv
  <1>7. CASE UNCHANGED requests /\ R \subseteq failed' /\ Update("main", main.chunk, R)
    <2>1. R \subseteq Settled' /\ R \cap AddedRows = {}
      BY <1>4, <1>7 DEF Settled
    <2>2. UpdateInv' /\ AddsApart' /\ AddedRows' \subseteq AddedRows \cup R
      BY <1>1, <1>2, <1>3, <1>7, <2>1, ThreadStarts
    <2>3. BatchesApart' /\ UNCHANGED OpenRows
      BY <1>1, <1>7 DEF BatchesApart, Unanswered, OpenRows
    <2>4. Apart'
      BY <1>1, <1>2, <1>3, <1>4, <2>2, <2>3 DEF Apart
    <2>5. Uncounted' \subseteq Uncounted
      BY <1>2, <1>3, <2>2, <2>3 DEF Uncounted
    <2> QED BY <1>1, <1>3, <1>5, <2>2, <2>3, <2>4, <2>5, CountsKept DEF CountingInv, OnePlaceInv
  <1> QED BY <1>6, <1>7

LEMMA MainCounts ==
    ASSUME IInv, RowsAssumption, CountingInv
    PROVE  /\ \A G : \A place \in {"convert", "key"} : ReportGroup(place, G) => CountingInv'
           /\ \A b : SendBatch(b) \/ MakeStatementFails(b) => CountingInv'
  <1>1. TypeOK /\ MainInv
    BY DEF IInv
  <1>2. main \in [at : {"recv", "convert", "key", "split"}, chunk : Chunks, bad : SUBSET Rows, todo : SUBSET Rows]
    BY <1>1 DEF TypeOK
  <1>3. ASSUME NEW G, NEW place \in {"convert", "key"}, ReportGroup(place, G) PROVE CountingInv'
    <2>1. main' = [at |-> main.at, chunk |-> main.chunk, bad |-> main.bad \ G, todo |-> main.todo]
      BY <1>2, <1>3 DEF ReportGroup
    <2>2. main.at = place /\ G # {} /\ G \subseteq main.bad
      BY <1>3 DEF ReportGroup
    <2>3. MainRows' \cap G = {}
      BY <1>1, <2>1, <2>2 DEF MainInv, MainRows, Converted
    <2> QED BY <1>3, <2>1, <2>2, <2>3, MainTakes DEF ReportGroup
  <1>4. ASSUME NEW b, SendBatch(b) \/ MakeStatementFails(b) PROVE CountingInv'
    <2>1. main' = [at |-> "split", chunk |-> main.chunk, bad |-> main.bad, todo |-> main.todo \ b]
      BY <1>2, <1>4 DEF SendBatch, MakeStatementFails
    <2>2. main.at = "split" /\ b # {} /\ b \subseteq main.todo
      BY <1>4 DEF SendBatch, MakeStatementFails
    <2>3. MainRows' \cap b = {}
      BY <1>1, <2>1, <2>2 DEF MainInv, MainRows
    <2>4. UNCHANGED <<inbox, imported, reports, stored>> /\ failed \subseteq failed'
      BY <1>4 DEF SendBatch, MakeStatementFails
    <2>5. \/ /\ requests' = requests \cup {[rows |-> b, attempts |-> 1, at |-> "sent"]}
             /\ thread' = [thread EXCEPT !["main"] = Attaching(b)]
          \/ UNCHANGED requests /\ b \subseteq failed' /\ Update("main", main.chunk, b)
      BY <1>4 DEF SendBatch, MakeStatementFails
    <2> QED BY <2>1, <2>2, <2>3, <2>4, <2>5, MainTakes
  <1> QED BY <1>3, <1>4

\* A request without an answer goes on, or its rows are settled and counted.
LEMMA RequestGoesOn ==
    ASSUME IInv, RowsAssumption, CountingInv, NEW t \in Threads, NEW q \in Unanswered, NEW p, Replace(q, p),
           p.rows = q.rows, UNCHANGED <<inbox, main, imported, reports>>, Settled \subseteq Settled',
           \/ \E u : thread' = [thread EXCEPT ![t] = u] /\ u.at \notin {"load", "store", "check"}
           \/ p.at = "answered" /\ q.rows \subseteq Settled' /\ Update(t, ChunkIn(q), q.rows)
    PROVE  CountingInv'
  <1>1. TypeOK /\ BatchInv /\ UpdateInv /\ InboxOnce /\ Apart /\ BatchesApart /\ AddsApart /\ CountInv /\ ReportInv
    BY DEF IInv, CountingInv, OnePlaceInv
  <1>2. q \in requests /\ q.rows # {} /\ q.rows \subseteq Rows
    BY <1>1 DEF Unanswered, BatchInv, TypeOK, Requests
  <1>3. ChunkIn(q) \in Chunks /\ q.rows \subseteq RowsOf(ChunkIn(q))
    BY <1>1, <1>2, BatchChunk DEF BatchInv
  <1>4. UNCHANGED <<Chunked, MainRows>> /\ InboxOnce'
    BY <1>1 DEF Chunked, MainRows, InboxOnce
  <1>5. /\ BatchesApart' /\ OpenRows' \subseteq OpenRows /\ q.rows \subseteq OpenRows
        /\ p.at = "answered" => OpenRows' \cap q.rows = {}
    BY <1>1, ReplaceApart
  <1>6. \A x \in Threads : thread'[x] = thread[x] \/ thread'[x].at \notin {"store", "check"}
    BY <1>1 DEF Update, TypeOK
  <1>7. UpdateInv' /\ AddsApart' /\ Apart' /\ Uncounted' \subseteq Uncounted
    <2>1. ASSUME NEW u, thread' = [thread EXCEPT ![t] = u], u.at \notin {"load", "store", "check"}
          PROVE  UpdateInv' /\ AddsApart' /\ Apart' /\ Uncounted' \subseteq Uncounted
      <3>1. UpdateInv' /\ AddsApart' /\ AddedRows' \subseteq AddedRows
        BY <1>1, <2>1, ThreadLeaves
      <3> QED BY <1>1, <1>4, <1>5, <3>1 DEF Apart, Uncounted
    <2>2. CASE p.at = "answered" /\ q.rows \subseteq Settled' /\ Update(t, ChunkIn(q), q.rows)
      <3>1. q.rows \cap AddedRows = {}
        BY <1>1, <1>5 DEF Apart
      <3>2. UpdateInv' /\ AddsApart' /\ AddedRows' \subseteq AddedRows \cup q.rows
        BY <1>1, <1>2, <1>3, <2>2, <3>1, ThreadStarts
      <3> QED BY <1>1, <1>4, <1>5, <2>2, <3>2 DEF Apart, Uncounted
    <2> QED BY <2>1, <2>2
  <1>8. CountInv' /\ ReportInv'
    BY <1>1, <1>6, <1>7, CountsKept
  <1> QED BY <1>4, <1>5, <1>7, <1>8 DEF CountingInv, OnePlaceInv

LEMMA CallbackCounts ==
    ASSUME IInv, RowsAssumption, CountingInv, NEW t \in Threads
    PROVE  /\ \A q \in requests : ResultCallback(t, q) \/ ErrCallback(t, q) => CountingInv'
           /\ \A q \in requests : Apply(q) \/ TimerSends(q) => CountingInv'
           /\ Attach(t) => CountingInv'
  <1>1. TypeOK /\ UpdateInv /\ OnePlaceInv /\ CountInv /\ ReportInv
    BY DEF IInv, CountingInv
  <1>2. \A q \in requests : \A a : /\ [q EXCEPT !.at = a].rows = q.rows /\ [q EXCEPT !.at = a].at = a
                                  /\ \A n : [q EXCEPT !.attempts = n, !.at = a].rows = q.rows
    BY <1>1 DEF TypeOK, Requests
  <1>3. \A b : Attaching(b).at = "attach" /\ Free.at = "free"
    BY DEF Attaching, Free
  <1>4. ASSUME NEW x \in Threads, NEW q \in requests, Runs(x, q) PROVE q \in Unanswered
    BY <1>4 DEF Runs, Unanswered
  <1>5. ASSUME NEW q \in requests, ResultCallback(t, q) PROVE CountingInv'
    <2> DEFINE p == [q EXCEPT !.at = "answered"]
    <2>1. q \in Unanswered /\ Replace(q, p) /\ p.rows = q.rows /\ p.at = "answered"
      BY <1>2, <1>4, <1>5 DEF ResultCallback
    <2>2. q.rows \subseteq Settled' /\ UNCHANGED <<inbox, main, imported, reports, Settled>>
      BY <1>5 DEF ResultCallback, Settled
    <2>3. Update(t, ChunkIn(q), q.rows)
      BY <1>5 DEF ResultCallback
    <2> HIDE DEF p
    <2> QED BY <2>1, <2>2, <2>3, RequestGoesOn
  <1>6. ASSUME NEW q \in requests, ErrCallback(t, q) PROVE CountingInv'
    <2>1. q \in Unanswered
      BY <1>4, <1>6 DEF ErrCallback
    <2>2. CASE GiveUp(t, q)
      <3>1. q.rows \subseteq Settled' /\ UNCHANGED <<inbox, main, imported, reports>> /\ Settled \subseteq Settled'
        BY <2>2 DEF GiveUp, Settled
      <3> DEFINE p == [q EXCEPT !.at = "answered"]
      <3>2. Replace(q, p) /\ p.rows = q.rows /\ p.at = "answered" /\ Update(t, ChunkIn(q), q.rows)
        BY <1>2, <2>2 DEF GiveUp
      <3> HIDE DEF p
      <3> QED BY <2>1, <3>1, <3>2, RequestGoesOn
    <2>3. ASSUME NEW delayed \in BOOLEAN, Retry(t, q, delayed) PROVE CountingInv'
      <3>1. UNCHANGED <<inbox, main, imported, reports, Settled>>
        BY <2>3 DEF Retry, Settled
      <3>2. PICK a : Replace(q, [q EXCEPT !.attempts = q.attempts + 1, !.at = a])
        BY <2>3 DEF Retry
      <3>3. PICK u : thread' = [thread EXCEPT ![t] = u] /\ u.at \notin {"load", "store", "check"}
        BY <1>3, <2>3 DEF Retry
      <3> DEFINE p == [q EXCEPT !.attempts = q.attempts + 1, !.at = a]
      <3>4. Replace(q, p) /\ p.rows = q.rows
        BY <1>2, <3>2
      <3> HIDE DEF p
      <3> QED BY <2>1, <3>1, <3>3, <3>4, RequestGoesOn
    <2> QED BY <1>6, <2>2, <2>3 DEF ErrCallback
  <1>7. ASSUME NEW q \in requests, TimerSends(q) PROVE CountingInv'
    <2> DEFINE p == [q EXCEPT !.at = "sent"]
    <2>1. q \in Unanswered /\ Replace(q, p) /\ p.rows = q.rows /\ "timer" \in Threads
      BY <1>2, <1>7 DEF TimerSends, Unanswered, Threads
    <2>2. UNCHANGED <<inbox, main, imported, reports, Settled>>
      BY <1>7 DEF TimerSends, Settled
    <2>3. thread' = [thread EXCEPT !["timer"] = Attaching(q.rows)]
      BY <1>7 DEF TimerSends
    <2> HIDE DEF p
    <2> QED BY <1>3, <2>1, <2>2, <2>3, RequestGoesOn
  <1>8. CASE Attach(t)
    <2>1. PICK q \in requests : q.at = "sent" /\ Replace(q, [q EXCEPT !.at = "attached"])
      BY <1>8 DEF Attach
    <2>2. q \in Unanswered /\ UNCHANGED <<inbox, main, imported, reports, Settled>>
      BY <1>8, <2>1 DEF Attach, Unanswered, Settled
    <2>3. thread' = [thread EXCEPT ![t] = Free]
      BY <1>8 DEF Attach
    <2> DEFINE p == [q EXCEPT !.at = "attached"]
    <2>4. Replace(q, p) /\ p.rows = q.rows
      BY <1>2, <2>1
    <2> HIDE DEF p
    <2> QED BY <1>3, <2>2, <2>3, <2>4, RequestGoesOn
  <1>9. ASSUME NEW q \in requests, Apply(q) PROVE CountingInv'
    <2>1. UNCHANGED <<inbox, main, thread, requests, imported, reports>> /\ Settled \subseteq Settled'
      BY <1>9 DEF Apply, Settled
    <2>2. UNCHANGED <<Chunked, MainRows, OpenRows, AddedRows>> /\ OnePlaceInv'
      BY <1>1, <2>1 DEF Chunked, MainRows, OpenRows, AddedRows, Unanswered, Adding, OnePlaceInv, InboxOnce, Apart,
            BatchesApart, AddsApart
    <2>3. UpdateInv' /\ Uncounted' \subseteq Uncounted
      BY <1>1, <2>1, <2>2 DEF UpdateInv, Updating, Uncounted
    <2> QED BY <1>1, <2>1, <2>2, <2>3, CountsKept DEF CountingInv
  <1> QED BY <1>5, <1>6, <1>7, <1>8, <1>9

\* A chunk that a thread still adds rows to has not reached its count.
LEMMA NotReported ==
    ASSUME IInv, RowsAssumption, CountingInv, NEW t \in Threads, Adding(t), NEW c \in Chunks, thread[t].chunk = c
    PROVE  reports[c] = 0
  <1>1. reports[c] \in Nat /\ imported[c] \in Nat
    BY DEF IInv, TypeOK
  <1>2. SUFFICES ASSUME reports[c] > 0 PROVE FALSE
    BY <1>1
  <1>3. Cardinality(RowsOf(c)) <= Cardinality(Counted(c))
    BY <1>2 DEF CountingInv, ReportInv, CountInv, NumRowsSent
  <1>4. Counted(c) \subseteq RowsOf(c) /\ IsFiniteSet(RowsOf(c))
    BY FS_Subset DEF Counted, RowsOf, RowsAssumption
  <1>5. /\ Cardinality(Counted(c)) <= Cardinality(RowsOf(c))
        /\ Cardinality(Counted(c)) \in Nat /\ Cardinality(RowsOf(c)) \in Nat
    BY <1>4, FS_Subset, FS_CardinalityType
  <1>6. Cardinality(Counted(c)) = Cardinality(RowsOf(c))
    BY <1>3, <1>5
  <1>7. Counted(c) = RowsOf(c)
    BY <1>4, <1>6, FS_Subset
  <1>8. /\ thread[t].rows # {} /\ thread[t].rows \subseteq RowsOf(c)
        /\ thread[t].rows \subseteq AddedRows
    BY DEF CountingInv, UpdateInv, Updating, Adding, AddedRows
  <1> QED BY <1>7, <1>8 DEF Counted, Uncounted

\* update_chunk: a thread that has loaded the count stores it with its rows
\* added, which no other thread counts; and a full count changes no more.
LEMMA UpdateCounts ==
    ASSUME IInv, RowsAssumption, CountingInv, NEW t \in Threads, Load(t) \/ Store(t) \/ Check(t)
    PROVE  CountingInv'
  <1>1. TypeOK /\ UpdateInv /\ InboxOnce /\ Apart /\ BatchesApart /\ AddsApart /\ CountInv /\ ReportInv
    BY DEF IInv, CountingInv, OnePlaceInv
  <1>2. UNCHANGED <<inbox, main, requests, stored, failed>>
    BY DEF Load, Store, Check
  <1>3. UNCHANGED <<Chunked, MainRows, OpenRows, Settled>> /\ InboxOnce' /\ BatchesApart'
    BY <1>1, <1>2 DEF Chunked, MainRows, OpenRows, Unanswered, Settled, InboxOnce, BatchesApart
  <1>4. PICK u : u = thread[t]
    OBVIOUS
  <1>5. PICK c \in Chunks : c = u.chunk
    BY <1>1, <1>4, ThreadTypes DEF Load, Store, Check, Updating, Updates
  <1>6. u \in Updates /\ u.rows # {} /\ u.rows \subseteq RowsOf(c) /\ u.rows \subseteq Settled /\ u.rows \subseteq Rows
    BY <1>1, <1>4, <1>5, ThreadTypes DEF Load, Store, Check, UpdateInv, Updating, Updates
  <1>7. /\ \A d : IsFiniteSet(Counted(d)) /\ Cardinality(Counted(d)) \in Nat
        /\ \A d : IsFiniteSet(Counted(d)') /\ Cardinality(Counted(d)') \in Nat
        /\ \A d : IsFiniteSet(RowsOf(d)) /\ Cardinality(RowsOf(d)) \in Nat
        /\ IsFiniteSet(u.rows) /\ Cardinality(u.rows) \in Nat
    <2>1. \A d : Counted(d) \subseteq Rows /\ Counted(d)' \subseteq Rows /\ RowsOf(d) \subseteq Rows
      BY DEF Counted, RowsOf
    <2> QED BY <1>6, <2>1, FS_Subset, FS_CardinalityType DEF RowsAssumption
  <1>8. /\ imported \in [Chunks -> Nat] /\ reports \in [Chunks -> Nat]
        /\ thread \in [Threads -> Updates \cup {Free} \cup Attachings]
        /\ \A x \in Threads : thread[x].at \in {"load", "store", "check"} => thread[x].read \in Nat
    BY <1>1, ThreadTypes DEF TypeOK, Attachings, Updating, Updates
  <1>9. \A d : IsFiniteSet(Checkers(d)) /\ Cardinality(Checkers(d)) \in Nat
               /\ IsFiniteSet(Checkers(d)') /\ Cardinality(Checkers(d)') \in Nat
               /\ Cardinality(Checkers(d)') <= Cardinality(Threads) /\ Cardinality(Threads) = 3
    <2>1. \A d : Checkers(d) \subseteq Threads /\ Checkers(d)' \subseteq Threads
      BY DEF Checkers
    <2> QED BY <2>1, ThreadsCount, FS_Subset, FS_CardinalityType
  <1>10. CASE Load(t)
    <2> DEFINE v == [u EXCEPT !.at = "store", !.read = imported[c]]
    <2>1. v.rows = u.rows /\ v.chunk = c /\ v.at = "store" /\ v.read = imported[c]
      BY <1>5, <1>6 DEF Updates
    <2>2. thread'[t] = v /\ \A x \in Threads \ {t} : thread'[x] = thread[x]
      BY <1>4, <1>5, <1>8, <1>10 DEF Load
    <2> HIDE DEF v
    <2>3. u.at = "load" /\ UNCHANGED <<imported, reports>>
      BY <1>4, <1>10 DEF Load
    <2>4. UpdateInv' /\ AddsApart' /\ UNCHANGED AddedRows
      <3>1. UpdateInv'
        BY <1>1, <1>3, <1>5, <1>6, <2>1, <2>2 DEF UpdateInv, Updating
      <3>2. AddsApart'
        BY <1>1, <1>4, <2>1, <2>2, <2>3 DEF AddsApart, Adding
      <3>3. \A x \in Threads : (Adding(x)' <=> Adding(x)) /\ (Adding(x) => thread'[x].rows = thread[x].rows)
        BY <1>4, <2>1, <2>2, <2>3 DEF Adding
      <3> QED BY <3>1, <3>2, <3>3 DEF AddedRows
    <2>5. Apart' /\ \A d : Counted(d)' = Counted(d)
      BY <1>1, <1>2, <1>3, <2>4 DEF Apart, Counted, Uncounted
    <2>6. CountInv'
      BY <1>1, <2>1, <2>2, <2>3, <2>5 DEF CountInv
    <2>7. \A d : Checkers(d)' = Checkers(d)
      BY <1>4, <2>1, <2>2, <2>3 DEF Checkers
    <2> QED BY <1>1, <1>3, <2>3, <2>4, <2>5, <2>6, <2>7 DEF CountingInv, OnePlaceInv, ReportInv
  <1>11. CASE Store(t)
    <2>1. PICK v : v = [rows |-> u.rows, chunk |-> c, at |-> "check", read |-> u.read]
      OBVIOUS
    <2>2. thread'[t] = v /\ \A x \in Threads \ {t} : thread'[x] = thread[x]
      <3>1. [u EXCEPT !.at = "check"] = v
        BY <1>5, <1>6, <2>1 DEF Updates
      <3> QED BY <1>4, <1>5, <1>8, <1>11, <3>1 DEF Store
    <2>3. u.at = "store" /\ UNCHANGED reports /\ imported' = [imported EXCEPT ![c] = u.read + Cardinality(u.rows)]
      BY <1>4, <1>5, <1>11 DEF Store
    <2>4. /\ UpdateInv' /\ AddsApart' /\ AddedRows' \subseteq AddedRows
          /\ u.rows \subseteq AddedRows /\ AddedRows' \cap u.rows = {}
      <3>1. UpdateInv'
        BY <1>1, <1>3, <1>5, <1>6, <2>1, <2>2 DEF UpdateInv, Updating
      <3>2. AddsApart'
        BY <1>1, <1>4, <2>1, <2>2, <2>3 DEF AddsApart, Adding
      <3>3. ~ Adding(t)' /\ Adding(t) /\ \A x \in Threads \ {t} : (Adding(x)' <=> Adding(x)) /\ thread'[x].rows = thread[x].rows
        BY <1>4, <2>1, <2>2, <2>3 DEF Adding
      <3>4. \A x \in Threads \ {t} : Adding(x) => thread[x].rows \cap u.rows = {}
        BY <1>1, <1>4, <3>3 DEF AddsApart
      <3> QED BY <1>4, <3>1, <3>2, <3>3, <3>4 DEF AddedRows
    <2>5. Apart' /\ Uncounted' \subseteq Uncounted /\ u.rows \cap Uncounted' = {} /\ u.rows \subseteq Uncounted
      BY <1>1, <1>2, <1>3, <2>4 DEF Apart, Uncounted
    <2>6. Counted(c) \cup u.rows \subseteq Counted(c)' /\ Counted(c) \cap u.rows = {}
      BY <1>3, <1>6, <2>5 DEF Counted
    <2>7. Cardinality(Counted(c)) + Cardinality(u.rows) <= Cardinality(Counted(c)')
      <3>1. Cardinality(Counted(c) \cup u.rows) = Cardinality(Counted(c)) + Cardinality(u.rows) - Cardinality(Counted(c) \cap u.rows)
        BY <1>7, FS_Union
      <3>2. Cardinality(Counted(c) \cap u.rows) = 0
        BY <2>6, FS_EmptySet
      <3>3. Cardinality(Counted(c) \cup u.rows) <= Cardinality(Counted(c)')
        BY <1>7, <2>6, FS_Subset
      <3>4. Cardinality(Counted(c) \cup u.rows) = Cardinality(Counted(c)) + Cardinality(u.rows)
        BY <1>7, <3>1, <3>2
      <3> QED BY <3>3, <3>4
    <2>8. \A d \in Chunks : Cardinality(Counted(d)) <= Cardinality(Counted(d)')
      BY <1>3, <2>5, CountedGrows
    <2>9. u.read <= Cardinality(Counted(c)) /\ u.read \in Nat
      BY <1>1, <1>4, <1>5, <1>8, <2>3 DEF CountInv
    <2>10. CountInv'
      <3>1. imported'[c] <= Cardinality(Counted(c)')
        BY <1>7, <1>8, <2>3, <2>7, <2>9
      <3>2. \A d \in Chunks : imported'[d] <= Cardinality(Counted(d)')
        <4> SUFFICES ASSUME NEW d \in Chunks, d # c PROVE imported'[d] <= Cardinality(Counted(d)')
          BY <3>1
        <4>1. imported'[d] = imported[d] /\ imported[d] \in Nat /\ imported[d] <= Cardinality(Counted(d))
          BY <1>1, <1>8, <2>3 DEF CountInv
        <4> QED BY <1>7, <2>8, <4>1
      <3>3. ASSUME NEW x \in Threads, NEW d \in Chunks, thread'[x].at = "store", thread'[x].chunk = d
            PROVE  thread'[x].read <= Cardinality(Counted(d)')
        <4>1. x # t
          BY <2>1, <2>2, <3>3
        <4>2. thread'[x] = thread[x]
          BY <2>2, <4>1
        <4>3. thread[x].read <= Cardinality(Counted(d)) /\ thread[x].read \in Nat
          BY <1>1, <1>8, <3>3, <4>2 DEF CountInv
        <4> QED BY <1>7, <2>8, <4>2, <4>3
      <3> QED BY <3>2, <3>3 DEF CountInv
    <2>11. ReportInv'
      <3>1. reports[c] = 0
        BY <1>4, <1>5, <2>3, NotReported DEF Adding
      <3>2. \A d \in Chunks \ {c} : Checkers(d)' = Checkers(d) /\ imported'[d] = imported[d]
        BY <1>4, <1>8, <2>1, <2>2, <2>3 DEF Checkers
      <3>3. ASSUME NEW d \in Chunks
            PROVE  /\ reports'[d] > 0 => imported'[d] = NumRowsSent(d)
                   /\ reports'[d] + Cardinality(Checkers(d)') <= Cardinality(Threads)
        <4>1. CASE d = c
          BY <1>9, <2>3, <3>1, <4>1
        <4>2. CASE d # c
          BY <1>1, <2>3, <3>2, <4>2 DEF ReportInv
        <4> QED BY <4>1, <4>2
      <3> QED BY <3>3 DEF ReportInv
    <2> QED BY <1>1, <1>3, <2>4, <2>5, <2>10, <2>11 DEF CountingInv, OnePlaceInv
  <1>12. CASE Check(t)
    <2>1. thread'[t] = Free /\ \A x \in Threads \ {t} : thread'[x] = thread[x]
      BY <1>8, <1>12 DEF Check
    <2>2. u.at = "check" /\ UNCHANGED imported /\ thread' = [thread EXCEPT ![t] = Free]
      BY <1>4, <1>12 DEF Check
    <2>3. PICK k \in {0, 1} : reports' = [reports EXCEPT ![c] = @ + k] /\ (k = 1 => imported[c] = NumRowsSent(c))
      <3>1. CASE imported[c] = NumRowsSent(c)
        <4>1. reports' = [reports EXCEPT ![c] = @ + 1]
          BY <1>4, <1>5, <1>12, <3>1 DEF Check
        <4> QED BY <3>1, <4>1
      <3>2. CASE imported[c] # NumRowsSent(c)
        <4>1. reports' = [reports EXCEPT ![c] = @ + 0]
          BY <1>4, <1>5, <1>12, <3>2 DEF Check
        <4> QED BY <3>2, <4>1
      <3> QED BY <3>1, <3>2
    <2>4. Free.at = "free"
      BY DEF Free
    <2>5. UpdateInv' /\ AddsApart' /\ AddedRows' \subseteq AddedRows
      BY <1>1, <1>3, <2>2, <2>4, ThreadLeaves
    <2>6. Apart' /\ Uncounted' \subseteq Uncounted
      BY <1>1, <1>2, <1>3, <2>5 DEF Apart, Uncounted
    <2>7. \A d \in Chunks : Cardinality(Counted(d)) <= Cardinality(Counted(d)')
      BY <1>3, <2>6, CountedGrows
    <2>8. CountInv'
      <3>1. \A d \in Chunks : imported'[d] <= Cardinality(Counted(d)')
        <4> SUFFICES ASSUME NEW d \in Chunks PROVE imported'[d] <= Cardinality(Counted(d)')
          OBVIOUS
        <4>1. imported'[d] = imported[d] /\ imported[d] \in Nat /\ imported[d] <= Cardinality(Counted(d))
          BY <1>1, <1>8, <2>2 DEF CountInv
        <4> QED BY <1>7, <2>7, <4>1
      <3>2. ASSUME NEW x \in Threads, NEW d \in Chunks, thread'[x].at = "store", thread'[x].chunk = d
            PROVE  thread'[x].read <= Cardinality(Counted(d)')
        <4>1. thread'[x] = thread[x]
          BY <2>1, <2>4, <3>2
        <4>2. thread[x].read <= Cardinality(Counted(d)) /\ thread[x].read \in Nat
          BY <1>1, <1>8, <3>2, <4>1 DEF CountInv
        <4> QED BY <1>7, <2>7, <4>1, <4>2
      <3> QED BY <3>1, <3>2 DEF CountInv
    <2>9. ReportInv'
      <3>1. Cardinality(Checkers(c)') = Cardinality(Checkers(c)) - 1
        <4>1. t \in Checkers(c) /\ Checkers(c)' = Checkers(c) \ {t}
          BY <1>4, <1>5, <2>1, <2>2, <2>4 DEF Checkers
        <4> QED BY <1>9, <4>1, FS_RemoveElement
      <3>2. \A d \in Chunks \ {c} : Checkers(d)' = Checkers(d) /\ reports'[d] = reports[d]
        BY <1>4, <1>5, <1>8, <2>1, <2>3, <2>4 DEF Checkers
      <3>3. ASSUME NEW d \in Chunks
            PROVE  /\ reports'[d] > 0 => imported'[d] = NumRowsSent(d)
                   /\ reports'[d] + Cardinality(Checkers(d)') <= Cardinality(Threads)
        <4>1. CASE d = c
          <5>1. reports'[c] = reports[c] + k /\ reports[c] \in Nat
            BY <1>8, <2>3
          <5>2. reports[c] > 0 => imported[c] = NumRowsSent(c)
            BY <1>1 DEF ReportInv
          <5>3. reports[c] + Cardinality(Checkers(c)) <= Cardinality(Threads)
            BY <1>1 DEF ReportInv
          <5> QED BY <1>9, <2>2, <2>3, <3>1, <4>1, <5>1, <5>2, <5>3
        <4>2. CASE d # c
          BY <1>1, <2>2, <3>2, <4>2 DEF ReportInv
        <4> QED BY <4>1, <4>2
      <3> QED BY <3>3 DEF ReportInv
    <2> QED BY <1>1, <1>3, <2>5, <2>6, <2>8, <2>9 DEF CountingInv, OnePlaceInv
  <1> QED BY <1>10, <1>11, <1>12

-----------------------------------------------------------------------------
(* What the parent is promised                                              *)

LEMMA CountingStep ==
    ASSUME RowsAssumption, NoDoubleAnswers, IInv, CountingInv, [Next]_vars
    PROVE  CountingInv'
  <1>1. ~ Raise /\ \A q : ~ FalseTimeout(q)
    BY SingleAnswers DEF IInv
  <1>2. CASE UNCHANGED vars
    <2>1. UNCHANGED <<inbox, main, thread, requests, imported, stored, failed, reports>>
      BY <1>2 DEF vars
    <2>2. UNCHANGED <<Chunked, MainRows, OpenRows, AddedRows, Settled>> /\ UNCHANGED Unanswered
      BY <2>1 DEF Chunked, MainRows, OpenRows, AddedRows, Settled, Unanswered, Adding
    <2>3. UpdateInv' /\ OnePlaceInv'
      BY <2>1, <2>2 DEF CountingInv, UpdateInv, Updating, OnePlaceInv, InboxOnce, Apart, BatchesApart, AddsApart, Adding
    <2>4. CountInv' /\ ReportInv'
      BY <2>1, <2>2, CountsKept DEF CountingInv, IInv, Uncounted
    <2> QED BY <2>3, <2>4 DEF CountingInv
  <1>3. CASE MainStep
    BY <1>3, MainMoves, MainCounts DEF MainStep
  <1>4. CASE UpdateChunk
    BY <1>4, UpdateCounts DEF UpdateChunk
  <1>5. \A t \in Threads : \A q \in requests :
            ResultCallback(t, q) \/ ErrCallback(t, q) \/ Apply(q) \/ TimerSends(q) => CountingInv'
    BY CallbackCounts
  <1>6. \A t \in Threads : Attach(t) => CountingInv'
    BY CallbackCounts
  <1>7. \A q \in requests : Apply(q) \/ TimerSends(q) => CountingInv'
    BY <1>5 DEF Threads
  <1>8. CASE Fault
    BY <1>1, <1>5, <1>8, MainCounts DEF Fault
  <1> QED BY <1>2, <1>3, <1>4, <1>5, <1>6, <1>7, <1>8 DEF Next, Answer

LEMMA AlwaysCounting == ASSUME RowsAssumption, NoDoubleAnswers PROVE Spec => [](IInv /\ CountingInv)
  <1>1. ASSUME Init PROVE CountingInv
    <2>1. Unanswered = {} /\ OpenRows = {} /\ AddedRows = {} /\ MainRows = {}
      BY <1>1 DEF Init, Unanswered, OpenRows, AddedRows, Adding, Free, MainRows
    <2>2. UpdateInv /\ OnePlaceInv
      BY <1>1, <2>1 DEF Init, RowsAssumption, UpdateInv, Updating, Free, OnePlaceInv, InboxOnce, Apart,
            BatchesApart, AddsApart, Adding
    <2>3. \A c : IsFiniteSet(Counted(c)) /\ Cardinality(Counted(c)) \in Nat
      <3>1. \A c : Counted(c) \subseteq Rows
        BY DEF Counted, RowsOf
      <3> QED BY <3>1, FS_Subset, FS_CardinalityType DEF RowsAssumption
    <2>4. CountInv
      BY <1>1, <2>3 DEF Init, CountInv, Free
    <2>5. \A c : Checkers(c) = {}
      BY <1>1 DEF Init, Checkers, Free
    <2>6. \A c : Cardinality(Checkers(c)) = 0
      BY <2>5, FS_EmptySet
    <2>7. ReportInv
      BY <1>1, <2>6, ThreadsCount DEF Init, ReportInv
    <2> QED BY <2>2, <2>4, <2>7 DEF CountingInv
  <1>2. IInv /\ CountingInv /\ [Next]_vars => CountingInv'
    BY CountingStep
  <1> QED BY <1>1, <1>2, Always, PTL DEF Spec

\* Threads that race for chunk['imported'] lose counts, but make none: a chunk
\* has counted only rows that are stored or reported.
THEOREM NoCountInvented ==
    ASSUME RowsAssumption, NoDoubleAnswers PROVE Spec => []CountsOnlySettledRows
  <1>1. IInv /\ CountingInv => CountsOnlySettledRows
    <2> SUFFICES ASSUME IInv, CountingInv, NEW c \in Chunks
                 PROVE  imported[c] <= Cardinality(RowsOf(c) \cap Settled)
      BY DEF CountsOnlySettledRows
    <2>1. imported[c] <= Cardinality(Counted(c)) /\ imported[c] \in Nat
      BY DEF CountingInv, CountInv, IInv, TypeOK
    <2>2. Counted(c) \subseteq RowsOf(c) \cap Settled /\ RowsOf(c) \cap Settled \subseteq Rows
      BY DEF Counted, RowsOf
    <2>3. IsFiniteSet(RowsOf(c) \cap Settled)
      BY <2>2, FS_Subset DEF RowsAssumption
    <2>4. /\ Cardinality(Counted(c)) <= Cardinality(RowsOf(c) \cap Settled)
          /\ Cardinality(Counted(c)) \in Nat /\ Cardinality(RowsOf(c) \cap Settled) \in Nat
      BY <2>2, <2>3, FS_Subset, FS_CardinalityType
    <2> QED BY <2>1, <2>4
  <1> QED BY <1>1, AlwaysCounting, PTL

\* A step settles rows, or reports a chunk all of whose rows are settled.
LEMMA PromiseStep ==
    ASSUME RowsAssumption, IInv, IInv', CountingInv, [Next]_vars
    PROVE  \/ UNCHANGED reports /\ Settled \subseteq Settled' /\ Settled' \subseteq Rows
           \/ /\ UNCHANGED Settled
              /\ \E c \in Chunks, t \in Threads :
                  /\ RowsOf(c) \subseteq Settled /\ t \in Checkers(c)
                  /\ reports' = [reports EXCEPT ![c] = @ + 1]
  <1>1. TypeOK /\ TypeOK'
    BY DEF IInv
  <1>2. Settled' \subseteq Rows
    BY <1>1 DEF TypeOK, Settled
  <1>3. ASSUME NEW t \in Threads, Check(t)
        PROVE  \/ UNCHANGED <<reports, Settled>>
               \/ /\ UNCHANGED Settled
                  /\ \E c \in Chunks : /\ RowsOf(c) \subseteq Settled /\ t \in Checkers(c)
                                       /\ reports' = [reports EXCEPT ![c] = @ + 1]
    <2>1. PICK c \in Chunks : c = thread[t].chunk
      BY <1>1, <1>3, ThreadTypes DEF Check, Updating, Updates
    <2>2. UNCHANGED Settled /\ t \in Checkers(c)
      BY <1>3, <2>1 DEF Check, Settled, Checkers
    <2>3. CASE imported[c] = NumRowsSent(c)
      <3>1. reports' = [reports EXCEPT ![c] = @ + 1]
        BY <1>3, <2>1, <2>3 DEF Check
      <3>2. Cardinality(RowsOf(c)) <= Cardinality(Counted(c))
        BY <2>3 DEF CountingInv, CountInv, NumRowsSent
      <3>3. Counted(c) \subseteq RowsOf(c) /\ IsFiniteSet(RowsOf(c))
        BY FS_Subset DEF Counted, RowsOf, RowsAssumption
      <3>4. /\ Cardinality(Counted(c)) <= Cardinality(RowsOf(c))
            /\ Cardinality(Counted(c)) \in Nat /\ Cardinality(RowsOf(c)) \in Nat
        BY <3>3, FS_Subset, FS_CardinalityType
      <3>5. Cardinality(Counted(c)) = Cardinality(RowsOf(c))
        BY <3>2, <3>4
      <3>6. Counted(c) = RowsOf(c)
        BY <3>3, <3>5, FS_Subset
      <3> QED BY <2>2, <3>1, <3>6 DEF Counted
    <2>4. CASE imported[c] # NumRowsSent(c)
      <3>1. reports' = [reports EXCEPT ![c] = @ + 0]
        BY <1>3, <2>1, <2>4 DEF Check
      <3>2. reports[c] + 0 = reports[c]
        BY <1>1 DEF TypeOK
      <3> QED BY <1>1, <2>2, <3>1, <3>2 DEF TypeOK
    <2> QED BY <2>3, <2>4
  <1>4. CASE \A t \in Threads : ~ Check(t)
    <2>1. UNCHANGED reports /\ stored \subseteq stored' /\ failed \subseteq failed'
      BY <1>4 DEF Next, MainStep, UpdateChunk, Answer, Fault, vars, Load, Store, Receive, ConvertRows, SplitIntoBatches,
            EndChunk, ReportGroup, SendBatch, MakeStatementFails, Raise, ResultCallback, ErrCallback, GiveUp, Retry,
            FalseTimeout, TimerSends, Attach, Apply
    <2> QED BY <1>2, <2>1 DEF Settled
  <1> QED BY <1>2, <1>3, <1>4

\* A worker keeps what it promises to the parent (module ChunkWork) even when
\* its threads race: rows stay settled, and a chunk is reported only after all
\* its rows are, at most once by each thread.
THEOREM RacyPromiseKept == ASSUME RowsAssumption, NoDoubleAnswers PROVE Spec => RacyPromise!Spec
  <1>1. Init => RacyPromise!Init
    BY DEF Init, RacyPromise!Init, Settled, Chunks, RacyPromise!Chunks
  <1>2. IInv /\ IInv' /\ CountingInv /\ [Next]_vars => [RacyPromise!Next]_RacyPromise!chunkVars
    <2> SUFFICES ASSUME IInv, IInv', CountingInv, [Next]_vars
                 PROVE  RacyPromise!Next \/ UNCHANGED RacyPromise!chunkVars
      OBVIOUS
    <2>1. CASE UNCHANGED reports /\ Settled \subseteq Settled' /\ Settled' \subseteq Rows
      <3>1. RacyPromise!Settle(Settled')
        BY <2>1 DEF RacyPromise!Settle
      <3> QED BY <2>1, <3>1 DEF RacyPromise!Next
    <2>2. ASSUME NEW c \in Chunks, NEW t \in Threads, UNCHANGED Settled,
                 RowsOf(c) \subseteq Settled, t \in Checkers(c), reports' = [reports EXCEPT ![c] = @ + 1]
          PROVE  RacyPromise!Next
      <3>1. reports[c] \in Nat /\ reports[c] + Cardinality(Checkers(c)) <= Cardinality(Threads)
        BY DEF IInv, TypeOK, CountingInv, ReportInv
      <3>2. Checkers(c) \subseteq Threads
        BY DEF Checkers
      <3>3. IsFiniteSet(Checkers(c)) /\ Cardinality(Checkers(c)) \in Nat /\ Cardinality(Threads) = 3
        BY <3>2, ThreadsCount, FS_Subset, FS_CardinalityType
      <3>4. Cardinality(Checkers(c)) # 0
        BY <2>2, <3>3, FS_EmptySet
      <3>5. reports[c] < Cardinality(Threads)
        BY <3>1, <3>3, <3>4
      <3>6. RacyPromise!Report(c)
        BY <2>2, <3>5 DEF RacyPromise!Report, RacyPromise!RowsOf, RowsOf
      <3> QED BY <3>6 DEF RacyPromise!Next, RacyPromise!Chunks, Chunks
    <2> QED BY <2>1, <2>2, PromiseStep
  <1> QED BY <1>1, <1>2, AlwaysCounting, PTL DEF Spec, RacyPromise!Spec

=============================================================================
