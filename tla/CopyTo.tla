------------------------------- MODULE CopyTo -------------------------------
(***************************************************************************)
(* COPY TO: the parent (ExportTask) hands each range of tokens to one of    *)
(* its worker processes (ExportProcess); a worker queries several ranges at *)
(* once, page by page, and sends each page, and at last the end of the      *)
(* range, through the queue to the parent, which writes pages to the file   *)
(* and counts ends until it has as many as ranges.                          *)
(*                                                                         *)
(* A page is answered on the driver's event loop, one thread of the worker, *)
(* or, when the answer is there before its callback is attached, on the     *)
(* worker's own thread.  result_callback asks for the next page first and   *)
(* writes the one it has afterwards.                                        *)
(***************************************************************************)
EXTENDS Integers, Sequences, FiniteSets

CONSTANTS Ranges,       \* the ranges to export
          Pages,        \* the number of pages of each
          EmptyPages, BadPages, \* pages without a row; pages that cannot be formatted
          Workers, Hosts,
          HostsOf,      \* the hosts a range may be read from
          MaxAttempts,  \* maxattempts
          MaxRequests,  \* maxrequests
          Faults,       \* the kinds of fault that may happen
          MaxFaults     \* and how many: a bound of the model

Pill == "pill"

ExportAssumption ==
    /\ IsFiniteSet(Ranges) /\ Pill \notin Ranges /\ Pages \in [Ranges -> Nat \ {0}]
    /\ IsFiniteSet(Workers) /\ Workers = 1..Cardinality(Workers) /\ Workers # {}
    /\ HostsOf \in [Ranges -> SUBSET Hosts \ {{}}]
    /\ MaxAttempts \in Nat \ {0} /\ MaxRequests \in Nat \ {0} /\ MaxFaults \in Nat
    /\ Faults \subseteq {"error", "connect", "death", "timeout"}

VARIABLES
    info,       \* parent: attempts made, rows received and last worker of each range
    succeeded, failed,
    phase,      \* parent: "loop", "pill", "closed"
    sweep,      \* parent: the workers whose messages the current select found
    file,       \* how often each page was written
    work,       \* the queue and pipe to each worker
    results,    \* the queue and pipe from each worker
    alive,      \* the workers that run
    sessions,   \* requests in progress at each host a worker is connected to
    requests,   \* the queries started: where each is answered and what page is asked
    main, loop, \* what the two threads of a worker are doing
    faults
parentVars == <<info, succeeded, failed, phase, sweep, file>>
workerVars == <<alive, sessions, requests, main, loop>>
vars == <<parentVars, work, results, workerVars, faults>>

Idle == [do |-> "idle"]
Connected(w) == DOMAIN sessions[w]

(* num_requests: the sum over the hosts, as the size of a disjoint union.   *)
Places(w) == UNION {{h} \X (1..sessions[w][h]) : h \in Connected(w)}
NumRequests(w) == Cardinality(Places(w))

PagesOf(r) == 1..Pages[r]

-----------------------------------------------------------------------------
(* The parent.                                                             *)

(* send_work: round robin from the worker after the last one of the first   *)
(* range; the attempt is counted after the range is queued.                 *)
NextWorker(w) == IF w < Cardinality(Workers) THEN w + 1 ELSE 1

(* The ranges are the keys of a dictionary: they are sent in any order.      *)
Orders == {q \in [1..Cardinality(Ranges) -> Ranges] : \A i, j \in DOMAIN q : q[i] = q[j] => i = j}
WorkerOfTurn(i) == ((i - 1) % Cardinality(Workers)) + 1
EveryNth(q, w) == LET n == Cardinality(Workers)
                  IN [p \in 1..((Len(q) + n - w) \div n) |-> q[w + (p - 1) * n]]
FirstWork(q) ==
    /\ info = [r \in Ranges |-> [attempts |-> 1, rows |-> 0,
                                 worker |-> WorkerOfTurn(CHOOSE i \in DOMAIN q : q[i] = r)]]
    /\ work = [w \in Workers |-> EveryNth(q, w)]

Init ==
    /\ \E q \in Orders : FirstWork(q)
    /\ succeeded = 0 /\ failed = 0 /\ phase = "loop" /\ sweep = {}
    /\ file = [p \in UNION {{r} \X PagesOf(r) : r \in Ranges} |-> 0]
    /\ results = [w \in Workers |-> <<>>]
    /\ alive = Workers
    /\ sessions = [w \in Workers |-> <<>>]
    /\ requests = <<>>
    /\ main = [w \in Workers |-> Idle] /\ loop = [w \in Workers |-> Idle]
    /\ faults = 0

Processed == failed + succeeded >= Cardinality(Ranges)

Select == /\ phase = "loop" /\ sweep = {} /\ ~Processed /\ alive = Workers
          /\ sweep' = {w \in Workers : results[w] # <<>>}
          /\ sweep' # {}
          /\ UNCHANGED <<info, succeeded, failed, phase, file, work, results, workerVars, faults>>

Finished == succeeded' = succeeded + 1 /\ UNCHANGED <<info, failed, file, work>>

Retry(r) == LET w == NextWorker(info[r].worker)
            IN /\ info' = [info EXCEPT ![r].attempts = @ + 1, ![r].worker = w]
               /\ work' = [work EXCEPT ![w] = Append(@, r)]
               /\ UNCHANGED <<succeeded, failed, file>>

(* Mutant of GiveUp: the range is not counted.                               *)
GiveUpUncounted == UNCHANGED <<info, succeeded, failed, file, work>>
GiveUp == failed' = failed + 1 /\ UNCHANGED <<info, succeeded, file, work>>

Retryable(r) == info[r].attempts < MaxAttempts /\ info[r].rows = 0

Failed(r) == IF Retryable(r) THEN Retry(r) ELSE GiveUp

Write(r, page) == /\ file' = [file EXCEPT ![<<r, page>>] = @ + 1]
                  /\ info' = [info EXCEPT ![r].rows = @ + 1]
                  /\ UNCHANGED <<succeeded, failed, work>>

Receive(w) ==
    /\ phase = "loop" /\ w \in sweep
    /\ LET msg == Head(results[w])
       IN CASE msg.kind = "end" -> Finished
            [] msg.kind = "error" -> Failed(msg.range)
            [] msg.kind = "rows" -> Write(msg.range, msg.page)
    /\ results' = [results EXCEPT ![w] = Tail(@)]
    /\ sweep' = sweep \ {w}
    /\ UNCHANGED <<phase, workerVars, faults>>

(* The loop ends; the pill goes to the children that live.                  *)
Leave(why) ==
    /\ phase = "loop" /\ sweep = {} /\ why
    /\ phase' = "pill"
    /\ work' = [w \in Workers |-> IF w \in alive THEN Append(work[w], Pill) ELSE work[w]]
    /\ UNCHANGED <<info, succeeded, failed, sweep, file, results, workerVars>>
Done == Leave(Processed) /\ UNCHANGED faults
ChildDied == Leave(alive # Workers) /\ UNCHANGED faults
ChildTimeout == /\ "timeout" \in Faults /\ faults < MaxFaults
                /\ Leave(~Processed /\ \A w \in Workers : results[w] = <<>>)
                /\ faults' = faults + 1

(* Children that do not leave within five seconds are terminated.            *)
Close == /\ phase = "pill"
         /\ phase' = "closed" /\ alive' = {}
         /\ UNCHANGED <<info, succeeded, failed, sweep, file, work, results, sessions, requests, main, loop, faults>>

-----------------------------------------------------------------------------
(* A worker.                                                               *)

Send(w, msg) == results' = [results EXCEPT ![w] = Append(@, msg)]
Error(r) == [kind |-> "error", range |-> r]
WorkerStep == UNCHANGED <<parentVars, alive>>

(* get_session: the hosts with the fewest requests first, those without a    *)
(* session counting as none; the next one when a connection fails.           *)
Load(w, h) == IF h \in Connected(w) THEN sessions[w][h] ELSE 0
Opened(w, h) == [g \in Connected(w) \cup {h} |-> IF g = h THEN Load(w, h) + 1 ELSE sessions[w][g]]

(* Mutant of Room: one more is let in.                                        *)
RoomForOneMore(w) == NumRequests(w) <= MaxRequests + 1
Room(w) == NumRequests(w) <= MaxRequests

Take(w, r) == /\ w \in alive /\ main[w] = Idle /\ Room(w)
              /\ work[w] # <<>> /\ r = Head(work[w])
              /\ work' = [work EXCEPT ![w] = Tail(@)]
              /\ WorkerStep

StartRequest(w, r, h) ==
    /\ Take(w, r) /\ r \in Ranges /\ h \in HostsOf[r]
    /\ LET refused == {g \in HostsOf[r] : Load(w, g) < Load(w, h)}
       IN refused = {} \/ /\ "connect" \in Faults /\ faults < MaxFaults
                          /\ refused \cap Connected(w) = {}
    /\ faults' = IF \E g \in HostsOf[r] : Load(w, g) < Load(w, h) THEN faults + 1 ELSE faults
    /\ sessions' = [sessions EXCEPT ![w] = Opened(w, h)]
    /\ requests' = Append(requests, [worker |-> w, range |-> r, host |-> h, page |-> 1, open |-> TRUE,
                                   raced |-> {}])
    /\ main' = [main EXCEPT ![w] = [do |-> "attach", request |-> Len(requests) + 1]]
    /\ UNCHANGED <<results, loop>>

NoSession(w, r) ==
    /\ Take(w, r) /\ r \in Ranges
    /\ "connect" \in Faults /\ faults < MaxFaults /\ HostsOf[r] \cap Connected(w) = {}
    /\ faults' = faults + 1
    /\ Send(w, Error(r))
    /\ UNCHANGED <<sessions, requests, main, loop>>

TakePill(w) == /\ w \in alive /\ main[w] = Idle /\ Room(w)
               /\ work[w] # <<>> /\ Head(work[w]) = Pill
               /\ alive' = alive \ {w}
               /\ UNCHANGED <<parentVars, work, results, sessions, requests, main, loop, faults>>

(* An answer is a page of rows or an error.  Its callback runs on the event   *)
(* loop, or on the main thread when add_callbacks finds the answer there: it   *)
(* attaches, and may run, result_callback first and err_callback after it.     *)
Callback(n, outcome) ==
    [do |-> outcome, request |-> n, range |-> requests[n].range, page |-> requests[n].page]
Outcome(n, outcome) == /\ outcome \in {"rows", "error"}
                       /\ outcome = "error" => "error" \in Faults /\ faults < MaxFaults
                       /\ faults' = IF outcome = "error" THEN faults + 1 ELSE faults
Answered(n) == requests' = [requests EXCEPT ![n].open = FALSE]
AtErrback(n) == [do |-> "errback", request |-> n]

(* add_callback: the first page is there, or not.                              *)
AttachAnswered(w) ==
    /\ w \in alive /\ main[w].do = "attach"
    /\ Answered(main[w].request)
    /\ main' = [main EXCEPT ![w] = Callback(main[w].request, "rows")]
    /\ UNCHANGED <<work, results, sessions, loop, faults>> /\ WorkerStep
Attach(w) ==
    /\ w \in alive /\ main[w].do = "attach"
    /\ main' = [main EXCEPT ![w] = AtErrback(main[w].request)]
    /\ UNCHANGED <<work, results, sessions, requests, loop, faults>> /\ WorkerStep

(* add_errback: an error is there, of the first page or of a later one, or not. *)
ErrbackAnswered(w) ==
    /\ w \in alive /\ main[w].do = "errback" /\ requests[main[w].request].open
    /\ Outcome(main[w].request, "error")
    /\ Answered(main[w].request)
    /\ main' = [main EXCEPT ![w] = Callback(main[w].request, "error")]
    /\ UNCHANGED <<work, results, sessions, loop>> /\ WorkerStep
AttachErrback(w) ==
    /\ w \in alive /\ main[w].do = "errback"
    /\ main' = [main EXCEPT ![w] = Idle]
    /\ UNCHANGED <<work, results, sessions, requests, loop, faults>> /\ WorkerStep

Attaching(w, n) == main[w] # Idle /\ main[w].request = n
Attached(n, outcome) ==
    LET w == requests[n].worker
    IN Attaching(w, n) => outcome = "rows" /\ main[w].do # "attach"

Answer(n, outcome) ==
    LET w == requests[n].worker
    IN /\ w \in alive /\ requests[n].open /\ Attached(n, outcome) /\ loop[w] = Idle
       /\ Outcome(n, outcome)
       /\ Answered(n)
       /\ loop' = [loop EXCEPT ![w] = Callback(n, outcome)]
       /\ UNCHANGED <<work, results, sessions, main>> /\ WorkerStep

(* The steps of callback cb on thread t of worker w, "main" or "loop".         *)
Becomes(w, t, next) == IF t = "main" THEN main' = [main EXCEPT ![w] = next] /\ UNCHANGED loop
                                     ELSE loop' = [loop EXCEPT ![w] = next] /\ UNCHANGED main
Completed(w, n) == sessions' = [sessions EXCEPT ![w][requests[n].host] = @ - 1]
More(cb) == cb.page < Pages[cb.range]
Returned(t, cb) == IF t = "main" THEN AtErrback(cb.request) ELSE Idle

ErrCallback(w, t, cb) ==
    /\ cb.do = "error"
    /\ Completed(w, cb.request) /\ Send(w, Error(cb.range))
    /\ Becomes(w, t, Idle)
    /\ UNCHANGED requests

(* raced marks the pages that are written while add_callbacks runs.            *)
FetchNext(w, t, cb) ==
    /\ cb.do = "rows" /\ More(cb)
    /\ LET racing == IF Attaching(w, cb.request) THEN {cb.page} ELSE {}
       IN requests' = [requests EXCEPT ![cb.request].page = @ + 1, ![cb.request].open = TRUE,
                                       ![cb.request].raced = @ \cup racing]
    /\ Becomes(w, t, [cb EXCEPT !.do = "write"])
    /\ UNCHANGED <<sessions, results>>

(* Mutant of Complete: the end of the range is sent before its last page.      *)
CompleteEarly(w, t, cb) ==
    /\ cb.do = "rows" /\ ~More(cb)
    /\ Completed(w, cb.request) /\ Send(w, [kind |-> "end"])
    /\ Becomes(w, t, [cb EXCEPT !.do = "write"])
    /\ UNCHANGED requests
Complete(w, t, cb) ==
    /\ cb.do = "rows" /\ ~More(cb)
    /\ Completed(w, cb.request)
    /\ Becomes(w, t, [cb EXCEPT !.do = "write"])
    /\ UNCHANGED <<requests, results>>

(* write_rows_to_csv: a page that cannot be formatted is an error of its range. *)
WriteRows(w, t, cb) ==
    /\ cb.do = "write"
    /\ CASE <<cb.range, cb.page>> \in EmptyPages -> UNCHANGED results
         [] <<cb.range, cb.page>> \in BadPages -> Send(w, Error(cb.range))
         [] OTHER -> Send(w, [kind |-> "rows", range |-> cb.range, page |-> cb.page])
    /\ Becomes(w, t, IF More(cb) THEN Returned(t, cb) ELSE [cb EXCEPT !.do = "end"])
    /\ UNCHANGED <<sessions, requests>>

EndRange(w, t, cb) ==
    /\ cb.do = "end"
    /\ Send(w, [kind |-> "end"])
    /\ Becomes(w, t, Returned(t, cb))
    /\ UNCHANGED <<sessions, requests>>

CallbackStep(w, t, cb) ==
    /\ w \in alive
    /\ \/ ErrCallback(w, t, cb) \/ FetchNext(w, t, cb) \/ Complete(w, t, cb)
       \/ WriteRows(w, t, cb) \/ EndRange(w, t, cb)
    /\ UNCHANGED <<work, faults>> /\ WorkerStep
OnLoop(w) == CallbackStep(w, "loop", loop[w])
OnMain(w) == CallbackStep(w, "main", main[w])

(* A worker that is killed, or ends by an exception: what it has not put into *)
(* its pipe is lost.                                                          *)
Die(w) == /\ "death" \in Faults /\ faults < MaxFaults /\ w \in alive
          /\ faults' = faults + 1
          /\ alive' = alive \ {w}
          /\ \E n \in 0..Len(results[w]) : results' = [results EXCEPT ![w] = SubSeq(@, 1, n)]
          /\ sweep' = IF results'[w] = <<>> THEN sweep \ {w} ELSE sweep
          /\ UNCHANGED <<info, succeeded, failed, phase, file, work, sessions, requests, main, loop>>

-----------------------------------------------------------------------------
ParentStep == Select \/ (\E w \in Workers : Receive(w)) \/ Done \/ ChildDied \/ Close
MainStep(w) == \/ \E r \in Ranges, h \in Hosts : StartRequest(w, r, h)
               \/ TakePill(w) \/ AttachAnswered(w) \/ Attach(w) \/ AttachErrback(w) \/ OnMain(w)
LoopStep(w) == OnLoop(w) \/ \E n \in DOMAIN requests, o \in {"rows", "error"} : requests[n].worker = w /\ Answer(n, o)

Next == \/ ParentStep \/ ChildTimeout
        \/ \E w \in Workers : \/ MainStep(w) \/ LoopStep(w) \/ Die(w)
                              \/ \E r \in Ranges : NoSession(w, r)
                              \/ ErrbackAnswered(w)
Spec == Init /\ [][Next]_vars
(* The parent runs, the threads of a worker run, and every query is answered   *)
(* or times out.                                                               *)
FairSpec == Spec /\ WF_vars(ParentStep) /\ \A w \in Workers : WF_vars(MainStep(w)) /\ WF_vars(LoopStep(w))

-----------------------------------------------------------------------------
TypeOK ==
    /\ info \in [Ranges -> [attempts : 1..MaxAttempts, rows : Nat, worker : Workers]]
    /\ succeeded \in Nat /\ failed \in Nat /\ phase \in {"loop", "pill", "closed"}
    /\ sweep \subseteq Workers /\ alive \subseteq Workers
    /\ \A w \in Workers : Connected(w) \subseteq Hosts

(* A page is written beside the rest of its range when the next one was asked  *)
(* for (copyutil.py: attach_callbacks, "future.start_fetching_next_page()"      *)
(* before "self.write_rows_to_csv") while add_callbacks still ran: then the     *)
(* worker has two threads for the range, and the end of it, or an error, may    *)
(* overtake the page.                                                           *)
Raced(r, k) == \E n \in DOMAIN requests : requests[n].range = r /\ k \in requests[n].raced

(* A page that cannot be formatted was asked for: its range ends after its     *)
(* error, and is counted twice.                                                *)
Marred == \E n \in DOMAIN requests : \E k \in 1..requests[n].page : <<requests[n].range, k>> \in BadPages

(* export_records prints no warning exactly when succeeded reaches the number *)
(* of ranges: then every page is in the file, once, but for those that raced   *)
(* (ExportTask.export_records, "We terminate when we have processed all the    *)
(* ranges").                                                                   *)
Written(r, k) == IF <<r, k>> \in EmptyPages THEN 0 ELSE 1
CompletedMeansExported ==
    phase # "loop" /\ succeeded >= Cardinality(Ranges) /\ ~Marred =>
        \A r \in Ranges : \A k \in PagesOf(r) : Raced(r, k) \/ file[<<r, k>>] = Written(r, k)

(* A range is tried again only while nothing of it can have reached the file, *)
(* so no page is written twice, whatever fails, but for those that raced       *)
(* (export_records: "If rows were already received we'd risk duplicating       *)
(* data").                                                                     *)
NothingTwice == Marred \/ \A r \in Ranges : \A k \in PagesOf(r) : Raced(r, k) \/ file[<<r, k>>] <= 1

(* What a worker counts for throttling is what it has in progress: queries    *)
(* asked, waiting to be attached or being answered (ExportSession, inner_run;  *)
(* the test lets one query more in than maxrequests).                          *)
Counted(n) == \/ requests[n].open
              \/ LET w == requests[n].worker
                 IN \E cb \in {main[w], loop[w]} :
                      cb.do \in {"rows", "error"} /\ cb.request = n
Throttled == \A w \in Workers :
    /\ NumRequests(w) = Cardinality({n \in DOMAIN requests : requests[n].worker = w /\ Counted(n)})
    /\ NumRequests(w) <= MaxRequests + 1

=============================================================================
