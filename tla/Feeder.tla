------------------------------- MODULE Feeder -------------------------------
(***************************************************************************)
(* The feeder of COPY FROM: it reads rows, from files one after the other   *)
(* (FilesReader) or from the pipe its parent fills from STDIN (PipeReader), *)
(* leaves out headers, the first SKIPROWS and what is beyond MAXROWS, and   *)
(* sends chunks no faster than INGESTRATE, which a RateMeter measures.      *)
(*                                                                         *)
(* CopyFrom says what becomes of the chunks.                                *)
(***************************************************************************)
EXTENDS Integers, Sequences, SequencesExt

CONSTANTS Stdin,        \* whether rows come from STDIN
          None, End,    \* no source, no exception; the None that ends STDIN
          Missing,      \* a name no file matches
          Inputs,       \* the inputs to choose from: files, each its lines; one of
                        \* them for STDIN
          Header, MaxRows, SkipRows, ChunkSize, IngestRate,  \* options of the command
          Interval      \* how long the meter counts before it starts again

FeederAssumption ==
    /\ Stdin \in BOOLEAN /\ Header \in BOOLEAN /\ MaxRows \in Int /\ SkipRows \in Nat
    /\ None \notin {"IOError", "StopIteration"}
    /\ ChunkSize \in Nat \ {0} /\ IngestRate \in Nat \ {0} /\ Interval \in Nat \ {0}

VARIABLES input,        \* the input, as it was given
          todo,         \* sources not opened yet
          current,      \* the lines left of the current source, or None
          pipe,         \* STDIN: what the parent has sent and nobody has read
          exhausted, header, \* of the PipeReader
          numRead,
          rows, left,   \* rows of the chunk being read, and how many more it may have
          pc,           \* "start", "loop", "read", "wait" for the pill, "ended", "dead"
          sent,         \* all rows sent to workers
          errors,       \* what was reported to the parent instead
          counted, since, \* the meter: rows since it last started again, and the time
          pill          \* whether the parent has sent the poison pill
source == <<todo, current, pipe, exhausted, header, numRead>>
meter == <<counted, since>>
vars == <<input, source, rows, left, pc, sent, errors, meter, pill>>

Init ==
    /\ input \in Inputs
    /\ todo = (IF Stdin THEN <<>> ELSE input)
    /\ pipe = (IF Stdin THEN Append(input[1], End) ELSE <<>>)
    /\ current = None /\ exhausted = FALSE /\ header = Header
    /\ numRead = 0 /\ rows = <<>> /\ left = 0 /\ pc = "start" /\ sent = <<>> /\ errors = <<>>
    /\ counted = 0 /\ since = 0 /\ pill = FALSE

-----------------------------------------------------------------------------
(* next_source: the current source, the ones left, and what it raises.  A    *)
(* generator that raises is over.  The header of an empty file is not there. *)
NextSource(ss) ==
    CASE ss = <<>> -> [current |-> None, todo |-> <<>>, raises |-> None]
      [] ss # <<>> /\ Head(ss) = Missing -> [current |-> None, todo |-> <<>>, raises |-> "IOError"]
      [] ss # <<>> /\ Head(ss) # Missing /\ Header /\ Head(ss) = <<>> ->
            [current |-> <<>>, todo |-> Tail(ss), raises |-> "StopIteration"]
      [] OTHER -> [current |-> IF Header THEN Tail(Head(ss)) ELSE Head(ss), todo |-> Tail(ss), raises |-> None]

Take(next) == current' = next.current /\ todo' = next.todo

(* start: only an IOError is caught; any other ends the process.             *)
Start ==
    /\ pc = "start" /\ ~Stdin
    /\ LET next == NextSource(todo)
       IN /\ Take(next)
          /\ pc' = IF next.raises = "StopIteration" THEN "dead" ELSE "loop"
          /\ errors' = IF next.raises = "IOError" THEN Append(errors, "IOError") ELSE errors
    /\ UNCHANGED <<input, pipe, exhausted, header, numRead, rows, left, sent, meter, pill>>

StartPipe == /\ pc = "start" /\ Stdin
             /\ pc' = "loop"
             /\ UNCHANGED <<input, source, rows, left, sent, errors, meter, pill>>

-----------------------------------------------------------------------------
Exhausted == IF Stdin THEN exhausted ELSE current = None

(* RateMeter.maybe_update: after the interval it starts again.               *)
Updated(n) == IF n > 0 /\ since = Interval THEN counted' = 0 /\ since' = 0 ELSE counted' = n /\ UNCHANGED since
Tick == /\ since < Interval /\ since' = since + 1
        /\ UNCHANGED <<input, source, rows, left, pc, sent, errors, counted, pill>>

Room == IngestRate - counted

Wait == /\ pc = "loop" /\ ~Exhausted /\ Room <= 0
        /\ Updated(counted)
        /\ UNCHANGED <<input, source, rows, left, pc, sent, errors, pill>>

Begin == /\ pc = "loop" /\ ~Exhausted /\ Room > 0
         /\ left' = IF Room < ChunkSize THEN Room ELSE ChunkSize
         /\ rows' = <<>> /\ pc' = "read"
         /\ UNCHANGED <<input, source, sent, errors, meter, pill>>

(* The rows are returned and sent, or the exception leaves with them.         *)
SendChunk(rs) == /\ sent' = sent \o rs
                 /\ IF rs = <<>> THEN UNCHANGED meter ELSE Updated(counted + Len(rs))
                 /\ pc' = "loop" /\ rows' = <<>> /\ left' = 0
Return(rs) == SendChunk(rs) /\ UNCHANGED errors
Raise(e) == SendChunk(<<>>) /\ errors' = Append(errors, e)
Conclude(next) == /\ Take(next)
                  /\ IF next.raises = None THEN Return(rows) ELSE Raise(next.raises)

Reading == pc = "read" /\ UNCHANGED <<input, pill>>
Beyond == MaxRows >= 0 /\ numRead + 1 > MaxRows

ChunkFull == /\ Reading /\ left = 0
             /\ Return(rows)
             /\ UNCHANGED source

(* Mutant of KeepLine: one line more is skipped.                              *)
KeepLineAfter(line) == rows' = (IF numRead > SkipRows THEN Append(rows, line) ELSE rows)
KeepLine(line) == rows' = (IF numRead + 1 > SkipRows THEN Append(rows, line) ELSE rows)

ReadLine ==
    /\ Reading /\ left > 0 /\ ~Stdin /\ current # <<>> /\ ~Beyond
    /\ KeepLine(Head(current))
    /\ current' = Tail(current) /\ numRead' = numRead + 1 /\ left' = left - 1
    /\ UNCHANGED <<todo, pipe, exhausted, header, pc, sent, errors, meter>>

(* The line beyond the last is read and dropped.  A header that is not there  *)
(* is caught here, as the end of the file.                                    *)
BeyondLast ==
    /\ Reading /\ left > 0 /\ ~Stdin /\ current # <<>> /\ Beyond
    /\ numRead' = numRead + 1
    /\ LET next == NextSource(todo)
       IN Conclude(IF next.raises = "StopIteration" THEN NextSource(next.todo) ELSE next)
    /\ UNCHANGED <<pipe, exhausted, header>>

EndOfSource ==
    /\ Reading /\ left > 0 /\ ~Stdin /\ current = <<>>
    /\ Conclude(NextSource(todo))
    /\ UNCHANGED <<pipe, exhausted, header, numRead>>

(* PipeReader.read_rows: the header and the rows before SKIPROWS.             *)
PipeSkips == header \/ numRead + 1 < SkipRows

ReadPipe ==
    /\ Reading /\ left > 0 /\ Stdin /\ pipe # <<>> /\ Head(pipe) # End /\ ~Beyond
    /\ pipe' = Tail(pipe) /\ numRead' = numRead + 1 /\ left' = left - 1
    /\ header' = (header /\ ~PipeSkips)
    /\ rows' = IF PipeSkips THEN rows ELSE Append(rows, Head(pipe))
    /\ UNCHANGED <<todo, current, exhausted, pc, sent, errors, meter>>

EndOfPipe ==
    /\ Reading /\ left > 0 /\ Stdin /\ pipe # <<>> /\ (Head(pipe) = End \/ Beyond)
    /\ pipe' = Tail(pipe) /\ exhausted' = TRUE
    /\ numRead' = IF Head(pipe) = End THEN numRead ELSE numRead + 1
    /\ Return(rows)
    /\ UNCHANGED <<todo, current, header>>

(* The result goes to the parent, and the next message is waited for.         *)
Report == /\ pc = "loop" /\ Exhausted
          /\ pc' = "wait"
          /\ UNCHANGED <<input, source, rows, left, sent, errors, meter, pill>>

SendPill == /\ pc = "wait" /\ ~pill
            /\ pill' = TRUE /\ pipe' = Append(pipe, End)
            /\ UNCHANGED <<input, todo, current, exhausted, header, numRead, rows, left, pc, sent, errors, meter>>

TakePill == /\ pc = "wait" /\ pipe # <<>>
            /\ pipe' = Tail(pipe) /\ pc' = "ended"
            /\ UNCHANGED <<input, todo, current, exhausted, header, numRead, rows, left, sent, errors, meter, pill>>

-----------------------------------------------------------------------------
FeederStep == \/ Start \/ StartPipe \/ Wait \/ Begin \/ ChunkFull \/ ReadLine \/ BeyondLast
              \/ EndOfSource \/ ReadPipe \/ EndOfPipe \/ Report \/ TakePill
Next == FeederStep \/ Tick \/ SendPill
Spec == Init /\ [][Next]_vars
(* The feeder runs, time passes, and a parent that has the result sends the   *)
(* pill.                                                                      *)
FairSpec == Spec /\ WF_vars(FeederStep) /\ WF_vars(Tick) /\ WF_vars(SendPill)

TypeOK == /\ pc \in {"start", "loop", "read", "wait", "ended", "dead"}
          /\ numRead \in Nat /\ left \in 0..ChunkSize /\ Len(rows) <= ChunkSize
          /\ counted \in Nat /\ since \in 0..Interval

(* The rows the command asks for: those of the files that can be read, without *)
(* headers, after the first SKIPROWS and up to the MAXROWS-th.                 *)
Body(file) == IF Header /\ file # <<>> THEN Tail(file) ELSE file
Lines == FlattenSeq([k \in DOMAIN input |-> IF input[k] = Missing THEN <<>> ELSE Body(input[k])])
Wanted == SubSeq(Lines, SkipRows + 1, IF MaxRows >= 0 /\ MaxRows < Len(Lines) THEN MaxRows ELSE Len(Lines))

(* When the feeder reports that it has sent all rows, it has sent the rows the *)
(* command asks for, in order: whatever the chunks, the rate and the sizes of  *)
(* the files ("We generate a source generator and we read each source one by   *)
(* one").                                                                      *)
Unopened == \E k \in DOMAIN input : input[k] = Missing
SentIsWanted == pc \in {"wait", "ended"} /\ ~Unopened => sent = Wanted

(* A source that cannot be opened is reported.  It takes with it the chunk that *)
(* was being read and the sources after it, not what came before               *)
(* (FilesReader.next_source: the generator of sources is over once it raises).  *)
ReadBefore == LET first == CHOOSE k \in DOMAIN input : input[k] = Missing /\ \A j \in 1..(k - 1) : input[j] # Missing
              IN FlattenSeq([k \in 1..(first - 1) |-> Body(input[k])])
CutShort == pc \in {"wait", "ended"} /\ Unopened =>
    LET last == SkipRows + Len(sent)
    IN /\ errors = <<"IOError">>
       /\ sent = SubSeq(ReadBefore, SkipRows + 1, last)
       /\ last + ChunkSize > IF MaxRows >= 0 /\ MaxRows < Len(ReadBefore) THEN MaxRows ELSE Len(ReadBefore)

(* No more than INGESTRATE rows are sent before the meter starts again.         *)
RateKept == counted + Len(rows) <= IngestRate

FeederEnds == <>(pc = "ended")
=============================================================================
