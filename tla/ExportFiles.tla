---------------------------- MODULE ExportFiles -----------------------------
(***************************************************************************)
(* The files of COPY TO: ExportWriter writes the pages the parent receives  *)
(* to one file, or, when MAXOUTPUTSIZE is given and the output is not       *)
(* STDOUT, to as many files as it takes.  A page comes as one text and a    *)
(* count of its rows, one line each: format_value_text leaves no line break *)
(* in a field.                                                              *)
(***************************************************************************)
EXTENDS Integers, Sequences, SequencesExt

CONSTANTS PageSizes,    \* the numbers of rows a page may have
          MaxOutputSize,\* maxoutputsize; not positive: no limit
          ToFile,       \* FALSE: to STDOUT
          Header,       \* whether the names of the columns come first
          MaxRows,      \* rows exported: a bound of the model
          OpenFails     \* whether a file may fail to open

FilesAssumption == /\ MaxOutputSize \in Int /\ PageSizes \subseteq Nat \ {0} /\ MaxRows \in Nat
                   /\ {ToFile, Header, OpenFails} \subseteq BOOLEAN

VARIABLES phase,        \* "new", "open", "split", "closed", "refused" or "raised"
          files,        \* the files, or STDOUT: sequences of lines
          numWritten,   \* num_written: rows in the current file
          received,     \* how many rows came, which are numbered in that order
          page          \* the page being split: its lines, their index, the rows it
                        \* has, num_remaining and last_switch
vars == <<phase, files, numWritten, received, page>>

NoPage == [lines |-> <<>>, i |-> 0, num |-> 0, remaining |-> 0, lastSwitch |-> 0]

Init == /\ phase = "new" /\ files = <<>> /\ numWritten = 0
        /\ received = 0 /\ page = NoPage

Heading == 0

(* open: the header goes to the first file only, and is not counted.          *)
Open == /\ phase = "new"
        /\ phase' = "open"
        /\ files' = << IF Header THEN <<Heading>> ELSE <<>> >>
        /\ UNCHANGED <<numWritten, received, page>>

Refuse == /\ phase = "new" /\ ToFile /\ OpenFails
          /\ phase' = "refused"
          /\ UNCHANGED <<files, numWritten, received, page>>

(* The lines of a page of num rows that comes next.                            *)
LinesOf(num) == [k \in 1..num |-> received + k]

Arrive(num) == phase = "open" /\ received + num <= MaxRows /\ received' = received + num

Appended(lines) == [files EXCEPT ![Len(files)] = @ \o lines]

Splits == MaxOutputSize > 0 /\ ToFile
Full(num) == numWritten + num > MaxOutputSize

(* _write_without_split, and _write_with_split while the file has room.        *)
WriteWhole(num) ==
    /\ Arrive(num) /\ ~(Splits /\ Full(num))
    /\ files' = Appended(LinesOf(num))
    /\ numWritten' = IF Splits THEN numWritten + num ELSE numWritten
    /\ UNCHANGED <<phase, page>>

(* The loop of _write_with_split goes over the lines of the page.              *)
BeginSplit(num) ==
    /\ Arrive(num) /\ Splits /\ Full(num)
    /\ phase' = "split"
    /\ page' = [lines |-> LinesOf(num), i |-> 0, num |-> num,
                remaining |-> MaxOutputSize - numWritten, lastSwitch |-> 0]
    /\ UNCHANGED <<files, numWritten>>

Turn == phase = "split" /\ page.i < Len(page.lines)
Line == <<page.lines[page.i + 1]>>

WriteLine ==
    /\ Turn /\ page.i # page.remaining
    /\ files' = Appended(Line)
    /\ page' = [page EXCEPT !.i = @ + 1]
    /\ UNCHANGED <<phase, numWritten, received>>

(* Mutant of WriteToNext: the line that opens a file is not written.           *)
OpenNextOnly ==
    /\ Turn /\ page.i = page.remaining
    /\ files' = Append(files, <<>>)
    /\ page' = [page EXCEPT !.i = @ + 1, !.remaining = @ + MaxOutputSize, !.lastSwitch = page.i]
    /\ UNCHANGED <<phase, numWritten, received>>
(* _next_dest: the current file is closed and the next one opened.             *)
WriteToNext ==
    /\ Turn /\ page.i = page.remaining
    /\ files' = Append(files, Line)
    /\ page' = [page EXCEPT !.i = @ + 1, !.remaining = @ + MaxOutputSize, !.lastSwitch = page.i]
    /\ UNCHANGED <<phase, numWritten, received>>

(* It cannot be opened: there is no file to write to, and the write raises.    *)
Raise == /\ Turn /\ page.i = page.remaining /\ OpenFails
         /\ phase' = "raised"
         /\ UNCHANGED <<files, numWritten, received, page>>

EndSplit == /\ phase = "split" /\ page.i = Len(page.lines)
            /\ phase' = "open" /\ page' = NoPage /\ numWritten' = page.num - page.lastSwitch
            /\ UNCHANGED <<files, received>>

Close == /\ phase = "open" /\ phase' = "closed"
         /\ UNCHANGED <<files, numWritten, received, page>>

Next == \/ Open \/ Refuse \/ WriteLine \/ WriteToNext \/ Raise \/ EndSplit \/ Close
        \/ \E num \in PageSizes : WriteWhole(num) \/ BeginSplit(num)
Spec == Init /\ [][Next]_vars

-----------------------------------------------------------------------------
(* The files, one after the other, are the header and then the pages in the   *)
(* order they came: no line is lost, doubled or moved by the splitting         *)
(* (_write_with_split: "split the rows between the current destination and     *)
(* the next").                                                                 *)
Rest == SubSeq(page.lines, page.i + 1, Len(page.lines))
LinesKept ==
    phase \in {"open", "split", "closed"} =>
        FlattenSeq(files) \o Rest = (IF Header THEN <<Heading>> ELSE <<>>) \o [k \in 1..received |-> k]

(* Between pages each file but the last holds exactly as many rows as a file   *)
(* may, and the last no more; the header comes on top of them.                 *)
RowsIn(k) == Len(files[k]) - IF Header /\ k = 1 THEN 1 ELSE 0
FilesFilled ==
    Splits /\ phase \in {"open", "closed"} =>
        /\ \A k \in 1..(Len(files) - 1) : RowsIn(k) = MaxOutputSize
        /\ RowsIn(Len(files)) = numWritten /\ numWritten <= MaxOutputSize
=============================================================================
