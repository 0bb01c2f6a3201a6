----------------------------- MODULE Statements -----------------------------
(***************************************************************************)
(* How the shell cuts its input into statements: cmdloop adds each line to   *)
(* the text read so far and runs the statements once the last one is         *)
(* complete.  A text is a sequence of items: words, ";", the end of a line,  *)
(* a quote, the begin of a comment, and a character no rule knows.  What is   *)
(* between two quotes is one token, and a comment takes the end of its line. *)
(***************************************************************************)
EXTENDS Integers, Sequences, SequencesExt

CONSTANTS Lines,        \* the lines a user may type, without their end
          Mode,         \* "tty", "file" or "execute": the text of -e
          MaxLines      \* lines typed: a bound of the model

OneLiners == {"help", "exit"}   \* commands_end_with_newline
EndTokens == {";", "end"}
StatementsAssumption == Mode \in {"tty", "file", "execute"} /\ MaxLines \in Nat

VARIABLES phase,        \* "read", "run" or "done"
          buffer,       \* self.statement
          settled,      \* all the text handed to onecmd and handled
          running,      \* the statements of onecmd still to run
          log,          \* those it ran, and those Ctrl-C kept it from running
          prompt,       \* "fresh", "continue" or "hint"
          emptyLines,
          stop,
          typed,        \* how many lines were read
          ended         \* the last line of the file had no end
vars == <<phase, buffer, settled, running, log, prompt, emptyLines, stop, typed, ended>>

-----------------------------------------------------------------------------
(* lex                                                                         *)
LexItem(acc, c) ==
    CASE acc.within = "quote" ->
            IF c = "'" THEN [acc EXCEPT !.within = "text", !.tokens = Append(@, "string")] ELSE acc
      [] acc.within = "comment" -> IF c = "nl" THEN [acc EXCEPT !.within = "text"] ELSE acc
      [] acc.within = "text" ->
            CASE c = "'" -> [acc EXCEPT !.within = "quote"]
              [] c = "--" -> [acc EXCEPT !.within = "comment"]
              [] c = "?" -> [acc EXCEPT !.bad = TRUE]
              [] OTHER -> [acc EXCEPT !.tokens = Append(@, c)]
Lex(text) ==
    LET acc == FoldLeft(LexItem, [tokens |-> <<>>, within |-> "text", bad |-> FALSE], text)
    IN  [bad |-> acc.bad, tokens |-> acc.tokens \o IF acc.within = "quote" THEN <<"unclosed">> ELSE <<>>]

(* cql_massage_tokens: the end of a line ends a command that may have no ";".   *)
MassageToken(acc, t) ==
    CASE t = "nl" /\ ~acc.termOnNl -> acc
      [] t = "nl" /\ acc.termOnNl -> [output |-> Append(acc.output, "end"), first |-> TRUE, termOnNl |-> FALSE]
      [] t = ";" -> [output |-> Append(acc.output, t), first |-> TRUE, termOnNl |-> FALSE]
      [] OTHER -> [output |-> Append(acc.output, t), first |-> FALSE,
                   termOnNl |-> IF acc.first THEN t \in OneLiners ELSE acc.termOnNl]
Massage(tokens) == FoldLeft(MassageToken, [output |-> <<>>, first |-> TRUE, termOnNl |-> FALSE], tokens).output

SplitList(tokens) ==
    FoldLeft(LAMBDA acc, t : LET grown == [acc EXCEPT ![Len(acc)] = Append(@, t)]
                             IN  IF t \in EndTokens THEN Append(grown, <<>>) ELSE grown,
             << <<>> >>, tokens)

(* cql_split_statements: a batch is one statement, to its APPLY.               *)
JoinBatch(acc, stmt) ==
    [output |-> IF acc.inBatch THEN [acc.output EXCEPT ![Len(acc.output)] = @ \o stmt] ELSE Append(acc.output, stmt),
     inBatch |-> CASE Len(stmt) > 2 /\ stmt[Len(stmt) - 2] = "apply" -> FALSE
                   [] Len(stmt) > 2 /\ stmt[Len(stmt) - 2] # "apply" /\ stmt[1] = "begin" -> TRUE
                   [] OTHER -> acc.inBatch]
SplitStatements(text) ==
    LET acc == FoldLeft(JoinBatch, [output |-> <<>>, inBatch |-> FALSE], SplitList(Massage(Lex(text).tokens)))
        Used(k) == acc.output[k] # <<>>
        last == CHOOSE n \in 0..Len(acc.output) :
                    (n = 0 \/ Used(n)) /\ \A k \in (n + 1)..Len(acc.output) : ~Used(k)
    IN  [statements |-> SubSeq(acc.output, 1, last), escaped |-> acc.inBatch]

(* Mutant of Complete: a batch that is not applied counts as complete.         *)
CompleteInBatch(text) == LET split == SplitStatements(text) IN
                         split.statements # <<>> => Last(Last(split.statements)) \in EndTokens
(* onecmd: nothing at all, or the last statement has its end.                  *)
Complete(text) == LET split == SplitStatements(text) IN
                  split.statements # <<>> => ~split.escaped /\ Last(Last(split.statements)) \in EndTokens

-----------------------------------------------------------------------------
Init == /\ phase = "read" /\ buffer = <<>> /\ settled = <<>> /\ running = <<>> /\ log = <<>>
        /\ prompt = "fresh" /\ emptyLines = 0 /\ stop = FALSE /\ typed = 0 /\ ended = FALSE

ResetStatement == prompt' = "fresh" /\ buffer' = <<>> /\ emptyLines' = 0

SetContinuePrompt(line) ==
    IF emptyLines >= 3 THEN prompt' = "hint" /\ emptyLines' = 0
    ELSE prompt' = "continue" /\ emptyLines' = IF Mode = "tty" /\ line = <<>> THEN emptyLines + 1 ELSE 0

(* onecmd for the text read so far; a LexingError is printed and ends it too.   *)
OneCmd(text, line) ==
    CASE Lex(text).bad ->
            phase' = "read" /\ ResetStatement /\ UNCHANGED <<settled, running>>
      [] ~Lex(text).bad /\ Complete(text) ->
            /\ phase' = "run" /\ running' = SplitStatements(text).statements
            /\ settled' = settled \o text /\ buffer' = text /\ UNCHANGED <<prompt, emptyLines>>
      [] OTHER ->
            phase' = "read" /\ buffer' = text /\ SetContinuePrompt(line) /\ UNCHANGED <<settled, running>>

ReadLine(line, end) ==
    /\ phase = "read" /\ ~stop /\ Mode # "execute" /\ typed < MaxLines /\ ~ended
    /\ ~end => Mode = "file" /\ line # <<>>
    /\ ended' = ~end /\ typed' = typed + 1
    /\ OneCmd(buffer \o line \o IF end THEN <<"nl">> ELSE <<>>, line)
    /\ UNCHANGED <<log, stop>>

(* The text of -e, which read_options ended with a semicolon, is all there is. *)
Execute(line) ==
    /\ phase = "read" /\ ~stop /\ Mode = "execute" /\ line # <<>>
    /\ stop' = TRUE /\ typed' = 1
    /\ OneCmd(line \o IF Last(line) = ";" THEN <<>> ELSE <<";">>, line)
    /\ UNCHANGED <<log, ended>>

(* handle_statement, whose exceptions are printed; do_exit only sets stop.      *)
RunStatement ==
    /\ phase = "run" /\ running # <<>>
    /\ log' = Append(log, Head(running)) /\ running' = Tail(running)
    /\ stop' = (stop \/ Head(running)[1] = "exit")
    /\ UNCHANGED <<phase, buffer, settled, prompt, emptyLines, typed, ended>>
AfterRun == /\ phase = "run" /\ running = <<>>
            /\ phase' = "read" /\ ResetStatement
            /\ UNCHANGED <<settled, running, log, stop, typed, ended>>

(* KeyboardInterrupt, at the prompt or in a statement.                         *)
Interrupt ==
    /\ Mode = "tty" /\ phase \in {"read", "run"} /\ ~stop /\ (buffer # <<>> \/ emptyLines > 0)
    /\ phase' = "read" /\ ResetStatement
    /\ log' = log \o running /\ running' = <<>>
    /\ UNCHANGED <<settled, stop, typed, ended>>

(* handle_eof: what is left is tried once more and then given up with           *)
(* "Incomplete statement at end of file".                                      *)
HandleEof ==
    /\ phase = "read" /\ ~stop /\ Mode # "execute"
    /\ stop' = TRUE
    /\ IF buffer = <<>> THEN UNCHANGED <<phase, buffer, settled, running, prompt, emptyLines>>
                        ELSE OneCmd(buffer, <<>>)
    /\ UNCHANGED <<log, typed, ended>>
Finish == /\ phase = "read" /\ stop /\ phase' = "done"
          /\ UNCHANGED <<buffer, settled, running, log, prompt, emptyLines, stop, typed, ended>>

Step == RunStatement \/ AfterRun \/ HandleEof \/ Finish \/ \E line \in Lines : Execute(line)
Next == Step \/ Interrupt \/ \E line \in Lines, end \in BOOLEAN : ReadLine(line, end)
Spec == Init /\ [][Next]_vars

-----------------------------------------------------------------------------
(* However its lines fall, the statements that run are those of the text read   *)
(* as a whole, in its order: the shell runs nothing early, nothing twice, and    *)
(* no piece of a batch or string on its own (cmdloop, onecmd).                 *)
RunAsWritten == log \o running = SplitStatements(settled).statements

(* The prompt tells whether text is waiting for its end (reset_statement,       *)
(* set_continue_prompt); what waits is never a complete statement.             *)
PromptTells ==
    phase = "read" => /\ (prompt = "fresh") = (buffer = <<>>)
                      /\ buffer # <<>> => ~Complete(buffer)
=============================================================================
