-------------------------------- MODULE Shell -------------------------------
(***************************************************************************)
(* The settings, sessions and connections of the interactive shell.  SOURCE   *)
(* runs a file in a shell of its own on the same connection, so shells form a *)
(* stack.  A shell runs the statements of a line one by one; Ctrl-C drops the *)
(* rest of the line of the shell it reaches.                                  *)
(* With Dse the shell is DSEShell, which boosts the time-out of the statements *)
(* that manage search indexes and may act for another user; it connects with   *)
(* an execution profile that the constructor of Shell then replaces.           *)
(***************************************************************************)
EXTENDS Integers, Sequences

CONSTANTS None,
          Commands,     \* the commands typed
          Keyspaces, Levels, SerialLevels, PageSizes,
          Batch, Dse,
          MaxCommands, MaxDepth     \* bounds of the model

Traces == "system_traces"
DefaultPageSize == 100
DefaultTimeout == "default"
ShellAssumption ==
    /\ Traces \in Keyspaces /\ {"ONE", "SERIAL"} \subseteq Levels \cup SerialLevels
    /\ None \notin BOOLEAN /\ None \notin {"ON", "OFF"}
    /\ {Batch, Dse} \subseteq BOOLEAN /\ MaxCommands \in Nat /\ MaxDepth \in Nat \ {0}

VARIABLES stack,        \* the shells, the running one last
          sessions, conns, profiles,
          count,        \* how many commands were run
          status        \* None, or the exit status of the program
vars == <<stack, sessions, conns, profiles, count, status>>

Shell == Len(stack)
self == stack[Shell]

\* own: the execution profile of this shell; boosted: the one whose time-out
\* DSEShell changes.  What the user wants is kept beside what the shell does:
\* wish is the colour and tracing of the user, cut names what an exception or
\* Ctrl-C left behind.
NewShell(ks, session, conn, owns, profile, color, tracing) ==
    [keyspace |-> ks, session |-> session, conn |-> conn, owns |-> owns, own |-> profile,
     boosted |-> conns[conn].profile, tracing |-> tracing, level |-> "ONE", serial |-> "SERIAL",
     paging |-> TRUE, pageSize |-> DefaultPageSize, expand |-> FALSE, executeAs |-> None,
     color |-> color, shunted |-> None, error |-> FALSE, stop |-> FALSE, at |-> "prompt",
     wish |-> [color |-> color, tracing |-> tracing], cut |-> {}]
Profile(timeout) == [timeout |-> timeout, level |-> "ONE", serial |-> "SERIAL"]

(* The profile that CONSISTENCY changes; the first connection has the first.     *)
FirstOwn == IF Dse THEN 2 ELSE 1
Init ==
    /\ profiles = [n \in 1..FirstOwn |-> Profile(DefaultTimeout)]
    /\ conns = << [open |-> TRUE, profile |-> 1] >>
    /\ \E ks \in {None} \cup Keyspaces, color \in BOOLEAN :
          /\ sessions = << [conn |-> 1, keyspace |-> ks] >>
          /\ stack = << NewShell(ks, 1, 1, TRUE, FirstOwn, color, FALSE) >>
    /\ count = 0 /\ status = None

-----------------------------------------------------------------------------
Set(new) == stack' = [stack EXCEPT ![Shell] = new]
Same == UNCHANGED <<sessions, conns, profiles, status>>
Failed(s) == [s EXCEPT !.error = TRUE]      \* printerr
Aborted(s) == [s EXCEPT !.at = "prompt"]    \* KeyboardInterrupt

Typed(command) == /\ status = None /\ self.at = "line" /\ command \in Commands
                  /\ count < MaxCommands /\ count' = count + 1

ReadLine == /\ status = None /\ self.at = "prompt" /\ ~self.stop /\ count < MaxCommands
            /\ Set([self EXCEPT !.at = "line"])
            /\ UNCHANGED count /\ Same
EndLine == /\ status = None /\ self.at = "line"
           /\ Set([self EXCEPT !.at = "prompt"])
           /\ UNCHANGED count /\ Same

(* How a request may come back: with its result, with an error that is printed, *)
(* with an exception that reaches onecmd, or cut short by Ctrl-C.  Only what is   *)
(* sent on an open connection succeeds.                                        *)
Outcomes == IF conns[self.conn].open THEN {"ok", "error", "raise", "interrupt"} ELSE {"error", "raise", "interrupt"}
After(s, outcome) == CASE outcome = "ok" -> s
                       [] outcome \in {"error", "raise"} -> Failed(s)
                       [] outcome = "interrupt" -> Aborted(s)
Returned(outcome) == outcome \in {"ok", "error"}

(* do_use.  The request may have been applied when it is cut short.             *)
Use(ks, outcome, applied) ==
    /\ Typed("use") /\ outcome \in Outcomes
    /\ outcome = "ok" => applied
    /\ outcome = "error" \/ ~conns[self.conn].open => ~applied
    /\ Set(After(CASE outcome = "ok" -> [self EXCEPT !.keyspace = ks, !.cut = @ \ {"use"}]
                   [] applied /\ outcome # "ok" -> [self EXCEPT !.cut = @ \cup {"use"}]
                   [] OTHER -> self, outcome))
    /\ sessions' = IF applied THEN [sessions EXCEPT ![self.session].keyspace = ks] ELSE sessions
    /\ UNCHANGED <<conns, profiles, status>>

(* Mutant of Select: tracing stays off.                                        *)
SelectUntraced(ks, outcome) ==
    LET stopTracing == Traces = IF ks = None THEN self.keyspace ELSE ks
        before == [self EXCEPT !.tracing = @ /\ ~stopTracing] IN
    /\ Typed("select") /\ outcome \in Outcomes
    /\ Set(After(before, outcome)) /\ Same
(* do_select: a query of the traces is not traced itself; when the statement     *)
(* does not return, tracing is not switched on again.                          *)
Select(ks, outcome) ==
    LET stopTracing == Traces = IF ks = None THEN self.keyspace ELSE ks
        before == [self EXCEPT !.tracing = @ /\ ~stopTracing] IN
    /\ Typed("select") /\ outcome \in Outcomes
    /\ Set(After(CASE Returned(outcome) -> self
                   [] ~Returned(outcome) /\ before # self -> [before EXCEPT !.cut = @ \cup {"tracing"}]
                   [] OTHER -> self, outcome))
    /\ Same

(* perform_simple_statement of DSEShell for a statement about search indexes:   *)
(* the time-out stays boosted when the request does not return.                *)
ManageSearch(outcome) ==
    /\ Dse /\ Typed("search") /\ outcome \in Outcomes
    /\ Set(After(self, outcome))
    /\ profiles' = IF Returned(outcome) THEN profiles ELSE [profiles EXCEPT ![self.boosted].timeout = "boosted"]
    /\ UNCHANGED <<sessions, conns, status>>

(* SwitchCommand.execute: the new state; switching to the present one is an error. *)
Switch(state, switch) == CASE switch = "ON" -> TRUE [] switch = "OFF" -> FALSE [] switch = None -> state
Switched(s, state, switch) == IF switch # None /\ Switch(state, switch) = state THEN Failed(s) ELSE s

DoTracing(switch) ==
    /\ Typed("tracing")
    /\ Set(Switched([self EXCEPT !.tracing = Switch(@, switch), !.cut = IF switch = None THEN @ ELSE @ \ {"tracing"},
                                 !.wish.tracing = Switch(@, switch)], self.tracing, switch))
    /\ Same
DoExpand(switch) ==
    /\ Typed("expand")
    /\ Set(Switched([self EXCEPT !.expand = Switch(@, switch)], self.expand, switch))
    /\ Same
(* do_paging: off, the size is the default again; a number switches paging on.  *)
DoPaging(switch) ==
    /\ Typed("paging")
    /\ LET on == Switch(self.paging, switch) IN
       Set(Switched([self EXCEPT !.paging = on, !.pageSize = IF on THEN @ ELSE DefaultPageSize], self.paging, switch))
    /\ Same
DoPageSize(size) ==
    /\ Typed("paging")
    /\ Set([self EXCEPT !.paging = TRUE, !.pageSize = size])
    /\ Same

DoConsistency(level) ==
    /\ Typed("consistency")
    /\ Set([self EXCEPT !.level = level])
    /\ profiles' = [profiles EXCEPT ![self.own].level = level]
    /\ UNCHANGED <<sessions, conns, status>>
DoSerial(level) ==
    /\ Typed("serial")
    /\ Set([self EXCEPT !.serial = level])
    /\ profiles' = [profiles EXCEPT ![self.own].serial = level]
    /\ UNCHANGED <<sessions, conns, status>>

(* do_capture: the file may fail to open.                                      *)
CaptureTo(opens) ==
    /\ Typed("capture")
    /\ Set(IF self.shunted = None /\ opens THEN [self EXCEPT !.shunted = self.color, !.color = FALSE] ELSE Failed(self))
    /\ Same
CaptureOff ==
    /\ Typed("capture")
    /\ Set(IF self.shunted = None THEN Failed(self) ELSE [self EXCEPT !.color = self.shunted, !.shunted = None])
    /\ Same

DoExecute(user) ==
    /\ Dse /\ Typed("execute as")
    /\ Set([self EXCEPT !.executeAs = user])
    /\ Same

(* Mutant of DoLogin: the connection is changed before the session is made.     *)
DoLoginEarly(outcome) ==
    /\ Typed("login") /\ outcome \in {"ok", "raise", "interrupt"}
    /\ conns' = Append(conns, [open |-> TRUE, profile |-> self.own])
    /\ sessions' = IF outcome = "ok" THEN Append(sessions, [conn |-> Len(conns) + 1, keyspace |-> self.keyspace]) ELSE sessions
    /\ Set(After([self EXCEPT !.conn = Len(conns) + 1,
                              !.session = IF outcome = "ok" THEN Len(sessions) + 1 ELSE @], outcome))
    /\ UNCHANGED <<profiles, status>>
(* do_login: a new cluster and session with the keyspace shown; the former       *)
(* cluster is left as it is, and one that does not connect as well.            *)
DoLogin(outcome) ==
    /\ Typed("login") /\ outcome \in {"ok", "raise", "interrupt"}
    /\ conns' = Append(conns, [open |-> TRUE, profile |-> self.own])
    /\ IF outcome = "ok"
       THEN /\ sessions' = Append(sessions, [conn |-> Len(conns) + 1, keyspace |-> self.keyspace])
            /\ Set([self EXCEPT !.conn = Len(conns) + 1, !.session = Len(sessions) + 1, !.cut = @ \ {"use"}])
       ELSE /\ Set(After(self, outcome))
            /\ UNCHANGED sessions
    /\ UNCHANGED <<profiles, status>>

(* do_source: a shell for the file, with a session and a profile of its own, the *)
(* keyspace, colour and tracing of this one, and the defaults of the rest.       *)
DoSource(outcome) ==
    /\ Typed("source") /\ Shell < MaxDepth
    /\ outcome \in Outcomes \cup {"missing file"}
    /\ IF outcome = "ok"
       THEN /\ sessions' = Append(sessions, [conn |-> self.conn, keyspace |-> self.keyspace])
            /\ profiles' = Append(profiles, Profile(profiles[self.own].timeout))
            /\ stack' = Append(stack, NewShell(self.keyspace, Len(sessions) + 1, self.conn, FALSE,
                                               Len(profiles) + 1, self.color, self.tracing))
       ELSE /\ Set(IF outcome = "interrupt" THEN Aborted(self) ELSE Failed(self))
            /\ UNCHANGED <<sessions, profiles>>
    /\ UNCHANGED <<conns, status>>

(* do_exit: the rest of the line is run all the same.                          *)
DoExit == /\ Set([self EXCEPT !.stop = TRUE])
          /\ conns' = IF self.owns THEN [conns EXCEPT ![self.conn].open = FALSE] ELSE conns
          /\ UNCHANGED <<sessions, profiles, status>>
Exit == Typed("exit") /\ DoExit
HandleEof == status = None /\ self.at = "prompt" /\ ~self.stop /\ DoExit /\ UNCHANGED count

(* cmdloop returns: to do_source, which goes on with its line, or to main.      *)
Return == /\ status = None /\ Shell > 1 /\ self.stop /\ self.at = "prompt"
          /\ stack' = SubSeq(stack, 1, Shell - 1)
          /\ UNCHANGED <<sessions, conns, profiles, count, status>>
Quit == /\ status = None /\ Shell = 1 /\ self.stop /\ self.at = "prompt"
        /\ status' = IF Batch /\ self.error THEN 2 ELSE 0
        /\ UNCHANGED <<stack, sessions, conns, profiles, count>>

Command ==
    \/ \E outcome \in Outcomes :
          \/ \E ks \in Keyspaces, applied \in BOOLEAN : Use(ks, outcome, applied)
          \/ \E ks \in Keyspaces \cup {None} : Select(ks, outcome)
          \/ ManageSearch(outcome)
    \/ \E switch \in {"ON", "OFF", None} : DoTracing(switch) \/ DoExpand(switch) \/ DoPaging(switch)
    \/ \E size \in PageSizes : DoPageSize(size)
    \/ \E level \in Levels : DoConsistency(level)
    \/ \E level \in SerialLevels : DoSerial(level)
    \/ \E opens \in BOOLEAN : CaptureTo(opens)
    \/ CaptureOff \/ Exit
    \/ \E user \in {"someone", None} : DoExecute(user)
    \/ \E outcome \in {"ok", "raise", "interrupt"} : DoLogin(outcome)
    \/ \E outcome \in {"ok", "error", "raise", "interrupt", "missing file"} : DoSource(outcome)
Step == EndLine \/ HandleEof \/ Return \/ Quit
Next == Command \/ ReadLine \/ Step
Spec == Init /\ [][Next]_vars

-----------------------------------------------------------------------------
(* The keyspace in the prompt is the one the server resolves names in, through   *)
(* logins, sourced files and failures; only a USE cut short after it was         *)
(* applied leaves them apart (do_use, do_login, do_source).                    *)
KeyspaceShown == \A n \in 1..Shell : "use" \notin stack[n].cut => stack[n].keyspace = sessions[stack[n].session].keyspace

(* Tracing is as the user last switched it, although queries of the traces turn  *)
(* it off for a while, unless one of them was cut short (do_select); the colour   *)
(* is the user's own when output is not captured; without paging the page size   *)
(* is the default.                                                             *)
AsChosen ==
    \A n \in 1..Shell :
        /\ stack[n].tracing = stack[n].wish.tracing \/ "tracing" \in stack[n].cut
        /\ stack[n].shunted = None => stack[n].color = stack[n].wish.color
        /\ ~stack[n].paging => stack[n].pageSize = DefaultPageSize

(* A shell that goes on has an open connection, and its session is a session of  *)
(* that connection, whatever the shells under it and above it did              *)
(* (owns_connection, do_login).  Requests that name no level, as USE, go out with *)
(* the level of the shell that made the connection, but on the first connection  *)
(* of DSEShell with the level it was made with, whatever CONSISTENCY says.       *)
Connected ==
    \A n \in 1..Shell :
        /\ ~stack[n].stop => conns[stack[n].conn].open
        /\ sessions[stack[n].session].conn = stack[n].conn
        /\ n = 1 => LET p == profiles[conns[stack[n].conn].profile] IN
                    IF Dse /\ stack[n].conn = 1 THEN p.level = "ONE" /\ p.serial = "SERIAL"
                    ELSE p.level = stack[n].level /\ p.serial = stack[n].serial
=============================================================================
