------------------------------ MODULE CopyTask ------------------------------
(***************************************************************************)
(* What the two directions of COPY share: the options, which come from the    *)
(* sections of a configuration file and from the command, the checks before   *)
(* anything starts, the pipes to the child processes, and the end of those     *)
(* processes however the command ends.  What they do is in CopyFrom and CopyTo. *)
(***************************************************************************)
EXTENDS Integers, Sequences, FiniteSets, SequencesExt

CONSTANTS None, Bad,
          Commands,     \* the commands given: direction, columns, skipped, options
          ConfigFiles,  \* the files by name, each the options of its sections
          Columns, PrimaryKey,
          NumProcesses

DefaultConfig == "cqlshrc"
CopyTaskAssumption ==
    /\ NumProcesses \in Nat \ {0} /\ PrimaryKey \subseteq Columns
    /\ DefaultConfig \in DOMAIN ConfigFiles

VARIABLES phase,        \* "new", "checked", "start", "work", "pills", "close", "returned" or "raised"
          command,
          options,      \* what parse_options makes of it
          processes,    \* by number; for an import the last one is the feeder
          params,       \* the parameters for the next process: one dictionary, changed for each
          writer,       \* the output file: "closed" or "open"
          errFile,      \* the file of failed rows: "absent", "there" or "moved"
          lost          \* an exception left the start of an export
vars == <<phase, command, options, processes, params, writer, errFile, lost>>

NoOptions == [unrecognized |-> {}]
Unstarted == <<>>
Init == /\ phase = "new" /\ command \in Commands /\ options = NoOptions /\ processes = Unstarted
        /\ params = None /\ writer = "closed" /\ errFile \in {"absent", "there"} /\ lost = FALSE

-----------------------------------------------------------------------------
(* maybe_read_config_file: the sections from the general to the special, then    *)
(* the command.                                                                *)
ConfigSections(direction) == <<"copy", "copy-" \o direction, "copy:ks.t", "copy-" \o direction \o ":ks.t">>
Without(opts, names) == [n \in DOMAIN opts \ names |-> opts[n]]
(* Mutant of Update: what is there already stays.                              *)
SetDefaults(acc, opts) == [n \in DOMAIN acc \cup DOMAIN opts |-> IF n \in DOMAIN acc THEN acc[n] ELSE opts[n]]
Update(acc, opts) == [n \in DOMAIN acc \cup DOMAIN opts |-> IF n \in DOMAIN opts THEN opts[n] ELSE acc[n]]

ConfigFile(c) == IF "configfile" \in DOMAIN c.options THEN c.options["configfile"] ELSE DefaultConfig
Sections(c) == IF ConfigFile(c) \in DOMAIN ConfigFiles THEN ConfigFiles[ConfigFile(c)] ELSE <<>>
(* What each section gives, from the most general to the most special.         *)
Given(c) == [i \in 1..4 |-> LET section == ConfigSections(c.direction)[i] IN
                            IF section \in DOMAIN Sections(c) THEN Sections(c)[section] ELSE <<>>]
ReadOptions(c) == Update(Update(Update(Update(Given(c)[1], Given(c)[2]), Given(c)[3]), Given(c)[4]),
                         Without(c.options, {"configfile"}))

(* parse_options, for the options that others depend on.                       *)
Larger(a, b) == IF a > b THEN a ELSE b
Recognized == {"quote", "escape", "boolstyle", "maxbatchsize", "requesttimeout", "childtimeout", "pagesize", "pagetimeout"}
ParseOptions(opts) ==
    LET Pop(name, default) == IF name \in DOMAIN opts THEN opts[name] ELSE default
        batch == Pop("maxbatchsize", 20)
        page == Pop("pagesize", 1000)
        request == Pop("requesttimeout", Larger(60, batch \div 10))
    IN  [quote |-> Pop("quote", "\""), doublequote |-> Pop("quote", "\"") = Pop("escape", "\\"),
         boolstyle |-> Pop("boolstyle", <<"True", "False">>),
         maxbatchsize |-> batch, pagesize |-> page, requesttimeout |-> request,
         pagetimeout |-> Pop("pagetimeout", Larger(10, 10 * (page \div 1000))),
         childtimeout |-> Pop("childtimeout", request + 30),
         unrecognized |-> DOMAIN opts \ Recognized]

(* A number that is none, and check_options.                                   *)
Malformed(opts) ==
    \/ \E name \in DOMAIN opts : opts[name] = Bad
    \/ "boolstyle" \in DOMAIN opts /\ LET style == opts["boolstyle"] IN
           Len(style) # 2 \/ style[1] = style[2] \/ style[1] = "" \/ style[2] = ""

NumberOfProcesses == IF command.direction = "from" THEN NumProcesses + 1 ELSE NumProcesses
Import == command.direction = "from"

(* The constructors: the options, the channels and, for an import, an error      *)
(* handler, which moves the file of an earlier import away.                    *)
Construct ==
    LET opts == ReadOptions(command) IN
    /\ phase = "new"
    /\ IF Malformed(opts) THEN /\ phase' = "raised"
                               /\ UNCHANGED <<options, errFile>>
       ELSE /\ phase' = "checked"
            /\ options' = ParseOptions(opts)
            /\ errFile' = IF Import /\ errFile = "there" THEN "moved" ELSE errFile
    /\ UNCHANGED <<command, processes, params, writer, lost>>

ValidColumns == command.columns \ command.skipped
(* validate_columns of both tasks.                                             *)
ValidateColumns ==
    /\ command.columns # {} /\ command.columns \subseteq Columns
    /\ Import => ValidColumns # {} /\ PrimaryKey \subseteq ValidColumns

(* run, up to its checks: it refuses, an export may find no range to read or     *)
(* cannot open its file, or it begins.                                         *)
Refuse ==
    /\ phase = "checked"
    /\ options.unrecognized # {} \/ ~ValidateColumns \/ ~Import
    /\ phase' = "returned"
    /\ UNCHANGED <<command, options, processes, params, writer, errFile, lost>>
Begin ==
    /\ phase = "checked" /\ options.unrecognized = {} /\ ValidateColumns
    /\ phase' = "create"
    /\ params' = [inpipe |-> None, outpipe |-> None]
    /\ writer' = IF Import THEN writer ELSE "open"
    /\ UNCHANGED <<command, options, processes, errFile, lost>>

(* update_params: what the parent sends on is what the child receives from.     *)
OutPipe(i) == <<"to child", i>>
InPipe(i) == <<"to parent", i>>
Worker(i) == [inpipe |-> params'.inpipe, outpipe |-> params'.outpipe, outpipes |-> {}, state |-> "new"]
Feeder(n) == [inpipe |-> OutPipe(n), outpipe |-> InPipe(n), outpipes |-> {OutPipe(i) : i \in 1..(n - 1)}, state |-> "new"]
Create ==
    /\ phase = "create" /\ Len(processes) < NumberOfProcesses
    /\ LET i == Len(processes) + 1 IN
       IF Import /\ i = NumberOfProcesses
       THEN UNCHANGED params /\ processes' = Append(processes, Feeder(i))
       ELSE /\ params' = [inpipe |-> OutPipe(i), outpipe |-> InPipe(i)]
            /\ processes' = Append(processes, Worker(i))
    /\ UNCHANGED <<phase, command, options, writer, errFile, lost>>

In(state) == {i \in DOMAIN processes : processes[i].state = state}
Now(i, state) == processes' = [processes EXCEPT ![i].state = state]

(* start_processes.  For an import an exception is caught and leads to close;    *)
(* an export starts its processes before its try.                              *)
Start ==
    /\ phase \in {"create", "start"} /\ Len(processes) = NumberOfProcesses
    /\ In("new") # {}
    /\ phase' = "start"
    /\ Now(CHOOSE i \in In("new") : \A j \in In("new") : i <= j, "alive")
    /\ UNCHANGED <<command, options, params, writer, errFile, lost>>
StartFails ==
    /\ phase \in {"create", "start"} /\ Len(processes) = NumberOfProcesses
    /\ In("new") # {}
    /\ phase' = IF Import THEN "close" ELSE "raised"
    /\ lost' = ~Import
    /\ UNCHANGED <<command, options, processes, params, writer, errFile>>
Started == /\ phase = "start" /\ In("new") = {} /\ phase' = "work"
           /\ UNCHANGED <<command, options, processes, params, writer, errFile, lost>>

(* import_records or export_records ends, and sends the pills; or it raises.    *)
Worked == /\ phase = "work" /\ phase' = "pills"
          /\ UNCHANGED <<command, options, processes, params, writer, errFile, lost>>
WorkFails == /\ phase \in {"work", "pills"} /\ phase' = "close"
             /\ UNCHANGED <<command, options, processes, params, writer, errFile, lost>>
Die(i) == /\ phase \in {"start", "work", "pills", "close"} /\ i \in In("alive")
          /\ Now(i, "dead")
          /\ UNCHANGED <<phase, command, options, params, writer, errFile, lost>>
(* After send_poison_pill all are dead, or five seconds have gone.              *)
Waited == /\ phase = "pills" /\ phase' = "close"
          /\ UNCHANGED <<command, options, processes, params, writer, errFile, lost>>

(* Mutant of Terminated: a process that was never started is the only one closed. *)
TerminatedNew(p) == IF p.state = "new" THEN [p EXCEPT !.state = "dead"] ELSE p
Terminated(p) == IF p.state = "alive" THEN [p EXCEPT !.state = "dead"] ELSE p
(* close: the channels, stop_processes and the writer of an export.             *)
Close ==
    /\ phase = "close"
    /\ processes' = [i \in DOMAIN processes |-> Terminated(processes[i])]
    /\ writer' = "closed"
    /\ phase' = "returned"
    /\ UNCHANGED <<command, options, params, errFile, lost>>

Step == Construct \/ Refuse \/ Begin \/ Create \/ Start \/ StartFails \/ Started \/ Waited \/ Close
Next == Step \/ Worked \/ WorkFails \/ \E i \in DOMAIN processes : Die(i)
Spec == Init /\ [][Next]_vars

-----------------------------------------------------------------------------
(* Each option has the value of the most special place that gives it: the        *)
(* command, the table and direction, the table, the direction, all of COPY        *)
(* ("Update this last so the command line options take precedence").           *)
Places(name) == {i \in 1..4 : name \in DOMAIN Given(command)[i]}
Wanted(name) == IF name \in DOMAIN command.options THEN command.options[name]
                ELSE Given(command)[Max(Places(name))][name]
MostSpecialWins ==
    options # NoOptions =>
        \A name \in Recognized \cap DOMAIN options :
            name \in DOMAIN command.options \/ Places(name) # {} => options[name] = Wanted(name)

(* No process outlives the command, and no file stays open, whatever failed;     *)
(* only an export that cannot start all its processes leaves those it started.  *)
NothingLeft ==
    phase \in {"returned", "raised"} /\ ~lost =>
        In("alive") = {} /\ writer = "closed"

(* Each process has pipes of its own, and the feeder sends to the pipes the        *)
(* workers receive from (update_params, ImportTask.run).                        *)
PipesMatch ==
    /\ \A i, j \in DOMAIN processes : i # j => /\ processes[i].inpipe # processes[j].inpipe
                                               /\ processes[i].outpipe # processes[j].outpipe
    /\ Import /\ Len(processes) = NumberOfProcesses =>
           processes[NumberOfProcesses].outpipes = {processes[i].inpipe : i \in 1..(NumberOfProcesses - 1)}
=============================================================================
