------------------------------ MODULE MCCqlsh ------------------------------
(***************************************************************************)
(* cqlsh without COPY FROM, one part at a time: a behaviour is about the part *)
(* of the program that `part` names, on a small instance of its module, and    *)
(* leaves the variables of the others alone.                                   *)
(***************************************************************************)
EXTENDS Integers, Sequences, FiniteSets, TLC

CONSTANTS None, Unset, Null, Bad

VARIABLES
    part,
    \* ExportRanges
    ring, begin, end, pc, i, previous, ranges,
    \* CopyTo
    info, succeeded, failed, phase, sweep, file, work, results, alive, sessions,
    requests, main, loop, faults,
    \* ExportFiles
    writing, files, numWritten, received, page,
    \* CsvValues and Timestamps
    sample, format, stage, text, result,
    \* Durations
    sent, buf, decoded, shown,
    \* Statements
    reading, buffer, settled, running, log, prompt, emptyLines, stop, typed, ended,
    \* CommandLine
    session, tokens, helped, described,
    \* Shell
    stack, logins, conns, profiles, count, status,
    \* CopyTask
    task, command, options, processes, params, writer, errFile, lost,
    \* Startup
    starting, rc, env, args, machine, chosen, stdin, timezone, warned

rangesVars == <<ring, begin, end, pc, i, previous, ranges>>
exportVars == <<info, succeeded, failed, phase, sweep, file, work, results, alive, sessions,
                requests, main, loop, faults>>
filesVars == <<writing, files, numWritten, received, page>>
valueVars == <<sample, format, stage, text, result>>
durationVars == <<sent, buf, decoded, shown>>
statementVars == <<reading, buffer, settled, running, log, prompt, emptyLines, stop, typed, ended>>
lineVars == <<session, tokens, helped, described>>
shellVars == <<stack, logins, conns, profiles, count, status>>
taskVars == <<task, command, options, processes, params, writer, errFile, lost>>
startupVars == <<starting, rc, env, args, machine, chosen, stdin, timezone, warned>>
dataVars == <<rangesVars, exportVars, filesVars, valueVars, durationVars>>
commandVars == <<statementVars, lineVars, shellVars, taskVars, startupVars>>
vars == <<part, dataVars, commandVars>>

-----------------------------------------------------------------------------
(* ExportRanges: all rings of up to four tokens out of eight, the lowest one   *)
(* included, and all limits but zero.  Neighbours on the ring have different   *)
(* hosts; one has none to use.                                                 *)
RingTokens == -4..3
Rings == {s \in UNION {[1..n -> RingTokens] : n \in 0..4} : \A j \in DOMAIN s : j > 1 => s[j - 1] < s[j]}
Walk == INSTANCE ExportRanges WITH
    Positions <- -3..4, MinToken <- -4, Rings <- Rings, Limits <- -5..4 \ {0},
    Hosts <- {"h1", "h2", "h3", "h4"}, Usable <- {"h1", "h2", "h3"}, Here <- "h2",
    Replicas <- [t \in RingTokens |-> CASE t % 4 = 0 -> {"h1", "h2"} [] t % 4 = 1 -> {"h2", "h3"}
                                        [] t % 4 = 2 -> {"h4"} [] OTHER -> {"h1", "h4"}]
NoWalk == /\ ring = None /\ begin = None /\ end = None /\ pc = None /\ i = None /\ previous = None /\ ranges = None

(* CopyTo: two ranges, one of two pages and one without a row, for two workers *)
(* and two hosts, without a fault and with one; one range of three pages, the  *)
(* first without a row, with two faults; three ranges for one worker, one page *)
(* of them one that cannot be formatted.                                     *)
PagesOf(R) == [r \in R |-> IF r = "r1" THEN 2 ELSE 1]
Three == {"r1", "r2", "r3"}
Two == {"r1", "r2"}
AnyFault == {"error", "connect", "death", "timeout"}
Calm == INSTANCE CopyTo WITH Ranges <- Two, Pages <- PagesOf(Two), HostsOf <- [r \in Two |-> IF r = "r2" THEN {"h2"} ELSE {"h1"}], EmptyPages <- {<<"r2", 1>>},
    BadPages <- {}, Workers <- 1..2, Hosts <- {"h1", "h2"}, MaxAttempts <- 2, MaxRequests <- 1,
    Faults <- {}, MaxFaults <- 0
Faulty == INSTANCE CopyTo WITH Ranges <- Two, Pages <- PagesOf(Two), HostsOf <- [r \in Two |-> IF r = "r1" THEN {"h1", "h2"} ELSE {"h1"}], EmptyPages <- {<<"r2", 1>>},
    BadPages <- {}, Workers <- 1..2, Hosts <- {"h1", "h2"}, MaxAttempts <- 2, MaxRequests <- 1,
    Faults <- AnyFault, MaxFaults <- 1
Retried == INSTANCE CopyTo WITH Ranges <- {"r1"}, Pages <- [r \in {"r1"} |-> 3], HostsOf <- [r \in {"r1"} |-> {"h1", "h2"}], EmptyPages <- {<<"r1", 1>>},
    BadPages <- {}, Workers <- 1..2, Hosts <- {"h1", "h2"}, MaxAttempts <- 2, MaxRequests <- 1,
    Faults <- AnyFault, MaxFaults <- 2
Single == INSTANCE CopyTo WITH Ranges <- Three, Pages <- PagesOf(Three), HostsOf <- [r \in Three |-> {"h1"}], EmptyPages <- {<<"r2", 1>>},
    BadPages <- {<<"r1", 2>>}, Workers <- 1..1, Hosts <- {"h1", "h2"}, MaxAttempts <- 2, MaxRequests <- 1,
    Faults <- {}, MaxFaults <- 0

InitExport == \/ part = "calm" /\ Calm!Init
              \/ part = "faulty" /\ Faulty!Init
              \/ part = "retried" /\ Retried!Init
              \/ part = "single" /\ Single!Init
NoExport == /\ info = None /\ succeeded = None /\ failed = None /\ phase = None /\ sweep = None /\ file = None
            /\ work = None /\ results = None /\ alive = None /\ sessions = None /\ requests = None /\ main = None
            /\ loop = None /\ faults = None

(* ExportFiles: a page may begin up to three new files, at any place.          *)
Write == INSTANCE ExportFiles WITH PageSizes <- {1, 2, 5, 7}, MaxOutputSize <- 3, ToFile <- TRUE, Header <- TRUE,
             MaxRows <- 18, OpenFails <- TRUE, phase <- writing
NoFiles == writing = None /\ files = None /\ numWritten = None /\ received = None /\ page = None

(* CsvValues: texts of up to three characters, each with a meaning to one of    *)
(* the programs on the way, alone and in collections of up to two elements.    *)
Text == [kind |-> "text"]
Int_ == [kind |-> "int"]
ListType(t) == [kind |-> "list", of |-> t]
SetType(t) == [kind |-> "set", of |-> t]
MapType(key, val) == [kind |-> "map", key |-> key, val |-> val]
TupleType(a, b) == [kind |-> "tuple", of |-> <<a, b>>]
UdtType(a, b) == [kind |-> "udt", names |-> <<<<"f">>, <<"g">>>>, of |-> <<a, b>>]

Alphabet == {"a", " ", "'", ",", ":", "{", "}", "\\"}
Texts(n) == UNION {[1..m -> Alphabet] : m \in 0..n}
Some == Texts(1) \cup {<<"'", "'">>, <<",", " ">>, <<"a", ":">>, <<"\\", "'">>, <<"}", ",">>}
Few == {<<>>, <<"'">>, <<",">>, <<":", "}">>, <<" ", "a">>}
Of(t, vs) == {[type |-> t, value |-> v] : v \in vs}
UpTo2(s) == {<<>>} \cup {<<x>> : x \in s} \cup {<<x, y>> : x, y \in s}
Pairs(s, t) == {<<x, y>> : x \in s, y \in t}
Samples ==
    Of(Text, Texts(3)) \cup Of(Int_, {7, 1234}) \cup Of(ListType(Text), UpTo2(Some)) \cup Of(ListType(Int_), UpTo2({7, 1234}))
    \cup Of(SetType(Text), {{x, y} : x, y \in Some}) \cup Of(TupleType(Text, Int_), Pairs(Texts(2), {7, 1234}))
    \cup Of(MapType(Text, Text), {{p} : p \in Pairs(Some, Some)} \cup {{p, q} : p \in Pairs({<<",">>, <<>>}, Few), q \in Pairs({<<" ", "a">>}, Few)})
    \cup Of(UdtType(Text, Int_), Pairs(Some \cup {Null}, {7, 1234, Null}))
    \cup Of(ListType(ListType(Text)), UpTo2(UpTo2(Few)))
    \cup Of(MapType(Text, UdtType(Text, ListType(Text))), {{<<x, v>>} : x \in Few, v \in Pairs(Few \cup {Null}, UpTo2(Few))})

Values == INSTANCE CsvValues WITH NullVal <- <<>>, ThousandsSep <- <<".">>
Marked == INSTANCE CsvValues WITH NullVal <- <<"a">>, ThousandsSep <- <<>>

(* Timestamps: a few hours around the epoch, on a machine west of UTC.         *)
Times == INSTANCE Timestamps WITH Hours <- -2..2, Millis <- {0, 123}, Zones <- {-2, 0, 1}, LocalZone <- -1, Python3 <- TRUE, instant <- sample
Times2 == INSTANCE Timestamps WITH Hours <- -2..2, Millis <- {0, 123}, Zones <- {-2, 0, 1}, LocalZone <- -1, Python3 <- FALSE, instant <- sample

InitValues == \/ part = "values" /\ Values!Init /\ format = None
              \/ part = "marked" /\ Marked!Init /\ format = None
              \/ part = "times" /\ Times!Init
              \/ part = "times2" /\ Times2!Init
NoValues == sample = None /\ format = None /\ stage = None /\ text = None /\ result = None

(* Durations: bytes of four bits, so the numbers take one to four of them; a    *)
(* year of three months, an hour of twenty nanoseconds and a minute of five.   *)
Spans == INSTANCE Durations WITH ByteBits <- 4, Numbers <- {-1000, -130, -21, -3, 0, 1, 4, 5, 19, 20, 129, 1001},
    MonthUnits <- <<[name |-> "y", divisor |-> 3], [name |-> "mo", divisor |-> 1]>>,
    NanoUnits <- <<[name |-> "h", divisor |-> 20], [name |-> "m", divisor |-> 5], [name |-> "ns", divisor |-> 1]>>,
    text <- shown
NoDurations == sent = None /\ buf = None /\ decoded = None /\ shown = None

-----------------------------------------------------------------------------
(* Statements: three lines of every kind that matters to how they are cut, at a *)
(* terminal, in a file and given to -e, and a user who types nothing for long.  *)
Typed == { <<>>, <<"w">>, <<"w", ";">>, <<"help">>, <<"help", "--", "w">>, <<"exit", ";", "w", ";">>, <<"begin", "batch">>,
           <<"begin", "batch", "w", ";">>, <<"apply", "batch", ";">>, <<"w", ";", "w">>, <<"'", ";">>, <<"w", "'", ";">>,
           <<"--", ";">>, <<"w", ";", "--", "'">>, <<"?", ";">>, <<"begin", "batch", ";", "help">>, <<"'", "?", "'", ";">>,
           <<"help", "w", ";", "w">> }
Terminal == INSTANCE Statements WITH Lines <- Typed, Mode <- "tty", MaxLines <- 3, phase <- reading
File == INSTANCE Statements WITH Lines <- Typed, Mode <- "file", MaxLines <- 3, phase <- reading
Given == INSTANCE Statements WITH Lines <- Typed, Mode <- "execute", MaxLines <- 3, phase <- reading
Patient == INSTANCE Statements WITH Lines <- {<<>>, <<"w">>}, Mode <- "tty", MaxLines <- 6, phase <- reading
InitStatements == \/ part = "terminal" /\ Terminal!Init
                  \/ part = "file" /\ File!Init
                  \/ part = "given" /\ Given!Init
                  \/ part = "patient" /\ Patient!Init
NoStatements == /\ reading = None /\ buffer = None /\ settled = None /\ running = None /\ log = None /\ prompt = None
                /\ emptyLines = None /\ stop = None /\ typed = None /\ ended = None

(* CommandLine: names that stand for several objects, names of commands among   *)
(* them, without a keyspace, with one, with one that is gone; every command.   *)
Kinds ==
    [w \in {"functions", "function", "aggregates", "aggregate", "keyspaces", "tables", "columnfamilies", "cluster", "types", "type",
            "stdin", "stdout", "off", "host", "version", "session", "active", "pending", "search", "config", "header", "consistency",
            "one", "serial", "local_serial", "show", "source", "capture", "copy", "login", "debug", "things", "help", "tracing",
            "expand", "paging", "exit", "quit", "clear", "as", "ks", "kt", "t", "i", "v", "f", "a", "u1", "k", "c"} |-> "identifier"]
    @@ [w \in {"describe", "from", "to", "with", "and", "full", "schema", "keyspace", "table", "index", "materialized", "view",
               "on", "null", "execute"} |-> "reserved"]
    @@ ("'s'" :> "string") @@ ("5" :> "number") @@ ("id" :> "uuid") @@ ("\"T\"" :> "quotedName")
Objects(n) == [o \in n |-> <<>>]
KS == [tables |-> ("t" :> <<"k", "c", "T">> @@ "T" :> <<"k">>), indexes |-> Objects({"i", "t"}), views |-> Objects({"v", "i"}),
       types |-> Objects({"u1", "type"}), functions |-> Objects({"f"}), aggregates |-> Objects({"a"})]
KT == [tables |-> ("type" :> <<"k">> @@ "ks" :> <<"k">> @@ "t" :> <<"k">>), indexes |-> Objects({}), views |-> Objects({"tables"}),
       types |-> Objects({}), functions |-> Objects({"f"}), aggregates |-> Objects({})]
ShellIn(current, keyspaces) ==
    [current |-> current, keyspaces |-> keyspaces, cores |-> {<<"ks", "t">>}, users |-> {"u1", "'s'"}, topics |-> {"copy", "describe"}]
Typing(in, words, most) == [shell |-> in, words |-> words \cup {"describe", ";"}, most |-> most]
Both == "ks" :> KS @@ "kt" :> KT
Sessions ==
    { Typing(ShellIn(None, Both), {"functions", "tables", "types", "keyspaces", "cluster", "keyspace", "full", "schema", "ks", "t", "v"}, 5),
      Typing(ShellIn("ks", Both), {"type", "table", "index", "materialized", "view", "ks", "kt", "t", "i", "v", "\"T\"", "."}, 7),
      Typing(ShellIn("kt", Both @@ "T" :> KS), {"function", "aggregate", "tables", "f", "a", "t", "ks", "kt", "\"T\"", "."}, 7),
      Typing(ShellIn("gone", "ks" :> KS), {"active", "search", "index", "config", "schema", "on", "tables", "ks", "t", "."}, 10),
      Typing(ShellIn("ks", Both), {"consistency", "one", "serial", "local_serial", "show", "version", "host", "session", "id", "source",
             "'s'", "capture", "off", "login", "u1", "debug", "things", "tracing", "on", "expand", "exit", "quit", "execute", "as",
             "paging", "5", "clear", "nl"}, 4),
      Typing(ShellIn("ks", Both), {"help", "?", "copy", "type", "nl"}, 4),
      Typing(ShellIn("ks", "ks" :> KS), {"copy", "\"T\"", "k", "from", "(", ")", ",", "stdin"}, 8),
      Typing(ShellIn("ks", "ks" :> KS), {"copy", "\"T\"", "to", "'s'", "with", "header", "null", "=", "and"}, 10) }
Line == INSTANCE CommandLine WITH Quoted <- ("\"T\"" :> "T"), Dse <- TRUE, typed <- tokens, shown <- described
NoLine == session = None /\ tokens = None /\ helped = None /\ described = None

(* Shell: four commands of a few kinds at a time, in two shells at most.       *)
Switches == INSTANCE Shell WITH Commands <- {"consistency", "serial", "expand", "paging", "source", "exit", "login"},
    Keyspaces <- {"ks", "system_traces"}, Levels <- {"ONE", "QUORUM"}, SerialLevels <- {"SERIAL", "LOCAL_SERIAL"},
    PageSizes <- {50}, Batch <- TRUE, Dse <- FALSE, MaxCommands <- 4, MaxDepth <- 2, sessions <- logins
Requests == INSTANCE Shell WITH Commands <- {"use", "select", "login", "source", "exit", "tracing", "capture"},
    Keyspaces <- {"ks", "system_traces"}, Levels <- {"ONE", "QUORUM"}, SerialLevels <- {"SERIAL", "LOCAL_SERIAL"},
    PageSizes <- {50}, Batch <- TRUE, Dse <- TRUE, MaxCommands <- 4, MaxDepth <- 2, sessions <- logins
DseShell == INSTANCE Shell WITH Commands <- {"search", "execute as", "consistency", "login", "source", "exit"},
    Keyspaces <- {"ks", "system_traces"}, Levels <- {"ONE", "QUORUM"}, SerialLevels <- {"SERIAL", "LOCAL_SERIAL"},
    PageSizes <- {50}, Batch <- TRUE, Dse <- TRUE, MaxCommands <- 4, MaxDepth <- 2, sessions <- logins
InitShell == \/ part = "switches" /\ Switches!Init
             \/ part = "requests" /\ Requests!Init
             \/ part = "dse" /\ DseShell!Init
NoShell == stack = None /\ logins = None /\ conns = None /\ profiles = None /\ count = None /\ status = None

(* CopyTask: options given, in the sections of two files and by default, wrong   *)
(* ones among them, with columns that fit the table or do not.                 *)
ConfigFiles ==
    [cqlshrc |-> [copy |-> [maxbatchsize |-> 100, requesttimeout |-> 70]]
                 @@ "copy-from" :> [maxbatchsize |-> 2000, quote |-> "'"]
                 @@ "copy:ks.t" :> [pagesize |-> 5000, maxbatchsize |-> 3000]
                 @@ "copy-to:ks.t" :> [pagesize |-> 9000, requesttimeout |-> 200],
     other |-> "copy-from:ks.t" :> [childtimeout |-> 5]]
OptionsGiven ==
    { <<>>, [maxbatchsize |-> 4000], [quote |-> "\\"], [requesttimeout |-> 500, pagetimeout |-> 1], [configfile |-> "other"],
      [configfile |-> "other", childtimeout |-> 9], [configfile |-> "missing", pagesize |-> 4000], [bogus |-> 1],
      [pagesize |-> Bad], [boolstyle |-> <<"y", "y">>] }
Copy == INSTANCE CopyTask WITH
    Commands <- [direction : {"from", "to"}, columns : {{"k", "v"}, {"v"}, {"k", "x"}, {}}, skipped : {{}, {"k"}, {"v"}},
                 options : OptionsGiven],
    Columns <- {"k", "v"}, PrimaryKey <- {"k"}, NumProcesses <- 2, phase <- task
NoCopy == /\ task = None /\ command = None /\ options = None /\ processes = None /\ params = None /\ writer = None
          /\ errFile = None /\ lost = None

(* Startup: host, port, colours and time zone from each of their sources, files   *)
(* with and without a mark of their encoding.                                  *)
InputFiles == [plain |-> [encoding |-> "utf-8", bytes |-> <<119, 59>>], sig |-> [encoding |-> "utf-8-sig", bytes |-> <<239, 187, 191, 119>>],
               u16l |-> [encoding |-> "utf-16le", bytes |-> <<255, 254, 119, 0>>], u16b |-> [encoding |-> "utf-16be", bytes |-> <<254, 255, 0, 119>>],
               u32l |-> [encoding |-> "utf-32le", bytes |-> <<255, 254, 0, 0, 119>>],
               u32b |-> [encoding |-> "utf-32be", bytes |-> <<0, 0, 254, 255, 0>>]]
Begin == INSTANCE Startup WITH
    Rcs <- {<<>>, [host |-> "rc", timezone |-> "Known"], [timezone |-> "Odd", color |-> TRUE, tty |-> TRUE],
            [port |-> Bad, time_format |-> "mine"]},
    Envs <- {<<>>, [host |-> "env"], [TZ |-> "Other"], [TZ |-> "Odd"], [TZ |-> "Known", host |-> "env"]},
    Args <- {<<>>, [host |-> "arg"], [host |-> "arg", port |-> 1], [execute |-> <<"w">>], [execute |-> <<"w", ";">>, tty |-> TRUE]}
            \cup {[file |-> f] : f \in DOMAIN InputFiles},
    Machines <- [tty : BOOLEAN, colors : {TRUE}, zone : {"Here"}, tzlocal : BOOLEAN, pytz : BOOLEAN],
    Zones <- {"Known", "Other"}, Files <- InputFiles, phase <- starting, options <- chosen
NoBegin == /\ starting = None /\ rc = None /\ env = None /\ args = None /\ machine = None /\ chosen = None
           /\ stdin = None /\ timezone = None /\ warned = None

ASSUME ConstantsAssumption ==
    /\ Walk!TokensAssumption /\ Walk!HostsAssumption
    /\ Calm!ExportAssumption /\ Faulty!ExportAssumption /\ Retried!ExportAssumption /\ Single!ExportAssumption
    /\ Write!FilesAssumption /\ Times!TimestampsAssumption /\ Spans!DurationsAssumption
    /\ Terminal!StatementsAssumption /\ File!StatementsAssumption /\ Given!StatementsAssumption /\ Patient!StatementsAssumption
    /\ Switches!ShellAssumption /\ Requests!ShellAssumption /\ DseShell!ShellAssumption /\ Copy!CopyTaskAssumption
    /\ Begin!StartupAssumption

-----------------------------------------------------------------------------
NoData == NoWalk /\ NoExport /\ NoFiles /\ NoValues /\ NoDurations
NoCommands == NoStatements /\ NoLine /\ NoShell /\ NoCopy /\ NoBegin
InitData ==
    \/ part = "ranges" /\ Walk!Init /\ NoExport /\ NoFiles /\ NoValues /\ NoDurations
    \/ InitExport /\ NoWalk /\ NoFiles /\ NoValues /\ NoDurations
    \/ part = "files" /\ Write!Init /\ NoWalk /\ NoExport /\ NoValues /\ NoDurations
    \/ InitValues /\ NoWalk /\ NoExport /\ NoFiles /\ NoDurations
    \/ part = "durations" /\ Spans!Init /\ NoWalk /\ NoExport /\ NoFiles /\ NoValues
InitCommands ==
    \/ InitStatements /\ NoLine /\ NoShell /\ NoCopy /\ NoBegin
    \/ part = "line" /\ Line!Init /\ NoStatements /\ NoShell /\ NoCopy /\ NoBegin
    \/ InitShell /\ NoStatements /\ NoLine /\ NoCopy /\ NoBegin
    \/ part = "copy" /\ Copy!Init /\ NoStatements /\ NoLine /\ NoShell /\ NoBegin
    \/ part = "begin" /\ Begin!Init /\ NoStatements /\ NoLine /\ NoShell /\ NoCopy
Init == (InitData /\ NoCommands) \/ (InitCommands /\ NoData)

OnlyRanges == part = "ranges" /\ UNCHANGED <<part, exportVars, filesVars, valueVars, durationVars, commandVars>>
OnlyExport(p) == part = p /\ UNCHANGED <<part, rangesVars, filesVars, valueVars, durationVars, commandVars>>
OnlyFiles == part = "files" /\ UNCHANGED <<part, rangesVars, exportVars, valueVars, durationVars, commandVars>>
OnlyValues(p) == part = p /\ UNCHANGED <<part, rangesVars, exportVars, filesVars, durationVars, commandVars>>
OnlyDurations == part = "durations" /\ UNCHANGED <<part, rangesVars, exportVars, filesVars, valueVars, commandVars>>
OnlyStatements(p) == part = p /\ UNCHANGED <<part, dataVars, lineVars, shellVars, taskVars, startupVars>>
OnlyLine == part = "line" /\ UNCHANGED <<part, dataVars, statementVars, shellVars, taskVars, startupVars>>
OnlyShell(p) == part = p /\ UNCHANGED <<part, dataVars, statementVars, lineVars, taskVars, startupVars>>
OnlyCopy == part = "copy" /\ UNCHANGED <<part, dataVars, statementVars, lineVars, shellVars, startupVars>>
OnlyBegin == part = "begin" /\ UNCHANGED <<part, dataVars, statementVars, lineVars, shellVars, taskVars>>

Next ==
    \/ OnlyRanges /\ Walk!Next
    \/ OnlyExport("calm") /\ Calm!Next
    \/ OnlyExport("faulty") /\ Faulty!Next
    \/ OnlyExport("retried") /\ Retried!Next
    \/ OnlyExport("single") /\ Single!Next
    \/ OnlyFiles /\ Write!Next
    \/ OnlyValues("values") /\ Values!Next /\ UNCHANGED format
    \/ OnlyValues("marked") /\ Marked!Next /\ UNCHANGED format
    \/ OnlyValues("times") /\ Times!Next
    \/ OnlyValues("times2") /\ Times2!Next
    \/ OnlyDurations /\ Spans!Next
    \/ OnlyStatements("terminal") /\ Terminal!Next
    \/ OnlyStatements("file") /\ File!Next
    \/ OnlyStatements("given") /\ Given!Next
    \/ OnlyStatements("patient") /\ Patient!Next
    \/ OnlyLine /\ Line!Next
    \/ OnlyShell("switches") /\ Switches!Next
    \/ OnlyShell("requests") /\ Requests!Next
    \/ OnlyShell("dse") /\ DseShell!Next
    \/ OnlyCopy /\ Copy!Next
    \/ OnlyBegin /\ Begin!Next

(* The parent runs, the threads of a worker run, and every query is answered   *)
(* or times out (CopyTo).                                                      *)
ParentRuns == \/ OnlyExport("calm") /\ Calm!ParentStep
              \/ OnlyExport("faulty") /\ Faulty!ParentStep
              \/ OnlyExport("retried") /\ Retried!ParentStep
MainRuns(w) == \/ OnlyExport("calm") /\ Calm!MainStep(w)
               \/ OnlyExport("faulty") /\ Faulty!MainStep(w)
               \/ OnlyExport("retried") /\ Retried!MainStep(w)
LoopRuns(w) == \/ OnlyExport("calm") /\ Calm!LoopStep(w)
               \/ OnlyExport("faulty") /\ Faulty!LoopStep(w)
               \/ OnlyExport("retried") /\ Retried!LoopStep(w)
Spec == /\ Init /\ [][Next]_vars /\ WF_vars(ParentRuns)
        /\ \A w \in 1..2 : WF_vars(MainRuns(w)) /\ WF_vars(LoopRuns(w))

-----------------------------------------------------------------------------
(* Each row between the limits is selected by exactly one query, each other    *)
(* row by none, and each query goes to replicas of the rows it selects.        *)
EachTokenOnce == part = "ranges" => Walk!EachTokenOnce /\ Walk!ReadFromReplicas

(* Without a warning to the user every page is in the file, once; and whatever *)
(* fails no page is there twice: but for pages that two threads of a worker     *)
(* wrote at once, and as long as every page can be formatted.                  *)
CompletedMeansExported ==
    /\ part = "calm" => Calm!CompletedMeansExported /\ Calm!NothingTwice
    /\ part = "faulty" => Faulty!CompletedMeansExported /\ Faulty!NothingTwice
    /\ part = "retried" => Retried!CompletedMeansExported /\ Retried!NothingTwice
    /\ part = "single" => Single!CompletedMeansExported /\ Single!NothingTwice

(* What a worker counts for throttling is what it has in progress.             *)
Throttled == /\ part = "calm" => Calm!Throttled
             /\ part = "faulty" => Faulty!Throttled
             /\ part = "single" => Single!Throttled

(* The files hold the rows in the order they came, and each but the last as     *)
(* many as a file may.                                                         *)
FilesKeepRows == part = "files" => Write!LinesKept /\ Write!FilesFilled

(* A value that is exported and imported again is the value it was: texts with  *)
(* quotes, separators and parentheses in collections of any depth, instants in  *)
(* each format that says the zone, and durations as the server sends them.     *)
(* Instants of another program are read off by twice the zone they say.        *)
RoundTrip ==
    /\ part = "values" => Values!RoundTrip
    /\ part = "marked" => Marked!RoundTrip
    /\ part = "times" => Times!RoundTrip /\ Times!ReadByItsZone
    /\ part = "times2" => Times2!RoundTrip /\ Times2!ReadByItsZone
    /\ part = "durations" => Spans!DecodedAsSent /\ Spans!TextMeansIt

(* What runs is what was typed, cut where the user meant to: the statements, the  *)
(* prompt that tells what is expected, the words of a command with and without     *)
(* TAB, and the object that DESCRIBE is asked for.                             *)
ReadAsMeant ==
    /\ part = "terminal" => Terminal!RunAsWritten /\ Terminal!PromptTells
    /\ part = "file" => File!RunAsWritten /\ File!PromptTells
    /\ part = "given" => Given!RunAsWritten /\ Given!PromptTells
    /\ part = "patient" => Patient!RunAsWritten /\ Patient!PromptTells
    /\ part = "line" => /\ Line!UnderstoodIfDerived /\ Line!OffersFit /\ Line!OfferedOnce
                        /\ Line!DescribedAsDocumented /\ Line!HelpIsTrue

(* The settings in force are those the user asked for last, in the shell and all   *)
(* it reads commands for, or those of the place nearest to the command: of COPY,    *)
(* and of the program.                                                         *)
SettingsHold ==
    /\ part = "switches" => Switches!KeyspaceShown /\ Switches!AsChosen
    /\ part = "requests" => Requests!KeyspaceShown /\ Requests!AsChosen
    /\ part = "dse" => DseShell!KeyspaceShown /\ DseShell!AsChosen
    /\ part = "copy" => Copy!MostSpecialWins
    /\ part = "begin" => Begin!NearestWins /\ Begin!EncodingFits

(* A shell works on a connection that is open, every process of COPY has the ends  *)
(* of its own pipes, and when COPY returns, its processes and files are closed.   *)
NothingLeftOpen ==
    /\ part = "switches" => Switches!Connected
    /\ part = "requests" => Requests!Connected
    /\ part = "dse" => DseShell!Connected
    /\ part = "copy" => Copy!NothingLeft /\ Copy!PipesMatch

(* An export always comes back, and without faults with everything exported.      *)
Ended == CASE part = "calm" -> phase = "closed" /\ succeeded = Cardinality(Two)
           [] part \in {"faulty", "retried"} -> phase = "closed"
           [] OTHER -> TRUE
ExportEnds == <>Ended
=============================================================================
