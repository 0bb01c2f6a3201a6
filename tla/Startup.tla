------------------------------- MODULE Startup ------------------------------
(***************************************************************************)
(* From the command line to the shell: read_options gathers the options from  *)
(* cqlshrc, the environment and the arguments, main opens the input, finds the  *)
(* time zone and makes the shell, which then runs (Statements, Shell).         *)
(***************************************************************************)
EXTENDS Integers, Sequences, SequencesExt

CONSTANTS None, Bad,
          Rcs,          \* what cqlshrc may give, a set of functions from names
          Envs,         \* what the environment may give
          Args,         \* what the arguments may give
          Machines,     \* terminal, colours, zone of the machine, modules installed
          Zones,        \* the names pytz knows
          Files         \* the input files by name: their encoding and the bytes they begin with

VARIABLES phase,        \* "new", "options", "input", "zone", "made", "refused" or "aborted"
          rc, env, args, machine,
          options,      \* what read_options returns
          stdin,        \* the encoding and the bytes skipped of the input file
          timezone,
          warned        \* a zone was not recognized, or pytz is missing
vars == <<phase, rc, env, args, machine, options, stdin, timezone, warned>>

Init == /\ phase = "new" /\ rc \in Rcs /\ env \in Envs /\ args \in Args /\ machine \in Machines
        /\ options = None /\ stdin = None /\ timezone = None /\ warned = FALSE

-----------------------------------------------------------------------------
(* The first place that gives it.                                              *)
FirstOf(name, places, default) ==
    LET given == {i \in DOMAIN places : name \in DOMAIN places[i]} IN
    IF given = {} THEN default ELSE places[Min(given)][name]

(* Mutant of HostOf: the environment goes over the argument.                   *)
HostOfEnv(name, default) == FirstOf(name, <<env, args, rc>>, default)
HostOf(name, default) == FirstOf(name, <<args, env, rc>>, default)
Option(name, default) == FirstOf(name, <<args, rc>>, default)
Plain(name) == Option(name, None)

(* A statement of -e ends with a semicolon; input from -f or -e is no terminal.  *)
Terminated(text) == IF text = None \/ Last(text) = ";" THEN text ELSE Append(text, ";")
ReadOptions ==
    /\ phase = "new"
    /\ options' = [host |-> HostOf("host", "127.0.0.1"), port |-> HostOf("port", 9042),
                   keyspace |-> Plain("keyspace"), timezone |-> FirstOf("timezone", <<rc>>, None),
                   file |-> FirstOf("file", <<args>>, None),
                   execute |-> Terminated(FirstOf("execute", <<args>>, None)),
                   tty |-> "file" \notin DOMAIN args /\ "execute" \notin DOMAIN args /\ Option("tty", machine.tty),
                   color |-> IF Plain("color") # None THEN Plain("color")
                             ELSE "file" \notin DOMAIN args /\ machine.colors,
                   format |-> FirstOf("time_format", <<rc>>, "default")]
    /\ phase' = IF options'.port # Bad THEN "options" ELSE "refused"
    /\ UNCHANGED <<rc, env, args, machine, stdin, timezone, warned>>

(* get_file_encoding_bomsize                                                   *)
Boms == << <<"utf-8-sig", <<239, 187, 191>>>>, <<"utf-16le", <<255, 254>>>>, <<"utf-16be", <<254, 255>>>>,
           <<"utf-32be", <<255, 254, 0, 0>>>>, <<"utf-32be", <<0, 0, 254, 255>>>> >>
EncodingOf(bytes) ==
    LET fit == {i \in DOMAIN Boms : IsPrefix(Boms[i][2], bytes)}
        bom == Boms[Min(fit)]
    IN  IF fit = {} THEN [encoding |-> "utf-8", size |-> 0] ELSE [encoding |-> bom[1], size |-> Len(bom[2])]

OpenInput ==
    /\ phase = "options"
    /\ IF options.file = None THEN phase' = "input" /\ UNCHANGED stdin
       ELSE \/ phase' = "input" /\ stdin' = EncodingOf(Files[options.file].bytes)
            \/ phase' = "aborted" /\ UNCHANGED stdin
    /\ UNCHANGED <<rc, env, args, machine, options, timezone, warned>>

(* main: TZ goes over cqlshrc, a name pytz does not know counts as none, and      *)
(* without any the zone of the machine is taken, if tzlocal finds it.          *)
Recognized(name) == machine.pytz /\ name \in Zones
TZ == IF "TZ" \in DOMAIN env THEN env["TZ"] ELSE None
FindZone ==
    /\ phase = "input" /\ phase' = "zone"
    /\ timezone' = CASE Recognized(TZ) -> TZ
                     [] ~Recognized(TZ) /\ Recognized(options.timezone) -> options.timezone
                     [] OTHER -> IF machine.tzlocal THEN machine.zone ELSE None
    /\ warned' = \/ \E name \in {TZ, options.timezone} \ {None} : ~Recognized(name)
                 \/ timezone' = None /\ options.format # "default"
    /\ UNCHANGED <<rc, env, args, machine, options, stdin>>

(* The connection may fail; main then exits with the reason.                   *)
MakeShell == /\ phase = "zone" /\ phase' \in {"made", "aborted"}
             /\ UNCHANGED <<rc, env, args, machine, options, stdin, timezone, warned>>

Next == ReadOptions \/ OpenInput \/ FindZone \/ MakeShell
Spec == Init /\ [][Next]_vars

-----------------------------------------------------------------------------
(* A file begins with the mark of its encoding, or is UTF-8 without one; None is  *)
(* no zone.                                                                    *)
Bears(file, i) == file.encoding = Boms[i][1] /\ IsPrefix(Boms[i][2], file.bytes)
StartupAssumption ==
    /\ None \notin Zones
    /\ \A a \in Args : "file" \in DOMAIN a => a["file"] \in DOMAIN Files
    /\ \A name \in DOMAIN Files :
          \/ Files[name].encoding = "utf-8" /\ \A i \in DOMAIN Boms : ~IsPrefix(Boms[i][2], Files[name].bytes)
          \/ Files[name].encoding = "utf-32le"
          \/ \E i \in {1, 2, 3, 5} : Bears(Files[name], i)

(* A shell that runs works with what the nearest place asked for: the argument,   *)
(* then the environment, then cqlshrc; a zone asked for is the one shown, or the   *)
(* user was warned; and input that is not a terminal never prompts.            *)
NearestWins ==
    phase = "made" =>
        /\ options.host = CASE "host" \in DOMAIN args -> args["host"]
                            [] "host" \notin DOMAIN args /\ "host" \in DOMAIN env -> env["host"]
                            [] OTHER -> FirstOf("host", <<rc>>, "127.0.0.1")
        /\ ~warned => \A wish \in {IF TZ # None THEN TZ ELSE options.timezone} \ {None} : timezone = wish
        /\ options.tty => stdin = None /\ options.execute = None

(* A file is read in the encoding its mark announces, and the mark is skipped;    *)
(* UTF-32 with the low byte first is not, as its mark begins with that of UTF-16   *)
(* (get_file_encoding_bomsize).                                                *)
EncodingFits ==
    stdin # None => \/ stdin.encoding = Files[options.file].encoding
                    \/ Files[options.file].encoding = "utf-32le"
=============================================================================
