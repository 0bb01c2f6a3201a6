----------------------------- MODULE CommandLine -----------------------------
(***************************************************************************)
(* A line of the shell's own commands, typed token by token or completed with *)
(* TAB, and what DESCRIBE makes of it: which object the words name is decided *)
(* by the grammar, the current keyspace and the metadata together.            *)
(***************************************************************************)
EXTENDS CommandRules

CONSTANTS None,
          Sessions      \* a shell (current keyspace, keyspaces, search cores, users and
                        \* topics), the tokens typed into it, and how many at most

VARIABLES session, typed,
          helped,       \* every word typed was one that TAB offers
          shown         \* None, or what the command shows
vars == <<session, typed, helped, shown>>

shell == session.shell

Init == session \in Sessions /\ typed = <<>> /\ helped = TRUE /\ shown = None

-----------------------------------------------------------------------------
(* do_describe                                                                 *)
Shown(what, ks, name) == [what |-> what, ks |-> ks, name |-> name]
NotFound(error) == Shown("error", None, error)
DequotedName(parsed, name) == IF name \in DOMAIN parsed.bindings THEN Dequote(parsed.bindings[name][1][1]) ELSE None
OrCurrent(ks) == IF ks = None THEN shell.current ELSE ks

GetObject(what, ks, name) ==
    CASE ks \notin DOMAIN shell.keyspaces -> NotFound("keyspace")
      [] ks \in DOMAIN shell.keyspaces /\ name \notin DOMAIN shell.keyspaces[ks][what] -> NotFound(what)
      [] OTHER -> Shown(what, ks, name)
DescribeNamed(what, parsed, name) ==
    LET ks == OrCurrent(DequotedName(parsed, "ksname")) IN
    IF ks = None THEN NotFound("no keyspace") ELSE GetObject(what, ks, DequotedName(parsed, name))
DescribeAll(what) ==
    IF shell.current # None /\ shell.current \notin DOMAIN shell.keyspaces THEN NotFound("keyspace")
    ELSE Shown("all " \o what, shell.current, None)
DescribeSearch(ks, name, which) ==
    CASE ks = None -> NotFound("no keyspace")
      [] ks # None /\ <<ks, name>> \notin shell.cores -> NotFound("search resource")
      [] OTHER -> Shown("search " \o which, ks, name)

(* Mutant of GetObjectMeta: the objects of the current keyspace go first.       *)
GetObjectMetaLocal(ks, name) ==
    LET FirstIn(k, n) ==
            CASE k \notin DOMAIN shell.keyspaces -> NotFound("keyspace")
              [] OTHER -> LET kinds == SelectSeq(<<"tables", "indexes", "views">>, LAMBDA kind : n \in DOMAIN shell.keyspaces[k][kind]) IN
                          IF kinds = <<>> THEN NotFound("object") ELSE Shown(kinds[1], k, n)
        local == FirstIn(shell.current, ks)
    IN  CASE name # None -> FirstIn(OrCurrent(ks), name)
          [] name = None /\ local.what # "error" -> local
          [] OTHER -> IF ks \in DOMAIN shell.keyspaces THEN Shown("keyspace", ks, None) ELSE local
(* get_object_meta                                                             *)
GetObjectMeta(ks, name) ==
    LET FirstIn(k, n) ==
            CASE k \notin DOMAIN shell.keyspaces -> NotFound("keyspace")
              [] OTHER -> LET kinds == SelectSeq(<<"tables", "indexes", "views">>, LAMBDA kind : n \in DOMAIN shell.keyspaces[k][kind]) IN
                          IF kinds = <<>> THEN NotFound("object") ELSE Shown(kinds[1], k, n)
    IN  CASE name = None /\ ks # None /\ ks \in DOMAIN shell.keyspaces -> Shown("keyspace", ks, None)
          [] name = None /\ (ks = None \/ ks \notin DOMAIN shell.keyspaces) ->
                IF shell.current = None THEN NotFound("object") ELSE FirstIn(shell.current, ks)
          [] OTHER -> FirstIn(OrCurrent(ks), name)

DescribeKeyspace(given) ==
    LET ks == OrCurrent(given) IN
    CASE ks = None -> NotFound("no keyspace")
      [] ks # None /\ ks \notin DOMAIN shell.keyspaces -> NotFound("keyspace")
      [] OTHER -> Shown("keyspace", ks, None)
DescribeObject(parsed) ==
    LET names == SelectSeq(<<"cfname", "idxname", "mvname">>, LAMBDA n : DequotedName(parsed, n) # None)
    IN  GetObjectMeta(DequotedName(parsed, "ksname"), IF names = <<>> THEN None ELSE DequotedName(parsed, names[1]))

(* By the word after DESCRIBE, whichever rule it was matched by.                *)
DoDescribe(parsed) ==
    LET what == parsed.matched[2]
        then == parsed.matched[3] IN
    CASE Dse /\ what \in {"active", "pending"} /\ then = "search" /\ parsed.matched[4] = "index" ->
            DescribeSearch(OrCurrent(DequotedName(parsed, "ksname")), DequotedName(parsed, "cfname"), parsed.matched[5])
      [] what \in {"functions", "aggregates", "types"} -> DescribeAll(what)
      [] what \in {"columnfamilies", "tables"} -> DescribeAll("tables")
      [] what = "function" -> DescribeNamed("functions", parsed, "udfname")
      [] what = "aggregate" -> DescribeNamed("aggregates", parsed, "udaname")
      [] what = "keyspaces" -> Shown("all keyspaces", None, None)
      [] what = "keyspace" -> DescribeKeyspace(DequotedName(parsed, "ksname"))
      [] what \in {"columnfamily", "table"} -> DescribeNamed("tables", parsed, "cfname")
      [] what = "index" -> DescribeNamed("indexes", parsed, "idxname")
      [] what = "materialized" /\ then = "view" -> DescribeNamed("views", parsed, "mvname")
      [] what = "type" -> DescribeNamed("types", parsed, "utname")
      [] what = "cluster" -> IF shell.current = "system" THEN Shown("all cluster", None, None) ELSE DescribeAll("cluster")
      [] what = "schema" -> Shown("schema", None, None)
      [] what = "full" /\ then = "schema" -> Shown("full schema", None, None)
      [] OTHER -> DescribeObject(parsed)

(* handle_statement; a command without a whole match is improper.               *)
Handle(tokens) ==
    LET parsed == WholeMatch(shell, tokens) IN
    CASE parsed = NoParse -> Shown("improper", None, None)
      [] parsed # NoParse /\ tokens[1] \in {"describe", "desc"} -> DoDescribe(parsed)
      [] OTHER -> Shown("handled", None, None)

-----------------------------------------------------------------------------
(* The meaning of the grammar, without contexts: the sequences of rules that may *)
(* be left to read after some tokens, each beginning with a single token's.     *)
RECURSIVE Open(_)
Open(rules) ==
    IF rules = <<>> THEN {<<>>}
    ELSE LET first == Head(rules)
             rest == Tail(rules) IN
         CASE first.rule \in {"word", "type"} -> {rules}
           [] first.rule = "choice" -> UNION {Open(<<first.args[i]>> \o rest) : i \in DOMAIN first.args}
           [] first.rule = "opt" -> Open(rest) \cup Open(<<first.arg>> \o rest)
           [] first.rule = "repeat" -> Open(rest) \cup Open(<<first.arg, first>> \o rest)
           [] first.rule = "series" -> Open(first.args \o rest)
           [] first.rule = "ref" -> Open(<<Rules(first.name)>> \o rest)
           [] first.rule \in {"named", "collect"} -> Open(<<first.arg>> \o rest)
Reads(rules, token) ==
    rules # <<>> /\ IF Head(rules).rule = "word" THEN Head(rules).text = token ELSE Head(rules).type = Kind(token)
Read(left, token) == UNION {Open(Tail(rules)) : rules \in {r \in left : Reads(r, token)}}
Left(tokens) == FoldLeft(Read, Open(<<Ref("cqlshCommand")>>), tokens)
Sentence(tokens) == <<>> \in Left(tokens)

-----------------------------------------------------------------------------
Ended == typed # <<>> /\ Last(typed) \in {";", "nl"}
(* One more token that the grammar allows, or the end; or TAB puts in an offer of  *)
(* several.                                                                    *)
TypeToken ==
    /\ shown = None /\ ~Ended
    /\ LET offers == Complete(shell, typed)
           left == Left(typed) IN
       \/ \E t \in session.words : /\ Read(left, t) # {} \/ t = ";"
                               /\ typed' = Append(typed, t)
                               /\ helped' = (helped /\ <<t>> \in offers)
       \/ \E o \in offers : /\ Len(o) > 1 /\ ToSet(o) \subseteq session.words
                            /\ typed' = typed \o o
                            /\ UNCHANGED helped
    /\ Len(typed') <= session.most
    /\ UNCHANGED <<session, shown>>
Enter == /\ shown = None /\ Ended
         /\ shown' = Handle(typed)
         /\ UNCHANGED <<session, typed, helped>>
Next == TypeToken \/ Enter
Spec == Init /\ [][Next]_vars

-----------------------------------------------------------------------------
(* A command is understood if and only if the grammar derives it, whichever of    *)
(* the ways to read its beginning come first (whole_match).                    *)
UnderstoodIfDerived == shown # None => (shown.what # "improper") = Sentence(typed)

(* What TAB offers can be typed there, and every word of the grammar that can be  *)
(* typed there is offered: all but the words that are only allowed as names, the   *)
(* dot of no keyspace, and CAPTURE's OFF, which names of files take the place of. *)
OffersFit ==
    shown = None /\ ~Ended =>
        LET offers == Complete(shell, typed)
            left == Left(typed) IN
        /\ \A o \in offers : ToSet(o) \subseteq session.words => FoldLeft(Read, left, o) # {}
        /\ \A rules \in left \ {<<>>} :
               Head(rules).rule = "word" => \/ <<Head(rules).text>> \in offers
                                          \/ Head(rules).text \in {".", "key", "type"}
                                          \/ typed = <<"capture">>

(* An option of COPY is not offered twice, nor a column.                        *)
OfferedOnce ==
    shown = None /\ ~Ended =>
        \A o \in Complete(shell, typed) : o[1] \in CommonOptions =>
            \A i \in 2..Len(typed) : typed[i] = "=" => typed[i - 1] # o[1]

DescribeWords == {"functions", "function", "aggregates", "aggregate", "keyspaces", "keyspace", "columnfamilies", "tables",
                  "columnfamily", "table", "index", "types", "type", "cluster", "schema"}

(* DESCRIBE shows what its documentation says the words name: of one name alone   *)
(* a keyspace, a table, an index or a view, in this order; of a name after its     *)
(* kind that object, in the current keyspace unless another is named.          *)
KindWords == {"function", "aggregate", "table", "columnfamily", "index", "type"}
KindsOf(word) == CASE word = "function" -> "functions" [] word = "aggregate" -> "aggregates" [] word = "index" -> "indexes"
                   [] word = "type" -> "types" [] OTHER -> "tables"
Has(what, ks, name) == ks \in DOMAIN shell.keyspaces /\ name \in DOMAIN shell.keyspaces[ks][what]
Documented(words) ==
    LET n == Len(words)
        ks == IF n >= 3 /\ words[n - 1] = "." THEN Dequote(words[n - 2]) ELSE shell.current
        name == Dequote(words[n])
        kind == IF words[1] \in KindWords THEN KindsOf(words[1]) ELSE "views"
    IN  CASE n = 1 /\ name \in DOMAIN shell.keyspaces -> {Shown("keyspace", name, None)}
          [] (n = 1 /\ name \notin DOMAIN shell.keyspaces) \/ (n = 3 /\ words[2] = ".") ->
                CASE Has("tables", ks, name) -> {Shown("tables", ks, name)}
                  [] ~Has("tables", ks, name) /\ Has("indexes", ks, name) -> {Shown("indexes", ks, name)}
                  [] OTHER -> IF Has("views", ks, name) THEN {Shown("views", ks, name)} ELSE {}
          [] OTHER -> IF Has(kind, ks, name) THEN {Shown(kind, ks, name)} ELSE {}
Names(word) == Kind(word) \in {"identifier", "quotedName"}
DescribedAsDocumented ==
    LET words == SubSeq(typed, 2, Len(typed) - 1) IN
    shown # None /\ typed[1] \in {"describe", "desc"} /\ Sentence(typed) /\ Names(Last(words)) =>
        CASE words[1] = "keyspace" ->
                shown.what = (IF Dequote(words[2]) \in DOMAIN shell.keyspaces THEN "keyspace" ELSE "error")
          [] Len(words) # 2 /\ words[1] \in DescribeWords /\ (Len(words) = 1 \/ words[2] = ".") -> TRUE
          [] "search" \in ToSet(words) -> TRUE
          [] OTHER -> IF Documented(words) = {} THEN shown.what = "error" ELSE shown \in Documented(words)

(* A command put together from what TAB offers is understood, and finds its     *)
(* object, unless it needs a keyspace where none is used, or a core of its table. *)
HelpIsTrue ==
    helped /\ shown # None =>
        /\ shown.what # "improper"
        /\ shown.what = "error" => \/ typed[2] \in DescribeWords /\ (Len(typed) = 3 \/ typed[3] = ".")
                                  \/ ToSet(typed) \cap {"active", "pending"} # {}
=============================================================================
