---------------------------- MODULE CommandRules ----------------------------
(***************************************************************************)
(* The grammar of the shell's own commands and the matchers that read it, for *)
(* parsing and for completion.  A rule is matched against a context: what was  *)
(* bound and matched so far and the tokens that remain.  The result is every   *)
(* way to go on, in order, and what could be typed where the tokens end.       *)
(* A token is its text; Kind tells its type, a symbol's when no other.         *)
(***************************************************************************)
EXTENDS Integers, Sequences, FiniteSets, SequencesExt

CONSTANTS Kinds,        \* the types of the tokens that are more than symbols
          Quoted,       \* the names that the quoted ones among them stand for
          Dse           \* with the rules of dsecqlsh
Kind(token) == IF token \in DOMAIN Kinds THEN Kinds[token] ELSE "symbol"
Dequote(token) == IF Kind(token) = "quotedName" THEN Quoted[token] ELSE token
Escape(name) == IF Kind(name) = "identifier" THEN name ELSE CHOOSE t \in DOMAIN Quoted : Quoted[t] = name

Word(text) == [rule |-> "word", text |-> text]
Type(type) == [rule |-> "type", type |-> type]
Choice(args) == [rule |-> "choice", args |-> args]
Words(texts) == Choice([i \in DOMAIN texts |-> Word(texts[i])])
Opt(arg) == [rule |-> "opt", arg |-> arg]
Repeat(arg) == [rule |-> "repeat", arg |-> arg]
Series(args) == [rule |-> "series", args |-> args]
Ref(name) == [rule |-> "ref", name |-> name]
Named(name, arg) == [rule |-> "named", name |-> name, arg |-> arg]
Collect(name, arg) == [rule |-> "collect", name |-> name, arg |-> arg]

-----------------------------------------------------------------------------
(* The grammar: cqlshhandling, the names of cql3handling, and dsecqlsh.        *)
SpecialCommands ==
    <<"describeCommand", "consistencyCommand", "serialConsistencyCommand", "showCommand", "sourceCommand",
      "captureCommand", "copyCommand", "loginCommand", "debugCommand", "helpCommand", "tracingCommand",
      "expandCommand", "exitCommand">>
    \o (IF Dse THEN <<"executeCommand">> ELSE <<>>) \o <<"pagingCommand", "clearCommand">>

Qualified(name) == Series(<<Opt(Series(<<Named("ksname", Ref("cfOrKsName")), Named("dot", Word("."))>>)),
                            Named(name, Ref("cfOrKsName"))>>)
List(item) == Series(<<item, Repeat(Series(<<Word(","), item>>))>>)
Switches == Opt(Named("switch", Words(<<"on", "off">>)))

DescribeRule ==
    Series(<<Words(<<"describe", "desc">>), Choice(
        << Word("functions"), Series(<<Word("function"), Named("udf", Ref("anyFunctionName"))>>),
           Word("aggregates"), Series(<<Word("aggregate"), Named("uda", Ref("userAggregateName"))>>),
           Word("keyspaces"), Series(<<Word("keyspace"), Opt(Named("ksname", Ref("keyspaceName")))>>),
           Series(<<Words(<<"columnfamily", "table">>), Named("cf", Ref("columnFamilyName"))>>),
           Series(<<Word("index"), Named("idx", Ref("indexName"))>>),
           Series(<<Word("materialized"), Word("view"), Named("mv", Ref("materializedViewName"))>>),
           Words(<<"columnfamilies", "tables">>), Series(<<Opt(Word("full")), Word("schema")>>),
           Word("cluster"), Word("types"), Series(<<Word("type"), Named("ut", Ref("userTypeName"))>>),
           Choice(<<Named("ksname", Ref("keyspaceName")), Named("cf", Ref("columnFamilyName")),
                    Named("idx", Ref("indexName")), Named("mv", Ref("materializedViewName"))>>) >>
        \o IF Dse THEN << Series(<<Words(<<"active", "pending">>), Word("search"), Word("index"),
                                   Words(<<"schema", "config">>), Word("on"), Named("cf", Ref("columnFamilyName"))>>) >>
           ELSE <<>>)>>)
Side(dir, stream) == Series(<<Named("dir", Word(dir)), Choice(<<Named("fname", Type("string")), Word(stream)>>)>>)
CopyRule ==
    Series(<<Word("copy"), Named("cf", Ref("columnFamilyName")),
             Opt(Series(<<Word("("), List(Collect("colnames", Ref("cident"))), Word(")")>>)),
             Choice(<<Side("from", "stdin"), Side("to", "stdout")>>),
             Opt(Series(<<Word("with"), Ref("copyOption"), Repeat(Series(<<Word("and"), Ref("copyOption")>>))>>))>>)
CopyOption == Series(<<Collect("optnames", Choice(<<Type("identifier"), Type("reserved")>>)), Word("="),
                       Collect("optvals", Choice(<<Type("identifier"), Type("reserved"), Type("string"), Type("number")>>))>>)
LoginRule == Series(<<Word("login"), Named("username", Ref("username")), Opt(Named("password", Type("string")))>>)
HelpRule == Series(<<Words(<<"help", "?">>), Repeat(Collect("topic", Choice(<<Type("identifier"), Type("reserved")>>)))>>)
PagingRule == Series(<<Word("paging"), Opt(Named("switch", Choice(<<Word("on"), Word("off"), Type("number")>>)))>>)
ExecuteRule == Series(<<Word("execute"), Word("as"), Opt(Named("user", Ref("username")))>>)
UserName == Named("name", Choice(<<Type("identifier"), Type("string")>>))
Name == Choice(<<Type("identifier"), Type("quotedName"), Ref("unreservedKeyword")>>)

Rules(name) ==
    CASE name = "cqlshCommand" -> Series(<<Choice([i \in DOMAIN SpecialCommands |-> Ref(SpecialCommands[i])]),
                                           Words(<<";", "nl">>)>>)
      [] name = "describeCommand" -> DescribeRule
      [] name = "consistencyCommand" -> Series(<<Word("consistency"), Opt(Named("level", Words(<<"one", "serial">>)))>>)
      [] name = "serialConsistencyCommand" ->
            Series(<<Word("serial"), Word("consistency"), Opt(Named("level", Words(<<"serial", "local_serial">>)))>>)
      [] name = "showCommand" -> Series(<<Word("show"), Named("what", Choice(<<Word("version"), Word("host"),
                                            Series(<<Word("session"), Named("sessionid", Type("uuid"))>>)>>))>>)
      [] name = "sourceCommand" -> Series(<<Word("source"), Named("fname", Type("string"))>>)
      [] name = "captureCommand" ->
            Series(<<Word("capture"), Opt(Named("fname", Choice(<<Type("string"), Word("off")>>)))>>)
      [] name = "copyCommand" -> CopyRule
      [] name = "copyOption" -> CopyOption
      [] name = "loginCommand" -> LoginRule
      [] name = "debugCommand" -> Series(<<Word("debug"), Opt(Word("things"))>>)
      [] name = "helpCommand" -> HelpRule
      [] name = "tracingCommand" -> Series(<<Word("tracing"), Switches>>)
      [] name = "expandCommand" -> Series(<<Word("expand"), Switches>>)
      [] name = "pagingCommand" -> PagingRule
      [] name = "exitCommand" -> Words(<<"exit", "quit">>)
      [] name = "clearCommand" -> Words(<<"clear", "cls">>)
      [] name = "executeCommand" -> ExecuteRule
      [] name = "columnFamilyName" -> Qualified("cfname")
      [] name = "indexName" -> Qualified("idxname")
      [] name = "materializedViewName" -> Qualified("mvname")
      [] name = "userTypeName" -> Qualified("utname")
      [] name = "anyFunctionName" -> Qualified("udfname")
      [] name = "userAggregateName" -> Qualified("udaname")
      [] name = "keyspaceName" -> Named("ksname", Ref("cfOrKsName"))
      [] name \in {"cfOrKsName", "cident"} -> Name
      [] name = "unreservedKeyword" -> Named("nocomplete", Words(<<"key", "type">>))
      [] name = "username" -> UserName

-----------------------------------------------------------------------------
(* ParseContext; what a name is bound to is a sequence of pieces of the text.  *)
Context(shell, tokens) == [shell |-> shell, bindings |-> <<>>, matched |-> <<>>, remainder |-> tokens,
                           production |-> "cqlshCommand"]
Binding(c, name) == IF name \in DOMAIN c.bindings THEN c.bindings[name] ELSE <<>>
WithBinding(c, name, val) ==
    [c EXCEPT !.bindings = [n \in DOMAIN c.bindings \cup {name} |-> IF n = name THEN val ELSE c.bindings[n]]]
WithMatch(c) == [c EXCEPT !.matched = Append(@, Head(c.remainder)), !.remainder = Tail(@)]
MatchedSince(c, before) == SubSeq(c.matched, Len(before.matched) + 1, Len(c.matched))

Hint(type) == "<" \o type \o ">"
Nothing == [found |-> <<>>, offers |-> {}]
Found(c) == [found |-> <<c>>, offers |-> {}]
Offered(o) == [found |-> <<>>, offers |-> o]

(* The completers of the names, which know the schema (completer_for); an        *)
(* exception in one counts as having none.                                     *)
NoCompleter == [ok |-> FALSE, offers |-> {}]
Completer(offers) == [ok |-> TRUE, offers |-> offers]
NameRules == {"columnFamilyName", "indexName", "materializedViewName", "userTypeName", "anyFunctionName", "userAggregateName"}
ObjectsOf(name) == CASE name = "cfname" -> "tables" [] name = "idxname" -> "indexes" [] name = "mvname" -> "views"
                     [] name = "utname" -> "types" [] name = "udfname" -> "functions" [] name = "udaname" -> "aggregates"
TextOf(c, name) == Dequote(Binding(c, name)[1][1])
Keyspaces(c) == c.shell.keyspaces
KeyspaceOf(c) == IF Binding(c, "ksname") = <<>> THEN c.shell.current ELSE TextOf(c, "ksname")
CompleteObjects(c, name) ==
    IF KeyspaceOf(c) \in DOMAIN Keyspaces(c) THEN Completer({<<Escape(o)>> : o \in DOMAIN Keyspaces(c)[KeyspaceOf(c)][ObjectsOf(name)]})
    ELSE IF Binding(c, "ksname") = <<>> THEN Completer({}) ELSE NoCompleter
CompleteColumns(c) ==
    LET given == {Dequote(Binding(c, "colnames")[i][1]) : i \in DOMAIN Binding(c, "colnames")}
        ks == KeyspaceOf(c) IN
    IF ks \notin DOMAIN Keyspaces(c) \/ TextOf(c, "cfname") \notin DOMAIN Keyspaces(c)[ks].tables THEN NoCompleter
    ELSE LET columns == Keyspaces(c)[ks].tables[TextOf(c, "cfname")] IN
         Completer(IF given = {} THEN {<<Escape(columns[1])>>} ELSE {<<Escape(x)>> : x \in ToSet(Tail(columns)) \ given})
CommonOptions == {"header", "null"}
OptionsOf(dir) == CommonOptions \cup IF dir = "from" THEN {"maxrows"} ELSE {"pagesize"}
CompleteOptions(c) ==
    LET given == {Binding(c, "optnames")[i][1] : i \in DOMAIN Binding(c, "optnames")} IN
    Completer({<<o>> : o \in OptionsOf(TextOf(c, "dir")) \ given})

CompleteKeyspaces(c) == Completer({<<Escape(k)>> : k \in DOMAIN Keyspaces(c)})
CompleteKeyspaceAndDot(c) == Completer({<<Escape(k), ".">> : k \in DOMAIN Keyspaces(c)})
CompleteDot(c) == Completer(IF TextOf(c, "ksname") \in DOMAIN Keyspaces(c) THEN {<<".">>} ELSE {})
CompleteName(c, name) ==
    CASE name = "ksname" -> CompleteKeyspaceAndDot(c)
      [] name = "dot" -> CompleteDot(c)
      [] OTHER -> CompleteObjects(c, name)
CompleteUsers(c) == Completer({<<u>> : u \in c.shell.users})
CompleteHelp(c) == Completer({<<t>> : t \in c.shell.topics})
CompleteFileName == Completer({<<"file">>})
CompleteOptionValues(c) ==
    Completer(IF Last(Binding(c, "optnames"))[1] = "header" THEN {<<"true">>, <<"false">>} ELSE {<<Hint("character")>>})

TryCompletion(c, name) ==
    LET at == <<c.production, name>> IN
    CASE c.remainder # <<>> -> NoCompleter
      [] c.remainder = <<>> /\ c.production = "keyspaceName" -> CompleteKeyspaces(c)
      [] c.remainder = <<>> /\ c.production \in NameRules -> CompleteName(c, name)
      [] c.remainder = <<>> /\ c.production = "unreservedKeyword" -> Completer({})
      [] c.remainder = <<>> /\ c.production = "username" -> CompleteUsers(c)
      [] c.remainder = <<>> /\ c.production = "helpCommand" -> CompleteHelp(c)
      [] c.remainder = <<>> /\ at = <<"copyCommand", "colnames">> -> CompleteColumns(c)
      [] c.remainder = <<>> /\ at = <<"copyCommand", "fname">> -> Completer({<<"'">>})
      [] c.remainder = <<>> /\ at \in {<<"sourceCommand", "fname">>, <<"captureCommand", "fname">>} -> CompleteFileName
      [] c.remainder = <<>> /\ at = <<"copyOption", "optnames">> -> CompleteOptions(c)
      [] c.remainder = <<>> /\ at = <<"copyOption", "optvals">> -> CompleteOptionValues(c)
      [] OTHER -> NoCompleter

-----------------------------------------------------------------------------
(* match, of each kind of rule.                                                *)
RECURSIVE Match(_, _), MatchEach(_, _), MatchSeries(_, _), MatchRepeat(_, _)
Both(a, b) == [found |-> a.found \o b.found, offers |-> a.offers \cup b.offers]
MatchEach(rule, cs) == IF cs = <<>> THEN Nothing ELSE Both(Match(rule, Head(cs)), MatchEach(rule, Tail(cs)))
MatchSeries(rules, result) ==
    IF rules = <<>> \/ result.found = <<>> THEN result
    ELSE LET next == MatchEach(Head(rules), result.found)
         IN  MatchSeries(Tail(rules), [next EXCEPT !.offers = @ \cup result.offers])
MatchRepeat(rule, cs) ==
    IF cs = <<>> THEN Nothing
    ELSE LET next == MatchEach(rule, cs)
         IN  Both([found |-> cs, offers |-> next.offers], MatchRepeat(rule, next.found))
MatchToken(c, fits, offer) == CASE c.remainder = <<>> -> Offered({<<offer>>})
                                [] c.remainder # <<>> /\ fits -> Found(WithMatch(c))
                                [] OTHER -> Nothing
Match(rule, c) ==
    CASE rule.rule = "word" -> MatchToken(c, c.remainder # <<>> /\ Head(c.remainder) = rule.text, rule.text)
      [] rule.rule = "type" -> MatchToken(c, c.remainder # <<>> /\ Kind(Head(c.remainder)) = rule.type, Hint(rule.type))
      [] rule.rule = "choice" -> FoldLeft(LAMBDA acc, arg : Both(acc, Match(arg, c)), Nothing, rule.args)
      [] rule.rule = "opt" -> Both(Found(c), Match(rule.arg, c))
      [] rule.rule = "repeat" -> MatchRepeat(rule.arg, <<c>>)
      [] rule.rule = "series" -> MatchSeries(rule.args, Found(c))
      [] rule.rule = "ref" ->
            LET m == Match(Rules(rule.name), [c EXCEPT !.production = rule.name])
            IN  [m EXCEPT !.found = [i \in DOMAIN @ |-> [m.found[i] EXCEPT !.production = c.production]]]
      [] rule.rule \in {"named", "collect"} ->
            LET completion == TryCompletion(c, rule.name)
                m == Match(rule.arg, c)
                Old(d) == IF rule.rule = "named" THEN <<>> ELSE Binding(d, rule.name)
            IN  [found |-> [i \in DOMAIN m.found |->
                                WithBinding(m.found[i], rule.name, Append(Old(m.found[i]), MatchedSince(m.found[i], c)))],
                 offers |-> IF completion.ok THEN completion.offers ELSE m.offers]

(* whole_match: the first way that leaves nothing; and complete.                *)
NoParse == [matched |-> <<>>]
WholeMatch(shell, tokens) ==
    LET whole == SelectSeq(Match(Rules("cqlshCommand"), Context(shell, tokens)).found, LAMBDA c : c.remainder = <<>>)
    IN  IF whole = <<>> THEN NoParse ELSE whole[1]
Complete(shell, tokens) == Match(Rules("cqlshCommand"), Context(shell, tokens)).offers
=============================================================================
