----------------------------- MODULE CsvValues ------------------------------
(***************************************************************************)
(* A value on its way through a CSV file: COPY TO formats it                *)
(* (formatting.py), the csv module writes and reads the field, COPY FROM    *)
(* converts the text back (ImportConversion._get_converter).  Collections   *)
(* are text as well: their elements are quoted, and split cuts the text at  *)
(* separators that are neither quoted nor inside inner parentheses.         *)
(*                                                                         *)
(* A text is a sequence of characters.  Integers are written with a         *)
(* separator of thousands; 7 and 1234 stand for those without and with one. *)
(***************************************************************************)
EXTENDS Integers, Sequences, SequencesExt, FiniteSetsExt

CONSTANTS Samples,      \* pairs of a type and a value of it
          NullVal,      \* the text that stands for null
          ThousandsSep, \* a character, or the empty text
          Null, Bad     \* no value; what cannot be converted

VARIABLES sample, stage, text, result
vars == <<sample, stage, text, result>>

-----------------------------------------------------------------------------
(* Texts.                                                                  *)
Chars(f(_), s) == FlattenSeq([k \in DOMAIN s |-> f(s[k])])
Join(pieces, sep) == FlattenSeq([k \in DOMAIN pieces |-> IF k = 1 THEN pieces[k] ELSE sep \o pieces[k]])
Slice(s, from, to) == SubSeq(s, from, to)

(* str.strip, for blanks.                                                    *)
Strip(s) == LET solid == {k \in DOMAIN s : s[k] # " "}
            IN IF solid = {} THEN <<>> ELSE Slice(s, Min(solid), Max(solid))

-----------------------------------------------------------------------------
(* COPY TO: format_value with quote, which elements of collections have.     *)
Escape(c) == IF c = "\\" THEN <<"\\", "\\">> ELSE <<c>>
(* Mutant of DoubleQuote: quotes in a text are left alone.                    *)
DoubleNothing(c) == <<c>>
DoubleQuote(c) == IF c = "'" THEN <<"'", "'">> ELSE <<c>>

FormatText(v, quote) ==
    IF quote THEN <<"'">> \o Chars(DoubleQuote, Chars(Escape, v)) \o <<"'">> ELSE Chars(Escape, v)

FormatInt(v) == IF v < 1000 THEN <<"7">> ELSE <<"1">> \o ThousandsSep \o <<"234">>

RECURSIVE Format(_, _, _)
FormatAll(vs, ts) == [k \in DOMAIN vs |-> Format(vs[k], ts[k], TRUE)]
Same(t, vs) == [k \in DOMAIN vs |-> t]
Collection(open, subs, close) == <<open>> \o Join(subs, <<",", " ">>) \o <<close>>
Pair(k, v) == k \o <<":", " ">> \o v
FormatField(v, t) == IF v = Null THEN NullVal ELSE Format(v, t, TRUE)
Format(v, t, quote) ==
    CASE t.kind = "text" -> FormatText(v, quote)
      [] t.kind = "int" -> FormatInt(v)
      [] t.kind = "list" -> Collection("[", FormatAll(v, Same(t.of, v)), "]")
      [] t.kind = "tuple" -> Collection("(", FormatAll(v, t.of), ")")
      [] t.kind = "set" -> LET s == SetToSeq(v) IN Collection("{", FormatAll(s, Same(t.of, s)), "}")
      [] t.kind = "map" -> LET s == SetToSeq(v)
                           IN Collection("{", [k \in DOMAIN s |-> Pair(Format(s[k][1], t.key, TRUE),
                                                                       Format(s[k][2], t.val, TRUE))], "}")
      [] t.kind = "udt" -> Collection("{", [k \in DOMAIN v |-> Pair(FormatText(t.names[k], FALSE),
                                                                    FormatField(v[k], t.of[k]))], "}")

(* The csv module with an escape character: its writer does not escape the    *)
(* escape character, its reader takes the character after one as it is.       *)
RECURSIVE ReadField(_)
ReadField(s) == IF s = <<>> THEN <<>>
                ELSE IF s[1] = "\\" /\ Len(s) > 1 THEN <<s[2]>> \o ReadField(Slice(s, 3, Len(s)))
                ELSE <<s[1]>> \o ReadField(Tail(s))

-----------------------------------------------------------------------------
(* COPY FROM.                                                               *)

Opening == {"{", "[", "("}
Closing == {"}", "]", ")"}
ParenMatch(c, d) == <<c, d>> \in {<<"{", "}">>, <<"[", "]">>, <<"(", ")">>}

(* split, without its loop: a place is quoted when the number of quotes up to  *)
(* it is odd, and its level is the number of parentheses open there.           *)
Count(s, i, P(_)) == Cardinality({j \in 1..i : P(j)})
QuotedAt(s, i) == Count(s, i, LAMBDA j : s[j] = "'") % 2 = 1
Level(s, i) == Count(s, i, LAMBDA j : s[j] \in Opening /\ ~QuotedAt(s, j))
               - Count(s, i, LAMBDA j : s[j] \in Closing /\ ~QuotedAt(s, j))
Cuts(s, sep) == {i \in DOMAIN s : s[i] = sep /\ ~QuotedAt(s, i) /\ Level(s, i) = 1}

Splittable(s) == Len(s) >= 2 /\ ParenMatch(s[1], s[Len(s)])
Split(s, sep) ==
    LET cuts == SetToSortSeq(Cuts(s, sep), <)
        last == IF cuts = <<>> THEN 1 ELSE cuts[Len(cuts)]
        from(k) == IF k = 1 THEN 2 ELSE cuts[k - 1] + 1
        pieces == [k \in DOMAIN cuts |-> Slice(s, from(k), cuts[k] - 1)]
    IN IF last + 1 < Len(s) THEN Append(pieces, Slice(s, last + 1, Len(s) - 1)) ELSE pieces

(* dequote_value: blanks around it, quotes around that, and doubled quotes.     *)
RECURSIVE Undouble(_)
Undouble(s) == IF Len(s) < 2 THEN s
               ELSE IF s[1] = "'" /\ s[2] = "'" THEN <<"'">> \o Undouble(Slice(s, 3, Len(s)))
               ELSE <<s[1]>> \o Undouble(Tail(s))
Unprotect(v) ==
    LET w == Strip(v)
    IN IF w # <<>> /\ w[1] = "'" /\ w[Len(w)] = "'" THEN Undouble(Slice(w, 2, Len(w) - 1)) ELSE w

ConvertInt(s) == LET digits == SelectSeq(s, LAMBDA c : <<c>> # ThousandsSep)
                 IN CASE digits = <<"7">> -> 7 [] digits = <<"1", "234">> -> 1234 [] OTHER -> Bad

Braced(s) == <<"{">> \o s \o <<"}">>
AnyBad(vs) == Bad \in ToSet(vs)
OrBad(vs, v) == IF AnyBad(vs) THEN Bad ELSE v

RECURSIVE Conv(_, _)
Convert(t, v) == IF Unprotect(v) = NullVal THEN Null ELSE Conv(t, Unprotect(v))
ConvertMandatory(t, v) == IF Unprotect(v) = NullVal THEN Bad ELSE Conv(t, Unprotect(v))
ConvertAll(t, pieces) == [k \in DOMAIN pieces |-> ConvertMandatory(t, pieces[k])]
ConvertTuple(ts, pieces) ==
    [k \in 1..(IF Len(ts) < Len(pieces) THEN Len(ts) ELSE Len(pieces)) |-> ConvertMandatory(ts[k], pieces[k])]
ConvertPair(t, p) == IF Len(p) < 2 THEN Bad
                     ELSE LET k == ConvertMandatory(t.key, p[1])
                              v == Convert(t.val, p[2])
                          IN IF k = Bad \/ v = Bad THEN Bad ELSE <<k, v>>
(* The fields of a user type may come in any order; a missing one is null.      *)
ConvertUdt(t, pairs) ==
    [k \in DOMAIN t.names |->
        LET named == {j \in DOMAIN pairs : Unprotect(pairs[j][1]) = t.names[k]}
        IN IF named = {} THEN Null ELSE Convert(t.of[k], pairs[Max(named)][2])]
Conv(t, s) ==
    CASE t.kind = "text" -> s
      [] t.kind = "int" -> ConvertInt(s)
      [] t.kind \notin {"text", "int"} /\ ~Splittable(s) -> Bad
      [] OTHER ->
           LET pieces == Split(s, ",")
               pairs == [k \in DOMAIN pieces |-> Split(Braced(pieces[k]), ":")]
           IN CASE t.kind = "list" -> LET vs == ConvertAll(t.of, pieces) IN OrBad(vs, vs)
                [] t.kind = "set" -> LET vs == ConvertAll(t.of, pieces) IN OrBad(vs, ToSet(vs))
                [] t.kind = "tuple" -> LET vs == ConvertTuple(t.of, pieces) IN OrBad(vs, vs)
                [] t.kind = "map" -> LET vs == [k \in DOMAIN pairs |-> ConvertPair(t, pairs[k])]
                                     IN OrBad(vs, ToSet(vs))
                [] t.kind = "udt" -> IF \E k \in DOMAIN pairs : Len(pairs[k]) < 2 THEN Bad
                                     ELSE LET vs == ConvertUdt(t, pairs) IN OrBad(vs, vs)

-----------------------------------------------------------------------------
Init == sample \in Samples /\ stage = "value" /\ text = <<>> /\ result = Null

(* format_value and csv.writer.                                              *)
Export == /\ stage = "value" /\ stage' = "file"
          /\ text' = Format(sample.value, sample.type, FALSE)
          /\ UNCHANGED <<sample, result>>

(* csv.reader.                                                               *)
Read == /\ stage = "file" /\ stage' = "row"
        /\ text' = ReadField(text)
        /\ UNCHANGED <<sample, result>>

(* convert_row: a field that is the null value is not converted.               *)
Import == /\ stage = "row" /\ stage' = "done"
          /\ result' = IF text = NullVal THEN Null ELSE Conv(sample.type, text)
          /\ UNCHANGED <<sample, text>>

Next == Export \/ Read \/ Import
Spec == Init /\ [][Next]_vars

-----------------------------------------------------------------------------
(* What is imported is what was exported, quotes, separators, blanks,          *)
(* parentheses and escape characters in texts notwithstanding, at any depth of *)
(* collections.  Only a text equal to the null value is told apart from it no   *)
(* more: it becomes null where there may be one, and is refused elsewhere.      *)
RECURSIVE Expected(_, _)
Optional(v, t) == IF v = Null \/ (t.kind = "text" /\ v = NullVal) THEN Null ELSE Expected(v, t)
Mandatory(v, t) == IF t.kind = "text" /\ v = NullVal THEN Bad ELSE Expected(v, t)
Expected(v, t) ==
    CASE t.kind \in {"text", "int"} -> v
      [] t.kind = "list" -> LET vs == [k \in DOMAIN v |-> Mandatory(v[k], t.of)] IN OrBad(vs, vs)
      [] t.kind = "tuple" -> LET vs == [k \in DOMAIN v |-> Mandatory(v[k], t.of[k])] IN OrBad(vs, vs)
      [] t.kind = "set" -> LET vs == {Mandatory(x, t.of) : x \in v} IN IF Bad \in vs THEN Bad ELSE vs
      [] t.kind = "map" -> LET ks == {Mandatory(x[1], t.key) : x \in v}
                               vs == {Optional(x[2], t.val) : x \in v}
                           IN IF Bad \in ks \/ Bad \in vs THEN Bad ELSE {<<x[1], Optional(x[2], t.val)>> : x \in v}
      [] t.kind = "udt" -> LET vs == [k \in DOMAIN v |-> Optional(v[k], t.of[k])] IN OrBad(vs, vs)

RoundTrip == stage = "done" => result = Optional(sample.value, sample.type)
=============================================================================
