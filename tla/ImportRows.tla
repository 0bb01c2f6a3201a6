----------------------------- MODULE ImportRows -----------------------------
(***************************************************************************)
(* What an import worker makes of the rows of a batch: columns skipped,      *)
(* lengths and keys checked, fields converted or quoted, keys serialised for *)
(* routing, one statement built, and what the table then holds.              *)
(*                                                                         *)
(* A field is "one", which any column takes, "junk", which only a text can   *)
(* be, "empty", or "marker".  One of the last two is the null value of the   *)
(* command.                                                                 *)
(***************************************************************************)
EXTENDS Integers, FiniteSets, Sequences, SequencesExt

CONSTANTS Columns,      \* the columns of the file, in order
          SkipColumns,  \* skipcols, none of the primary key
          PartitionKey, \* sequences of columns
          Clustering,
          Texts,        \* the columns of type text; the others are numbers
          Mode,         \* "prepared", "plain" or "counter"
          NullField,    \* nullval: "empty" or "marker"
          InsertNull,   \* insertnullformissingvalues
          Fields,       \* the fields in the file
          MaxRows,      \* rows in the batch
          Null, Unset, Invalid, Old     \* kinds of values

Primary == ToSet(PartitionKey) \cup ToSet(Clustering)
ImportRowsAssumption ==
    /\ Mode \in {"prepared", "plain", "counter"} /\ NullField \in {"empty", "marker"} /\ InsertNull \in BOOLEAN
    /\ Columns \in Seq(ToSet(Columns)) /\ Columns # <<>> /\ IsInjective(Columns)
    /\ Primary \subseteq ToSet(Columns) \ SkipColumns /\ MaxRows \in Nat \ {0}
    /\ Fields \subseteq {"one", "junk", "empty", "marker"}
    /\ IsInjective(<<Null, Unset, Invalid>>)
    /\ {Null, Unset, Invalid, Old} \cap {"one", "junk", "empty", "marker", "zero"} = {}

VARIABLES file,         \* the rows as the csv reader returns them
          stage,        \* "read", "converted", "routed" or "done"
          values,       \* for a row that is still on its way: its values
          reported,     \* the rows reported as failed
          table         \* for each row what its columns hold in the table
vars == <<file, stage, values, reported, table>>

Skipped == {k \in DOMAIN Columns : Columns[k] \in SkipColumns}
(* Numbers in their order.                                                      *)
InOrder(S) == CHOOSE f \in [1..Cardinality(S) -> S] :
                  ToSet(f) = S /\ \A i, j \in DOMAIN f : i < j => f[i] < f[j]
Kept == InOrder(DOMAIN Columns \ Skipped)
Valid == [k \in DOMAIN Kept |-> Columns[Kept[k]]]
Index(c) == CHOOSE k \in DOMAIN Valid : Valid[k] = c

(* Whole rows, one that lacks its last field and one with a field too many.     *)
Row == [DOMAIN Columns -> Fields]
       \cup {[k \in 1..(Len(Columns) - 1) |-> "one"], [k \in 1..(Len(Columns) + 1) |-> "one"]}

Init == /\ file \in UNION {[1..n -> Row] : n \in 1..MaxRows}
        /\ stage = "read" /\ values = <<>> /\ reported = {}
        /\ table = [r \in DOMAIN file |-> [c \in ToSet(Columns) |-> Old]]

-----------------------------------------------------------------------------
(* convert_row of ImportConversion.  The fields of the columns that are skipped *)
(* go first; the length of what is left is what is looked at.                   *)
FilterRowValues(row) == LET kept == InOrder(DOMAIN row \ Skipped) IN [k \in DOMAIN kept |-> row[kept[k]]]
BadLength(row) == Cardinality(DOMAIN row \ Skipped) # Len(Valid)

GetNullVal == CASE Mode = "prepared" -> IF InsertNull THEN Null ELSE Unset
                [] Mode = "plain" -> Null
                [] Mode = "counter" -> "zero"

Understood(c, field) == c \in Texts \/ field = "one"
(* An empty text that cannot be converted is null.                             *)
Prepared(c, field) == CASE Understood(c, field) -> field
                        [] ~Understood(c, field) /\ field = "empty" -> GetNullVal
                        [] OTHER -> Invalid
(* A protector puts quotes around it, or nothing.                              *)
Protected(c, field) == field
Converted(c, field) == CASE field = NullField -> GetNullVal
                         [] field # NullField /\ Mode = "prepared" -> Prepared(c, field)
                         [] OTHER -> Protected(c, field)

NullKey(row) == \E c \in Primary : row[Index(c)] = NullField

ConvertRow(row) == [k \in DOMAIN row |-> Converted(Valid[k], row[k])]

Fails(row) == BadLength(row) \/ LET kept == FilterRowValues(row)
                                IN NullKey(kept) \/ Invalid \in ToSet(ConvertRow(kept))

ConvertRows ==
    /\ stage = "read" /\ stage' = "converted"
    /\ reported' = {r \in DOMAIN file : Fails(file[r])}
    /\ values' = [r \in DOMAIN file \ reported' |-> ConvertRow(FilterRowValues(file[r]))]
    /\ UNCHANGED <<file, table>>

-----------------------------------------------------------------------------
(* get_row_partition_key_values_fcn: a key that is no value cannot be packed.   *)
(* Without a prepared statement of the whole row the types known are those of   *)
(* the partition key, and they are looked up by the place in the row.           *)
TypesKnown == IF Mode = "prepared" THEN Valid ELSE PartitionKey
Serializes(n, v) == /\ n <= Len(TypesKnown)
                    /\ v \notin {Null, Unset} /\ Understood(TypesKnown[n], v)
Routed(vs) == \A c \in ToSet(PartitionKey) : Serializes(Index(c), vs[Index(c)])

SplitIntoBatches ==
    /\ stage = "converted" /\ stage' = "routed"
    /\ LET bad == {r \in DOMAIN values : ~Routed(values[r])}
       IN /\ reported' = reported \cup bad
          /\ values' = [r \in DOMAIN values \ bad |-> values[r]]
    /\ UNCHANGED <<file, table>>

-----------------------------------------------------------------------------
(* The server takes a batch whole or not at all.                               *)
Accepts(c, v) == CASE c \in Primary -> v \notin {Null, Unset, "zero"} /\ Understood(c, v) /\ (<<c>> = PartitionKey => v # "empty")
                   [] OTHER -> v \in {Null, Unset, "zero"} \/ Understood(c, v)
Accepted == \A r \in DOMAIN values : \A k \in DOMAIN Valid : Accepts(Valid[k], values[r][k])

Cell(old, v) == IF v \in {Unset, "zero"} THEN old ELSE v
(* Mutant of Write: a column that is not in the statement is set to null.       *)
WriteAll(r) == [c \in ToSet(Columns) |-> IF c \in SkipColumns THEN Null ELSE Cell(table[r][c], values[r][Index(c)])]
Write(r) == [c \in ToSet(Columns) |-> IF c \in SkipColumns THEN table[r][c] ELSE Cell(table[r][c], values[r][Index(c)])]

Store == /\ stage = "routed" /\ Accepted /\ stage' = "done"
         /\ table' = [r \in DOMAIN file |-> IF r \in DOMAIN values THEN Write(r) ELSE table[r]]
         /\ UNCHANGED <<file, values, reported>>

(* err_callback, when the attempts are used up.                                 *)
Reject == /\ stage = "routed" /\ ~Accepted /\ stage' = "done"
          /\ reported' = reported \cup DOMAIN values
          /\ UNCHANGED <<file, values, table>>

Next == ConvertRows \/ SplitIntoBatches \/ Store \/ Reject
Spec == Init /\ [][Next]_vars

-----------------------------------------------------------------------------
(* What a user expects of a field: the null value says there is nothing, and so *)
(* does an empty field where the type has no empty value; nothing deletes what  *)
(* is there, or with INSERTNULLFORMISSINGVALUES false leaves it; a counter is    *)
(* not moved by it.                                                             *)
Absent(c, field) == field = NullField \/ (field = "empty" /\ c \notin Texts)
Wanted(c, field) == CASE ~Absent(c, field) -> field
                      [] Absent(c, field) /\ (Mode = "counter" \/ (Mode = "prepared" /\ ~InsertNull)) -> Old
                      [] OTHER -> Null
Good(row) == ~BadLength(row) /\ \A k \in DOMAIN Columns :
    \/ Columns[k] \in SkipColumns
    \/ /\ Absent(Columns[k], row[k]) \/ Understood(Columns[k], row[k])
       /\ Columns[k] \in Primary => row[k] = "one"

(* A row that was not reported holds what its fields say, and columns that were  *)
(* skipped what they held, even if the row has no field for them; a row that was *)
(* reported is as it was.                                                       *)
StoredAsRead ==
    stage = "done" => \A r \in DOMAIN file : \A k \in DOMAIN Columns :
        table[r][Columns[k]] = IF r \in reported \/ Columns[k] \in SkipColumns THEN Old ELSE Wanted(Columns[k], file[r][k])

(* A row with nothing wrong in it is stored, whatever else is in its batch.      *)
GoodRowsStored == stage = "done" => \A r \in DOMAIN file : Good(file[r]) => r \notin reported

(* No statement is sent without a value for each column of the primary key       *)
(* (convert_row: "make sure primary partition key values aren't missing",        *)
(* get_null_primary_key_message: "Cannot insert null value for primary key       *)
(* column").                                                                    *)
KeysPresent == stage = "routed" => \A r \in DOMAIN values : \A c \in Primary :
                   values[r][Index(c)] \notin {Null, Unset, "zero"}
=============================================================================
