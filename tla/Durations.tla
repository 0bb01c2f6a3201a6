----------------------------- MODULE Durations ------------------------------
(***************************************************************************)
(* A duration as the shell gets and shows it: three variable-length          *)
(* integers in a buffer (decode_vint), then months, days and nanoseconds in  *)
(* their largest units (duration_as_str).                                    *)
(*                                                                         *)
(* A byte has ByteBits bits, so that small numbers take several bytes.       *)
(***************************************************************************)
EXTENDS Integers, Sequences, SequencesExt, FiniteSetsExt

CONSTANTS ByteBits,     \* 8
          Numbers,      \* the numbers a duration is made of
          MonthUnits,   \* units of months and of nanoseconds, from the largest:
          NanoUnits     \* sequences of [name, divisor]; the divisor of the last is 1

DurationsAssumption ==
    /\ ByteBits \in Nat \ {0, 1} /\ Numbers \subseteq Int
    /\ \A units \in {MonthUnits, NanoUnits} : units # <<>> /\ Last(units).divisor = 1

VARIABLES sent,         \* the duration in the table: months, days, nanoseconds
          buf,          \* the bytes still to be read
          decoded,      \* the numbers read so far
          text          \* the text: a sign and a sequence of [num, name]
vars == <<sent, buf, decoded, text>>

Byte == 2^ByteBits
ZigZag(n) == IF n < 0 THEN -2 * n - 1 ELSE 2 * n

-----------------------------------------------------------------------------
(* The server: k extra bytes are announced by as many ones on the left of the  *)
(* first byte, which holds the highest bits of the number.                     *)
Extra(n) == Min({k \in 0..ByteBits : k = ByteBits \/ n < 2^(ByteBits - 1 - k) * Byte^k})
Ones(k) == Byte - 2^(ByteBits - k)
Encode(n) == LET k == Extra(n)
             IN [j \in 1..(k + 1) |-> ((n \div Byte^(k + 1 - j)) % Byte) + (IF j = 1 THEN Ones(k) ELSE 0)]

SameSign(d) == \A n \in {d[1], d[2], d[3]} : n >= 0 \/ \A m \in {d[1], d[2], d[3]} : m <= 0

Init == /\ sent \in {d \in Numbers \X Numbers \X Numbers : SameSign(d)}
        /\ buf = FlattenSeq([k \in 1..3 |-> Encode(ZigZag(sent[k]))])
        /\ decoded = <<>> /\ text = <<>>

-----------------------------------------------------------------------------
(* number_of_extra_bytes_to_read: the ones on the left of the byte.             *)
NumberOfExtraBytes(b) == Max({k \in 0..ByteBits : b >= Ones(k)})

DecodeZigZag(n) == IF n % 2 = 0 THEN n \div 2 ELSE -(n \div 2) - 1

(* decode_unsigned_vint: a mask takes the ones off, each byte shifts the rest.   *)
Decode ==
    /\ Len(decoded) < 3 /\ buf # <<>>
    /\ LET size == NumberOfExtraBytes(Head(buf))
           n == FoldLeft(LAMBDA acc, b : acc * Byte + b, Head(buf) % 2^(ByteBits - size), SubSeq(buf, 2, size + 1))
       IN /\ size < Len(buf)
          /\ decoded' = Append(decoded, DecodeZigZag(n))
          /\ buf' = SubSeq(buf, size + 2, Len(buf))
    /\ UNCHANGED <<sent, text>>

-----------------------------------------------------------------------------
Abs(n) == IF n < 0 THEN -n ELSE n

(* append: nothing for a number that has none of the unit.                       *)
Appended(acc, unit) ==
    IF acc.rest = 0 \/ acc.rest < unit.divisor THEN acc
    ELSE [rest |-> acc.rest % unit.divisor,
          parts |-> Append(acc.parts, [num |-> acc.rest \div unit.divisor, name |-> unit.name])]

InUnits(n, units) == FoldLeft(LAMBDA acc, unit : Appended(acc, unit), [rest |-> Abs(n), parts |-> <<>>], units).parts

Days == <<[name |-> "d", divisor |-> 1]>>
Show ==
    /\ Len(decoded) = 3 /\ text = <<>>
    /\ text' = <<\E k \in 1..3 : decoded[k] < 0,
                 InUnits(decoded[1], MonthUnits) \o InUnits(decoded[2], Days) \o InUnits(decoded[3], NanoUnits)>>
    /\ UNCHANGED <<sent, buf, decoded>>

Next == Decode \/ Show
Spec == Init /\ [][Next]_vars

-----------------------------------------------------------------------------
(* The numbers are read from the buffer as they were sent, and nothing is left  *)
(* of it (the comment on decode_unsigned_vint): no number takes bytes of the    *)
(* next.                                                                        *)
DecodedAsSent == /\ decoded = SubSeq(<<sent[1], sent[2], sent[3]>>, 1, Len(decoded))
                 /\ Len(decoded) = 3 => buf = <<>>

(* Read by the grammar of CQL, where a unit may come once and in this order, the *)
(* text is the duration: the numbers times their units, with the sign of all.    *)
Units == MonthUnits \o Days \o NanoUnits
Place(part) == CHOOSE k \in DOMAIN Units : Units[k].name = part.name
Total(from, to) == (IF text[1] THEN -1 ELSE 1)
    * FoldLeft(LAMBDA acc, p : acc + (IF Place(p) \in from..to THEN p.num * Units[Place(p)].divisor ELSE 0), 0, text[2])
TextMeansIt ==
    text # <<>> =>
        /\ \A j, k \in DOMAIN text[2] : j < k => Place(text[2][j]) < Place(text[2][k])
        /\ Total(1, Len(MonthUnits)) = sent[1] /\ Total(Len(MonthUnits) + 1, Len(MonthUnits) + 1) = sent[2]
        /\ Total(Len(MonthUnits) + 2, Len(Units)) = sent[3]
=============================================================================
