----------------------------- MODULE Timestamps -----------------------------
(***************************************************************************)
(* A timestamp on its way through a CSV file.  COPY TO prints it in UTC    *)
(* with the configured format and rounds it to milliseconds; COPY FROM     *)
(* tries that format, then the formats of CQL, then a number of            *)
(* milliseconds.  A file may also come from another program, in a format   *)
(* of CQL and any zone.  An instant is an hour and a millisecond within    *)
(* it.  "early" is before 1900, where strftime of Python 2 gives up; "far" *)
(* is beyond the years of Python, where the driver hands out the           *)
(* milliseconds since the epoch.                                           *)
(***************************************************************************)
EXTENDS Integers

CONSTANTS Hours, Millis,    \* of the instants
          Zones,            \* hours east of UTC that another program may write
          LocalZone,        \* the zone of the machine, in hours east of UTC
          Python3,          \* FALSE: Python 2, whose strptime does not know %z
          None

TimestampsAssumption == LocalZone \in Int /\ Zones \subseteq Int /\ Hours \subseteq Int /\ Millis \subseteq Nat

VARIABLES instant, format, stage, text, result
vars == <<instant, format, stage, text, result>>

Instants == [era : {"early", "modern", "far"}, hour : Hours, ms : Millis]
Formats == [fraction : BOOLEAN, zone : BOOLEAN]     \* with %f, with %z

Init == /\ instant \in Instants /\ format \in Formats
        /\ stage = "table" /\ text = None /\ result = None

-----------------------------------------------------------------------------
(* Texts: a date and time, made by the configured format or not, or a      *)
(* number.                                                                 *)
Date(era, hour, ms, zone, own) == [kind |-> "date", era |-> era, hour |-> hour, ms |-> ms, zone |-> zone, own |-> own]
Number(i) == [kind |-> "number", era |-> i.era, hour |-> i.hour, ms |-> i.ms]

Shown(i) == IF format.fraction THEN i ELSE [i EXCEPT !.ms = 0]

(* round_microseconds: three digits are left, all that a timestamp has.    *)
RoundMicroseconds(i) == i

(* format_value_timestamp; the number strftime falls back to counts        *)
(* seconds.                                                                *)
Export ==
    /\ stage = "table" /\ stage' = "exported"
    /\ text' = CASE instant.era = "far" -> Number(instant)
                 [] instant.era = "early" /\ ~Python3 -> Number([instant EXCEPT !.ms = 0])
                 [] OTHER -> LET i == RoundMicroseconds(Shown(instant))
                             IN Date(i.era, i.hour, i.ms, IF format.zone THEN 0 ELSE None, TRUE)
    /\ UNCHANGED <<instant, format, result>>

(* Another program writes the instant in a format of CQL.                  *)
WriteElsewhere(zone) ==
    /\ stage = "table" /\ instant.era # "far" /\ stage' = "written"
    /\ text' = Date(instant.era, instant.hour + zone, instant.ms, zone, FALSE)
    /\ UNCHANGED <<instant, format, result>>

-----------------------------------------------------------------------------
Instant(hour, ms) == [era |-> text.era, hour |-> hour, ms |-> ms]

Parses == text.kind = "date" /\ text.own /\ (Python3 \/ ~format.zone)

(* strptime with the configured format: a text without a zone is of the    *)
(* local zone for Python 3, and of UTC for Python 2, which forgets the     *)
(* fraction.                                                               *)
ByFormat == CASE ~Python3 -> Instant(text.hour, 0)
              [] Python3 /\ text.zone = None -> Instant(text.hour - LocalZone, text.ms)
              [] OTHER -> Instant(text.hour - text.zone, text.ms)

(* The regular expression.  The offset east of UTC is added, not           *)
(* subtracted.                                                             *)
ByPattern == LET offset == IF text.zone = None THEN LocalZone ELSE text.zone
             IN Instant(text.hour + offset, text.ms)

Import ==
    /\ stage \in {"exported", "written"}
    /\ stage' = IF stage = "exported" THEN "returned" ELSE "imported"
    /\ result' = CASE Parses -> ByFormat
                   [] ~Parses /\ text.kind = "date" -> ByPattern
                   [] OTHER -> Instant(text.hour, text.ms)
    /\ UNCHANGED <<instant, format, text>>

Next == Export \/ Import \/ \E zone \in Zones : WriteElsewhere(zone)
Spec == Init /\ [][Next]_vars

-----------------------------------------------------------------------------
(* COPY FROM reads what COPY TO wrote as the same instant, to the          *)
(* millisecond or to what the format shows, when the format says the zone  *)
(* (the comment on round_microseconds), except before 1900 in Python 2.    *)
RoundTrip == stage = "returned" /\ format.zone /\ (Python3 \/ instant.era # "early") =>
                 result = IF instant.era = "far" THEN instant ELSE Shown(instant)

(* A text of another program is read as an instant that is off by twice    *)
(* the zone it says, for convert_datetime adds the offset, and by nothing  *)
(* else: the instant it says when that zone is UTC, to the millisecond,    *)
(* and no other ("this should match all possible CQL and CQLSH datetime    *)
(* formats").                                                              *)
ReadByItsZone == stage = "imported" =>
                     /\ result = [instant EXCEPT !.hour = @ + 2 * text.zone]
                     /\ result = instant <=> text.zone = 0
=============================================================================
