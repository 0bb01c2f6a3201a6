---------------------------- MODULE ExportRanges ----------------------------
(***************************************************************************)
(* COPY TO cuts the ring into ranges of tokens before it starts: one query  *)
(* per range, each for the replicas of that range.  BEGINTOKEN and ENDTOKEN *)
(* narrow the export.  ExportTask.get_ranges walks over the tokens of the   *)
(* ring in order; this module is that walk, one action per turn of its loop *)
(* and one per way to leave.                                                *)
(***************************************************************************)
EXTENDS Integers, Sequences

CONSTANTS Unset,        \* None, or the empty text of an option not given
          Positions,    \* the tokens rows may have
          MinToken,     \* the lowest token of the partitioner; Unset: it has none
          Rings,        \* the rings to choose from: sequences of tokens
          Limits,       \* the tokens the options may give
          Hosts, Usable, Here, \* hosts, those up in this data centre, the session's
          Replicas      \* the hosts of each token of a ring

TokensAssumption ==
    /\ Unset \notin Int /\ Positions \subseteq Int /\ Limits \subseteq Int
    /\ MinToken \in Int \cup {Unset}
    /\ \A ring \in Rings : /\ ring \in Seq(Int)
                           /\ \A i, j \in DOMAIN ring : i < j => ring[i] < ring[j]

HostsAssumption ==
    /\ Here \in Hosts /\ Usable \subseteq Hosts
    /\ \A ring \in Rings : \A i \in DOMAIN ring : Replicas[ring[i]] \subseteq Hosts

VARIABLES ring,         \* tokens of the ring, sorted
          begin, end,   \* begin_token and end_token
          pc,           \* "check", "loop", "last", "done", or "refused"
          i,            \* the turn of the loop
          previous,     \* the upper end of the last range taken
          ranges        \* the ranges to query
vars == <<ring, begin, end, pc, i, previous, ranges>>

(* Python takes a number for true unless it is zero, and None for false.    *)
Given(token) == token # Unset /\ token # 0

HostsOf(token) == IF Replicas[token] \cap Usable # {} THEN Replicas[token] \cap Usable ELSE {Here}

TokenRange(from, to, hosts) == [from |-> from, to |-> to, hosts |-> hosts]

Init == /\ ring \in Rings
        /\ begin \in Limits \cup {Unset}
        /\ end \in Limits \cup {Unset}
        /\ pc = "check" /\ i = 1 /\ previous = Unset /\ ranges = {}

Refused == \/ Given(begin) /\ MinToken # Unset /\ begin < MinToken
           \/ Given(begin) /\ Given(end) /\ begin > end

Refuse == /\ pc = "check" /\ Refused
          /\ pc' = "refused"
          /\ UNCHANGED <<ring, begin, end, i, previous, ranges>>

(* No tokens to walk over: one range for everything.                        *)
TakeWhole ==
    /\ pc = "check" /\ ~Refused
    /\ MinToken = Unset \/ Len(ring) <= 1
    /\ ranges' = {TokenRange(begin, end, IF MinToken # Unset /\ Len(ring) = 1 THEN HostsOf(ring[1]) ELSE {Here})}
    /\ pc' = "done"
    /\ UNCHANGED <<ring, begin, end, i, previous>>

Enter == /\ pc = "check" /\ ~Refused /\ MinToken # Unset /\ Len(ring) > 1
         /\ pc' = "loop"
         /\ UNCHANGED <<ring, begin, end, i, previous, ranges>>

(* make_range: the part of (previous, curr] between the limits; outside them *)
(* there is none.                                                            *)
From == IF Given(begin) /\ (previous = Unset \/ previous < begin) THEN begin ELSE previous
Empty(curr) == \/ Given(begin) /\ curr < begin
               \/ Given(end) /\ From # Unset /\ From > end
(* Mutant of To: the upper limit is not applied.                             *)
ToUnlimited(curr) == curr
To(curr) == IF Given(end) /\ curr > end THEN end ELSE curr

Skipped == ring[i] = MinToken \/ Empty(ring[i])

Turn(added, last) == /\ ranges' = ranges \cup added
                     /\ previous' = last
                     /\ i' = i + 1
                     /\ pc' = IF i = Len(ring) THEN "last" ELSE "loop"
                     /\ UNCHANGED <<ring, begin, end>>

Skip == pc = "loop" /\ Skipped /\ Turn({}, previous)

Take == /\ pc = "loop" /\ ~Skipped
        /\ Turn({TokenRange(From, To(ring[i]), HostsOf(ring[i]))}, ring[i])

(* The rest of the ring wraps around to the first token, whose hosts own it. *)
Open == ~Given(end) \/ previous = Unset \/ previous < end
LastFrom == IF previous # Unset THEN previous ELSE IF Given(begin) THEN begin ELSE MinToken
Last == TokenRange(LastFrom, end, HostsOf(ring[1]))

TakeLast == /\ pc = "last"
            /\ ranges' = IF Open THEN ranges \cup {Last} ELSE ranges
            /\ pc' = "done"
            /\ UNCHANGED <<ring, begin, end, i, previous>>

Next == Refuse \/ TakeWhole \/ Enter \/ Skip \/ Take \/ TakeLast
Spec == Init /\ [][Next]_vars

-----------------------------------------------------------------------------
TypeOK == /\ ring \in Rings
          /\ begin \in Limits \cup {Unset} /\ end \in Limits \cup {Unset}
          /\ pc \in {"check", "loop", "last", "done", "refused"}
          /\ i \in Nat \ {0}
          /\ previous \in Int \cup {Unset}
          /\ ranges \subseteq [from : Int \cup {Unset}, to : Int \cup {Unset}, hosts : SUBSET Hosts \ {{}}]

(* prepare_export_query: token(pk) > from AND token(pk) <= to.               *)
Selects(range, token) == /\ range.from = Unset \/ token > range.from
                         /\ range.to = Unset \/ token <= range.to

Wanted(token) == /\ begin = Unset \/ token > begin
                 /\ end = Unset \/ token <= end

(* When the walk is over, a row is selected by exactly one of the queries    *)
(* if its token is between the limits, and by none if it is not: nothing is  *)
(* exported twice, nothing is left out (get_ranges and make_range).          *)
EachTokenOnce ==
    pc = "done" => \A t \in Positions :
        /\ (\E r \in ranges : Selects(r, t)) <=> Wanted(t)
        /\ \A r, s \in ranges : Selects(r, t) /\ Selects(s, t) => r = s

(* Each range is read from replicas of the rows it selects: those of the     *)
(* first token of the ring that is not below the row's, around the end of    *)
(* the ring (the promise of get_ranges: "Each host is responsible for all    *)
(* the tokens in the range").                                                *)
Owner(t) == LET above == {j \in DOMAIN ring : ring[j] >= t}
            IN IF above = {} THEN ring[1]
               ELSE ring[CHOOSE j \in above : \A k \in above : j <= k]

ReadFromReplicas ==
    pc = "done" /\ MinToken # Unset /\ Len(ring) > 0 =>
        \A t \in Positions, r \in ranges : Selects(r, t) => r.hosts = HostsOf(Owner(t))
=============================================================================
