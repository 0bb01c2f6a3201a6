---------------------------- MODULE CqlshProofs ----------------------------
(***************************************************************************)
(* Proofs about COPY TO and the shell. First the ranges an export is cut   *)
(* into: whatever the ring and the limits, they cover every wanted token   *)
(* once (WalkInv). Then the export, for any number of ranges, pages,       *)
(* workers and faults: the inductive invariant ExportInv follows each      *)
(* range from the queue of a worker to the file, ThrottleInv the sessions  *)
(* each worker counts. Then the settings of the shells that SOURCE and     *)
(* LOGIN stack, to any depth (ShellInv), the processes and files a COPY    *)
(* opens, for any options and however it ends (TaskInv), and where its     *)
(* options come from (OptionsInv). Then timestamps on their way through a  *)
(* file (TimesInv), the prompt over any input (PromptInv), the files an    *)
(* export writes, for any sizes of pages and files (FileInv), and the      *)
(* start of the shell from any options and files (BeginInv).               *)
(***************************************************************************)
EXTENDS CopyTo, FiniteSetTheorems, WellFoundedInduction, TLAPS

-----------------------------------------------------------------------------
(* The walk over the ring (ExportRanges), whose variables are its own.     *)
CONSTANTS Unset, Positions, MinToken, Rings, Limits, Usable, Here, Replicas
VARIABLES ring, begin, end, walking, turn, previous, ranges
Walk == INSTANCE ExportRanges WITH pc <- walking, i <- turn

(* What the walk knows: the ring is cut up to the token it took last.      *)
WalkTypes == /\ ring \in Rings
             /\ begin \in Limits \cup {Unset} /\ end \in Limits \cup {Unset}
             /\ walking \in {"check", "loop", "last", "done", "refused"}
             /\ turn \in Nat \ {0} /\ previous \in Int \cup {Unset}
             /\ walking = "check" => turn = 1 /\ previous = Unset /\ ranges = {}
UnderWay == walking \in {"loop", "last"} =>
    /\ MinToken # Unset /\ Len(ring) > 1 /\ ~Walk!Refused
    /\ walking = "loop" => turn <= Len(ring)
    /\ walking = "last" => turn = Len(ring) + 1
    /\ \A r \in ranges : r.to \in Int /\ previous # Unset /\ r.to <= previous
Below == walking \in {"loop", "last"} =>
    IF previous = Unset
    THEN \A j \in 1..(turn - 1) : ring[j] = MinToken \/ (begin # Unset /\ ring[j] < begin)
    ELSE /\ begin # Unset => previous >= begin
         /\ \E k \in 1..(turn - 1) : previous = ring[k]
         /\ \A j \in 1..(turn - 1) : \/ ring[j] = MinToken \/ ring[j] <= previous
                                     \/ end # Unset /\ previous > end
CutSoFar == walking \in {"loop", "last"} =>
    \A t \in Positions :
        /\ (\E r \in ranges : Walk!Selects(r, t)) <=> Walk!Wanted(t) /\ previous # Unset /\ t <= previous
        /\ \A r, s \in ranges : Walk!Selects(r, t) /\ Walk!Selects(s, t) => r = s
WalkInv == WalkTypes /\ UnderWay /\ Below /\ CutSoFar /\ Walk!EachTokenOnce

LEMMA RingFacts ==
    ASSUME Walk!TokensAssumption, ring \in Rings
    PROVE  /\ ring \in Seq(Int) /\ Len(ring) \in Nat /\ DOMAIN ring = 1..Len(ring)
           /\ \A j \in 1..Len(ring) : ring[j] \in Int
           /\ \A j, k \in 1..Len(ring) : j < k => ring[j] < ring[k]
  BY DEF Walk!TokensAssumption

LEMMA LimitFacts ==
    ASSUME Walk!TokensAssumption, 0 \notin Limits, WalkTypes
    PROVE  /\ Unset \notin Int /\ Positions \subseteq Int
           /\ begin \in Int \cup {Unset} /\ end \in Int \cup {Unset}
           /\ MinToken \in Int \cup {Unset}
           /\ Walk!Given(begin) <=> begin # Unset
           /\ Walk!Given(end) <=> end # Unset
  <1>1. Unset \notin Int /\ Positions \subseteq Int /\ Limits \subseteq Int /\ MinToken \in Int \cup {Unset}
    BY DEF Walk!TokensAssumption
  <1>2. begin # 0 /\ end # 0
    BY <1>1 DEF WalkTypes
  <1> QED BY <1>1, <1>2 DEF WalkTypes, Walk!Given

LEMMA WalkFrom ==
    ASSUME Walk!TokensAssumption, 0 \notin Limits, WalkInv, walking = "loop"
    PROVE  Walk!From = IF previous = Unset THEN begin ELSE previous
  BY LimitFacts DEF WalkInv, WalkTypes, Below, Walk!From

LEMMA WalkTurn ==
    ASSUME Walk!TokensAssumption, WalkInv, walking = "loop"
    PROVE  /\ turn \in 1..Len(ring) /\ Len(ring) \in Nat /\ ring[turn] \in Int /\ (turn + 1) - 1 = turn
           /\ \A k \in 1..Len(ring) : k < turn => ring[k] < ring[turn]
  <1>1. turn \in Nat \ {0} /\ turn <= Len(ring) /\ ring \in Rings
    BY DEF WalkInv, WalkTypes, UnderWay
  <1>2. Len(ring) \in Nat BY <1>1, RingFacts
  <1>3. turn \in 1..Len(ring) BY <1>1, <1>2
  <1> QED BY <1>1, <1>2, <1>3, RingFacts

LEMMA WalkSkip ==
    ASSUME Walk!TokensAssumption, 0 \notin Limits, WalkInv, Walk!Skip
    PROVE  WalkInv'
  <1>1. /\ walking = "loop" /\ walking' \in {"loop", "last"} /\ turn' = turn + 1
        /\ walking' = IF turn = Len(ring) THEN "last" ELSE "loop"
        /\ ranges' = ranges /\ UNCHANGED <<ring, begin, end, previous>>
    BY DEF Walk!Skip, Walk!Turn
  <1>2. WalkTypes' BY <1>1 DEF WalkInv, WalkTypes
  <1>3. UnderWay'
    <2>1. ~Walk!Refused' BY <1>1 DEF WalkInv, UnderWay, Walk!Refused
    <2>2. turn \in Nat /\ Len(ring) \in Nat BY RingFacts DEF WalkInv, WalkTypes
    <2> QED BY <1>1, <2>1, <2>2 DEF WalkInv, UnderWay
  <1>4. \/ ring[turn] = MinToken
        \/ begin # Unset /\ ring[turn] < begin
        \/ previous # Unset /\ end # Unset /\ previous > end
    <2>1. ~(begin # Unset /\ end # Unset /\ begin > end)
      BY <1>1, LimitFacts DEF WalkInv, UnderWay, Walk!Refused
    <2>2. \/ ring[turn] = MinToken
          \/ begin # Unset /\ ring[turn] < begin
          \/ end # Unset /\ Walk!From # Unset /\ Walk!From > end
      BY LimitFacts DEF WalkInv, Walk!Skip, Walk!Skipped, Walk!Empty
    <2> QED BY <1>1, <2>1, <2>2, WalkFrom
  <1>5. Below'
    <2>1. turn \in 1..Len(ring) /\ turn' - 1 = turn
      BY <1>1, WalkTurn
    <2>2. 1..turn = 1..(turn - 1) \cup {turn} BY <2>1
    <2>3. ring[turn] \in Int /\ \A k \in 1..(turn - 1) : ring[k] \in Int /\ ring[k] < ring[turn]
      BY <2>1, RingFacts DEF WalkInv, WalkTypes
    <2>4. CASE previous = Unset
      BY <1>1, <1>4, <2>1, <2>2, <2>4 DEF WalkInv, Below
    <2>5. CASE previous # Unset
      <3>1. /\ begin # Unset => previous >= begin
            /\ \E k \in 1..(turn - 1) : previous = ring[k]
            /\ \A j \in 1..(turn - 1) : \/ ring[j] = MinToken \/ ring[j] <= previous
                                        \/ end # Unset /\ previous > end
        BY <1>1, <2>5 DEF WalkInv, Below
      <3>2. begin # Unset => ~(ring[turn] < begin)
        BY <2>3, <3>1, LimitFacts DEF WalkInv
      <3>3. \A j \in 1..turn : \/ ring[j] = MinToken \/ ring[j] <= previous
                               \/ end # Unset /\ previous > end
        BY <1>4, <2>2, <3>1, <3>2
      <3>4. \E k \in 1..turn : previous = ring[k] BY <2>2, <3>1
      <3> QED BY <1>1, <2>1, <2>5, <3>1, <3>3, <3>4 DEF Below
    <2> QED BY <2>4, <2>5
  <1>6. CutSoFar' BY <1>1 DEF WalkInv, CutSoFar, Walk!Selects, Walk!Wanted
  <1>7. Walk!EachTokenOnce' BY <1>1 DEF Walk!EachTokenOnce
  <1> QED BY <1>2, <1>3, <1>5, <1>6, <1>7 DEF WalkInv

LEMMA WalkTake ==
    ASSUME Walk!TokensAssumption, 0 \notin Limits, WalkInv, Walk!Take
    PROVE  WalkInv'
  <1> DEFINE new == Walk!TokenRange(Walk!From, Walk!To(ring[turn]), Walk!HostsOf(ring[turn]))
  <1>1. /\ walking = "loop" /\ walking' \in {"loop", "last"} /\ turn' = turn + 1
        /\ walking' = IF turn = Len(ring) THEN "last" ELSE "loop"
        /\ ranges' = ranges \cup {new} /\ previous' = ring[turn]
        /\ UNCHANGED <<ring, begin, end>>
    BY DEF Walk!Take, Walk!Turn
  <1>2. turn \in 1..Len(ring) /\ Len(ring) \in Nat /\ ring[turn] \in Int /\ turn' - 1 = turn
        /\ \A k \in 1..Len(ring) : k < turn => ring[k] < ring[turn]
    BY <1>1, WalkTurn
  <1>3. WalkTypes' BY <1>1, <1>2 DEF WalkInv, WalkTypes
  <1>4. /\ begin # Unset => ring[turn] >= begin
        /\ end # Unset /\ Walk!From # Unset => Walk!From <= end
    BY <1>2, LimitFacts, WalkFrom, <1>1 DEF WalkInv, WalkTypes, Walk!Take, Walk!Skipped, Walk!Empty
  <1>5. /\ new.from = IF previous = Unset THEN begin ELSE previous
        /\ new.to = IF end # Unset /\ ring[turn] > end THEN end ELSE ring[turn]
        /\ new.to \in Int /\ new.to <= ring[turn]
    <2>1. new.from = Walk!From /\ new.to = Walk!To(ring[turn]) BY DEF Walk!TokenRange
    <2> HIDE DEF new
    <2>2. Walk!To(ring[turn]) = IF end # Unset /\ ring[turn] > end THEN end ELSE ring[turn]
      BY LimitFacts DEF WalkInv, Walk!To
    <2>3. new.from = IF previous = Unset THEN begin ELSE previous BY <1>1, <2>1, WalkFrom
    <2>4. new.to = IF end # Unset /\ ring[turn] > end THEN end ELSE ring[turn] BY <2>1, <2>2
    <2>5. new.to \in Int /\ new.to <= ring[turn]
      <3>1. end # Unset => end \in Int BY LimitFacts DEF WalkInv
      <3> QED BY <1>2, <2>4, <3>1
    <2> QED BY <2>3, <2>4, <2>5
  <1>6. previous # Unset => previous \in Int /\ previous < ring[turn]
    BY <1>1, <1>2, LimitFacts DEF WalkInv, WalkTypes, Below
  <1>7. Unset \notin Int /\ previous' # Unset BY <1>1, <1>2, LimitFacts DEF WalkInv
  <1>8. UnderWay'
    <2>1. ~Walk!Refused' BY <1>1 DEF WalkInv, UnderWay, Walk!Refused
    <2>2. \A r \in ranges' : r.to \in Int /\ r.to <= ring[turn]
      <3>1. \A r \in ranges : r.to \in Int /\ previous # Unset /\ r.to <= previous
        BY <1>1 DEF WalkInv, UnderWay
      <3> HIDE DEF new
      <3> QED BY <1>1, <1>2, <1>5, <1>6, <3>1
    <2> QED BY <1>1, <1>2, <1>7, <2>1, <2>2 DEF WalkInv, UnderWay
  <1>9. Below'
    <2>1. 1..turn = 1..(turn - 1) \cup {turn} BY <1>2
    <2>2. \A j \in 1..turn : ring[j] <= ring[turn] BY <1>2, RingFacts DEF WalkInv, WalkTypes
    <2> QED BY <1>1, <1>2, <1>4, <1>7, <2>1, <2>2 DEF Below
  <1>10. CutSoFar'
    <2> SUFFICES ASSUME NEW t \in Positions
                 PROVE  /\ (\E r \in ranges' : Walk!Selects(r, t)) <=> Walk!Wanted(t)' /\ t <= ring[turn]
                        /\ \A r, s \in ranges' : Walk!Selects(r, t) /\ Walk!Selects(s, t) => r = s
      BY <1>1, <1>7 DEF CutSoFar, Walk!Selects
    <2>1. t \in Int BY LimitFacts DEF WalkInv
    <2>2. Walk!Wanted(t)' <=> Walk!Wanted(t) BY <1>1 DEF Walk!Wanted
    <2>3. Walk!Selects(new, t) <=> Walk!Wanted(t) /\ t <= ring[turn] /\ (previous = Unset \/ t > previous)
      <3>1. Walk!Selects(new, t) <=> (new.from = Unset \/ t > new.from) /\ t <= new.to
        BY <1>5, <1>7 DEF Walk!Selects
      <3>2. t <= new.to <=> t <= ring[turn] /\ (end = Unset \/ t <= end)
        BY <1>2, <1>5, <2>1, LimitFacts DEF WalkInv
      <3>3. (new.from = Unset \/ t > new.from) <=> (begin = Unset \/ t > begin) /\ (previous = Unset \/ t > previous)
        <4>1. previous # Unset /\ begin # Unset => previous >= begin BY <1>1 DEF WalkInv, Below
        <4> QED BY <1>5, <1>6, <2>1, <4>1, LimitFacts DEF WalkInv
      <3> QED BY <3>1, <3>2, <3>3 DEF Walk!Wanted
    <2>4. /\ (\E r \in ranges : Walk!Selects(r, t)) <=> Walk!Wanted(t) /\ previous # Unset /\ t <= previous
          /\ \A r, s \in ranges : Walk!Selects(r, t) /\ Walk!Selects(s, t) => r = s
      BY <1>1 DEF WalkInv, CutSoFar
    <2>5. previous # Unset => (t <= previous => t <= ring[turn]) /\ ~(t <= previous /\ t > previous)
      BY <1>2, <1>6, <2>1
    <2>6. previous # Unset => t <= previous \/ t > previous BY <1>6, <2>1
    <2> HIDE DEF new
    <2> QED BY <1>1, <2>2, <2>3, <2>4, <2>5, <2>6
  <1>11. Walk!EachTokenOnce' BY <1>1 DEF Walk!EachTokenOnce
  <1> QED BY <1>3, <1>8, <1>9, <1>10, <1>11 DEF WalkInv

LEMMA WalkTakeLast ==
    ASSUME Walk!TokensAssumption, 0 \notin Limits, WalkInv, Walk!TakeLast
    PROVE  WalkInv'
  <1>1. /\ walking = "last" /\ walking' = "done"
        /\ ranges' = (IF Walk!Open THEN ranges \cup {Walk!Last} ELSE ranges)
        /\ UNCHANGED <<ring, begin, end, turn, previous>>
    BY DEF Walk!TakeLast
  <1>2. /\ Walk!Last.from = IF previous # Unset THEN previous ELSE begin
        /\ Walk!Last.to = end /\ (previous = Unset => begin # Unset)
    <2>1. previous = Unset => begin # Unset
      <3> SUFFICES ASSUME previous = Unset, begin = Unset PROVE FALSE OBVIOUS
      <3>1. ring[1] = MinToken /\ ring[2] = MinToken
        BY <1>1, RingFacts DEF WalkInv, WalkTypes, UnderWay, Below
      <3>2. ring[1] < ring[2] /\ ring[1] \in Int
        BY <1>1, RingFacts DEF WalkInv, WalkTypes, UnderWay
      <3> QED BY <3>1, <3>2
    <2> QED BY <2>1, LimitFacts DEF WalkInv, Walk!Last, Walk!LastFrom, Walk!TokenRange
  <1>3. Walk!EachTokenOnce'
    <2> SUFFICES ASSUME NEW t \in Positions
                 PROVE  /\ (\E r \in ranges' : Walk!Selects(r, t)) <=> Walk!Wanted(t)
                        /\ \A r, s \in ranges' : Walk!Selects(r, t) /\ Walk!Selects(s, t) => r = s
      BY <1>1 DEF Walk!EachTokenOnce, Walk!Selects, Walk!Wanted
    <2>1. t \in Int /\ (previous = Unset \/ previous \in Int)
      BY LimitFacts DEF WalkInv, WalkTypes
    <2>2. Walk!Selects(Walk!Last, t) <=> Walk!Wanted(t) /\ (previous = Unset \/ t > previous)
      <3>1. previous # Unset /\ begin # Unset => previous >= begin BY <1>1 DEF WalkInv, Below
      <3> QED BY <1>2, <2>1, <3>1, LimitFacts DEF WalkInv, Walk!Selects, Walk!Wanted
    <2>3. /\ (\E r \in ranges : Walk!Selects(r, t)) <=> Walk!Wanted(t) /\ previous # Unset /\ t <= previous
          /\ \A r, s \in ranges : Walk!Selects(r, t) /\ Walk!Selects(s, t) => r = s
      BY <1>1 DEF WalkInv, CutSoFar
    <2>4. ~Walk!Open => (Walk!Wanted(t) => previous # Unset /\ t <= previous)
      BY <2>1, LimitFacts DEF WalkInv, Walk!Open, Walk!Wanted
    <2>5. previous # Unset => (t <= previous <=> ~(t > previous)) BY <2>1
    <2>6. CASE Walk!Open BY <1>1, <2>2, <2>3, <2>5, <2>6
    <2>7. CASE ~Walk!Open BY <1>1, <2>3, <2>4, <2>7
    <2> QED BY <2>6, <2>7
  <1> QED BY <1>1, <1>3 DEF WalkInv, WalkTypes, UnderWay, Below, CutSoFar

LEMMA WalkStep ==
    ASSUME Walk!TokensAssumption, 0 \notin Limits, WalkInv, [Walk!Next]_Walk!vars
    PROVE  WalkInv'
  <1>1. CASE Walk!Refuse
    BY <1>1 DEF Walk!Refuse, WalkInv, WalkTypes, UnderWay, Below, CutSoFar, Walk!EachTokenOnce
  <1>2. CASE Walk!TakeWhole
    <2>1. /\ walking' = "done" /\ UNCHANGED <<ring, begin, end, turn, previous>>
          /\ \E hosts : ranges' = {Walk!TokenRange(begin, end, hosts)}
      BY <1>2 DEF Walk!TakeWhole
    <2>2. PICK hosts : ranges' = {Walk!TokenRange(begin, end, hosts)} BY <2>1
    <2>3. Walk!EachTokenOnce'
      BY <2>1, <2>2 DEF Walk!EachTokenOnce, Walk!Selects, Walk!Wanted, Walk!TokenRange
    <2> QED BY <1>2, <2>1, <2>3 DEF Walk!TakeWhole, WalkInv, WalkTypes, UnderWay, Below, CutSoFar
  <1>3. CASE Walk!Enter
    <2>1. /\ walking = "check" /\ walking' = "loop" /\ ~Walk!Refused /\ MinToken # Unset /\ Len(ring) > 1
          /\ UNCHANGED <<ring, begin, end, turn, previous, ranges>>
      BY <1>3 DEF Walk!Enter
    <2>2. turn = 1 /\ previous = Unset /\ ranges = {} BY <2>1 DEF WalkInv, WalkTypes
    <2>3. ~Walk!Refused' BY <2>1 DEF Walk!Refused
    <2>4. Len(ring) \in Nat BY RingFacts DEF WalkInv, WalkTypes
    <2>5. WalkTypes' BY <2>1 DEF WalkInv, WalkTypes
    <2>6. UnderWay' BY <2>1, <2>2, <2>3, <2>4 DEF UnderWay
    <2> QED BY <2>1, <2>2, <2>5, <2>6 DEF WalkInv, Below, CutSoFar, Walk!EachTokenOnce
  <1>4. CASE UNCHANGED Walk!vars
    BY <1>4 DEF Walk!vars, WalkInv, WalkTypes, UnderWay, Below, CutSoFar, Walk!EachTokenOnce,
                Walk!Selects, Walk!Wanted, Walk!Refused
  <1> QED BY <1>1, <1>2, <1>3, <1>4, WalkSkip, WalkTake, WalkTakeLast DEF Walk!Next

(* Once the ring is cut, every token that BEGINTOKEN and ENDTOKEN admit is *)
(* in one range, and no other is in any (ExportTask.get_ranges).  A limit  *)
(* of zero is left out: Python takes it for one that was not given.        *)
THEOREM WalkCutsOnce ==
    ASSUME Walk!TokensAssumption, 0 \notin Limits
    PROVE  Walk!Spec => []Walk!EachTokenOnce
  <1>1. Walk!Init => WalkInv
    BY DEF Walk!Init, WalkInv, WalkTypes, UnderWay, Below, CutSoFar, Walk!EachTokenOnce
  <1>2. WalkInv /\ [Walk!Next]_Walk!vars => WalkInv'
    BY WalkStep
  <1>3. WalkInv => Walk!EachTokenOnce BY DEF WalkInv
  <1> QED BY <1>1, <1>2, <1>3, PTL DEF Walk!Spec

(* The replicas of each range taken so far own the rows it selects.        *)
OwnersSoFar == walking \in {"loop", "last"} =>
    \A t \in Positions, r \in ranges : Walk!Selects(r, t) => r.hosts = Walk!HostsOf(Walk!Owner(t))
OwnersInv == WalkInv /\ OwnersSoFar /\ Walk!ReadFromReplicas

LEMMA OwnerIs ==
    ASSUME Walk!TokensAssumption, ring \in Rings, NEW t \in Int
    PROVE  /\ \A k \in 1..Len(ring) : ring[k] >= t /\ (\A j \in 1..(k - 1) : ring[j] < t) => Walk!Owner(t) = ring[k]
           /\ (\A j \in 1..Len(ring) : ring[j] < t) => Walk!Owner(t) = ring[1]
  <1> DEFINE above == {j \in DOMAIN ring : ring[j] >= t}
  <1>1. /\ Len(ring) \in Nat /\ DOMAIN ring = 1..Len(ring)
        /\ \A j \in 1..Len(ring) : ring[j] \in Int
    BY RingFacts
  <1>2. Walk!Owner(t) = IF above = {} THEN ring[1] ELSE ring[CHOOSE j \in above : \A k \in above : j <= k]
    BY DEF Walk!Owner
  <1>3. ASSUME NEW k \in 1..Len(ring), ring[k] >= t, \A j \in 1..(k - 1) : ring[j] < t
        PROVE  Walk!Owner(t) = ring[k]
    <2>1. k \in above BY <1>1, <1>3
    <2>2. \A j \in above : k <= j
      <3> SUFFICES ASSUME NEW j \in above, ~(k <= j) PROVE FALSE OBVIOUS
      <3>1. j \in 1..Len(ring) /\ ring[j] >= t /\ ring[j] \in Int BY <1>1
      <3>2. j \in 1..(k - 1) BY <3>1, <1>1
      <3> QED BY <1>3, <3>1, <3>2
    <2>3. \A j \in above : (\A m \in above : j <= m) => j = k
      BY <1>1, <2>1, <2>2
    <2> HIDE DEF above
    <2>4. (CHOOSE j \in above : \A m \in above : j <= m) = k BY <2>1, <2>2, <2>3
    <2> QED BY <1>2, <2>1, <2>4
  <1>4. ASSUME \A j \in 1..Len(ring) : ring[j] < t
        PROVE  Walk!Owner(t) = ring[1]
    <2>1. above = {} BY <1>1, <1>4
    <2> QED BY <1>2, <2>1
  <1> QED BY <1>3, <1>4

LEMMA TakeOwns ==
    ASSUME Walk!TokensAssumption, 0 \notin Limits, \A t \in Positions : t > MinToken,
           OwnersInv, Walk!Take
    PROVE  OwnersSoFar'
  <1> DEFINE new == Walk!TokenRange(Walk!From, Walk!To(ring[turn]), Walk!HostsOf(ring[turn]))
  <1>1. /\ walking = "loop" /\ ranges' = ranges \cup {new} /\ UNCHANGED ring /\ ~Walk!Skipped
    BY DEF Walk!Take, Walk!Turn
  <1>2. WalkInv BY DEF OwnersInv
  <1>3. /\ turn \in 1..Len(ring) /\ Len(ring) \in Nat /\ ring[turn] \in Int /\ ring \in Rings
        /\ \A k \in 1..Len(ring) : ring[k] \in Int
    BY <1>1, <1>2, WalkTurn, RingFacts DEF WalkInv, WalkTypes
  <1>4. /\ new.from = IF previous = Unset THEN begin ELSE previous
        /\ new.to = Walk!To(ring[turn]) /\ new.hosts = Walk!HostsOf(ring[turn])
    BY <1>1, <1>2, WalkFrom DEF Walk!TokenRange
  <1>5. new.to \in Int /\ new.to <= ring[turn]
    <2>1. end # Unset => end \in Int BY <1>2, LimitFacts DEF WalkInv
    <2>2. Walk!Given(end) <=> end # Unset BY <1>2, LimitFacts DEF WalkInv
    <2> HIDE DEF new
    <2> QED BY <1>3, <1>4, <2>1, <2>2 DEF Walk!To
  <1>6. previous # Unset /\ end # Unset => ~(previous > end)
    <2>1. ~(Walk!Given(end) /\ Walk!From # Unset /\ Walk!From > end)
      BY <1>1 DEF Walk!Skipped, Walk!Empty
    <2> QED BY <1>1, <1>2, <2>1, WalkFrom, LimitFacts DEF WalkInv
  <1>7. ASSUME NEW t \in Positions, Walk!Selects(new, t)
        PROVE  new.hosts = Walk!HostsOf(Walk!Owner(t))
    <2>1. t \in Int /\ t > MinToken /\ Unset \notin Int BY <1>2, LimitFacts DEF WalkInv
    <2>2. t <= new.to /\ (new.from = Unset \/ t > new.from)
      BY <1>5, <1>7, <2>1 DEF Walk!Selects
    <2>3. ring[turn] >= t BY <1>3, <1>5, <2>1, <2>2
    <2>4. \A j \in 1..(turn - 1) : ring[j] < t
      <3> SUFFICES ASSUME NEW j \in 1..(turn - 1) PROVE ring[j] < t OBVIOUS
      <3>1. ring[j] \in Int BY <1>3
      <3>2. CASE previous = Unset
        <4>1. ring[j] = MinToken \/ (begin # Unset /\ ring[j] < begin)
          BY <1>1, <1>2, <3>2 DEF WalkInv, Below
        <4>2. begin # Unset => begin \in Int /\ t > begin
          BY <1>2, <1>4, <2>2, <3>2, LimitFacts DEF WalkInv
        <4> QED BY <2>1, <3>1, <4>1, <4>2
      <3>3. CASE previous # Unset
        <4>1. ring[j] = MinToken \/ ring[j] <= previous
          BY <1>1, <1>2, <1>6, <3>3 DEF WalkInv, Below
        <4>2. previous \in Int /\ t > previous
          BY <1>2, <1>4, <2>2, <3>3 DEF WalkInv, WalkTypes
        <4> QED BY <2>1, <3>1, <4>1, <4>2
      <3> QED BY <3>2, <3>3
    <2>5. Walk!Owner(t) = ring[turn] BY <1>3, <2>1, <2>3, <2>4, OwnerIs
    <2> QED BY <1>4, <2>5
  <1>8. \A r, t : Walk!Selects(r, t)' <=> Walk!Selects(r, t) BY DEF Walk!Selects
  <1>9. \A t : Walk!HostsOf(Walk!Owner(t))' = Walk!HostsOf(Walk!Owner(t)) BY <1>1 DEF Walk!HostsOf, Walk!Owner
  <1>10. \A t \in Positions, r \in ranges : Walk!Selects(r, t) => r.hosts = Walk!HostsOf(Walk!Owner(t))
    BY <1>1 DEF OwnersInv, OwnersSoFar
  <1> HIDE DEF new
  <1>11. \A t \in Positions, r \in ranges' : Walk!Selects(r, t) => r.hosts = Walk!HostsOf(Walk!Owner(t))
    BY <1>1, <1>7, <1>10
  <1> QED BY <1>8, <1>9, <1>11 DEF OwnersSoFar

LEMMA LastOwns ==
    ASSUME Walk!TokensAssumption, 0 \notin Limits, \A t \in Positions : t > MinToken,
           OwnersInv, Walk!TakeLast
    PROVE  Walk!ReadFromReplicas'
  <1>1. /\ walking = "last" /\ UNCHANGED <<ring, begin, end, turn, previous>>
        /\ ranges' = (IF Walk!Open THEN ranges \cup {Walk!Last} ELSE ranges)
    BY DEF Walk!TakeLast
  <1>2. WalkInv /\ ring \in Rings BY DEF OwnersInv, WalkInv, WalkTypes
  <1>3. /\ Walk!Last.from = Walk!LastFrom /\ Walk!Last.to = end /\ Walk!Last.hosts = Walk!HostsOf(ring[1])
    BY DEF Walk!Last, Walk!TokenRange
  <1>4. Len(ring) \in Nat /\ 1..(turn - 1) = 1..Len(ring) /\ \A k \in 1..Len(ring) : ring[k] \in Int
    BY <1>1, <1>2, RingFacts DEF WalkInv, UnderWay
  <1>5. ASSUME NEW t \in Positions, Walk!Selects(Walk!Last, t)
        PROVE  Walk!Last.hosts = Walk!HostsOf(Walk!Owner(t))
    <2>1. t \in Int /\ t > MinToken /\ Unset \notin Int BY <1>2, LimitFacts DEF WalkInv
    <2>2. (end = Unset \/ t <= end) /\ (Walk!LastFrom = Unset \/ t > Walk!LastFrom)
      BY <1>3, <1>5 DEF Walk!Selects
    <2>3. \A j \in 1..Len(ring) : ring[j] < t
      <3> SUFFICES ASSUME NEW j \in 1..Len(ring) PROVE ring[j] < t OBVIOUS
      <3>1. ring[j] \in Int BY <1>4
      <3>2. CASE previous = Unset
        <4>1. ring[j] = MinToken \/ (begin # Unset /\ ring[j] < begin)
          BY <1>1, <1>2, <1>4, <3>2 DEF WalkInv, Below
        <4>2. begin # Unset => begin \in Int /\ t > begin
          BY <1>2, <2>2, <3>2, LimitFacts DEF WalkInv, Walk!LastFrom
        <4> QED BY <2>1, <3>1, <4>1, <4>2
      <3>3. CASE previous # Unset
        <4>1. ring[j] = MinToken \/ ring[j] <= previous \/ (end # Unset /\ previous > end)
          BY <1>1, <1>2, <1>4, <3>3 DEF WalkInv, Below
        <4>2. previous \in Int /\ t > previous
          BY <1>2, <2>2, <3>3, <2>1 DEF WalkInv, WalkTypes, Walk!LastFrom
        <4>3. end # Unset => end \in Int /\ t <= end BY <1>2, <2>2, LimitFacts DEF WalkInv
        <4>4. end # Unset => ~(previous > end) BY <2>1, <4>2, <4>3
        <4> QED BY <2>1, <3>1, <4>1, <4>2, <4>4
      <3> QED BY <3>2, <3>3
    <2> QED BY <1>2, <1>3, <2>1, <2>3, OwnerIs
  <1>6. \A r, t : Walk!Selects(r, t)' <=> Walk!Selects(r, t) BY DEF Walk!Selects
  <1>7. \A t : Walk!HostsOf(Walk!Owner(t))' = Walk!HostsOf(Walk!Owner(t)) BY <1>1 DEF Walk!HostsOf, Walk!Owner
  <1>8. \A t \in Positions, r \in ranges : Walk!Selects(r, t) => r.hosts = Walk!HostsOf(Walk!Owner(t))
    BY <1>1 DEF OwnersInv, OwnersSoFar
  <1>9. \A t \in Positions, r \in ranges' : Walk!Selects(r, t) => r.hosts = Walk!HostsOf(Walk!Owner(t))
    BY <1>1, <1>5, <1>8
  <1> QED BY <1>6, <1>7, <1>9 DEF Walk!ReadFromReplicas

(* Once the ring is cut, each range is read from the hosts that own the    *)
(* rows it selects: the replicas of the next token of the ring, the first  *)
(* one's past the last (ExportTask.get_ranges).  No row has the lowest     *)
(* token of the partitioner.                                               *)
THEOREM WalkReadsReplicas ==
    ASSUME Walk!TokensAssumption, 0 \notin Limits, \A t \in Positions : t > MinToken
    PROVE  Walk!Spec => []Walk!ReadFromReplicas
  <1>1. Walk!Init => OwnersInv
    BY DEF Walk!Init, OwnersInv, WalkInv, WalkTypes, UnderWay, Below, CutSoFar, Walk!EachTokenOnce,
           OwnersSoFar, Walk!ReadFromReplicas
  <1>2. OwnersInv /\ [Walk!Next]_Walk!vars => OwnersInv'
    <2> SUFFICES ASSUME OwnersInv, [Walk!Next]_Walk!vars PROVE OwnersInv' OBVIOUS
    <2>1. WalkInv' BY WalkStep DEF OwnersInv
    <2>2. OwnersSoFar' /\ Walk!ReadFromReplicas'
      <3>1. CASE Walk!Refuse BY <3>1 DEF Walk!Refuse, OwnersSoFar, Walk!ReadFromReplicas
      <3>2. CASE Walk!TakeWhole
        <4>1. Len(ring) \in Nat BY RingFacts DEF OwnersInv, WalkInv, WalkTypes
        <4>2. /\ walking' = "done" /\ UNCHANGED <<ring, begin, end, turn, previous>>
              /\ MinToken = Unset \/ Len(ring) <= 1
              /\ ranges' = {Walk!TokenRange(begin, end, IF MinToken # Unset /\ Len(ring) = 1
                                                         THEN Walk!HostsOf(ring[1]) ELSE {Here})}
          BY <3>2 DEF Walk!TakeWhole
        <4>3. MinToken # Unset /\ Len(ring) > 0 => Len(ring) = 1
          <5>1. \A n \in Nat : n <= 1 /\ n > 0 => n = 1 OBVIOUS
          <5>2. MinToken # Unset => Len(ring) <= 1 BY <4>2
          <5> HIDE DEF WalkTypes
          <5> QED BY <4>1, <5>1, <5>2
        <4>4. ASSUME MinToken # Unset, Len(ring) > 0, NEW t \in Positions
              PROVE  Walk!Owner(t) = ring[1]
          <5>1. t \in Int /\ ring \in Rings /\ Len(ring) = 1
            <6>1. WalkTypes BY DEF OwnersInv, WalkInv
            <6>2. t \in Int /\ ring \in Rings BY <4>4, <6>1, LimitFacts DEF WalkTypes
            <6>3. Len(ring) = 1 BY <4>4, <4>3
            <6> QED BY <6>2, <6>3
          <5>2. ring[1] \in Int /\ (ring[1] >= t \/ ring[1] < t) BY <5>1, RingFacts
          <5> QED BY <5>1, <5>2, OwnerIs
        <4>5. \A t : Walk!HostsOf(Walk!Owner(t))' = Walk!HostsOf(Walk!Owner(t)) BY <4>2 DEF Walk!HostsOf, Walk!Owner
        <4>6. MinToken # Unset /\ Len(ring) > 0 =>
                 \A t \in Positions, r \in ranges' : r.hosts = Walk!HostsOf(Walk!Owner(t))
          <5>1. ASSUME MinToken # Unset, Len(ring) > 0
                PROVE  ranges' = {Walk!TokenRange(begin, end, Walk!HostsOf(ring[1]))}
            <6>1. Len(ring) = 1 BY <4>3, <5>1
            <6> QED BY <4>2, <5>1, <6>1
          <5> QED BY <4>4, <5>1 DEF Walk!TokenRange
        <4>7. OwnersSoFar' BY <4>2 DEF OwnersSoFar
        <4> QED BY <4>2, <4>5, <4>6, <4>7 DEF Walk!ReadFromReplicas
      <3>3. CASE Walk!Enter
        <4>1. ranges' = {} /\ walking' = "loop" BY <3>3 DEF Walk!Enter, OwnersInv, WalkInv, WalkTypes
        <4> QED BY <4>1 DEF OwnersSoFar, Walk!ReadFromReplicas
      <3>4. CASE Walk!Skip
        <4>1. /\ ranges' = ranges /\ UNCHANGED ring /\ walking = "loop" /\ walking' # "done"
          BY <3>4 DEF Walk!Skip, Walk!Turn
        <4> QED BY <4>1 DEF OwnersInv, OwnersSoFar, Walk!ReadFromReplicas, Walk!Selects, Walk!HostsOf, Walk!Owner
      <3>5. CASE Walk!Take
        <4>1. walking' # "done" BY <3>5 DEF Walk!Take, Walk!Turn
        <4> QED BY <3>5, <4>1, TakeOwns DEF Walk!ReadFromReplicas
      <3>6. CASE Walk!TakeLast
        <4>1. walking' = "done" BY <3>6 DEF Walk!TakeLast
        <4> QED BY <3>6, <4>1, LastOwns DEF OwnersSoFar
      <3>7. CASE UNCHANGED Walk!vars
        BY <3>7 DEF Walk!vars, OwnersInv, OwnersSoFar, Walk!ReadFromReplicas, Walk!Selects, Walk!HostsOf, Walk!Owner
      <3> QED BY <3>1, <3>2, <3>3, <3>4, <3>5, <3>6, <3>7 DEF Walk!Next
    <2> QED BY <2>1, <2>2 DEF OwnersInv
  <1>3. OwnersInv => Walk!ReadFromReplicas BY DEF OwnersInv
  <1> QED BY <1>1, <1>2, <1>3, PTL DEF Walk!Spec

-----------------------------------------------------------------------------
(* The export (CopyTo).                                                    *)
EndMsg == [kind |-> "end"]
RowsMsg(r, k) == [kind |-> "rows", range |-> r, page |-> k]
FileIndex == UNION {{r} \X PagesOf(r) : r \in Ranges}
Messages == {EndMsg} \cup {Error(r) : r \in Ranges} \cup {RowsMsg(p[1], p[2]) : p \in FileIndex}
Requests == [worker : Workers, range : Ranges, host : Hosts, page : Nat \ {0}, open : BOOLEAN, raced : SUBSET Nat]
Callbacks == [do : {"rows", "error", "write", "end"}, request : Nat \ {0}, range : Ranges, page : Nat \ {0}]

(* A thread has request n in hand while it runs a callback of it, unless   *)
(* it only writes a page that raced: then the request is at its next page. *)
RunsCallback(cb) == cb.do \in {"rows", "error", "write", "end"}
RacedWrite(cb) == cb.do = "write" /\ More(cb) /\ cb.page \in requests[cb.request].raced
Holds(cb, n) == RunsCallback(cb) /\ cb.request = n /\ ~RacedWrite(cb)
Step(w, t) == IF t = "main" THEN main[w] ELSE loop[w]
Others(t) == IF t = "main" THEN "loop" ELSE "main"
Hand(n) == LET w == requests[n].worker
           IN IF Holds(loop[w], n) THEN loop[w] ELSE main[w]
InHand(n) == LET w == requests[n].worker
             IN Holds(loop[w], n) \/ Holds(main[w], n)
Live(n) == requests[n].open \/ InHand(n)
(* The first page of request n that is not written yet.                    *)
Due(n) == IF InHand(n) THEN Hand(n).page + (IF Hand(n).do = "end" THEN 1 ELSE 0) ELSE requests[n].page

(* The pages the theorems speak of: those that did not race.               *)
Kept(r) == {k \in PagesOf(r) : ~Raced(r, k)}

ParentTypes ==
    /\ info \in [Ranges -> [attempts : Nat, rows : Nat, worker : Workers]]
    /\ succeeded \in Nat
    /\ sweep \subseteq {w \in Workers : results[w] # <<>>}
    /\ file \in [FileIndex -> Nat]
    /\ work \in [Workers -> Seq(Ranges \cup {Pill})]
    /\ results \in [Workers -> Seq(Messages)]
    /\ alive \subseteq Workers

-----------------------------------------------------------------------------
(* The threads of the workers and the requests they are at.                *)
CallbackFits(w, cb) ==
    LET q == requests[cb.request]
    IN /\ cb \in Callbacks /\ cb.request \in 1..Len(requests)
       /\ q.worker = w /\ q.range = cb.range
       /\ cb.page <= q.page
       /\ RacedWrite(cb) \/ IF cb.do = "write" /\ More(cb)
                            THEN q.open /\ q.page = cb.page + 1
                            ELSE ~q.open /\ q.page = cb.page
       /\ cb.do = "end" => ~More(cb)
AttachFits(w, cb) ==
    /\ cb.do \in {"attach", "errback"} /\ cb.request \in 1..Len(requests) /\ requests[cb.request].worker = w
    /\ cb.do = "attach" => requests[cb.request].open /\ requests[cb.request].page = 1
MainFits(w, cb) == cb = Idle \/ AttachFits(w, cb) \/ (CallbackFits(w, cb) /\ (cb.do = "write" /\ More(cb) => RacedWrite(cb)))
LoopFits(w, cb) == cb = Idle \/ CallbackFits(w, cb)
(* Two threads at one request: one at most has it in hand.                 *)
Together(cb, other) ==
    cb # Idle /\ other # Idle /\ cb.request = other.request =>
        /\ cb.do # "attach"
        /\ RacedWrite(other) \/ /\ ~RunsCallback(cb) \/ RacedWrite(cb)
                                /\ ~(other.do = "write" /\ More(other))
WorkerTypes ==
    /\ requests \in Seq(Requests)
    /\ \A n \in 1..Len(requests) : requests[n].page <= Pages[requests[n].range]
    /\ DOMAIN main = Workers /\ DOMAIN loop = Workers
    /\ \A w \in Workers : MainFits(w, main[w]) /\ LoopFits(w, loop[w]) /\ Together(main[w], loop[w])

LEMMA RequestAt ==
    ASSUME WorkerTypes
    PROVE  /\ Len(requests) \in Nat
           /\ \A n \in 1..Len(requests) :
                 /\ requests[n] \in Requests /\ requests[n].page <= Pages[requests[n].range]
                 /\ requests[n].worker \in Workers /\ requests[n].range \in Ranges
                 /\ requests[n].host \in Hosts /\ requests[n].page \in Nat \ {0} /\ requests[n].open \in BOOLEAN
                 /\ requests[n].raced \in SUBSET Nat
  <1>1. requests \in Seq(Requests) BY DEF WorkerTypes
  <1>2. Len(requests) \in Nat /\ \A n \in 1..Len(requests) : requests[n] \in Requests BY <1>1
  <1> QED BY <1>2 DEF WorkerTypes, Requests

(* A step at request n of worker w: no other request changes, and this one *)
(* goes on.                                                                *)
RequestGoesOn(w, n) ==
    /\ n \in 1..Len(requests) /\ requests[n].worker = w
    /\ requests' \in Seq(Requests) /\ Len(requests') = Len(requests)
    /\ \A m \in 1..Len(requests) : m # n => requests'[m] = requests[m]
    /\ requests'[n].worker = w /\ requests'[n].range = requests[n].range
    /\ requests[n].page <= requests'[n].page /\ requests'[n].page <= Pages[requests'[n].range]
    /\ requests[n].raced \subseteq requests'[n].raced

(* Thread t of worker w goes from cb to next, both at request n, beside a  *)
(* thread at step other.                                                   *)
StepTo(w, t, n, cb, next, other) ==
    /\ t \in {"main", "loop"} /\ Becomes(w, t, next)
    /\ cb = Step(w, t) /\ other = Step(w, Others(t))
    /\ cb = Idle \/ cb.request = n
    /\ next = Idle \/ next.request = n
    /\ RequestGoesOn(w, n)

(* The thread beside it is not disturbed.                                  *)
Undisturbed(n, other) ==
    other # Idle /\ other.request = n => other.do = "errback" \/ RacedWrite(other) \/ UNCHANGED requests

LEMMA StepMade ==
    ASSUME DOMAIN main = Workers, DOMAIN loop = Workers, NEW w \in Workers, NEW t \in {"main", "loop"}, NEW next,
           Becomes(w, t, next)
    PROVE  /\ DOMAIN main' = Workers /\ DOMAIN loop' = Workers
           /\ \A v \in Workers : v # w => main'[v] = main[v] /\ loop'[v] = loop[v]
           /\ Step(w, t)' = next /\ Step(w, Others(t))' = Step(w, Others(t))
  <1>1. CASE t = "main" BY <1>1 DEF Becomes, Step, Others
  <1>2. CASE t = "loop" BY <1>2 DEF Becomes, Step, Others
  <1> QED BY <1>1, <1>2

LEMMA FitsStill ==
    ASSUME NEW v, NEW x, 1..Len(requests) \subseteq 1..Len(requests'),
           x.request \in 1..Len(requests) => requests'[x.request] = requests[x.request]
    PROVE  /\ MainFits(v, x) => MainFits(v, x)'
           /\ LoopFits(v, x) => LoopFits(v, x)'
           /\ x.request \in 1..Len(requests) => (RacedWrite(x)' <=> RacedWrite(x))
           /\ \A n : x.request \in 1..Len(requests) => (Holds(x, n)' <=> Holds(x, n))
  <1>1. x.request \in 1..Len(requests) => (RacedWrite(x)' <=> RacedWrite(x)) BY DEF RacedWrite
  <1>2. AttachFits(v, x) => AttachFits(v, x)' BY DEF AttachFits
  <1>3. CallbackFits(v, x) => CallbackFits(v, x)' BY <1>1 DEF CallbackFits
  <1>4. CallbackFits(v, x) => (RacedWrite(x)' <=> RacedWrite(x)) BY <1>1 DEF CallbackFits
  <1>5. MainFits(v, x) => MainFits(v, x)' BY <1>2, <1>3, <1>4 DEF MainFits
  <1>6. LoopFits(v, x) => LoopFits(v, x)' BY <1>3 DEF LoopFits
  <1>7. \A n : x.request \in 1..Len(requests) => (Holds(x, n)' <=> Holds(x, n)) BY <1>1 DEF Holds
  <1> QED BY <1>1, <1>5, <1>6, <1>7

LEMMA RequestOf ==
    ASSUME NEW w, NEW cb, MainFits(w, cb) \/ LoopFits(w, cb), cb # Idle
    PROVE  cb.request \in 1..Len(requests) /\ requests[cb.request].worker = w
  BY DEF MainFits, LoopFits, AttachFits, CallbackFits

LEMMA StepFits ==
    ASSUME WorkerTypes, NEW w \in Workers, NEW t, NEW n, NEW cb, NEW next, NEW other,
           StepTo(w, t, n, cb, next, other), Undisturbed(n, other),
           t = "main" => MainFits(w, next)' /\ Together(next, other)',
           t = "loop" => LoopFits(w, next)' /\ Together(other, next)'
    PROVE  WorkerTypes'
  <1>1. /\ t \in {"main", "loop"} /\ Becomes(w, t, next) /\ cb = Step(w, t) /\ other = Step(w, Others(t))
        /\ RequestGoesOn(w, n)
    BY DEF StepTo
  <1>2. /\ n \in 1..Len(requests) /\ requests[n].worker = w
        /\ requests' \in Seq(Requests) /\ Len(requests') = Len(requests)
        /\ \A m \in 1..Len(requests) : m # n => requests'[m] = requests[m]
        /\ requests'[n].worker = w /\ requests'[n].range = requests[n].range
        /\ requests[n].page <= requests'[n].page /\ requests'[n].page <= Pages[requests'[n].range]
        /\ requests[n].raced \subseteq requests'[n].raced
    BY <1>1 DEF RequestGoesOn
  <1>3. /\ DOMAIN main' = Workers /\ DOMAIN loop' = Workers
        /\ \A v \in Workers : v # w => main'[v] = main[v] /\ loop'[v] = loop[v]
        /\ Step(w, t)' = next /\ Step(w, Others(t))' = other
    BY <1>1, StepMade DEF WorkerTypes
  <1>4. \A m \in 1..Len(requests') : requests'[m].page <= Pages[requests'[m].range]
    BY <1>2 DEF WorkerTypes
  <1>5. ASSUME NEW v \in Workers, v # w
        PROVE  MainFits(v, main[v])' /\ LoopFits(v, loop[v])' /\ Together(main[v], loop[v])'
    <2>1. PICK x, y : x = main[v] /\ y = loop[v] /\ x = main'[v] /\ y = loop'[v] BY <1>3, <1>5
    <2>2. MainFits(v, x) /\ LoopFits(v, y) /\ Together(x, y) BY <2>1 DEF WorkerTypes
    <2>3. /\ x # Idle => x.request \in 1..Len(requests) /\ requests[x.request].worker = v
          /\ y # Idle => y.request \in 1..Len(requests) /\ requests[y.request].worker = v
      BY <2>2, RequestOf
    <2>4. /\ x # Idle => requests'[x.request] = requests[x.request]
          /\ y # Idle => requests'[y.request] = requests[y.request]
      BY <1>2, <1>5, <2>3
    <2>5. MainFits(v, x)'
      <3>1. CASE x = Idle BY <3>1 DEF MainFits
      <3>2. CASE x # Idle BY <1>2, <2>2, <2>4, <3>2, FitsStill
      <3> QED BY <3>1, <3>2
    <2>6. LoopFits(v, y)'
      <3>1. CASE y = Idle BY <3>1 DEF LoopFits
      <3>2. CASE y # Idle BY <1>2, <2>2, <2>4, <3>2, FitsStill
      <3> QED BY <3>1, <3>2
    <2>7. Together(x, y)'
      <3> SUFFICES ASSUME x # Idle, y # Idle, x.request = y.request PROVE Together(x, y)' BY DEF Together
      <3>1. (RacedWrite(x)' <=> RacedWrite(x)) /\ (RacedWrite(y)' <=> RacedWrite(y))
        BY <1>2, <2>3, <2>4, FitsStill
      <3> QED BY <2>2, <3>1 DEF Together
    <2> QED BY <2>1, <2>5, <2>6, <2>7
  <1>6. (t = "main" => LoopFits(w, other)') /\ (t = "loop" => MainFits(w, other)')
    <2>1. (t = "main" => LoopFits(w, other)) /\ (t = "loop" => MainFits(w, other))
      BY <1>1 DEF WorkerTypes, Step, Others
    <2>2. CASE other = Idle BY <1>1, <2>2 DEF LoopFits, MainFits
    <2>3. CASE other # Idle /\ (other.request # n \/ UNCHANGED requests)
      <3>1. other.request \in 1..Len(requests) BY <1>1, <2>1, <2>3, RequestOf
      <3>2. requests'[other.request] = requests[other.request] BY <1>2, <2>3, <3>1
      <3> QED BY <1>2, <2>1, <3>2, FitsStill
    <2>4. CASE other # Idle /\ other.request = n /\ other.do = "errback"
      <3>1. AttachFits(w, other)' BY <1>2, <2>4 DEF AttachFits
      <3>2. ~CallbackFits(w, other)
        BY <2>4 DEF CallbackFits, Callbacks
      <3> QED BY <1>1, <2>1, <2>4, <3>1, <3>2 DEF MainFits, LoopFits
    <2>5. CASE other # Idle /\ other.request = n /\ RacedWrite(other)
      <3>1. other.do = "write" /\ More(other) /\ other.page \in requests[n].raced BY <2>5 DEF RacedWrite
      <3>2. RacedWrite(other)' BY <1>2, <2>5, <3>1 DEF RacedWrite
      <3>3. ~AttachFits(w, other) BY <3>1 DEF AttachFits
      <3>4. CallbackFits(w, other) BY <1>1, <2>1, <2>5, <3>3 DEF MainFits, LoopFits
      <3>5. CallbackFits(w, other)'
        <4>1. other \in Callbacks /\ other.page <= requests[n].page BY <2>5, <3>4 DEF CallbackFits
        <4>2. other.page \in Nat /\ requests[n].page \in Nat /\ requests'[n].page \in Nat
          <5>1. requests'[n] \in Requests BY <1>2
          <5> QED BY <1>2, <4>1, <5>1, RequestAt DEF Callbacks, Requests
        <4>3. other.page <= requests'[n].page BY <1>2, <4>1, <4>2
        <4> QED BY <1>2, <2>5, <3>1, <3>2, <3>4, <4>3 DEF CallbackFits
      <3> QED BY <3>2, <3>5 DEF MainFits, LoopFits
    <2> QED BY <2>2, <2>3, <2>4, <2>5 DEF Undisturbed
  <1>7. MainFits(w, main[w])' /\ LoopFits(w, loop[w])' /\ Together(main[w], loop[w])'
    <2>1. PICK x, y : x = main'[w] /\ y = loop'[w] OBVIOUS
    <2>2. CASE t = "main"
      <3>1. x = next /\ y = other BY <1>3, <2>1, <2>2 DEF Step, Others
      <3> QED BY <1>6, <2>1, <2>2, <3>1
    <2>3. CASE t = "loop"
      <3>1. x = other /\ y = next BY <1>3, <2>1, <2>3 DEF Step, Others
      <3> QED BY <1>6, <2>1, <2>3, <3>1
    <2> QED BY <1>1, <2>2, <2>3
  <1> QED BY <1>2, <1>3, <1>4, <1>5, <1>7 DEF WorkerTypes

(* Where a range is.                                                       *)
QueuedAt(w, p, r) == w \in Workers /\ p \in 1..Len(work[w]) /\ r \in Ranges /\ work[w][p] = r
LiveAt(n, r) == n \in 1..Len(requests) /\ requests[n].range = r /\ Live(n)
RowAt(w, p, r, k) == w \in Workers /\ p \in 1..Len(results[w]) /\ results[w][p] = RowsMsg(r, k)
WordAt(lab, w, p, r) == w \in Workers /\ p \in 1..Len(results[w]) /\ results[w][p].kind # "rows" /\ lab[w][p] = r
EndAt(lab, w, p, r) == w \in Workers /\ p \in 1..Len(results[w]) /\ results[w][p] = EndMsg /\ lab[w][p] = r

LabelTypes(lab) ==
    /\ results \in [Workers -> Seq(Messages)]
    /\ lab \in [Workers -> Seq(Ranges)]
    /\ \A w \in Workers : Len(lab[w]) = Len(results[w])
    /\ \A w \in Workers : \A p \in 1..Len(results[w]) :
          results[w][p].kind = "error" => results[w][p].range = lab[w][p]

Labels(lab, Got) == LabelTypes(lab) /\ Got \subseteq Ranges /\ Cardinality(Got) = succeeded

QueuedOnce == \A r \in Ranges, w, v \in Workers, p, q \in Nat :
    QueuedAt(w, p, r) /\ QueuedAt(v, q, r) => w = v /\ p = q
LiveOnce == \A r \in Ranges, n, m \in Nat : LiveAt(n, r) /\ LiveAt(m, r) => n = m
WordOnce(lab) == \A r \in Ranges, w, v \in Workers, p, q \in Nat :
    WordAt(lab, w, p, r) /\ WordAt(lab, v, q, r) => w = v /\ p = q
QueuedApart(lab, Got) == \A r \in Ranges, w \in Workers, p \in Nat : QueuedAt(w, p, r) =>
    /\ r \notin Got
    /\ \A n \in Nat : ~LiveAt(n, r)
    /\ \A v \in Workers, q \in Nat : ~WordAt(lab, v, q, r)
LiveApart(lab, Got) == \A r \in Ranges, n \in Nat : LiveAt(n, r) =>
    /\ r \notin Got
    /\ \A v \in Workers, q \in Nat : ~WordAt(lab, v, q, r)
WordApart(lab, Got) == \A r \in Ranges, w \in Workers, p \in Nat : WordAt(lab, w, p, r) => r \notin Got

RowOnce == \A r \in Ranges : \A k \in Kept(r) : \A w, v \in Workers, p, q \in Nat :
    RowAt(w, p, r, k) /\ RowAt(v, q, r, k) => w = v /\ p = q
RowNew == \A r \in Ranges : \A k \in Kept(r) : \A w \in Workers, p \in Nat :
    RowAt(w, p, r, k) => file[<<r, k>>] = 0 /\ <<r, k>> \notin EmptyPages
FileOnce == \A r \in Ranges : \A k \in Kept(r) :
    /\ file[<<r, k>>] \in {0, 1}
    /\ <<r, k>> \in EmptyPages => file[<<r, k>>] = 0
    /\ info[r].rows = 0 => file[<<r, k>>] = 0
QueuedClean == \A r \in Ranges, w \in Workers, p \in Nat : QueuedAt(w, p, r) =>
    \A k \in Kept(r) : file[<<r, k>>] = 0 /\ \A v \in Workers, q \in Nat : ~RowAt(v, q, r, k)
LiveAhead == \A r \in Ranges, n \in Nat : LiveAt(n, r) => \A k \in Kept(r) :
    /\ k >= Due(n) => file[<<r, k>>] = 0
    /\ \A v \in Workers, q \in Nat : RowAt(v, q, r, k) => v = requests[n].worker /\ k < Due(n)
WordsLast(lab) == \A r \in Ranges, w, v \in Workers, p, q \in Nat : \A k \in Kept(r) :
    WordAt(lab, w, p, r) /\ RowAt(v, q, r, k) => v = w /\ q < p

Delivered(r, k, w, p) ==
    \/ file[<<r, k>>] = 1 \/ <<r, k>> \in EmptyPages
    \/ \E q \in Nat : q < p /\ RowAt(w, q, r, k)
LiveBehind == \A r \in Ranges, n \in Nat : LiveAt(n, r) /\ requests[n].worker \in alive =>
    \A k \in Kept(r) : k < Due(n) => Delivered(r, k, requests[n].worker, Len(results[requests[n].worker]) + 1)
EndsWhole(lab) == \A r \in Ranges, w \in Workers, p \in Nat : EndAt(lab, w, p, r) =>
    \A k \in Kept(r) : Delivered(r, k, w, p)
GotWhole(Got) == \A r \in Got : \A k \in Kept(r) : file[<<r, k>>] = Written(r, k)

LabInv(lab, Got) ==
    /\ Labels(lab, Got)
    /\ QueuedOnce /\ LiveOnce /\ WordOnce(lab)
    /\ QueuedApart(lab, Got) /\ LiveApart(lab, Got) /\ WordApart(lab, Got)
    /\ RowOnce /\ RowNew /\ FileOnce /\ QueuedClean /\ LiveAhead /\ WordsLast(lab)
    /\ LiveBehind /\ EndsWhole(lab) /\ GotWhole(Got)
ExportInv == ParentTypes /\ \E lab, Got : LabInv(lab, Got)

-----------------------------------------------------------------------------
LEMMA SameWires ==
    ASSUME UNCHANGED results
    PROVE  /\ \A w, p, r, k : RowAt(w, p, r, k)' <=> RowAt(w, p, r, k)
           /\ \A lab, w, p, r : WordAt(lab, w, p, r)' <=> WordAt(lab, w, p, r)
           /\ \A lab, w, p, r : EndAt(lab, w, p, r)' <=> EndAt(lab, w, p, r)
  BY DEF RowAt, WordAt, EndAt

LEMMA SameQueues ==
    ASSUME UNCHANGED work
    PROVE  \A w, p, r : QueuedAt(w, p, r)' <=> QueuedAt(w, p, r)
  BY DEF QueuedAt

LEMMA SameRequests ==
    ASSUME UNCHANGED <<requests, main, loop>>
    PROVE  /\ \A n, r : LiveAt(n, r)' <=> LiveAt(n, r)
           /\ \A n : Due(n)' = Due(n)
  <1>1. \A cb, n : Holds(cb, n)' <=> Holds(cb, n) BY DEF Holds, RacedWrite
  <1>2. \A n : (InHand(n)' <=> InHand(n)) /\ Hand(n)' = Hand(n) BY <1>1 DEF InHand, Hand
  <1> QED BY <1>2 DEF LiveAt, Due, Live

LEMMA SameKept ==
    ASSUME UNCHANGED requests
    PROVE  \A r : Kept(r)' = Kept(r)
  BY DEF Kept, Raced

LEMMA HoldsSame ==
    ASSUME NEW m \in 1..Len(requests), requests'[m] = requests[m], NEW x
    PROVE  Holds(x, m)' <=> Holds(x, m)
  BY DEF Holds, RacedWrite

(* A step that moves no range, no message and no page; pages may race.     *)
LEMMA StillStep ==
    ASSUME NEW lab, NEW Got, LabInv(lab, Got),
           UNCHANGED <<results, file, info, succeeded>>, alive' \subseteq alive,
           \A w, p, r : QueuedAt(w, p, r)' <=> QueuedAt(w, p, r),
           \A n, r : LiveAt(n, r)' <=> LiveAt(n, r),
           \A r : Kept(r)' \subseteq Kept(r),
           \A n \in 1..Len(requests) :
              /\ requests'[n].worker = requests[n].worker /\ requests'[n].range = requests[n].range
              /\ \A k \in Kept(requests[n].range)' : (k < Due(n)' <=> k < Due(n)) /\ (k >= Due(n)' <=> k >= Due(n))
    PROVE  LabInv(lab, Got)'
  <1>1. /\ \A w, p, r, k : RowAt(w, p, r, k)' <=> RowAt(w, p, r, k)
        /\ \A w, p, r : WordAt(lab, w, p, r)' <=> WordAt(lab, w, p, r)
        /\ \A w, p, r : EndAt(lab, w, p, r)' <=> EndAt(lab, w, p, r)
    BY SameWires
  <1>2. Labels(lab, Got)' BY DEF LabInv, Labels, LabelTypes
  <1>3. QueuedOnce' /\ LiveOnce' /\ WordOnce(lab)'
    BY <1>1 DEF LabInv, QueuedOnce, LiveOnce, WordOnce
  <1>4. QueuedApart(lab, Got)' /\ LiveApart(lab, Got)' /\ WordApart(lab, Got)'
    BY <1>1 DEF LabInv, QueuedApart, LiveApart, WordApart
  <1>5. RowOnce' /\ RowNew' BY <1>1 DEF LabInv, RowOnce, RowNew
  <1>6. FileOnce' /\ QueuedClean' BY <1>1 DEF LabInv, FileOnce, QueuedClean
  <1>7. \A n, r : LiveAt(n, r) => n \in 1..Len(requests) /\ requests[n].range = r BY DEF LiveAt
  <1>8. LiveAhead'
    <2> SUFFICES ASSUME NEW r \in Ranges, NEW n \in Nat, LiveAt(n, r), NEW k \in Kept(r)'
                 PROVE  /\ k >= Due(n)' => file[<<r, k>>] = 0
                        /\ \A v \in Workers, q \in Nat : RowAt(v, q, r, k)' => v = requests'[n].worker /\ k < Due(n)'
      BY DEF LiveAhead
    <2>1. k \in Kept(r) OBVIOUS
    <2>2. /\ k >= Due(n) => file[<<r, k>>] = 0
          /\ \A v \in Workers, q \in Nat : RowAt(v, q, r, k) => v = requests[n].worker /\ k < Due(n)
      BY <2>1 DEF LabInv, LiveAhead
    <2>3. n \in 1..Len(requests) /\ requests[n].range = r BY <1>7
    <2>4. requests'[n].worker = requests[n].worker /\ requests'[n].range = r BY <2>3
    <2>5. (k < Due(n)' <=> k < Due(n)) /\ (k >= Due(n)' <=> k >= Due(n)) BY <2>3, <2>4
    <2> QED BY <1>1, <2>2, <2>4, <2>5
  <1>9. WordsLast(lab)' BY <1>1 DEF LabInv, WordsLast
  <1>10. \A r, k, w, p : Delivered(r, k, w, p)' <=> Delivered(r, k, w, p)
    BY <1>1 DEF Delivered
  <1>11. LiveBehind'
    <2> SUFFICES ASSUME NEW r \in Ranges, NEW n \in Nat, LiveAt(n, r), requests'[n].worker \in alive, NEW k \in Kept(r)',
                        k < Due(n)'
                 PROVE  Delivered(r, k, requests'[n].worker, Len(results[requests'[n].worker]) + 1)
      BY <1>10 DEF LiveBehind
    <2>1. k \in Kept(r) OBVIOUS
    <2>2. n \in 1..Len(requests) /\ requests[n].range = r BY <1>7
    <2>3. requests'[n].worker = requests[n].worker /\ requests'[n].range = r BY <2>2
    <2>4. k < Due(n) BY <2>2, <2>3
    <2> QED BY <2>1, <2>3, <2>4 DEF LabInv, LiveBehind
  <1>12. EndsWhole(lab)' BY <1>1, <1>10 DEF LabInv, EndsWhole
  <1>13. GotWhole(Got)'
    <2>1. Got \subseteq Ranges BY DEF LabInv, Labels
    <2> QED BY <2>1 DEF LabInv, GotWhole, Written
  <1> QED BY <1>2, <1>3, <1>4, <1>5, <1>6, <1>8, <1>9, <1>11, <1>12, <1>13 DEF LabInv

-----------------------------------------------------------------------------
(* Sequences, item by item.                                                *)
LEMMA AppendAt ==
    ASSUME NEW S, NEW s \in Seq(S), NEW e \in S
    PROVE  /\ Append(s, e) \in Seq(S) /\ Len(Append(s, e)) = Len(s) + 1 /\ Len(s) \in Nat
           /\ \A i \in 1..Len(s) : Append(s, e)[i] = s[i]
           /\ Append(s, e)[Len(s) + 1] = e
  OBVIOUS

LEMMA TailAt ==
    ASSUME NEW S, NEW s \in Seq(S), s # <<>>
    PROVE  /\ Tail(s) \in Seq(S) /\ Len(Tail(s)) = Len(s) - 1 /\ Len(s) \in Nat \ {0}
           /\ \A i \in 1..(Len(s) - 1) : Tail(s)[i] = s[i + 1]
           /\ Head(s) = s[1] /\ s[1] \in S
  OBVIOUS

LEMMA CutAt ==
    ASSUME NEW S, NEW s \in Seq(S), NEW n \in 0..Len(s)
    PROVE  /\ SubSeq(s, 1, n) \in Seq(S) /\ Len(SubSeq(s, 1, n)) = n /\ Len(s) \in Nat
           /\ \A i \in 1..n : SubSeq(s, 1, n)[i] = s[i]
  OBVIOUS

(* The labels after a message labelled r is put on the wire of w, after    *)
(* one is taken from it, and after all but n are lost.                     *)
Tagged(lab, w, r) == [lab EXCEPT ![w] = Append(@, r)]
Untagged(lab, w) == [lab EXCEPT ![w] = Tail(@)]
CutTags(lab, w, n) == [lab EXCEPT ![w] = SubSeq(@, 1, n)]
Later(w, v, p) == IF v = w THEN p + 1 ELSE p

LEMMA Sent ==
    ASSUME NEW lab, LabelTypes(lab), NEW w \in Workers, NEW msg \in Messages, NEW r \in Ranges,
           msg.kind = "error" => msg.range = r, Send(w, msg)
    PROVE  /\ LabelTypes(Tagged(lab, w, r))'
           /\ Len(results[w]) \in Nat /\ Len(results'[w]) = Len(results[w]) + 1
           /\ \A v \in Workers : v # w => results'[v] = results[v]
           /\ \A v, p, s, k : RowAt(v, p, s, k)' <=>
                 RowAt(v, p, s, k) \/ (v = w /\ p = Len(results[w]) + 1 /\ msg = RowsMsg(s, k))
           /\ \A v, p, s : WordAt(Tagged(lab, w, r), v, p, s)' <=>
                 WordAt(lab, v, p, s) \/ (v = w /\ p = Len(results[w]) + 1 /\ msg.kind # "rows" /\ s = r)
           /\ \A v, p, s : EndAt(Tagged(lab, w, r), v, p, s)' <=>
                 EndAt(lab, v, p, s) \/ (v = w /\ p = Len(results[w]) + 1 /\ msg = EndMsg /\ s = r)
  <1> DEFINE tags == Tagged(lab, w, r)
  <1>1. results[w] \in Seq(Messages) /\ lab[w] \in Seq(Ranges) /\ Len(lab[w]) = Len(results[w])
    BY DEF LabelTypes
  <1>2. results' = [results EXCEPT ![w] = Append(@, msg)] BY DEF Send
  <1>3. /\ results' \in [Workers -> Seq(Messages)] /\ results'[w] = Append(results[w], msg)
        /\ \A v \in Workers : v # w => results'[v] = results[v]
    BY <1>1, <1>2, AppendAt DEF LabelTypes
  <1>4. /\ tags \in [Workers -> Seq(Ranges)] /\ tags[w] = Append(lab[w], r)
        /\ \A v \in Workers : v # w => tags[v] = lab[v]
    BY <1>1, AppendAt DEF LabelTypes, Tagged
  <1>5. /\ Len(results[w]) \in Nat /\ Len(results'[w]) = Len(results[w]) + 1 /\ Len(tags[w]) = Len(results[w]) + 1
        /\ \A p \in 1..Len(results[w]) : results'[w][p] = results[w][p] /\ tags[w][p] = lab[w][p]
        /\ results'[w][Len(results[w]) + 1] = msg /\ tags[w][Len(results[w]) + 1] = r
    BY <1>1, <1>3, <1>4, AppendAt
  <1>6. \A p : p \in 1..Len(results'[w]) <=> p \in 1..Len(results[w]) \/ p = Len(results[w]) + 1
    BY <1>5
  <1>7. \A v \in Workers : Len(tags[v]) = Len(results'[v]) BY <1>3, <1>4, <1>5 DEF LabelTypes
  <1>8. \A v \in Workers : \A p \in 1..Len(results'[v]) :
           results'[v][p].kind = "error" => results'[v][p].range = tags[v][p]
    <2> SUFFICES ASSUME NEW v \in Workers, NEW p \in 1..Len(results'[v])
                 PROVE  results'[v][p].kind = "error" => results'[v][p].range = tags[v][p]
      OBVIOUS
    <2> HIDE DEF tags
    <2>1. CASE v = w
      <3>1. CASE p \in 1..Len(results[w]) BY <1>5, <2>1, <3>1 DEF LabelTypes
      <3>2. CASE p = Len(results[w]) + 1 BY <1>3, <1>5, <2>1, <3>2
      <3> QED BY <1>6, <2>1, <3>1, <3>2
    <2>2. CASE v # w BY <1>3, <1>4, <2>2 DEF LabelTypes
    <2> QED BY <2>1, <2>2
  <1> HIDE DEF tags
  <1>9. LabelTypes(tags)' BY <1>3, <1>4, <1>7, <1>8 DEF LabelTypes
  <1>10. /\ \A v, p, s, k : RowAt(v, p, s, k)' <=>
                 RowAt(v, p, s, k) \/ (v = w /\ p = Len(results[w]) + 1 /\ msg = RowsMsg(s, k))
         /\ \A v, p, s : WordAt(tags, v, p, s)' <=>
                 WordAt(lab, v, p, s) \/ (v = w /\ p = Len(results[w]) + 1 /\ msg.kind # "rows" /\ s = r)
         /\ \A v, p, s : EndAt(tags, v, p, s)' <=>
                 EndAt(lab, v, p, s) \/ (v = w /\ p = Len(results[w]) + 1 /\ msg = EndMsg /\ s = r)
    <2>1. \A v, p, s, k : RowAt(v, p, s, k)' <=>
                 RowAt(v, p, s, k) \/ (v = w /\ p = Len(results[w]) + 1 /\ msg = RowsMsg(s, k))
      BY <1>3, <1>5, <1>6 DEF RowAt
    <2>2. \A v, p, s : WordAt(tags, v, p, s)' <=>
                 WordAt(lab, v, p, s) \/ (v = w /\ p = Len(results[w]) + 1 /\ msg.kind # "rows" /\ s = r)
      BY <1>3, <1>4, <1>5, <1>6 DEF WordAt
    <2>3. \A v, p, s : EndAt(tags, v, p, s)' <=>
                 EndAt(lab, v, p, s) \/ (v = w /\ p = Len(results[w]) + 1 /\ msg = EndMsg /\ s = r)
      BY <1>3, <1>4, <1>5, <1>6 DEF EndAt
    <2> QED BY <2>1, <2>2, <2>3
  <1> QED BY <1>3, <1>5, <1>9, <1>10 DEF tags

LEMMA Taken ==
    ASSUME NEW lab, LabelTypes(lab), NEW w \in Workers, results[w] # <<>>,
           results' = [results EXCEPT ![w] = Tail(@)]
    PROVE  /\ LabelTypes(Untagged(lab, w))'
           /\ Head(results[w]) = results[w][1] /\ results[w][1] \in Messages /\ lab[w][1] \in Ranges
           /\ Len(results[w]) \in Nat \ {0} /\ Len(results'[w]) = Len(results[w]) - 1
           /\ \A v \in Workers : v # w => results'[v] = results[v]
           /\ \A v, s, k : \A p \in Nat : RowAt(v, p, s, k)' <=> p # 0 /\ RowAt(v, Later(w, v, p), s, k)
           /\ \A v, s : \A p \in Nat : WordAt(Untagged(lab, w), v, p, s)' <=> p # 0 /\ WordAt(lab, v, Later(w, v, p), s)
           /\ \A v, s : \A p \in Nat : EndAt(Untagged(lab, w), v, p, s)' <=> p # 0 /\ EndAt(lab, v, Later(w, v, p), s)
  <1> DEFINE tags == Untagged(lab, w)
  <1>1. /\ results[w] \in Seq(Messages) /\ lab[w] \in Seq(Ranges) /\ Len(lab[w]) = Len(results[w])
        /\ lab[w] # <<>>
    BY DEF LabelTypes
  <1>2. /\ Tail(results[w]) \in Seq(Messages) /\ Len(Tail(results[w])) = Len(results[w]) - 1
        /\ Len(results[w]) \in Nat \ {0} /\ Head(results[w]) = results[w][1] /\ results[w][1] \in Messages
        /\ \A p \in 1..(Len(results[w]) - 1) : Tail(results[w])[p] = results[w][p + 1]
    BY <1>1, TailAt
  <1>3. /\ Tail(lab[w]) \in Seq(Ranges) /\ Len(Tail(lab[w])) = Len(results[w]) - 1 /\ lab[w][1] \in Ranges
        /\ \A p \in 1..(Len(results[w]) - 1) : Tail(lab[w])[p] = lab[w][p + 1]
    BY <1>1, TailAt
  <1>4. /\ results' \in [Workers -> Seq(Messages)] /\ results'[w] = Tail(results[w])
        /\ \A v \in Workers : v # w => results'[v] = results[v]
    BY <1>2 DEF LabelTypes
  <1>5. /\ tags \in [Workers -> Seq(Ranges)] /\ tags[w] = Tail(lab[w])
        /\ \A v \in Workers : v # w => tags[v] = lab[v]
    BY <1>3 DEF LabelTypes, Untagged
  <1> HIDE DEF tags
  <1>6. \A p \in Nat : p \in 1..Len(results'[w]) <=> p # 0 /\ p + 1 \in 1..Len(results[w])
    BY <1>2, <1>4
  <1>7. \A p \in Nat : p \in 1..Len(results'[w]) => results'[w][p] = results[w][p + 1] /\ tags[w][p] = lab[w][p + 1]
    BY <1>2, <1>3, <1>4, <1>5
  <1>8. LabelTypes(tags)'
    <2>1. \A v \in Workers : Len(tags[v]) = Len(results'[v]) BY <1>2, <1>3, <1>4, <1>5 DEF LabelTypes
    <2>2. \A v \in Workers : \A p \in 1..Len(results'[v]) :
             results'[v][p].kind = "error" => results'[v][p].range = tags[v][p]
      <3> SUFFICES ASSUME NEW v \in Workers, NEW p \in 1..Len(results'[v])
                   PROVE  results'[v][p].kind = "error" => results'[v][p].range = tags[v][p]
        OBVIOUS
      <3>1. CASE v = w
        <4>1. p \in Nat BY <1>2, <1>4, <3>1
        <4> QED BY <1>6, <1>7, <3>1, <4>1 DEF LabelTypes
      <3>2. CASE v # w BY <1>4, <1>5, <3>2 DEF LabelTypes
      <3> QED BY <3>1, <3>2
    <2> QED BY <1>4, <1>5, <2>1, <2>2 DEF LabelTypes
  <1>9. \A v \in Workers : v # w => \A p \in Nat : p \in 1..Len(results[v]) => p # 0
    OBVIOUS
  <1>10. \A v, s, k : \A p \in Nat : RowAt(v, p, s, k)' <=> p # 0 /\ RowAt(v, Later(w, v, p), s, k)
    BY <1>4, <1>6, <1>7, <1>9 DEF RowAt, Later
  <1>11. \A v, s : \A p \in Nat : WordAt(tags, v, p, s)' <=> p # 0 /\ WordAt(lab, v, Later(w, v, p), s)
    <2> SUFFICES ASSUME NEW v, NEW s, NEW p \in Nat
                 PROVE  WordAt(tags, v, p, s)' <=> p # 0 /\ WordAt(lab, v, Later(w, v, p), s)
      OBVIOUS
    <2>1. CASE v = w BY <1>6, <1>7, <2>1 DEF WordAt, Later
    <2>2. CASE v # w BY <1>4, <1>5, <1>9, <2>2 DEF WordAt, Later
    <2> QED BY <2>1, <2>2
  <1>12. \A v, s : \A p \in Nat : EndAt(tags, v, p, s)' <=> p # 0 /\ EndAt(lab, v, Later(w, v, p), s)
    <2> SUFFICES ASSUME NEW v, NEW s, NEW p \in Nat
                 PROVE  EndAt(tags, v, p, s)' <=> p # 0 /\ EndAt(lab, v, Later(w, v, p), s)
      OBVIOUS
    <2>1. CASE v = w BY <1>6, <1>7, <2>1 DEF EndAt, Later
    <2>2. CASE v # w BY <1>4, <1>5, <1>9, <2>2 DEF EndAt, Later
    <2> QED BY <2>1, <2>2
  <1> QED BY <1>2, <1>3, <1>4, <1>8, <1>10, <1>11, <1>12 DEF tags

LEMMA Dropped ==
    ASSUME NEW lab, LabelTypes(lab), NEW w \in Workers, NEW n \in 0..Len(results[w]),
           results' = [results EXCEPT ![w] = SubSeq(@, 1, n)]
    PROVE  /\ LabelTypes(CutTags(lab, w, n))' /\ n \in Nat
           /\ Len(results'[w]) = n
           /\ \A v \in Workers : v # w => results'[v] = results[v]
           /\ \A v, p, s, k : RowAt(v, p, s, k)' <=> RowAt(v, p, s, k) /\ (v = w => p <= n)
           /\ \A v, p, s : WordAt(CutTags(lab, w, n), v, p, s)' <=> WordAt(lab, v, p, s) /\ (v = w => p <= n)
           /\ \A v, p, s : EndAt(CutTags(lab, w, n), v, p, s)' <=> EndAt(lab, v, p, s) /\ (v = w => p <= n)
  <1> DEFINE tags == CutTags(lab, w, n)
  <1>1. results[w] \in Seq(Messages) /\ lab[w] \in Seq(Ranges) /\ Len(lab[w]) = Len(results[w])
    BY DEF LabelTypes
  <1>2. /\ SubSeq(results[w], 1, n) \in Seq(Messages) /\ Len(SubSeq(results[w], 1, n)) = n
        /\ Len(results[w]) \in Nat
        /\ \A p \in 1..n : SubSeq(results[w], 1, n)[p] = results[w][p]
    BY <1>1, CutAt
  <1>3. /\ SubSeq(lab[w], 1, n) \in Seq(Ranges) /\ Len(SubSeq(lab[w], 1, n)) = n
        /\ \A p \in 1..n : SubSeq(lab[w], 1, n)[p] = lab[w][p]
    <2>1. n \in 0..Len(lab[w]) BY <1>1
    <2> QED BY <1>1, <2>1, CutAt
  <1>4. /\ results' \in [Workers -> Seq(Messages)] /\ results'[w] = SubSeq(results[w], 1, n)
        /\ \A v \in Workers : v # w => results'[v] = results[v]
    BY <1>2 DEF LabelTypes
  <1>5. /\ tags \in [Workers -> Seq(Ranges)] /\ tags[w] = SubSeq(lab[w], 1, n)
        /\ \A v \in Workers : v # w => tags[v] = lab[v]
    BY <1>3 DEF LabelTypes, CutTags
  <1> HIDE DEF tags
  <1>6. \A p : p \in 1..Len(results'[w]) <=> p \in 1..Len(results[w]) /\ p <= n
    BY <1>2, <1>4
  <1>7. \A p \in 1..Len(results'[w]) : results'[w][p] = results[w][p] /\ tags[w][p] = lab[w][p]
    BY <1>2, <1>3, <1>4, <1>5
  <1>8. LabelTypes(tags)'
    <2>1. \A v \in Workers : Len(tags[v]) = Len(results'[v]) BY <1>2, <1>3, <1>4, <1>5 DEF LabelTypes
    <2>2. \A v \in Workers : \A p \in 1..Len(results'[v]) :
             results'[v][p].kind = "error" => results'[v][p].range = tags[v][p]
      BY <1>4, <1>5, <1>6, <1>7 DEF LabelTypes
    <2> QED BY <1>4, <1>5, <2>1, <2>2 DEF LabelTypes
  <1>9. \A v, p, s, k : RowAt(v, p, s, k)' <=> RowAt(v, p, s, k) /\ (v = w => p <= n)
    BY <1>4, <1>6, <1>7 DEF RowAt
  <1>10. \A v, p, s : WordAt(tags, v, p, s)' <=> WordAt(lab, v, p, s) /\ (v = w => p <= n)
    BY <1>4, <1>5, <1>6, <1>7 DEF WordAt
  <1>11. \A v, p, s : EndAt(tags, v, p, s)' <=> EndAt(lab, v, p, s) /\ (v = w => p <= n)
    BY <1>4, <1>5, <1>6, <1>7 DEF EndAt
  <1> QED BY <1>2, <1>4, <1>8, <1>9, <1>10, <1>11 DEF tags

(* What is known of a callback that runs, and of a thread beside it that   *)
(* is at the same request.                                                 *)
LEMMA CallbackOf ==
    ASSUME ExportAssumption, WorkerTypes, NEW w \in Workers, NEW t \in {"main", "loop"}, NEW cb, cb = Step(w, t),
           RunsCallback(cb), NEW other, other = Step(w, Others(t))
    PROVE  /\ cb # Idle /\ CallbackFits(w, cb) /\ cb \in Callbacks /\ cb.request \in 1..Len(requests)
           /\ cb.range \in Ranges /\ cb.page \in Nat \ {0} /\ cb.page \in PagesOf(cb.range) /\ Pages[cb.range] \in Nat
           /\ requests[cb.request].worker = w /\ requests[cb.request].range = cb.range
           /\ t = "main" /\ cb.do = "write" /\ More(cb) => RacedWrite(cb)
           /\ other # Idle /\ other.request = cb.request =>
                 IF t = "main"
                 THEN RacedWrite(other) \/ (RacedWrite(cb) /\ ~(other.do = "write" /\ More(other)))
                 ELSE /\ other.do = "errback" \/ RunsCallback(other)
                      /\ RacedWrite(cb) \/ ((other.do = "errback" \/ RacedWrite(other)) /\ ~(cb.do = "write" /\ More(cb)))
  <1>1. cb # Idle BY DEF RunsCallback, Idle
  <1>2. ~AttachFits(w, cb) BY DEF RunsCallback, AttachFits
  <1>3. MainFits(w, main[w]) /\ LoopFits(w, loop[w]) /\ Together(main[w], loop[w]) BY DEF WorkerTypes
  <1>4. /\ t = "main" => cb = main[w] /\ other = loop[w]
        /\ t = "loop" => cb = loop[w] /\ other = main[w]
    BY DEF Step, Others
  <1>5. CallbackFits(w, cb) BY <1>1, <1>2, <1>3, <1>4 DEF MainFits, LoopFits
  <1>6. t = "main" /\ cb.do = "write" /\ More(cb) => RacedWrite(cb) BY <1>1, <1>2, <1>3, <1>4 DEF MainFits
  <1>7. /\ cb \in Callbacks /\ cb.request \in 1..Len(requests) /\ cb.page <= requests[cb.request].page
        /\ requests[cb.request].worker = w /\ requests[cb.request].range = cb.range
    BY <1>5 DEF CallbackFits
  <1>8. cb.range \in Ranges /\ cb.page \in Nat \ {0} BY <1>7 DEF Callbacks
  <1>9. Pages[cb.range] \in Nat /\ cb.page <= Pages[cb.range]
    <2>1. requests[cb.request].page <= Pages[cb.range] /\ requests[cb.request].page \in Nat BY <1>7, RequestAt
    <2> QED BY <1>7, <1>8, <2>1 DEF ExportAssumption
  <1>10. cb.page \in PagesOf(cb.range) BY <1>8, <1>9 DEF PagesOf
  <1>11. ASSUME other # Idle, other.request = cb.request
         PROVE  IF t = "main"
                THEN RacedWrite(other) \/ (RacedWrite(cb) /\ ~(other.do = "write" /\ More(other)))
                ELSE /\ other.do = "errback" \/ RunsCallback(other)
                     /\ RacedWrite(cb) \/ ((other.do = "errback" \/ RacedWrite(other)) /\ ~(cb.do = "write" /\ More(cb)))
    <2>1. CASE t = "main" BY <1>1, <1>3, <1>4, <1>11, <2>1 DEF Together
    <2>2. CASE t = "loop"
      <3>1. other.do # "attach" BY <1>1, <1>3, <1>4, <1>11, <2>2 DEF Together
      <3>2. other.do = "errback" \/ RunsCallback(other)
        BY <1>3, <1>4, <1>11, <2>2, <3>1 DEF MainFits, AttachFits, CallbackFits, Callbacks, RunsCallback
      <3> QED BY <1>1, <1>3, <1>4, <1>11, <2>2, <3>2 DEF Together, RunsCallback
    <2> QED BY <2>1, <2>2
  <1> QED BY <1>1, <1>5, <1>6, <1>7, <1>8, <1>9, <1>10, <1>11

LEMMA StillGoesOn ==
    ASSUME WorkerTypes, NEW n \in 1..Len(requests), UNCHANGED requests
    PROVE  RequestGoesOn(requests[n].worker, n)
  <1>1. requests[n].page \in Nat /\ requests[n].page <= requests[n].page BY RequestAt
  <1> QED BY <1>1, RequestAt DEF RequestGoesOn, WorkerTypes

LEMMA AnswerGoesOn ==
    ASSUME WorkerTypes, NEW n \in 1..Len(requests), Answered(n)
    PROVE  /\ RequestGoesOn(requests[n].worker, n)
           /\ requests'[n].page = requests[n].page /\ requests'[n].raced = requests[n].raced /\ ~requests'[n].open
           /\ requests'[n].host = requests[n].host
  <1>1. PICK q : q = [requests[n] EXCEPT !.open = FALSE] OBVIOUS
  <1>2. requests[n] \in Requests /\ requests \in Seq(Requests) /\ requests[n].page <= Pages[requests[n].range]
        /\ requests[n].page \in Nat
    BY RequestAt DEF WorkerTypes
  <1>3. /\ q \in Requests /\ q.worker = requests[n].worker /\ q.range = requests[n].range /\ q.page = requests[n].page
        /\ q.raced = requests[n].raced /\ ~q.open /\ q.host = requests[n].host
    BY <1>1, <1>2 DEF Requests
  <1>4. requests' = [requests EXCEPT ![n] = q] BY <1>1, <1>2 DEF Answered
  <1>5. /\ requests' \in Seq(Requests) /\ Len(requests') = Len(requests) /\ requests'[n] = q
        /\ \A m \in 1..Len(requests) : m # n => requests'[m] = requests[m]
    BY <1>2, <1>3, <1>4
  <1> QED BY <1>2, <1>3, <1>5 DEF RequestGoesOn

(* Request q, and request n of all, when the next page of it is asked for. *)
Refetched(q, more) == [q EXCEPT !.page = @ + 1, !.open = TRUE, !.raced = @ \cup more]
Fetched(n, more) == requests' = [requests EXCEPT ![n].page = @ + 1, ![n].open = TRUE, ![n].raced = @ \cup more]

LEMMA Reasked ==
    ASSUME NEW q \in Requests, NEW more \in SUBSET Nat, NEW e, e = Refetched(q, more)
    PROVE  /\ e \in Requests /\ e.worker = q.worker /\ e.range = q.range /\ e.host = q.host
           /\ e.page = q.page + 1 /\ e.open /\ e.raced = q.raced \cup more
  <1>1. q.page + 1 \in Nat \ {0} /\ q.raced \cup more \in SUBSET Nat
    <2>1. q.page \in Nat \ {0} /\ q.raced \in SUBSET Nat BY DEF Requests
    <2>2. q.raced \cup more \subseteq Nat BY <2>1
    <2>3. q.page + 1 \in Nat \ {0} BY <2>1
    <2> QED BY <2>2, <2>3
  <1>2. PICK p : p = [q EXCEPT !.page = q.page + 1] OBVIOUS
  <1>3. /\ p \in Requests /\ p.worker = q.worker /\ p.range = q.range /\ p.host = q.host /\ p.page = q.page + 1
        /\ p.raced = q.raced
    BY <1>1, <1>2 DEF Requests
  <1>4. PICK o : o = [p EXCEPT !.open = TRUE] OBVIOUS
  <1>5. /\ o \in Requests /\ o.worker = p.worker /\ o.range = p.range /\ o.host = p.host /\ o.page = p.page
        /\ o.raced = p.raced /\ o.open
    BY <1>3, <1>4 DEF Requests
  <1>6. e = [o EXCEPT !.raced = q.raced \cup more] BY <1>2, <1>4 DEF Refetched
  <1>7. /\ e \in Requests /\ e.worker = o.worker /\ e.range = o.range /\ e.host = o.host /\ e.page = o.page
        /\ e.raced = q.raced \cup more /\ (e.open <=> o.open)
    BY <1>1, <1>5, <1>6 DEF Requests
  <1> QED BY <1>3, <1>5, <1>7

LEMMA FetchGoesOn ==
    ASSUME ExportAssumption, WorkerTypes, NEW n \in 1..Len(requests), NEW more \in SUBSET Nat,
           requests[n].page < Pages[requests[n].range], Fetched(n, more)
    PROVE  /\ RequestGoesOn(requests[n].worker, n)
           /\ requests'[n].page = requests[n].page + 1 /\ requests'[n].open
           /\ requests'[n].raced = requests[n].raced \cup more /\ requests'[n].host = requests[n].host
  <1>1. PICK q : q = Refetched(requests[n], more) OBVIOUS
  <1>2. requests[n] \in Requests /\ requests \in Seq(Requests) /\ requests[n].page \in Nat /\ requests[n].range \in Ranges
    BY RequestAt DEF WorkerTypes
  <1>3. /\ q \in Requests /\ q.worker = requests[n].worker /\ q.range = requests[n].range
        /\ q.host = requests[n].host /\ q.page = requests[n].page + 1 /\ q.open /\ q.raced = requests[n].raced \cup more
    BY <1>1, <1>2, Reasked
  <1>4. requests' = [requests EXCEPT ![n] = q] BY <1>1, <1>2 DEF Fetched, Refetched
  <1>5. /\ requests' \in Seq(Requests) /\ Len(requests') = Len(requests) /\ requests'[n] = q
        /\ \A m \in 1..Len(requests) : m # n => requests'[m] = requests[m]
    BY <1>2, <1>3, <1>4
  <1>6. requests[n].page <= q.page /\ q.page <= Pages[q.range]
    <2>1. Pages[requests[n].range] \in Nat BY <1>2 DEF ExportAssumption
    <2> QED BY <1>2, <1>3, <2>1
  <1> QED BY <1>3, <1>5, <1>6 DEF RequestGoesOn

(* Request cb.request after the callback asks for its next page.           *)
Racing(w, cb) == IF Attaching(w, cb.request) THEN {cb.page} ELSE {}
Fetches(w, cb) == Fetched(cb.request, Racing(w, cb))

LEMMA FetchOf ==
    ASSUME ExportAssumption, WorkerTypes, NEW w \in Workers, NEW t \in {"main", "loop"}, NEW cb, cb = Step(w, t),
           cb.do = "rows", More(cb), Fetches(w, cb), NEW n, n = cb.request
    PROVE  /\ RequestGoesOn(w, n)
           /\ requests[n].page = cb.page /\ ~requests[n].open
           /\ requests'[n].page = cb.page + 1 /\ requests'[n].open /\ requests'[n].host = requests[n].host
           /\ requests'[n].raced = requests[n].raced \cup Racing(w, cb)
           /\ t = "main" => cb.page \in requests'[n].raced
  <1>1. PICK other : other = Step(w, Others(t)) OBVIOUS
  <1>2. /\ CallbackFits(w, cb) /\ n \in 1..Len(requests) /\ requests[n].worker = w /\ requests[n].range = cb.range
        /\ cb.page \in Nat /\ cb # Idle
    BY <1>1, CallbackOf DEF RunsCallback
  <1>3. requests[n].page = cb.page /\ ~requests[n].open BY <1>2 DEF CallbackFits, RacedWrite
  <1>4. requests[n].page < Pages[requests[n].range] BY <1>2, <1>3 DEF More
  <1>5. Racing(w, cb) \in SUBSET Nat BY <1>2 DEF Racing
  <1>6. PICK more : more = Racing(w, cb) OBVIOUS
  <1>7. Fetched(n, more) BY <1>6 DEF Fetches
  <1>8. /\ RequestGoesOn(w, n) /\ requests'[n].page = cb.page + 1 /\ requests'[n].open /\ requests'[n].host = requests[n].host
        /\ requests'[n].raced = requests[n].raced \cup Racing(w, cb)
    BY <1>2, <1>3, <1>4, <1>5, <1>6, <1>7, FetchGoesOn
  <1>9. t = "main" => cb.page \in Racing(w, cb) BY <1>2 DEF Racing, Attaching, Step
  <1> QED BY <1>3, <1>8, <1>9

LEMMA CallbackNext ==
    ASSUME NEW cb \in Callbacks, NEW d \in {"write", "end"}, NEW next, next = [cb EXCEPT !.do = d]
    PROVE  /\ next \in Callbacks /\ next.request = cb.request /\ next.range = cb.range /\ next.page = cb.page
           /\ next.do = d /\ next # Idle /\ (More(next) <=> More(cb))
  <1>1. /\ next \in Callbacks /\ next.request = cb.request /\ next.range = cb.range /\ next.page = cb.page
        /\ next.do = d
    BY DEF Callbacks
  <1>2. next # Idle BY <1>1 DEF Idle
  <1> QED BY <1>1, <1>2 DEF More

(* A thread lets go of its request: the main one attaches the other        *)
(* callback.                                                               *)
LEMMA ReturnFits ==
    ASSUME WorkerTypes, NEW w \in Workers, NEW t \in {"main", "loop"}, NEW n \in 1..Len(requests), NEW cb, cb.request = n,
           requests[n].worker = w, UNCHANGED requests, NEW next, next \in {Idle, Returned(t, cb)}
    PROVE  /\ next = Idle \/ (next.do = "errback" /\ next.request = n)
           /\ t = "main" => MainFits(w, next)'
           /\ t = "loop" => next = Idle /\ LoopFits(w, next)'
           /\ ~RunsCallback(next)
  <1>1. CASE next = Idle
    <2>1. Idle.do = "idle" BY DEF Idle
    <2> QED BY <1>1, <2>1 DEF MainFits, LoopFits, RunsCallback
  <1>2. CASE next # Idle
    <2>1. t = "main" /\ next = [do |-> "errback", request |-> n] BY <1>2 DEF Returned, AtErrback
    <2>2. next.do = "errback" /\ next.request = n BY <2>1
    <2>3. AttachFits(w, next)' BY <2>2 DEF AttachFits
    <2> QED BY <2>1, <2>2, <2>3 DEF MainFits, RunsCallback
  <1> QED BY <1>1, <1>2

LEMMA CallbackThreads ==
    ASSUME ExportAssumption, WorkerTypes, NEW w \in Workers, NEW t \in {"main", "loop"}, NEW cb, cb = Step(w, t),
           CallbackStep(w, t, cb)
    PROVE  WorkerTypes'
  <1>1. PICK n, other : n = cb.request /\ other = Step(w, Others(t)) OBVIOUS
  <1>2. RunsCallback(cb)
    BY DEF CallbackStep, ErrCallback, FetchNext, Complete, WriteRows, EndRange, RunsCallback
  <1>3. /\ cb # Idle /\ CallbackFits(w, cb) /\ cb \in Callbacks /\ n \in 1..Len(requests) /\ cb.page \in Nat \ {0}
        /\ requests[n].worker = w /\ requests[n].range = cb.range
        /\ t = "main" /\ cb.do = "write" /\ More(cb) => RacedWrite(cb)
        /\ other # Idle /\ other.request = n =>
              IF t = "main"
              THEN RacedWrite(other) \/ (RacedWrite(cb) /\ ~(other.do = "write" /\ More(other)))
              ELSE /\ other.do = "errback" \/ RunsCallback(other)
                   /\ RacedWrite(cb) \/ ((other.do = "errback" \/ RacedWrite(other)) /\ ~(cb.do = "write" /\ More(cb)))
    BY <1>1, <1>2, CallbackOf
  <1>4. ASSUME NEW next \in {Idle, Returned(t, cb)}, Becomes(w, t, next), UNCHANGED requests PROVE WorkerTypes'
    <2>1. /\ next = Idle \/ (next.do = "errback" /\ next.request = n)
          /\ t = "main" => MainFits(w, next)'
          /\ t = "loop" => next = Idle /\ LoopFits(w, next)'
          /\ ~RunsCallback(next)
      BY <1>1, <1>3, <1>4, ReturnFits
    <2>2. StepTo(w, t, n, cb, next, other) BY <1>1, <1>3, <1>4, <2>1, StillGoesOn DEF StepTo
    <2>3. RacedWrite(other)' <=> RacedWrite(other) BY <1>4 DEF RacedWrite
    <2>4. t = "main" => Together(next, other)' BY <1>3, <2>1, <2>3 DEF Together
    <2>5. t = "loop" => Together(other, next)' BY <2>1 DEF Together
    <2> QED BY <1>4, <2>1, <2>2, <2>4, <2>5, StepFits DEF Undisturbed
  <1>5. ASSUME NEW next, NEW d \in {"write", "end"}, next = [cb EXCEPT !.do = d], ~More(cb), Becomes(w, t, next), UNCHANGED requests
        PROVE  WorkerTypes'
    <2>1. /\ next \in Callbacks /\ next.request = n /\ next.range = cb.range /\ next.page = cb.page
          /\ next.do = d /\ next # Idle /\ (More(next) <=> More(cb))
      BY <1>1, <1>3, <1>5, CallbackNext
    <2>2. ~RacedWrite(cb) /\ ~RacedWrite(next)' BY <1>5, <2>1 DEF RacedWrite, More
    <2>3. CallbackFits(w, next)'
      BY <1>1, <1>3, <1>5, <2>1, <2>2 DEF CallbackFits, More
    <2>4. StepTo(w, t, n, cb, next, other) BY <1>1, <1>3, <1>5, <2>1, StillGoesOn DEF StepTo
    <2>5. \A x : RacedWrite(x)' <=> RacedWrite(x) BY <1>5 DEF RacedWrite, More
    <2>6. t = "main" => Together(next, other)' BY <1>3, <2>1, <2>2, <2>5 DEF Together
    <2>7. t = "loop" => Together(other, next)'
      <3>1. other # Idle /\ other.request = n /\ t = "loop" => other.do = "errback" \/ RacedWrite(other) BY <1>3, <2>2
      <3>2. ~More(next)' BY <1>5, <2>1 DEF More
      <3> QED BY <2>1, <2>5, <3>1, <3>2 DEF Together, RunsCallback, RacedWrite
    <2>8. MainFits(w, next)' /\ LoopFits(w, next)' BY <1>5, <2>1, <2>3 DEF MainFits, LoopFits, More
    <2> QED BY <1>5, <2>4, <2>6, <2>7, <2>8, StepFits DEF Undisturbed
  <1>6. CASE ErrCallback(w, t, cb) BY <1>4, <1>6 DEF ErrCallback
  <1>7. CASE EndRange(w, t, cb)
    <2>1. PICK next : next = Returned(t, cb) OBVIOUS
    <2> QED BY <1>4, <1>7, <2>1 DEF EndRange
  <1>8. CASE Complete(w, t, cb)
    <2>1. PICK next, d : next = [cb EXCEPT !.do = "write"] /\ d = "write" OBVIOUS
    <2> QED BY <1>5, <1>8, <2>1 DEF Complete
  <1>9. CASE WriteRows(w, t, cb)
    <2>1. CASE More(cb)
      <3>1. PICK next : next = Returned(t, cb) OBVIOUS
      <3> QED BY <1>4, <1>9, <2>1, <3>1 DEF WriteRows
    <2>2. CASE ~More(cb)
      <3>1. PICK next, d : next = [cb EXCEPT !.do = "end"] /\ d = "end" OBVIOUS
      <3> QED BY <1>5, <1>9, <2>2, <3>1 DEF WriteRows
    <2> QED BY <2>1, <2>2
  <1>10. CASE FetchNext(w, t, cb)
    <2>1. PICK next : next = [cb EXCEPT !.do = "write"] OBVIOUS
    <2>2. cb.do = "rows" /\ More(cb) /\ Becomes(w, t, next) /\ Fetches(w, cb)
      BY <1>10, <2>1 DEF FetchNext, Fetches, Fetched, Racing
    <2>3. /\ next \in Callbacks /\ next.request = n /\ next.range = cb.range /\ next.page = cb.page
          /\ next.do = "write" /\ next # Idle /\ (More(next) <=> More(cb))
      BY <1>1, <1>3, <2>1, CallbackNext
    <2>4. /\ RequestGoesOn(w, n) /\ requests'[n].page = cb.page + 1 /\ requests'[n].open
          /\ requests'[n].raced = requests[n].raced \cup Racing(w, cb)
          /\ t = "main" => cb.page \in requests'[n].raced
      BY <1>1, <2>2, FetchOf
    <2>5. Len(requests') = Len(requests) /\ requests'[n].worker = w /\ requests'[n].range = cb.range
      BY <1>3, <2>4 DEF RequestGoesOn
    <2>6. More(next)' BY <2>2, <2>3 DEF More
    <2>7. cb.page \in requests'[n].raced => RacedWrite(next)' BY <2>3, <2>6 DEF RacedWrite
    <2>8. CallbackFits(w, next)'
      <3>1. PICK q : q = requests'[n] OBVIOUS
      <3>2. q.worker = w /\ q.range = cb.range /\ q.page = cb.page + 1 /\ q.open BY <2>4, <2>5, <3>1
      <3>3. next.page <= q.page BY <1>3, <2>3, <3>2
      <3>4. next.request \in 1..Len(requests') BY <1>3, <2>3, <2>5
      <3>5. requests'[next.request] = q BY <2>3, <3>1
      <3> QED BY <2>3, <2>6, <3>2, <3>3, <3>4, <3>5 DEF CallbackFits
    <2>9. StepTo(w, t, n, cb, next, other) BY <1>1, <1>3, <2>2, <2>3, <2>4 DEF StepTo
    <2>10. ~RacedWrite(cb) BY <2>2 DEF RacedWrite
    <2>11. RacedWrite(other) /\ other.request = n => RacedWrite(other)'
      BY <2>4 DEF RacedWrite, More
    <2>12. Undisturbed(n, other) BY <1>1, <1>3, <2>10 DEF Undisturbed
    <2>13. t = "main" => Together(next, other)' /\ MainFits(w, next)'
      BY <1>3, <2>3, <2>4, <2>7, <2>8, <2>10, <2>11 DEF Together, MainFits
    <2>14. t = "loop" => Together(other, next)' /\ LoopFits(w, next)'
      <3>1. LoopFits(w, next)' BY <2>8 DEF LoopFits
      <3>2. ASSUME t = "loop", other # Idle, other.request = n PROVE RacedWrite(next)' /\ other.do # "attach"
        <4>1. Attaching(w, n) BY <1>1, <3>2 DEF Attaching, Step, Others
        <4>2. cb.page \in requests'[n].raced BY <1>1, <2>4, <4>1 DEF Racing
        <4> QED BY <1>3, <2>7, <3>2, <4>2 DEF RunsCallback
      <3> QED BY <2>3, <3>1, <3>2 DEF Together
    <2> QED BY <1>1, <2>9, <2>12, <2>13, <2>14, StepFits
  <1> QED BY <1>6, <1>7, <1>8, <1>9, <1>10 DEF CallbackStep

LEMMA ThreadsStill ==
    ASSUME WorkerTypes, UNCHANGED <<requests, main, loop>>
    PROVE  WorkerTypes'
  <1>1. \A v, x : MainFits(v, x) => MainFits(v, x)'
    <2> SUFFICES ASSUME NEW v, NEW x, MainFits(v, x) PROVE MainFits(v, x)' OBVIOUS
    <2> QED BY FitsStill
  <1>2. \A v, x : LoopFits(v, x) => LoopFits(v, x)'
    <2> SUFFICES ASSUME NEW v, NEW x, LoopFits(v, x) PROVE LoopFits(v, x)' OBVIOUS
    <2> QED BY FitsStill
  <1>3. \A x, y : Together(x, y) => Together(x, y)' BY DEF Together, RacedWrite
  <1>4. ASSUME NEW v \in Workers PROVE MainFits(v, main[v])' /\ LoopFits(v, loop[v])' /\ Together(main[v], loop[v])'
    <2>1. PICK x, y : x = main[v] /\ y = loop[v] OBVIOUS
    <2>2. x = main'[v] /\ y = loop'[v] BY <2>1
    <2>3. MainFits(v, x) /\ LoopFits(v, y) /\ Together(x, y) BY <2>1 DEF WorkerTypes
    <2>4. MainFits(v, x)' /\ LoopFits(v, y)' /\ Together(x, y)' BY <1>1, <1>2, <1>3, <2>3
    <2> QED BY <2>2, <2>4
  <1> QED BY <1>4 DEF WorkerTypes

(* A thread finds the answer of request n.                                 *)
LEMMA AnswerThread ==
    ASSUME WorkerTypes, NEW w \in Workers, NEW t \in {"main", "loop"}, NEW n \in 1..Len(requests), requests[n].worker = w,
           NEW cb, cb = Step(w, t), cb = Idle \/ cb.request = n, NEW other, other = Step(w, Others(t)),
           NEW o \in {"rows", "error"}, Answered(n), Becomes(w, t, Callback(n, o)),
           other # Idle /\ other.request = n => RacedWrite(other) \/ (t = "loop" /\ other.do = "errback")
    PROVE  WorkerTypes'
  <1>1. PICK next : next = Callback(n, o) OBVIOUS
  <1>2. /\ RequestGoesOn(w, n)
        /\ requests'[n].page = requests[n].page /\ requests'[n].raced = requests[n].raced /\ ~requests'[n].open
    BY AnswerGoesOn
  <1>3. requests[n].range \in Ranges /\ requests[n].page \in Nat \ {0} BY RequestAt
  <1>4. Len(requests) \in Nat BY RequestAt
  <1>5. /\ next \in Callbacks /\ next.request = n /\ next.range = requests[n].range /\ next.page = requests[n].page
        /\ next.do \in {"rows", "error"} /\ next # Idle
    <2>1. next.request = n /\ next.range = requests[n].range /\ next.page = requests[n].page /\ next.do = o
      BY <1>1 DEF Callback
    <2>2. next \in Callbacks BY <1>1, <1>3, <1>4 DEF Callbacks, Callback
    <2> QED BY <2>1, <2>2 DEF Idle
  <1>6. Len(requests') = Len(requests) /\ requests'[n].worker = w /\ requests'[n].range = requests[n].range
    BY <1>2 DEF RequestGoesOn
  <1>7. ~RacedWrite(next)' BY <1>5 DEF RacedWrite
  <1>8. CallbackFits(w, next)' BY <1>2, <1>3, <1>5, <1>6 DEF CallbackFits
  <1>9. StepTo(w, t, n, cb, next, other) BY <1>1, <1>2, <1>5 DEF StepTo
  <1>10. RacedWrite(other) /\ other.request = n => RacedWrite(other)' BY <1>2 DEF RacedWrite, More
  <1>11. t = "main" => MainFits(w, next)' /\ Together(next, other)'
    BY <1>5, <1>8, <1>10 DEF MainFits, Together
  <1>12. t = "loop" => LoopFits(w, next)' /\ Together(other, next)'
    <2>1. RacedWrite(other) => other.do # "attach" BY DEF RacedWrite
    <2>2. other.do = "errback" => ~RunsCallback(other) BY DEF RunsCallback
    <2> QED BY <1>5, <1>8, <1>10, <2>1, <2>2 DEF LoopFits, Together
  <1> QED BY <1>9, <1>11, <1>12, StepFits DEF Undisturbed

(* Where the main thread and the event loop are when request n is open.    *)
LEMMA OpenBeside ==
    ASSUME WorkerTypes, NEW n \in 1..Len(requests), requests[n].open, NEW w, w = requests[n].worker
    PROVE  /\ w \in Workers
           /\ Attaching(w, n) => main[w].do \in {"attach", "errback"} \/ RacedWrite(main[w])
           /\ Attaching(w, n) /\ loop[w] # Idle /\ loop[w].request = n => main[w].do # "attach" /\ RacedWrite(loop[w])
  <1>1. w \in Workers BY RequestAt
  <1>2. PICK x, y : x = main[w] /\ y = loop[w] OBVIOUS
  <1>3. MainFits(w, x) /\ LoopFits(w, y) /\ Together(x, y) BY <1>1, <1>2 DEF WorkerTypes
  <1>4. x # Idle /\ x.request = n => x.do \in {"attach", "errback"} \/ RacedWrite(x)
    BY <1>3 DEF MainFits, AttachFits, CallbackFits
  <1>5. y # Idle /\ y.request = n => RacedWrite(y) \/ (y.do = "write" /\ More(y))
    BY <1>3 DEF LoopFits, CallbackFits
  <1>6. x # Idle /\ y # Idle /\ x.request = n /\ y.request = n => x.do # "attach" /\ RacedWrite(y)
    BY <1>3, <1>5 DEF Together
  <1> QED BY <1>1, <1>2, <1>4, <1>6 DEF Attaching

(* Thread t of worker w is to run a callback of request n, whose answer is *)
(* there.                                                                  *)
Finds(w, t, n, o) ==
    /\ n \in 1..Len(requests) /\ requests[n].worker = w /\ requests[n].open
    /\ t \in {"main", "loop"} /\ o \in {"rows", "error"}
    /\ LET cb == Step(w, t) IN cb = Idle \/ (cb.do \in {"attach", "errback"} /\ cb.request = n)
    /\ LET other == Step(w, Others(t))
       IN other # Idle /\ other.request = n => RacedWrite(other) \/ (t = "loop" /\ other.do = "errback")
    /\ Answered(n) /\ Becomes(w, t, Callback(n, o))

LEMMA AnswerFinds ==
    ASSUME WorkerTypes, NEW n \in 1..Len(requests), NEW o \in {"rows", "error"}, Answer(n, o)
    PROVE  /\ requests[n].worker \in Workers /\ Finds(requests[n].worker, "loop", n, o)
           /\ UNCHANGED <<parentVars, work, results, alive>>
  <1>1. PICK w : w = requests[n].worker OBVIOUS
  <1>2. /\ requests[n].open /\ Attached(n, o) /\ loop[w] = Idle /\ Answered(n)
        /\ Becomes(w, "loop", Callback(n, o)) /\ UNCHANGED <<parentVars, work, results, alive>>
    BY <1>1 DEF Answer, Becomes, WorkerStep
  <1>3. PICK cb, other : cb = Step(w, "loop") /\ other = Step(w, Others("loop")) OBVIOUS
  <1>4. cb = Idle /\ other = main[w] BY <1>2, <1>3 DEF Step, Others
  <1>5. w \in Workers /\ (Attaching(w, n) => main[w].do \in {"attach", "errback"} \/ RacedWrite(main[w]))
    BY <1>1, <1>2, OpenBeside
  <1>6. Attaching(w, n) => main[w].do # "attach" BY <1>1, <1>2 DEF Attached
  <1>7. other # Idle /\ other.request = n => RacedWrite(other) \/ other.do = "errback"
    BY <1>4, <1>5, <1>6 DEF Attaching
  <1> QED BY <1>1, <1>2, <1>3, <1>4, <1>5, <1>7 DEF Finds

LEMMA FoundFinds ==
    ASSUME WorkerTypes, NEW w \in Workers, AttachAnswered(w) \/ ErrbackAnswered(w)
    PROVE  /\ \E n, o : Finds(w, "main", n, o)
           /\ UNCHANGED <<parentVars, work, results, alive>>
  <1>1. PICK cb, other, n : cb = Step(w, "main") /\ other = Step(w, Others("main")) /\ n = main[w].request OBVIOUS
  <1>2. cb = main[w] /\ other = loop[w] BY <1>1 DEF Step, Others
  <1>3. main[w].do \in {"attach", "errback"} /\ (main[w].do = "errback" => requests[n].open)
    BY <1>1 DEF AttachAnswered, ErrbackAnswered
  <1>4. main[w] # Idle BY <1>3 DEF Idle
  <1>5. MainFits(w, main[w]) BY DEF WorkerTypes
  <1>6. AttachFits(w, main[w]) BY <1>3, <1>4, <1>5 DEF MainFits, CallbackFits, Callbacks
  <1>7. n \in 1..Len(requests) /\ requests[n].worker = w /\ requests[n].open
    BY <1>1, <1>3, <1>6 DEF AttachFits
  <1>8. other # Idle /\ other.request = n => main[w].do = "errback" /\ RacedWrite(other)
    BY <1>1, <1>2, <1>3, <1>4, <1>7, OpenBeside DEF Attaching
  <1>9. PICK o \in {"rows", "error"} : Answered(n) /\ Becomes(w, "main", Callback(n, o))
    <2>1. CASE AttachAnswered(w)
      <3>1. Answered(n) /\ Becomes(w, "main", Callback(n, "rows")) BY <1>1, <2>1 DEF AttachAnswered, Becomes
      <3> QED BY <3>1
    <2>2. CASE ErrbackAnswered(w)
      <3>1. Answered(n) /\ Becomes(w, "main", Callback(n, "error")) BY <1>1, <2>2 DEF ErrbackAnswered, Becomes
      <3> QED BY <3>1
    <2> QED BY <2>1, <2>2
  <1>10. Finds(w, "main", n, o) BY <1>1, <1>2, <1>3, <1>7, <1>8, <1>9 DEF Finds
  <1>11. UNCHANGED <<parentVars, work, results, alive>> BY DEF AttachAnswered, ErrbackAnswered, WorkerStep
  <1> QED BY <1>10, <1>11

LEMMA FindsThreads ==
    ASSUME WorkerTypes, NEW w \in Workers, NEW t, NEW n, NEW o, Finds(w, t, n, o)
    PROVE  WorkerTypes'
  <1>1. PICK cb, other : cb = Step(w, t) /\ other = Step(w, Others(t)) OBVIOUS
  <1>2. /\ t \in {"main", "loop"} /\ n \in 1..Len(requests) /\ requests[n].worker = w /\ o \in {"rows", "error"}
        /\ cb = Idle \/ cb.request = n
        /\ other # Idle /\ other.request = n => RacedWrite(other) \/ (t = "loop" /\ other.do = "errback")
        /\ Answered(n) /\ Becomes(w, t, Callback(n, o))
    BY <1>1 DEF Finds
  <1> QED BY <1>1, <1>2, AnswerThread

(* add_callback, and add_errback, that finds no answer.                    *)
LEMMA AttachThreads ==
    ASSUME WorkerTypes, NEW w \in Workers, Attach(w) \/ AttachErrback(w)
    PROVE  WorkerTypes'
  <1>1. PICK cb, other, n : cb = Step(w, "main") /\ other = Step(w, Others("main")) /\ n = main[w].request OBVIOUS
  <1>2. cb = main[w] /\ other = loop[w] BY <1>1 DEF Step, Others
  <1>3. main[w].do \in {"attach", "errback"} BY DEF Attach, AttachErrback
  <1>4. main[w] # Idle BY <1>3 DEF Idle
  <1>5. MainFits(w, main[w]) /\ Together(main[w], loop[w]) BY DEF WorkerTypes
  <1>6. AttachFits(w, main[w]) BY <1>3, <1>4, <1>5 DEF MainFits, CallbackFits, Callbacks
  <1>7. n \in 1..Len(requests) /\ requests[n].worker = w BY <1>1, <1>6 DEF AttachFits
  <1>8. PICK next \in {Idle, AtErrback(n)} : Becomes(w, "main", next) /\ UNCHANGED requests /\ (next # Idle => main[w].do = "attach")
    <2>1. CASE Attach(w)
      <3>1. Becomes(w, "main", AtErrback(n)) /\ UNCHANGED requests /\ main[w].do = "attach"
        BY <1>1, <2>1 DEF Attach, Becomes
      <3> QED BY <3>1
    <2>2. CASE AttachErrback(w)
      <3>1. Becomes(w, "main", Idle) /\ UNCHANGED requests BY <2>2 DEF AttachErrback, Becomes
      <3> QED BY <3>1
    <2> QED BY <2>1, <2>2
  <1>9. next # Idle => next.do = "errback" /\ next.request = n BY <1>8 DEF AtErrback
  <1>10. StepTo(w, "main", n, cb, next, other) BY <1>1, <1>2, <1>7, <1>8, <1>9, StillGoesOn DEF StepTo
  <1>11. MainFits(w, next)' BY <1>7, <1>8, <1>9 DEF MainFits, AttachFits
  <1>12. Together(next, other)'
    <2>1. next # Idle /\ other # Idle => other.request # n
      BY <1>1, <1>2, <1>4, <1>5, <1>8 DEF Together
    <2> QED BY <1>9, <2>1 DEF Together
  <1> QED BY <1>8, <1>10, <1>11, <1>12, StepFits DEF Undisturbed

LEMMA StartThreads ==
    ASSUME ExportAssumption, WorkerTypes, NEW w \in Workers, NEW r \in Ranges, NEW h \in Hosts, StartRequest(w, r, h)
    PROVE  WorkerTypes'
  <1>1. PICK n, q : n = Len(requests) + 1
                    /\ q = [worker |-> w, range |-> r, host |-> h, page |-> 1, open |-> TRUE, raced |-> {}]
    OBVIOUS
  <1>2. PICK next : next = [do |-> "attach", request |-> n] OBVIOUS
  <1>3. main[w] = Idle /\ requests' = Append(requests, q) /\ main' = [main EXCEPT ![w] = next] /\ UNCHANGED loop
    BY <1>1, <1>2 DEF StartRequest, Take
  <1>4. q \in Requests BY <1>1 DEF Requests
  <1>5. requests \in Seq(Requests) /\ Len(requests) \in Nat BY RequestAt DEF WorkerTypes
  <1>6. /\ requests' \in Seq(Requests) /\ Len(requests') = n /\ requests'[n] = q
        /\ \A m \in 1..Len(requests) : requests'[m] = requests[m]
    BY <1>1, <1>3, <1>4, <1>5
  <1>7. n \in Nat /\ 1..Len(requests) \subseteq 1..Len(requests') BY <1>1, <1>5, <1>6
  <1>8. /\ DOMAIN main' = Workers /\ DOMAIN loop' = Workers
        /\ main'[w] = next /\ \A v \in Workers : v # w => main'[v] = main[v]
    BY <1>3 DEF WorkerTypes
  <1>9. \A m \in 1..Len(requests') : requests'[m].page <= Pages[requests'[m].range]
    <2>1. q.page <= Pages[q.range] BY <1>1 DEF ExportAssumption
    <2>2. \A m \in 1..Len(requests') : m = n \/ m \in 1..Len(requests) BY <1>1, <1>5, <1>6
    <2> QED BY <1>6, <2>1, <2>2 DEF WorkerTypes
  <1>10. \A v, x : MainFits(v, x) => MainFits(v, x)'
    <2> SUFFICES ASSUME NEW v, NEW x, MainFits(v, x) PROVE MainFits(v, x)' OBVIOUS
    <2> QED BY <1>6, <1>7, FitsStill
  <1>11. \A v, x : LoopFits(v, x) => LoopFits(v, x)'
    <2> SUFFICES ASSUME NEW v, NEW x, LoopFits(v, x) PROVE LoopFits(v, x)' OBVIOUS
    <2> QED BY <1>6, <1>7, FitsStill
  <1>12. ASSUME NEW v \in Workers, v # w
         PROVE  MainFits(v, main[v])' /\ LoopFits(v, loop[v])' /\ Together(main[v], loop[v])'
    <2>1. PICK x, y : x = main[v] /\ y = loop[v] OBVIOUS
    <2>2. x = main'[v] /\ y = loop'[v] BY <1>3, <1>8, <1>12, <2>1
    <2>3. MainFits(v, x) /\ LoopFits(v, y) /\ Together(x, y) BY <2>1 DEF WorkerTypes
    <2>4. MainFits(v, x)' /\ LoopFits(v, y)' BY <1>10, <1>11, <2>3
    <2>5. Together(x, y)'
      <3> SUFFICES ASSUME x # Idle, y # Idle, x.request = y.request PROVE Together(x, y)' BY DEF Together
      <3>1. x.request \in 1..Len(requests) BY <2>3, RequestOf
      <3>2. (RacedWrite(x)' <=> RacedWrite(x)) /\ (RacedWrite(y)' <=> RacedWrite(y))
        BY <1>6, <1>7, <3>1, FitsStill
      <3> QED BY <2>3, <3>2 DEF Together
    <2> QED BY <2>2, <2>4, <2>5
  <1>13. MainFits(w, next)' /\ LoopFits(w, loop[w])' /\ Together(next, loop[w])'
    <2>1. PICK y : y = loop[w] /\ y = loop'[w] BY <1>3
    <2>2. LoopFits(w, y) BY <2>1 DEF WorkerTypes
    <2>3. LoopFits(w, y)' BY <1>11, <2>2
    <2>4. MainFits(w, next)'
      <3>1. n \in 1..Len(requests') BY <1>1, <1>5, <1>6, <1>7
      <3>2. requests'[n].worker = w /\ requests'[n].open /\ requests'[n].page = 1 BY <1>1, <1>6
      <3> QED BY <1>2, <3>1, <3>2 DEF MainFits, AttachFits
    <2>5. y # Idle => y.request # n
      <3>1. y # Idle => y.request \in 1..Len(requests) BY <2>2, RequestOf
      <3> QED BY <1>1, <1>5, <3>1
    <2>6. Together(next, y)' BY <1>2, <2>5 DEF Together
    <2> QED BY <2>1, <2>3, <2>4, <2>6
  <1> QED BY <1>6, <1>8, <1>9, <1>12, <1>13 DEF WorkerTypes

(* No step takes a request away, or a page asked for.                      *)
Grown ==
    /\ 1..Len(requests) \subseteq 1..Len(requests')
    /\ \A n \in 1..Len(requests) :
          /\ requests'[n].worker = requests[n].worker /\ requests'[n].range = requests[n].range
          /\ requests[n].page <= requests'[n].page /\ requests[n].raced \subseteq requests'[n].raced

LEMMA GoesOnGrown ==
    ASSUME WorkerTypes, NEW n \in 1..Len(requests), RequestGoesOn(requests[n].worker, n)
    PROVE  Grown
  <1>1. \A m \in 1..Len(requests) : requests[m].page \in Nat BY RequestAt
  <1>2. \A m \in 1..Len(requests) : requests[m].page <= requests[m].page BY <1>1
  <1> QED BY <1>2 DEF RequestGoesOn, Grown

LEMMA StillGrown ==
    ASSUME WorkerTypes, UNCHANGED requests
    PROVE  Grown
  <1>1. \A m \in 1..Len(requests) : requests[m].page \in Nat BY RequestAt
  <1>2. \A m \in 1..Len(requests) : requests[m].page <= requests[m].page BY <1>1
  <1> QED BY <1>2 DEF Grown

LEMMA CallbackGrown ==
    ASSUME ExportAssumption, WorkerTypes, NEW w \in Workers, NEW t \in {"main", "loop"}, NEW cb, cb = Step(w, t),
           CallbackStep(w, t, cb)
    PROVE  Grown
  <1>1. CASE FetchNext(w, t, cb)
    <2>1. PICK n : n = cb.request OBVIOUS
    <2>2. cb.do = "rows" /\ More(cb) /\ Fetches(w, cb) BY <1>1 DEF FetchNext, Fetches, Fetched, Racing
    <2>3. RequestGoesOn(w, n) BY <2>1, <2>2, FetchOf
    <2>4. n \in 1..Len(requests) /\ requests[n].worker = w BY <2>3 DEF RequestGoesOn
    <2> QED BY <2>3, <2>4, GoesOnGrown
  <1>2. CASE UNCHANGED requests BY <1>2, StillGrown
  <1> QED BY <1>1, <1>2 DEF CallbackStep, ErrCallback, Complete, WriteRows, EndRange

LEMMA FindsGrown ==
    ASSUME WorkerTypes, NEW w \in Workers, NEW t, NEW n, NEW o, Finds(w, t, n, o)
    PROVE  Grown
  <1>1. n \in 1..Len(requests) /\ Answered(n) BY DEF Finds
  <1> QED BY <1>1, AnswerGoesOn, GoesOnGrown

LEMMA StartGrown ==
    ASSUME WorkerTypes, NEW q \in Requests, requests' = Append(requests, q)
    PROVE  Grown
  <1>1. requests \in Seq(Requests) /\ Len(requests) \in Nat BY RequestAt DEF WorkerTypes
  <1>2. /\ Len(requests') = Len(requests) + 1 /\ \A m \in 1..Len(requests) : requests'[m] = requests[m]
    BY <1>1
  <1>3. \A m \in 1..Len(requests) : requests[m].page \in Nat BY RequestAt
  <1>4. \A m \in 1..Len(requests) : requests[m].page <= requests[m].page BY <1>3
  <1> QED BY <1>1, <1>2, <1>4 DEF Grown

LEMMA WorkerNext ==
    ASSUME ExportAssumption, WorkerTypes, [Next]_vars
    PROVE  WorkerTypes' /\ Grown
  <1>1. CASE UNCHANGED <<requests, main, loop>> BY <1>1, ThreadsStill, StillGrown
  <1>2. ASSUME NEW w \in Workers, OnMain(w) PROVE WorkerTypes' /\ Grown
    <2>1. PICK t, cb : t = "main" /\ cb = main[w] OBVIOUS
    <2>2. CallbackStep(w, t, cb) BY <1>2, <2>1 DEF OnMain
    <2>3. t \in {"main", "loop"} /\ cb = Step(w, t) BY <2>1 DEF Step
    <2> QED BY <2>2, <2>3, CallbackThreads, CallbackGrown
  <1>3. ASSUME NEW w \in Workers, OnLoop(w) PROVE WorkerTypes' /\ Grown
    <2>1. PICK t, cb : t = "loop" /\ cb = loop[w] OBVIOUS
    <2>2. CallbackStep(w, t, cb) BY <1>3, <2>1 DEF OnLoop
    <2>3. t \in {"main", "loop"} /\ cb = Step(w, t) BY <2>1 DEF Step
    <2> QED BY <2>2, <2>3, CallbackThreads, CallbackGrown
  <1>4. ASSUME NEW w \in Workers, NEW r \in Ranges, NEW h \in Hosts, StartRequest(w, r, h) PROVE WorkerTypes' /\ Grown
    <2>1. PICK q \in Requests : requests' = Append(requests, q)
      <3>1. [worker |-> w, range |-> r, host |-> h, page |-> 1, open |-> TRUE, raced |-> {}] \in Requests
        BY DEF Requests
      <3> QED BY <1>4, <3>1 DEF StartRequest
    <2> QED BY <1>4, <2>1, StartThreads, StartGrown
  <1>5. ASSUME NEW w \in Workers, AttachAnswered(w) \/ ErrbackAnswered(w) PROVE WorkerTypes' /\ Grown
    <2>1. PICK n : \E o : Finds(w, "main", n, o) BY <1>5, FoundFinds
    <2> QED BY <2>1, FindsThreads, FindsGrown
  <1>6. ASSUME NEW w \in Workers, Attach(w) \/ AttachErrback(w) PROVE WorkerTypes' /\ Grown
    <2>1. UNCHANGED requests BY <1>6 DEF Attach, AttachErrback
    <2> QED BY <1>6, <2>1, AttachThreads, StillGrown
  <1>7. ASSUME NEW n \in DOMAIN requests, NEW o \in {"rows", "error"}, Answer(n, o) PROVE WorkerTypes' /\ Grown
    <2>1. n \in 1..Len(requests) BY DEF WorkerTypes
    <2>2. PICK w \in Workers : w = requests[n].worker /\ Finds(w, "loop", n, o) BY <1>7, <2>1, AnswerFinds
    <2> QED BY <2>2, FindsThreads, FindsGrown
  <1>8. ASSUME NEW w \in Workers, TakePill(w) \/ Die(w) \/ \E r \in Ranges : NoSession(w, r)
        PROVE  UNCHANGED <<requests, main, loop>>
    BY <1>8 DEF TakePill, Die, NoSession
  <1>9. ParentStep \/ ChildTimeout \/ UNCHANGED vars => UNCHANGED <<requests, main, loop>>
    BY DEF ParentStep, ChildTimeout, Select, Receive, Done, ChildDied, Close, Leave, vars, workerVars
  <1>10. CASE ParentStep \/ ChildTimeout \/ UNCHANGED vars BY <1>1, <1>9, <1>10
  <1>11. CASE \E w \in Workers : MainStep(w)
    BY <1>1, <1>2, <1>4, <1>5, <1>6, <1>8, <1>11 DEF MainStep
  <1>12. CASE \E w \in Workers : LoopStep(w) BY <1>3, <1>7, <1>12 DEF LoopStep
  <1>13. CASE \E w \in Workers : Die(w) \/ (\E r \in Ranges : NoSession(w, r)) \/ ErrbackAnswered(w)
    BY <1>1, <1>5, <1>8, <1>13
  <1> QED BY <1>10, <1>11, <1>12, <1>13 DEF Next

LEMMA WorkerInit ==
    ASSUME ExportAssumption, Init
    PROVE  WorkerTypes
  <1>1. requests = <<>> /\ main = [w \in Workers |-> Idle] /\ loop = [w \in Workers |-> Idle] BY DEF Init
  <1>2. requests \in Seq(Requests) /\ 1..Len(requests) = {} BY <1>1
  <1>3. \A w \in Workers : MainFits(w, main[w]) /\ LoopFits(w, loop[w]) /\ Together(main[w], loop[w])
    BY <1>1 DEF MainFits, LoopFits, Together
  <1> QED BY <1>1, <1>2, <1>3 DEF WorkerTypes

LEMMA MarredStays ==
    ASSUME WorkerTypes, Grown, WorkerTypes', Marred
    PROVE  Marred'
  <1>1. DOMAIN requests = 1..Len(requests) /\ DOMAIN requests' = 1..Len(requests') BY DEF WorkerTypes
  <1>2. PICK n \in 1..Len(requests) : \E k \in 1..requests[n].page : <<requests[n].range, k>> \in BadPages
    BY <1>1 DEF Marred
  <1>3. requests'[n].range = requests[n].range /\ requests[n].page <= requests'[n].page /\ n \in 1..Len(requests')
    BY <1>2 DEF Grown
  <1>4. requests[n].page \in Nat /\ requests'[n].page \in Nat
    <2>1. \A m \in 1..Len(requests) : requests[m].page \in Nat BY RequestAt
    <2>2. requests' \in Seq(Requests) BY DEF WorkerTypes
    <2>3. requests'[n] \in Requests BY <1>3, <2>2
    <2> QED BY <2>1, <2>3 DEF Requests
  <1>5. 1..requests[n].page \subseteq 1..requests'[n].page BY <1>3, <1>4
  <1> QED BY <1>1, <1>2, <1>3, <1>5 DEF Marred

LEMMA QueuedMore ==
    ASSUME work \in [Workers -> Seq(Ranges \cup {Pill})], NEW w \in Workers, NEW r \in Ranges,
           work' = [work EXCEPT ![w] = Append(@, r)]
    PROVE  /\ work' \in [Workers -> Seq(Ranges \cup {Pill})] /\ Len(work[w]) \in Nat
           /\ \A v, p, s : QueuedAt(v, p, s)' <=> QueuedAt(v, p, s) \/ (v = w /\ p = Len(work[w]) + 1 /\ s = r)
  <1>1. work[w] \in Seq(Ranges \cup {Pill}) OBVIOUS
  <1>2. /\ Append(work[w], r) \in Seq(Ranges \cup {Pill}) /\ Len(Append(work[w], r)) = Len(work[w]) + 1
        /\ Len(work[w]) \in Nat /\ Append(work[w], r)[Len(work[w]) + 1] = r
        /\ \A p \in 1..Len(work[w]) : Append(work[w], r)[p] = work[w][p]
    <2>1. r \in Ranges \cup {Pill} OBVIOUS
    <2> QED BY <1>1, <2>1, AppendAt
  <1>3. /\ work' \in [Workers -> Seq(Ranges \cup {Pill})] /\ work'[w] = Append(work[w], r)
        /\ \A v \in Workers : v # w => work'[v] = work[v]
    BY <1>2
  <1>4. \A p : p \in 1..Len(work'[w]) <=> p \in 1..Len(work[w]) \/ p = Len(work[w]) + 1
    BY <1>2, <1>3
  <1> QED BY <1>2, <1>3, <1>4 DEF QueuedAt

LEMMA QueuedLess ==
    ASSUME work \in [Workers -> Seq(Ranges \cup {Pill})], NEW w \in Workers, work[w] # <<>>,
           work' = [work EXCEPT ![w] = Tail(@)]
    PROVE  /\ work' \in [Workers -> Seq(Ranges \cup {Pill})] /\ Head(work[w]) = work[w][1]
           /\ Len(work[w]) \in Nat \ {0}
           /\ \A v, s : \A p \in Nat : QueuedAt(v, p, s)' <=> p # 0 /\ QueuedAt(v, Later(w, v, p), s)
  <1>1. work[w] \in Seq(Ranges \cup {Pill}) OBVIOUS
  <1>2. /\ Tail(work[w]) \in Seq(Ranges \cup {Pill}) /\ Len(Tail(work[w])) = Len(work[w]) - 1
        /\ Len(work[w]) \in Nat \ {0} /\ Head(work[w]) = work[w][1]
        /\ \A p \in 1..(Len(work[w]) - 1) : Tail(work[w])[p] = work[w][p + 1]
    BY <1>1, TailAt
  <1>3. /\ work' \in [Workers -> Seq(Ranges \cup {Pill})] /\ work'[w] = Tail(work[w])
        /\ \A v \in Workers : v # w => work'[v] = work[v]
    BY <1>2
  <1>4. \A p \in Nat : p \in 1..Len(work'[w]) <=> p # 0 /\ p + 1 \in 1..Len(work[w])
    BY <1>2, <1>3
  <1>5. \A p \in Nat : p \in 1..Len(work'[w]) => work'[w][p] = work[w][p + 1]
    BY <1>2, <1>3
  <1>6. \A v \in Workers : \A p \in Nat : p \in 1..Len(work[v]) => p # 0 OBVIOUS
  <1> QED BY <1>2, <1>3, <1>4, <1>5, <1>6 DEF QueuedAt, Later

LEMMA QueuedPills ==
    ASSUME ExportAssumption, work \in [Workers -> Seq(Ranges \cup {Pill})],
           work' = [w \in Workers |-> IF w \in alive THEN Append(work[w], Pill) ELSE work[w]]
    PROVE  /\ work' \in [Workers -> Seq(Ranges \cup {Pill})]
           /\ \A v, p, s : QueuedAt(v, p, s)' <=> QueuedAt(v, p, s)
  <1>1. Pill \notin Ranges BY DEF ExportAssumption
  <1>2. \A w \in Workers :
          /\ Append(work[w], Pill) \in Seq(Ranges \cup {Pill}) /\ Len(Append(work[w], Pill)) = Len(work[w]) + 1
          /\ Len(work[w]) \in Nat /\ Append(work[w], Pill)[Len(work[w]) + 1] = Pill
          /\ \A p \in 1..Len(work[w]) : Append(work[w], Pill)[p] = work[w][p]
    <2>1. Pill \in Ranges \cup {Pill} /\ \A w \in Workers : work[w] \in Seq(Ranges \cup {Pill}) OBVIOUS
    <2> QED BY <2>1, AppendAt
  <1>3. work' \in [Workers -> Seq(Ranges \cup {Pill})] BY <1>2
  <1>4. \A w \in Workers : work'[w] = work[w] \/ work'[w] = Append(work[w], Pill) OBVIOUS
  <1>5. ASSUME NEW w \in Workers, NEW p, NEW s \in Ranges
        PROVE  (p \in 1..Len(work'[w]) /\ work'[w][p] = s) <=> (p \in 1..Len(work[w]) /\ work[w][p] = s)
    <2>1. CASE work'[w] = work[w] BY <2>1
    <2>2. CASE work'[w] = Append(work[w], Pill)
      <3>1. p \in 1..Len(work'[w]) <=> p \in 1..Len(work[w]) \/ p = Len(work[w]) + 1 BY <1>2, <2>2
      <3>2. p \in 1..Len(work[w]) => work'[w][p] = work[w][p] BY <1>2, <2>2
      <3>3. p = Len(work[w]) + 1 => work'[w][p] # s BY <1>1, <1>2, <2>2
      <3> QED BY <3>1, <3>2, <3>3
    <2> QED BY <1>4, <2>1, <2>2
  <1>6. \A v, p, s : QueuedAt(v, p, s)' <=> QueuedAt(v, p, s) BY <1>5 DEF QueuedAt
  <1> QED BY <1>3, <1>6

(* What is in hand is a callback.                                          *)
LEMMA HandType ==
    ASSUME WorkerTypes, NEW n \in 1..Len(requests), InHand(n)
    PROVE  Hand(n) \in Callbacks /\ Holds(Hand(n), n)
  <1>1. PICK w \in Workers : w = requests[n].worker BY RequestAt
  <1>2. MainFits(w, main[w]) /\ LoopFits(w, loop[w]) BY DEF WorkerTypes
  <1>3. PICK cb : cb = Hand(n) OBVIOUS
  <1>4. Holds(cb, n) /\ (cb = loop[w] \/ cb = main[w]) BY <1>1, <1>3 DEF InHand, Hand
  <1>5. RunsCallback(cb) BY <1>4 DEF Holds
  <1>6. cb # Idle /\ ~AttachFits(w, cb) BY <1>5 DEF RunsCallback, Idle, AttachFits
  <1>7. cb \in Callbacks BY <1>2, <1>4, <1>6 DEF MainFits, LoopFits, CallbackFits
  <1> QED BY <1>3, <1>4, <1>7

LEMMA DueType ==
    ASSUME WorkerTypes, NEW n \in 1..Len(requests)
    PROVE  Due(n) \in Nat \ {0}
  <1>1. CASE ~InHand(n) BY <1>1, RequestAt DEF Due
  <1>2. CASE InHand(n)
    <2>1. PICK cb : cb = Hand(n) OBVIOUS
    <2>2. cb.page \in Nat \ {0} BY <1>2, <2>1, HandType DEF Callbacks
    <2>3. Due(n) = cb.page + (IF cb.do = "end" THEN 1 ELSE 0) BY <1>2, <2>1 DEF Due
    <2> QED BY <2>2, <2>3
  <1> QED BY <1>1, <1>2

LEMMA NextWorkerType ==
    ASSUME ExportAssumption, NEW w \in Workers
    PROVE  NextWorker(w) \in Workers
  <1>1. PICK n : n = Cardinality(Workers) OBVIOUS
  <1>2. n \in Nat /\ Workers = 1..n BY <1>1, FS_CardinalityType DEF ExportAssumption
  <1>3. NextWorker(w) = IF w < n THEN w + 1 ELSE 1 BY <1>1 DEF NextWorker
  <1>4. \A x \in 1..n : (IF x < n THEN x + 1 ELSE 1) \in 1..n BY <1>2
  <1> QED BY <1>2, <1>3, <1>4

-----------------------------------------------------------------------------
(* The parent takes a message.                                             *)
LEMMA TakenKeeps ==
    ASSUME WorkerTypes, NEW lab, NEW Got, LabInv(lab, Got), NEW w \in Workers, results[w] # <<>>,
           results' = [results EXCEPT ![w] = Tail(@)], UNCHANGED <<requests, main, loop, alive>>,
           \A r \in Ranges : \A k \in Kept(r) :
              file[<<r, k>>] = 1 \/ RowAt(w, 1, r, k) => file'[<<r, k>>] = 1
    PROVE  /\ WordOnce(Untagged(lab, w))' /\ LiveOnce' /\ RowOnce' /\ WordsLast(Untagged(lab, w))'
           /\ LiveBehind' /\ EndsWhole(Untagged(lab, w))'
  <1>0. \A s : Kept(s)' = Kept(s) BY SameKept
  <1> USE <1>0
  <1>1. LabelTypes(lab) BY DEF LabInv, Labels
  <1>2. /\ Len(results[w]) \in Nat \ {0} /\ Len(results'[w]) = Len(results[w]) - 1
        /\ \A v \in Workers : v # w => results'[v] = results[v]
        /\ \A v, s, k : \A p \in Nat : RowAt(v, p, s, k)' <=> p # 0 /\ RowAt(v, Later(w, v, p), s, k)
        /\ \A v, s : \A p \in Nat : WordAt(Untagged(lab, w), v, p, s)' <=> p # 0 /\ WordAt(lab, v, Later(w, v, p), s)
        /\ \A v, s : \A p \in Nat : EndAt(Untagged(lab, w), v, p, s)' <=> p # 0 /\ EndAt(lab, v, Later(w, v, p), s)
    BY <1>1, Taken
  <1>3. /\ \A n, r : LiveAt(n, r)' <=> LiveAt(n, r)
        /\ \A n : Due(n)' = Due(n)
    BY SameRequests
  <1>4. \A v : \A p, q \in Nat : /\ Later(w, v, p) \in Nat /\ (Later(w, v, p) = Later(w, v, q) => p = q)
                              /\ (Later(w, v, q) < Later(w, v, p) <=> q < p)
    BY DEF Later
  <1>5. WordOnce(Untagged(lab, w))' BY <1>2, <1>4 DEF LabInv, WordOnce
  <1>6. LiveOnce' BY <1>3 DEF LabInv, LiveOnce
  <1>7. RowOnce' BY <1>2, <1>4 DEF LabInv, RowOnce
  <1>8. WordsLast(Untagged(lab, w))' BY <1>2, <1>4 DEF LabInv, WordsLast
  <1>9. ASSUME NEW r \in Ranges, NEW k \in Kept(r), NEW v \in Workers, NEW p \in Nat,
               Delivered(r, k, v, Later(w, v, p))
        PROVE  Delivered(r, k, v, p)'
    <2>1. CASE file[<<r, k>>] = 1 \/ <<r, k>> \in EmptyPages BY <2>1 DEF Delivered
    <2>2. CASE \E q \in Nat : q < Later(w, v, p) /\ RowAt(v, q, r, k)
      <3>1. PICK q \in Nat : q < Later(w, v, p) /\ RowAt(v, q, r, k) BY <2>2
      <3>2. CASE v # w
        <4>1. q # 0 BY <3>1 DEF RowAt
        <4>2. RowAt(v, q, r, k)' BY <1>2, <3>1, <3>2, <4>1 DEF Later
        <4> QED BY <3>1, <3>2, <4>2 DEF Delivered, Later
      <3>3. CASE v = w /\ q = 1 BY <3>1, <3>3 DEF Delivered
      <3>4. CASE v = w /\ q # 1
        <4>1. q # 0 BY <3>1 DEF RowAt
        <4>2. q - 1 \in Nat /\ q - 1 # 0 /\ (q - 1) + 1 = q /\ q < p + 1 BY <3>1, <3>4, <4>1 DEF Later
        <4>3. RowAt(v, q - 1, r, k)' BY <1>2, <3>1, <3>4, <4>2 DEF Later
        <4>4. q - 1 < p BY <4>2
        <4> QED BY <4>2, <4>3, <4>4 DEF Delivered
      <3> QED BY <3>2, <3>3, <3>4
    <2> QED BY <1>9, <2>1, <2>2 DEF Delivered
  <1>10. LiveBehind'
    <2> SUFFICES ASSUME NEW r \in Ranges, NEW n \in Nat, LiveAt(n, r)', requests[n].worker \in alive,
                        NEW k \in Kept(r), k < Due(n)
                 PROVE  Delivered(r, k, requests[n].worker, Len(results[requests[n].worker]) + 1)'
      BY <1>3 DEF LiveBehind
    <2>1. PICK v : v = requests[n].worker OBVIOUS
    <2>2. Delivered(r, k, v, Len(results[v]) + 1) BY <1>3, <2>1 DEF LabInv, LiveBehind
    <2>3. v \in Workers /\ Len(results[v]) \in Nat
      <3>1. n \in 1..Len(requests) BY <1>3 DEF LiveAt
      <3>2. v \in Workers BY <2>1, <3>1, RequestAt
      <3> QED BY <1>1, <3>2 DEF LabelTypes
    <2>4. Len(results[v]) + 1 = Later(w, v, Len(results'[v]) + 1) /\ Len(results'[v]) + 1 \in Nat
      BY <1>2, <2>3 DEF Later
    <2>5. PICK m \in Nat : m = Len(results'[v]) + 1 BY <2>4
    <2>6. Delivered(r, k, v, m)' BY <1>9, <2>2, <2>3, <2>4, <2>5
    <2> QED BY <2>1, <2>5, <2>6 DEF Delivered
  <1>11. EndsWhole(Untagged(lab, w))'
    BY <1>2, <1>4, <1>9 DEF LabInv, EndsWhole
  <1> QED BY <1>5, <1>6, <1>7, <1>8, <1>10, <1>11

(* A callback of the parent's loop: the end of a range.                    *)
LEMMA EndTaken ==
    ASSUME ExportAssumption, ParentTypes, WorkerTypes, NEW lab, NEW Got, LabInv(lab, Got), NEW w \in Workers,
           results[w] # <<>>, results[w][1] = EndMsg, results' = [results EXCEPT ![w] = Tail(@)], Finished,
           UNCHANGED <<requests, main, loop, alive>>
    PROVE  LabInv(Untagged(lab, w), Got \cup {lab[w][1]})'
  <1> DEFINE tags == Untagged(lab, w)
  <1>0. \A s : Kept(s)' = Kept(s) BY SameKept
  <1> USE <1>0
  <1>1. LabelTypes(lab) BY DEF LabInv, Labels
  <1>2. /\ LabelTypes(tags)' /\ lab[w][1] \in Ranges /\ Len(results[w]) \in Nat \ {0}
        /\ \A v, s, k : \A p \in Nat : RowAt(v, p, s, k)' <=> p # 0 /\ RowAt(v, Later(w, v, p), s, k)
        /\ \A v, s : \A p \in Nat : WordAt(tags, v, p, s)' <=> p # 0 /\ WordAt(lab, v, Later(w, v, p), s)
        /\ \A v, s : \A p \in Nat : EndAt(tags, v, p, s)' <=> p # 0 /\ EndAt(lab, v, Later(w, v, p), s)
    BY <1>1, Taken
  <1>3. PICK r \in Ranges : r = lab[w][1] BY <1>2
  <1>4. WordAt(lab, w, 1, r) /\ EndAt(lab, w, 1, r) BY <1>2, <1>3 DEF WordAt, EndAt, EndMsg
  <1>5. UNCHANGED <<info, file, work>> /\ succeeded' = succeeded + 1 BY DEF Finished
  <1>6. /\ \A n, s : LiveAt(n, s)' <=> LiveAt(n, s)
        /\ \A n : Due(n)' = Due(n)
        /\ \A v, p, s : QueuedAt(v, p, s)' <=> QueuedAt(v, p, s)
    BY <1>5, SameRequests, SameQueues
  <1>7. \A v : \A p \in Nat : Later(w, v, p) \in Nat /\ (v = w /\ p # 0 => Later(w, v, p) # 1)
    BY DEF Later
  <1>8. \A s \in Ranges : \A k \in Kept(s) : ~RowAt(w, 1, s, k) BY DEF RowAt, RowsMsg, EndMsg
  <1>9. r \notin Got BY <1>4 DEF LabInv, WordApart
  <1>10. Labels(tags, Got \cup {r})'
    <2>1. Got \subseteq Ranges /\ Cardinality(Got) = succeeded BY DEF LabInv, Labels
    <2>2. IsFiniteSet(Got) BY <2>1, FS_Subset DEF ExportAssumption
    <2>3. Cardinality(Got \cup {r}) = Cardinality(Got) + 1 BY <1>9, <2>2, FS_AddElement
    <2> QED BY <1>2, <1>5, <2>1, <2>3 DEF Labels
  <1>11. /\ WordOnce(tags)' /\ LiveOnce' /\ RowOnce' /\ WordsLast(tags)' /\ LiveBehind' /\ EndsWhole(tags)'
    <2>1. \A s \in Ranges : \A k \in Kept(s) : file[<<s, k>>] = 1 \/ RowAt(w, 1, s, k) => file'[<<s, k>>] = 1
      BY <1>5, <1>8
    <2> QED BY <2>1, TakenKeeps
  <1>12. QueuedOnce' BY <1>6 DEF LabInv, QueuedOnce
  <1>13. QueuedApart(tags, Got \cup {r})' BY <1>2, <1>4, <1>6, <1>7 DEF LabInv, QueuedApart
  <1>14. LiveApart(tags, Got \cup {r})' BY <1>2, <1>4, <1>6, <1>7 DEF LabInv, LiveApart
  <1>15. WordApart(tags, Got \cup {r})'
    BY <1>2, <1>4, <1>7 DEF LabInv, WordApart, WordOnce
  <1>16. RowNew' /\ FileOnce' BY <1>2, <1>5, <1>7 DEF LabInv, RowNew, FileOnce
  <1>17. QueuedClean' BY <1>2, <1>5, <1>6, <1>7 DEF LabInv, QueuedClean
  <1>18. LiveAhead' BY <1>2, <1>5, <1>6, <1>7 DEF LabInv, LiveAhead
  <1>19. GotWhole(Got \cup {r})'
    <2>1. \A k \in Kept(r) : Delivered(r, k, w, 1) BY <1>4 DEF LabInv, EndsWhole
    <2>2. \A k \in Kept(r), q \in Nat : RowAt(w, q, r, k) => ~(q < 1) BY DEF RowAt
    <2>3. \A k \in Kept(r) : file[<<r, k>>] = Written(r, k)
      BY <2>1, <2>2 DEF Delivered, Written, LabInv, FileOnce
    <2> QED BY <1>5, <2>3 DEF LabInv, GotWhole, Written
  <1> HIDE DEF tags
  <1>20. LabInv(tags, Got \cup {r})'
    BY <1>10, <1>11, <1>12, <1>13, <1>14, <1>15, <1>16, <1>17, <1>18, <1>19 DEF LabInv
  <1> QED BY <1>3, <1>20 DEF tags

(* An error of a range that is tried again.                                *)
LEMMA RetryTaken ==
    ASSUME ExportAssumption, ParentTypes, WorkerTypes, NEW lab, NEW Got, LabInv(lab, Got), NEW w \in Workers,
           NEW r \in Ranges, results[w] # <<>>, results[w][1] = Error(r),
           results' = [results EXCEPT ![w] = Tail(@)], Retryable(r), Retry(r),
           UNCHANGED <<requests, main, loop, alive>>
    PROVE  LabInv(Untagged(lab, w), Got)'
  <1> DEFINE tags == Untagged(lab, w)
  <1>0. \A s : Kept(s)' = Kept(s) BY SameKept
  <1> USE <1>0
  <1>1. LabelTypes(lab) BY DEF LabInv, Labels
  <1>2. /\ LabelTypes(tags)' /\ Len(results[w]) \in Nat \ {0}
        /\ \A v, s, k : \A p \in Nat : RowAt(v, p, s, k)' <=> p # 0 /\ RowAt(v, Later(w, v, p), s, k)
        /\ \A v, s : \A p \in Nat : WordAt(tags, v, p, s)' <=> p # 0 /\ WordAt(lab, v, Later(w, v, p), s)
        /\ \A v, s : \A p \in Nat : EndAt(tags, v, p, s)' <=> p # 0 /\ EndAt(lab, v, Later(w, v, p), s)
    BY <1>1, Taken
  <1>3. lab[w][1] = r
    <2>1. results[w][1].kind = "error" /\ results[w][1].range = r BY DEF Error
    <2>2. 1 \in 1..Len(results[w]) BY <1>2
    <2> QED BY <1>1, <2>1, <2>2 DEF LabelTypes
  <1>4. WordAt(lab, w, 1, r) BY <1>2, <1>3 DEF WordAt, Error
  <1>5. UNCHANGED <<succeeded, file>> /\ info[r].rows = 0 BY DEF Retry, Retryable
  <1>6. PICK u \in Workers : u = NextWorker(info[r].worker)
    <2>1. info[r].worker \in Workers BY DEF ParentTypes
    <2> QED BY <2>1, NextWorkerType
  <1>7. /\ work' = [work EXCEPT ![u] = Append(@, r)]
        /\ info' = [info EXCEPT ![r].attempts = @ + 1, ![r].worker = u]
    BY <1>6 DEF Retry
  <1>8. /\ Len(work[u]) \in Nat
        /\ \A v, p, s : QueuedAt(v, p, s)' <=> QueuedAt(v, p, s) \/ (v = u /\ p = Len(work[u]) + 1 /\ s = r)
    BY <1>7, QueuedMore DEF ParentTypes
  <1>9. /\ \A n, s : LiveAt(n, s)' <=> LiveAt(n, s)
        /\ \A n : Due(n)' = Due(n)
    BY SameRequests
  <1>10. \A v : \A p \in Nat : Later(w, v, p) \in Nat /\ (v = w /\ p # 0 => Later(w, v, p) # 1)
    BY DEF Later
  <1>11. \A s \in Ranges : \A k \in Kept(s) : ~RowAt(w, 1, s, k) BY DEF RowAt, RowsMsg, Error
  <1>12. \A s \in Ranges : info'[s].rows = info[s].rows
    BY <1>7 DEF ParentTypes
  <1>13. /\ r \notin Got /\ \A n \in Nat : ~LiveAt(n, r)
         /\ \A v \in Workers, q \in Nat : ~QueuedAt(v, q, r)
    BY <1>4 DEF LabInv, WordApart, LiveApart, QueuedApart
  <1>14. \A v \in Workers, q \in Nat : WordAt(lab, v, q, r) => v = w /\ q = 1
    BY <1>4 DEF LabInv, WordOnce
  <1>15. \A k \in Kept(r) : file[<<r, k>>] = 0 BY <1>5 DEF LabInv, FileOnce
  <1>16. \A k \in Kept(r), v \in Workers, q \in Nat : ~RowAt(v, q, r, k)
    <2>1. \A k \in Kept(r), v \in Workers, q \in Nat : RowAt(v, q, r, k) => q < 1
      BY <1>4 DEF LabInv, WordsLast
    <2>2. \A k, v, q : RowAt(v, q, r, k) => q \in 1..Len(results[v]) BY DEF RowAt
    <2>3. \A v, q : q \in 1..Len(results[v]) => ~(q < 1) OBVIOUS
    <2> QED BY <2>1, <2>2, <2>3
  <1>17. Labels(tags, Got)' BY <1>2, <1>5 DEF LabInv, Labels
  <1>18. /\ WordOnce(tags)' /\ LiveOnce' /\ RowOnce' /\ WordsLast(tags)' /\ LiveBehind' /\ EndsWhole(tags)'
    <2>1. \A s \in Ranges : \A k \in Kept(s) : file[<<s, k>>] = 1 \/ RowAt(w, 1, s, k) => file'[<<s, k>>] = 1
      BY <1>5, <1>11
    <2> QED BY <2>1, TakenKeeps
  <1>19. QueuedOnce' BY <1>8, <1>13 DEF LabInv, QueuedOnce
  <1>20. QueuedApart(tags, Got)'
    <2>1. ASSUME NEW v \in Workers, NEW q \in Nat PROVE ~WordAt(tags, v, q, r)'
      BY <1>2, <1>10, <1>14
    <2>2. ASSUME NEW s \in Ranges, NEW v \in Workers, NEW p \in Nat, QueuedAt(v, p, s)
          PROVE  /\ s \notin Got /\ \A n \in Nat : ~LiveAt(n, s)
                 /\ \A x \in Workers, q \in Nat : ~WordAt(tags, x, q, s)'
      <3>1. /\ s \notin Got /\ \A n \in Nat : ~LiveAt(n, s)
            /\ \A x \in Workers, q \in Nat : ~WordAt(lab, x, q, s)
        BY <2>2 DEF LabInv, QueuedApart
      <3> QED BY <1>2, <1>10, <3>1
    <2> HIDE DEF tags
    <2> QED BY <1>8, <1>9, <1>13, <2>1, <2>2 DEF QueuedApart
  <1>21. LiveApart(tags, Got)' BY <1>2, <1>9, <1>10 DEF LabInv, LiveApart
  <1>22. WordApart(tags, Got)' BY <1>2, <1>10 DEF LabInv, WordApart
  <1>23. RowNew' /\ FileOnce' BY <1>2, <1>5, <1>10, <1>12 DEF LabInv, RowNew, FileOnce
  <1>24. QueuedClean' BY <1>2, <1>5, <1>8, <1>10, <1>15, <1>16 DEF LabInv, QueuedClean
  <1>25. LiveAhead' BY <1>2, <1>5, <1>9, <1>10 DEF LabInv, LiveAhead
  <1>26. GotWhole(Got)' BY <1>5 DEF LabInv, GotWhole, Written
  <1> HIDE DEF tags
  <1>27. LabInv(tags, Got)'
    BY <1>17, <1>18, <1>19, <1>20, <1>21, <1>22, <1>23, <1>24, <1>25, <1>26 DEF LabInv
  <1> QED BY <1>27 DEF tags

(* An error of a range that is given up.                                   *)
LEMMA GiveUpTaken ==
    ASSUME ExportAssumption, ParentTypes, WorkerTypes, NEW lab, NEW Got, LabInv(lab, Got), NEW w \in Workers,
           NEW r \in Ranges, results[w] # <<>>, results[w][1] = Error(r),
           results' = [results EXCEPT ![w] = Tail(@)],
           UNCHANGED <<info, file, work, succeeded, requests, main, loop, alive>>
    PROVE  LabInv(Untagged(lab, w), Got)'
  <1> DEFINE tags == Untagged(lab, w)
  <1>0. \A s : Kept(s)' = Kept(s) BY SameKept
  <1> USE <1>0
  <1>1. LabelTypes(lab) BY DEF LabInv, Labels
  <1>2. /\ LabelTypes(tags)' /\ Len(results[w]) \in Nat \ {0}
        /\ \A v, s, k : \A p \in Nat : RowAt(v, p, s, k)' <=> p # 0 /\ RowAt(v, Later(w, v, p), s, k)
        /\ \A v, s : \A p \in Nat : WordAt(tags, v, p, s)' <=> p # 0 /\ WordAt(lab, v, Later(w, v, p), s)
        /\ \A v, s : \A p \in Nat : EndAt(tags, v, p, s)' <=> p # 0 /\ EndAt(lab, v, Later(w, v, p), s)
    BY <1>1, Taken
  <1>3. /\ \A n, s : LiveAt(n, s)' <=> LiveAt(n, s)
        /\ \A n : Due(n)' = Due(n)
        /\ \A v, p, s : QueuedAt(v, p, s)' <=> QueuedAt(v, p, s)
    BY SameRequests, SameQueues
  <1>4. \A v : \A p \in Nat : Later(w, v, p) \in Nat BY DEF Later
  <1>5. \A s \in Ranges : \A k \in Kept(s) : ~RowAt(w, 1, s, k) BY DEF RowAt, RowsMsg, Error
  <1>6. Labels(tags, Got)' BY <1>2 DEF LabInv, Labels
  <1>7. /\ WordOnce(tags)' /\ LiveOnce' /\ RowOnce' /\ WordsLast(tags)' /\ LiveBehind' /\ EndsWhole(tags)'
    BY <1>5, TakenKeeps
  <1>8. QueuedOnce' BY <1>3 DEF LabInv, QueuedOnce
  <1>9. QueuedApart(tags, Got)' BY <1>2, <1>3, <1>4 DEF LabInv, QueuedApart
  <1>10. LiveApart(tags, Got)' BY <1>2, <1>3, <1>4 DEF LabInv, LiveApart
  <1>11. WordApart(tags, Got)' BY <1>2, <1>4 DEF LabInv, WordApart
  <1>12. RowNew' /\ FileOnce' BY <1>2, <1>4 DEF LabInv, RowNew, FileOnce
  <1>13. QueuedClean' BY <1>2, <1>3, <1>4 DEF LabInv, QueuedClean
  <1>14. LiveAhead' BY <1>2, <1>3, <1>4 DEF LabInv, LiveAhead
  <1>15. GotWhole(Got)' BY DEF LabInv, GotWhole, Written
  <1> HIDE DEF tags
  <1>16. LabInv(tags, Got)'
    BY <1>6, <1>7, <1>8, <1>9, <1>10, <1>11, <1>12, <1>13, <1>14, <1>15 DEF LabInv
  <1> QED BY <1>16 DEF tags

(* A page of rows.                                                         *)
LEMMA RowsTaken ==
    ASSUME ExportAssumption, ParentTypes, WorkerTypes, NEW lab, NEW Got, LabInv(lab, Got), NEW w \in Workers,
           NEW r \in Ranges, NEW k \in Kept(r), results[w] # <<>>, results[w][1] = RowsMsg(r, k),
           results' = [results EXCEPT ![w] = Tail(@)], Write(r, k),
           UNCHANGED <<requests, main, loop, alive>>
    PROVE  LabInv(Untagged(lab, w), Got)'
  <1> DEFINE tags == Untagged(lab, w)
  <1>0. \A s : Kept(s)' = Kept(s) BY SameKept
  <1> USE <1>0
  <1>1. LabelTypes(lab) BY DEF LabInv, Labels
  <1>2. /\ LabelTypes(tags)' /\ Len(results[w]) \in Nat \ {0}
        /\ \A v, s, j : \A p \in Nat : RowAt(v, p, s, j)' <=> p # 0 /\ RowAt(v, Later(w, v, p), s, j)
        /\ \A v, s : \A p \in Nat : WordAt(tags, v, p, s)' <=> p # 0 /\ WordAt(lab, v, Later(w, v, p), s)
        /\ \A v, s : \A p \in Nat : EndAt(tags, v, p, s)' <=> p # 0 /\ EndAt(lab, v, Later(w, v, p), s)
    BY <1>1, Taken
  <1>3. UNCHANGED <<succeeded, work>> BY DEF Write
  <1>4. /\ \A n, s : LiveAt(n, s)' <=> LiveAt(n, s)
        /\ \A n : Due(n)' = Due(n)
        /\ \A v, p, s : QueuedAt(v, p, s)' <=> QueuedAt(v, p, s)
    BY <1>3, SameRequests, SameQueues
  <1>5. RowAt(w, 1, r, k) BY <1>2 DEF RowAt
  <1>6. file[<<r, k>>] = 0 /\ <<r, k>> \notin EmptyPages BY <1>5 DEF LabInv, RowNew
  <1>7. /\ file'[<<r, k>>] = 1
        /\ \A s \in Ranges : \A j \in Kept(s) : <<s, j>> # <<r, k>> => file'[<<s, j>>] = file[<<s, j>>]
        /\ \A s \in Ranges : s # r => info'[s].rows = info[s].rows
        /\ info'[r].rows # 0
    <2>1. \A s \in Ranges : \A j \in Kept(s) : <<s, j>> \in FileIndex BY DEF FileIndex, Kept
    <2>2. /\ file' = [file EXCEPT ![<<r, k>>] = @ + 1] /\ info' = [info EXCEPT ![r].rows = @ + 1]
      BY DEF Write
    <2>3. info[r].rows \in Nat BY DEF ParentTypes
    <2>4. info'[r].rows = info[r].rows + 1 BY <2>2 DEF ParentTypes
    <2>5. \A s \in Ranges : s # r => info'[s].rows = info[s].rows BY <2>2 DEF ParentTypes
    <2>6. file'[<<r, k>>] = file[<<r, k>>] + 1 BY <2>1, <2>2 DEF ParentTypes
    <2>7. \A s \in Ranges : \A j \in Kept(s) : <<s, j>> # <<r, k>> => file'[<<s, j>>] = file[<<s, j>>]
      BY <2>1, <2>2 DEF ParentTypes
    <2> QED BY <1>6, <2>3, <2>4, <2>5, <2>6, <2>7
  <1>8. \A v : \A p \in Nat : Later(w, v, p) \in Nat /\ (v = w /\ p # 0 => Later(w, v, p) # 1)
    BY DEF Later
  <1>9. \A v \in Workers, q \in Nat : RowAt(v, q, r, k) => v = w /\ q = 1
    BY <1>5 DEF LabInv, RowOnce
  <1>10. \A s \in Ranges : \A j \in Kept(s) : RowAt(w, 1, s, j) => <<s, j>> = <<r, k>>
    BY DEF RowAt, RowsMsg
  <1>11. Labels(tags, Got)' BY <1>2, <1>3 DEF LabInv, Labels
  <1>12. /\ WordOnce(tags)' /\ LiveOnce' /\ RowOnce' /\ WordsLast(tags)' /\ LiveBehind' /\ EndsWhole(tags)'
    <2>1. \A s \in Ranges : \A j \in Kept(s) : file[<<s, j>>] = 1 \/ RowAt(w, 1, s, j) => file'[<<s, j>>] = 1
      BY <1>7, <1>10
    <2> QED BY <2>1, TakenKeeps
  <1>13. QueuedOnce' BY <1>4 DEF LabInv, QueuedOnce
  <1>14. QueuedApart(tags, Got)' BY <1>2, <1>4, <1>8 DEF LabInv, QueuedApart
  <1>15. LiveApart(tags, Got)' BY <1>2, <1>4, <1>8 DEF LabInv, LiveApart
  <1>16. WordApart(tags, Got)' BY <1>2, <1>8 DEF LabInv, WordApart
  <1>17. RowNew'
    <2> SUFFICES ASSUME NEW s \in Ranges, NEW j \in Kept(s), NEW v \in Workers, NEW p \in Nat, RowAt(v, p, s, j)'
                 PROVE  file'[<<s, j>>] = 0 /\ <<s, j>> \notin EmptyPages
      BY DEF RowNew
    <2>1. p # 0 /\ RowAt(v, Later(w, v, p), s, j) BY <1>2
    <2>2. <<s, j>> # <<r, k>> BY <1>8, <1>9, <2>1
    <2>3. file[<<s, j>>] = 0 /\ <<s, j>> \notin EmptyPages BY <1>8, <2>1 DEF LabInv, RowNew
    <2> QED BY <1>7, <2>2, <2>3
  <1>18. FileOnce' BY <1>6, <1>7 DEF LabInv, FileOnce
  <1>19. QueuedClean'
    <2>1. \A v \in Workers, p \in Nat : ~QueuedAt(v, p, r) BY <1>5 DEF LabInv, QueuedClean
    <2> QED BY <1>2, <1>4, <1>7, <1>8, <2>1 DEF LabInv, QueuedClean
  <1>20. LiveAhead'
    <2> SUFFICES ASSUME NEW s \in Ranges, NEW n \in Nat, LiveAt(n, s), NEW j \in Kept(s)
                 PROVE  /\ j >= Due(n) => file'[<<s, j>>] = 0
                        /\ \A v \in Workers, q \in Nat : RowAt(v, q, s, j)' => v = requests[n].worker /\ j < Due(n)
      BY <1>4 DEF LiveAhead
    <2>1. j >= Due(n) => file[<<s, j>>] = 0 BY DEF LabInv, LiveAhead
    <2>2. <<s, j>> = <<r, k>> => j < Due(n) BY <1>5 DEF LabInv, LiveAhead
    <2>3. Due(n) \in Nat BY DueType DEF LiveAt
    <2>4. \A v \in Workers, q \in Nat : RowAt(v, q, s, j)' => v = requests[n].worker /\ j < Due(n)
      <3>1. \A v \in Workers, q \in Nat : RowAt(v, q, s, j) => v = requests[n].worker /\ j < Due(n)
        BY DEF LabInv, LiveAhead
      <3> QED BY <1>2, <1>8, <3>1
    <2>5. j \in Nat BY DEF Kept, PagesOf
    <2>6. j < Due(n) => ~(j >= Due(n)) BY <2>3, <2>5
    <2> QED BY <1>7, <2>1, <2>2, <2>4, <2>6
  <1>21. GotWhole(Got)'
    <2>1. Got \subseteq Ranges BY DEF LabInv, Labels
    <2>2. r \notin Got BY <1>6 DEF LabInv, GotWhole, Written
    <2> QED BY <1>7, <2>1, <2>2 DEF LabInv, GotWhole, Written
  <1> HIDE DEF tags
  <1>22. LabInv(tags, Got)'
    BY <1>11, <1>12, <1>13, <1>14, <1>15, <1>16, <1>17, <1>18, <1>19, <1>20, <1>21 DEF LabInv
  <1> QED BY <1>22 DEF tags

(* A page that raced: nothing is said of it.                               *)
LEMMA RacedTaken ==
    ASSUME ExportAssumption, ParentTypes, WorkerTypes, NEW lab, NEW Got, LabInv(lab, Got), NEW w \in Workers,
           NEW r \in Ranges, NEW k \in PagesOf(r), k \notin Kept(r), results[w] # <<>>, results[w][1] = RowsMsg(r, k),
           results' = [results EXCEPT ![w] = Tail(@)], Write(r, k),
           UNCHANGED <<requests, main, loop, alive>>
    PROVE  LabInv(Untagged(lab, w), Got)'
  <1> DEFINE tags == Untagged(lab, w)
  <1>0. \A s : Kept(s)' = Kept(s) BY SameKept
  <1> USE <1>0
  <1>1. LabelTypes(lab) BY DEF LabInv, Labels
  <1>2. /\ LabelTypes(tags)' /\ Len(results[w]) \in Nat \ {0}
        /\ \A v, s, j : \A p \in Nat : RowAt(v, p, s, j)' <=> p # 0 /\ RowAt(v, Later(w, v, p), s, j)
        /\ \A v, s : \A p \in Nat : WordAt(tags, v, p, s)' <=> p # 0 /\ WordAt(lab, v, Later(w, v, p), s)
        /\ \A v, s : \A p \in Nat : EndAt(tags, v, p, s)' <=> p # 0 /\ EndAt(lab, v, Later(w, v, p), s)
    BY <1>1, Taken
  <1>3. /\ \A n, s : LiveAt(n, s)' <=> LiveAt(n, s)
        /\ \A n : Due(n)' = Due(n)
        /\ \A v, p, s : QueuedAt(v, p, s)' <=> QueuedAt(v, p, s)
        /\ succeeded' = succeeded
    <2>1. UNCHANGED <<succeeded, work>> BY DEF Write
    <2> QED BY <2>1, SameRequests, SameQueues
  <1>4. \A v : \A p \in Nat : Later(w, v, p) \in Nat BY DEF Later
  <1>5. \A s \in Ranges : \A j \in Kept(s) : ~RowAt(w, 1, s, j)
    <2>1. \A s, j : RowsMsg(r, k) = RowsMsg(s, j) => s = r /\ j = k BY DEF RowsMsg
    <2> QED BY <2>1 DEF RowAt
  <1>6. /\ \A s \in Ranges : \A j \in Kept(s) : file'[<<s, j>>] = file[<<s, j>>]
        /\ \A s \in Ranges : info'[s].rows = 0 => info[s].rows = 0
    <2>1. \A s \in Ranges : \A j \in PagesOf(s) : <<s, j>> \in FileIndex BY DEF FileIndex
    <2>2. /\ file' = [file EXCEPT ![<<r, k>>] = @ + 1] /\ info' = [info EXCEPT ![r].rows = @ + 1]
      BY DEF Write
    <2>3. \A s \in Ranges : info[s].rows \in Nat BY DEF ParentTypes
    <2>4. info'[r].rows = info[r].rows + 1 BY <2>2 DEF ParentTypes
    <2>5. \A s \in Ranges : s # r => info'[s].rows = info[s].rows BY <2>2 DEF ParentTypes
    <2>6. \A s \in Ranges : \A j \in Kept(s) : <<s, j>> # <<r, k>> => file'[<<s, j>>] = file[<<s, j>>]
      BY <2>1, <2>2 DEF ParentTypes, Kept
    <2> QED BY <2>3, <2>4, <2>5, <2>6
  <1>7. Labels(tags, Got)' BY <1>2, <1>3 DEF LabInv, Labels
  <1>8. /\ WordOnce(tags)' /\ LiveOnce' /\ RowOnce' /\ WordsLast(tags)' /\ LiveBehind' /\ EndsWhole(tags)'
    BY <1>5, <1>6, TakenKeeps
  <1>9. QueuedOnce' BY <1>3 DEF LabInv, QueuedOnce
  <1>10. QueuedApart(tags, Got)' BY <1>2, <1>3, <1>4 DEF LabInv, QueuedApart
  <1>11. LiveApart(tags, Got)' BY <1>2, <1>3, <1>4 DEF LabInv, LiveApart
  <1>12. WordApart(tags, Got)' BY <1>2, <1>4 DEF LabInv, WordApart
  <1>13. RowNew' /\ FileOnce' BY <1>2, <1>4, <1>6 DEF LabInv, RowNew, FileOnce
  <1>14. QueuedClean' BY <1>2, <1>3, <1>4, <1>6 DEF LabInv, QueuedClean
  <1>15. LiveAhead' BY <1>2, <1>3, <1>4, <1>6 DEF LabInv, LiveAhead
  <1>16. GotWhole(Got)'
    <2>1. Got \subseteq Ranges BY DEF LabInv, Labels
    <2> QED BY <1>6, <2>1 DEF LabInv, GotWhole, Written
  <1> HIDE DEF tags
  <1>17. LabInv(tags, Got)'
    BY <1>7, <1>8, <1>9, <1>10, <1>11, <1>12, <1>13, <1>14, <1>15, <1>16 DEF LabInv
  <1> QED BY <1>17 DEF tags

-----------------------------------------------------------------------------
(* A worker.  A callback that is not beside another one has its request in *)
(* hand.                                                                   *)
LEMMA Alone ==
    ASSUME ExportAssumption, WorkerTypes, NEW w \in Workers, NEW t \in {"main", "loop"}, NEW cb, cb = Step(w, t),
           NEW other, other = Step(w, Others(t)), RunsCallback(cb), ~RacedWrite(cb), NEW n, n = cb.request
    PROVE  /\ Holds(cb, n) /\ ~Holds(other, n)
           /\ n \in 1..Len(requests) /\ requests[n].worker = w /\ requests[n].range = cb.range /\ cb.range \in Ranges
           /\ cb.page \in Kept(cb.range) \/ Raced(cb.range, cb.page)
           /\ cb.page \in Nat \ {0} /\ Pages[cb.range] \in Nat
           /\ t = "main" => ~(cb.do = "write" /\ More(cb))
           /\ other # Idle /\ other.request = n => RacedWrite(other) \/ (t = "loop" /\ other.do = "errback")
           /\ IF cb.do = "write" /\ More(cb)
              THEN requests[n].open /\ requests[n].page = cb.page + 1
              ELSE ~requests[n].open /\ requests[n].page = cb.page
           /\ cb.do = "end" => ~More(cb)
  <1>1. /\ cb # Idle /\ CallbackFits(w, cb) /\ n \in 1..Len(requests)
        /\ cb.range \in Ranges /\ cb.page \in Nat \ {0} /\ cb.page \in PagesOf(cb.range) /\ Pages[cb.range] \in Nat
        /\ requests[n].worker = w /\ requests[n].range = cb.range
        /\ t = "main" /\ cb.do = "write" /\ More(cb) => RacedWrite(cb)
        /\ other # Idle /\ other.request = n =>
              IF t = "main"
              THEN RacedWrite(other) \/ (RacedWrite(cb) /\ ~(other.do = "write" /\ More(other)))
              ELSE /\ other.do = "errback" \/ RunsCallback(other)
                   /\ RacedWrite(cb) \/ ((other.do = "errback" \/ RacedWrite(other)) /\ ~(cb.do = "write" /\ More(cb)))
    BY CallbackOf
  <1>2. Holds(cb, n) BY DEF Holds
  <1>3. other # Idle /\ other.request = n => RacedWrite(other) \/ (t = "loop" /\ other.do = "errback")
    BY <1>1
  <1>4. ~Holds(other, n)
    <2>1. other = Idle => ~RunsCallback(other) BY DEF RunsCallback, Idle
    <2>2. other.do = "errback" => ~RunsCallback(other) BY DEF RunsCallback
    <2> QED BY <1>3, <2>1, <2>2 DEF Holds
  <1>5. cb.page \in Kept(cb.range) \/ Raced(cb.range, cb.page) BY <1>1 DEF Kept
  <1> QED BY <1>1, <1>2, <1>3, <1>4, <1>5 DEF CallbackFits

(* What a thread does next with request n changes no other.                *)
LEMMA HandChange ==
    ASSUME WorkerTypes, NEW w \in Workers, NEW t, NEW n, NEW cb, NEW next, NEW other,
           StepTo(w, t, n, cb, next, other), ~Holds(other, n), ~Holds(other, n)'
    PROVE  /\ \A m, s : m # n => (LiveAt(m, s)' <=> LiveAt(m, s))
           /\ \A s : LiveAt(n, s)' <=> s = requests[n].range /\ (requests'[n].open \/ Holds(next, n)')
           /\ \A s : LiveAt(n, s) <=> s = requests[n].range /\ (requests[n].open \/ Holds(cb, n))
           /\ \A m \in 1..Len(requests) : m # n => Due(m)' = Due(m)
           /\ \A m \in 1..Len(requests) : requests'[m].worker = requests[m].worker
           /\ Due(n)' = IF Holds(next, n)' THEN next.page + (IF next.do = "end" THEN 1 ELSE 0) ELSE requests'[n].page
           /\ Due(n) = IF Holds(cb, n) THEN cb.page + (IF cb.do = "end" THEN 1 ELSE 0) ELSE requests[n].page
  <1>1. /\ t \in {"main", "loop"} /\ Becomes(w, t, next) /\ cb = Step(w, t) /\ other = Step(w, Others(t))
        /\ cb = Idle \/ cb.request = n
        /\ next = Idle \/ next.request = n
        /\ n \in 1..Len(requests) /\ requests[n].worker = w
        /\ Len(requests') = Len(requests)
        /\ \A m \in 1..Len(requests) : m # n => requests'[m] = requests[m]
        /\ requests'[n].worker = w /\ requests'[n].range = requests[n].range
    BY DEF StepTo, RequestGoesOn
  <1>2. /\ \A v \in Workers : v # w => main'[v] = main[v] /\ loop'[v] = loop[v]
        /\ Step(w, t)' = next /\ Step(w, Others(t))' = other
    BY <1>1, StepMade DEF WorkerTypes
  <1>3. /\ t = "main" => cb = main[w] /\ other = loop[w] /\ next = main'[w] /\ other = loop'[w]
        /\ t = "loop" => cb = loop[w] /\ other = main[w] /\ next = loop'[w] /\ other = main'[w]
    BY <1>1, <1>2 DEF Step, Others
  <1>4. \A m : ~Holds(Idle, m) /\ ~Holds(Idle, m)' BY DEF Holds, RunsCallback, Idle
  <1>5. \A m : m # n => ~Holds(cb, m) /\ ~Holds(next, m)'
    <2>1. \A m, x : Holds(x, m) => x.request = m BY DEF Holds
    <2>2. \A m : Holds(next, m)' => next.request = m BY DEF Holds
    <2> QED BY <1>1, <1>4, <2>1, <2>2
  <1>6. ASSUME NEW m \in 1..Len(requests), m # n
        PROVE  (Live(m)' <=> Live(m)) /\ Due(m)' = Due(m)
    <2>1. PICK v \in Workers : v = requests[m].worker BY RequestAt
    <2>2. requests'[m] = requests[m] BY <1>1, <1>6
    <2>3. PICK x, y : x = main[v] /\ y = loop[v] OBVIOUS
    <2>4. PICK x1, y1 : x1 = main'[v] /\ y1 = loop'[v] OBVIOUS
    <2>5. (Holds(x1, m)' <=> Holds(x, m)) /\ (Holds(x, m) => x1 = x)
      <3>1. CASE x1 = x BY <2>2, <3>1, HoldsSame
      <3>2. CASE v = w /\ t = "main" BY <1>3, <1>5, <1>6, <2>3, <2>4, <3>2
      <3> QED BY <1>1, <1>2, <1>3, <2>3, <2>4, <3>1, <3>2
    <2>6. (Holds(y1, m)' <=> Holds(y, m)) /\ (Holds(y, m) => y1 = y)
      <3>1. CASE y1 = y BY <2>2, <3>1, HoldsSame
      <3>2. CASE v = w /\ t = "loop" BY <1>3, <1>5, <1>6, <2>3, <2>4, <3>2
      <3> QED BY <1>1, <1>2, <1>3, <2>3, <2>4, <3>1, <3>2
    <2>7. (Holds(main[v], m)' <=> Holds(main[v], m)) /\ (Holds(loop[v], m)' <=> Holds(loop[v], m))
      <3>1. Holds(main[v], m)' <=> Holds(x1, m)' BY <2>4
      <3>2. Holds(loop[v], m)' <=> Holds(y1, m)' BY <2>4
      <3> QED BY <2>3, <2>5, <2>6, <3>1, <3>2
    <2>8. InHand(m)' <=> InHand(m) BY <2>1, <2>2, <2>7 DEF InHand
    <2>9. InHand(m) => Hand(m)' = Hand(m) BY <2>1, <2>2, <2>3, <2>4, <2>5, <2>6, <2>7 DEF Hand, InHand
    <2> QED BY <2>2, <2>8, <2>9 DEF Live, Due
  <1>7. (InHand(n)' <=> Holds(next, n)') /\ (InHand(n) <=> Holds(cb, n))
    <2>1. InHand(n) <=> Holds(loop[w], n) \/ Holds(main[w], n) BY <1>1 DEF InHand
    <2>2. InHand(n)' <=> Holds(loop[w], n)' \/ Holds(main[w], n)' BY <1>1 DEF InHand
    <2>3. CASE t = "main" BY <1>3, <2>1, <2>2, <2>3
    <2>4. CASE t = "loop" BY <1>3, <2>1, <2>2, <2>4
    <2> QED BY <1>1, <2>3, <2>4
  <1>8. (Holds(cb, n) => Hand(n) = cb) /\ (Holds(next, n)' => Hand(n)' = next)
    <2>1. Hand(n) = IF Holds(loop[w], n) THEN loop[w] ELSE main[w] BY <1>1 DEF Hand
    <2>2. Hand(n)' = IF Holds(loop[w], n)' THEN loop'[w] ELSE main'[w] BY <1>1 DEF Hand
    <2>3. CASE t = "main" BY <1>3, <2>1, <2>2, <2>3
    <2>4. CASE t = "loop" BY <1>3, <2>1, <2>2, <2>4
    <2> QED BY <1>1, <2>3, <2>4
  <1>9. \A m, s : m # n => (LiveAt(m, s)' <=> LiveAt(m, s)) BY <1>1, <1>6 DEF LiveAt
  <1>10. \A s : LiveAt(n, s)' <=> s = requests[n].range /\ (requests'[n].open \/ Holds(next, n)')
    BY <1>1, <1>7 DEF LiveAt, Live
  <1>11. \A s : LiveAt(n, s) <=> s = requests[n].range /\ (requests[n].open \/ Holds(cb, n))
    BY <1>1, <1>7 DEF LiveAt, Live
  <1>12. Due(n)' = IF Holds(next, n)' THEN next.page + (IF next.do = "end" THEN 1 ELSE 0) ELSE requests'[n].page
    BY <1>7, <1>8 DEF Due
  <1>13. Due(n) = IF Holds(cb, n) THEN cb.page + (IF cb.do = "end" THEN 1 ELSE 0) ELSE requests[n].page
    BY <1>7, <1>8 DEF Due
  <1>14. \A m \in 1..Len(requests) : requests'[m].worker = requests[m].worker BY <1>1
  <1> QED BY <1>6, <1>9, <1>10, <1>11, <1>12, <1>13, <1>14

(* A thread that has no request in hand, before and after.                 *)
LEMMA HandsKept ==
    ASSUME WorkerTypes, NEW w \in Workers, NEW t \in {"main", "loop"}, NEW cb, cb = Step(w, t), NEW next, Becomes(w, t, next),
           UNCHANGED requests, \A m : ~Holds(cb, m) /\ ~Holds(next, m)
    PROVE  /\ \A n, r : LiveAt(n, r)' <=> LiveAt(n, r)
           /\ \A n \in 1..Len(requests) : Due(n)' = Due(n)
  <1>1. PICK other : other = Step(w, Others(t)) OBVIOUS
  <1>2. /\ \A v \in Workers : v # w => main'[v] = main[v] /\ loop'[v] = loop[v]
        /\ Step(w, t)' = next /\ Step(w, Others(t))' = other
    BY <1>1, StepMade DEF WorkerTypes
  <1>3. /\ t = "main" => cb = main[w] /\ other = loop[w] /\ next = main'[w] /\ other = loop'[w]
        /\ t = "loop" => cb = loop[w] /\ other = main[w] /\ next = loop'[w] /\ other = main'[w]
    BY <1>1, <1>2 DEF Step, Others
  <1>4. \A x, m : Holds(x, m)' <=> Holds(x, m) BY DEF Holds, RacedWrite
  <1>5. ASSUME NEW n \in 1..Len(requests) PROVE (Live(n)' <=> Live(n)) /\ Due(n)' = Due(n)
    <2>1. PICK v \in Workers : v = requests[n].worker BY RequestAt
    <2>2. PICK x, y : x = main[v] /\ y = loop[v] OBVIOUS
    <2>3. PICK x1, y1 : x1 = main'[v] /\ y1 = loop'[v] OBVIOUS
    <2>4. x1 = x \/ (~Holds(x, n) /\ ~Holds(x1, n)) BY <1>2, <1>3, <2>2, <2>3
    <2>5. y1 = y \/ (~Holds(y, n) /\ ~Holds(y1, n)) BY <1>2, <1>3, <2>2, <2>3
    <2>6. (Holds(main[v], n)' <=> Holds(main[v], n)) /\ (Holds(loop[v], n)' <=> Holds(loop[v], n))
      <3>1. (Holds(main[v], n)' <=> Holds(x1, n)') /\ (Holds(loop[v], n)' <=> Holds(y1, n)') BY <2>3
      <3> QED BY <1>4, <2>2, <2>4, <2>5, <3>1
    <2>7. InHand(n)' <=> InHand(n) BY <2>1, <2>6 DEF InHand
    <2>8. InHand(n) => Hand(n)' = Hand(n) BY <2>1, <2>2, <2>3, <2>4, <2>5, <2>6 DEF Hand, InHand
    <2> QED BY <2>7, <2>8 DEF Live, Due
  <1> QED BY <1>5 DEF LiveAt

(* A range whose only place was with a worker ends in a message.           *)
LEMMA WordSent ==
    ASSUME WorkerTypes, NEW lab, NEW Got, LabInv(lab, Got), NEW w \in Workers, NEW msg \in Messages, NEW r \in Ranges,
           msg.kind # "rows", msg.kind = "error" => msg.range = r, Send(w, msg),
           UNCHANGED <<file, info, succeeded, alive, requests>>,
           r \notin Got, \A v \in Workers, p \in Nat : ~WordAt(lab, v, p, r),
           QueuedOnce',
           \A v, s : \A p \in Nat : QueuedAt(v, p, s)' => s # r /\ \E q \in Nat : QueuedAt(v, q, s),
           \A n, s : LiveAt(n, s)' => LiveAt(n, s) /\ s # r /\ Due(n)' = Due(n),
           \A v, q : \A k \in Kept(r) : RowAt(v, q, r, k) => v = w,
           msg = EndMsg => \A k \in Kept(r) : Delivered(r, k, w, Len(results[w]) + 1)
    PROVE  LabInv(Tagged(lab, w, r), Got)'
  <1> DEFINE tags == Tagged(lab, w, r)
             new == Len(results[w]) + 1
  <1>0. \A s : Kept(s)' = Kept(s) BY SameKept
  <1> USE <1>0
  <1>1. LabelTypes(lab) BY DEF LabInv, Labels
  <1>2. /\ LabelTypes(tags)' /\ Len(results[w]) \in Nat /\ Len(results'[w]) = Len(results[w]) + 1
        /\ \A v \in Workers : v # w => results'[v] = results[v]
        /\ \A v, p, s, k : RowAt(v, p, s, k)' <=> RowAt(v, p, s, k) \/ (v = w /\ p = new /\ msg = RowsMsg(s, k))
        /\ \A v, p, s : WordAt(tags, v, p, s)' <=>
              WordAt(lab, v, p, s) \/ (v = w /\ p = new /\ msg.kind # "rows" /\ s = r)
        /\ \A v, p, s : EndAt(tags, v, p, s)' <=>
              EndAt(lab, v, p, s) \/ (v = w /\ p = new /\ msg = EndMsg /\ s = r)
    BY <1>1, Sent
  <1>3. \A v, p, s, k : RowAt(v, p, s, k)' <=> RowAt(v, p, s, k)
    BY <1>2 DEF RowsMsg
  <1>4. new \in Nat /\ \A p : p \in 1..Len(results[w]) => p < new BY <1>2
  <1> HIDE DEF tags, new
  <1>5. Labels(tags, Got)' BY <1>2 DEF LabInv, Labels
  <1>6. LiveOnce' BY DEF LabInv, LiveOnce
  <1>7. WordOnce(tags)' BY <1>2 DEF LabInv, WordOnce
  <1>8. QueuedApart(tags, Got)'
    <2> SUFFICES ASSUME NEW s \in Ranges, NEW v \in Workers, NEW p \in Nat, QueuedAt(v, p, s)'
                 PROVE  /\ s \notin Got /\ \A n \in Nat : ~LiveAt(n, s)'
                        /\ \A x \in Workers, q \in Nat : ~WordAt(tags, x, q, s)'
      BY DEF QueuedApart
    <2>1. s # r /\ \E q \in Nat : QueuedAt(v, q, s) OBVIOUS
    <2>2. /\ s \notin Got /\ \A n \in Nat : ~LiveAt(n, s)
          /\ \A x \in Workers, q \in Nat : ~WordAt(lab, x, q, s)
      BY <2>1 DEF LabInv, QueuedApart
    <2> QED BY <1>2, <2>1, <2>2
  <1>9. LiveApart(tags, Got)' BY <1>2 DEF LabInv, LiveApart
  <1>10. WordApart(tags, Got)' BY <1>2 DEF LabInv, WordApart
  <1>11. RowOnce' /\ RowNew' /\ FileOnce' BY <1>3 DEF LabInv, RowOnce, RowNew, FileOnce
  <1>12. QueuedClean'
    <2> SUFFICES ASSUME NEW s \in Ranges, NEW v \in Workers, NEW p \in Nat, QueuedAt(v, p, s)', NEW k \in Kept(s)
                 PROVE  file[<<s, k>>] = 0 /\ \A x \in Workers, q \in Nat : ~RowAt(x, q, s, k)'
      BY DEF QueuedClean
    <2>1. \E q \in Nat : QueuedAt(v, q, s) OBVIOUS
    <2> QED BY <1>3, <2>1 DEF LabInv, QueuedClean
  <1>13. LiveAhead' BY <1>3 DEF LabInv, LiveAhead
  <1>14. WordsLast(tags)'
    <2> SUFFICES ASSUME NEW s \in Ranges, NEW x \in Workers, NEW v \in Workers, NEW p \in Nat, NEW q \in Nat,
                        NEW k \in Kept(s), WordAt(tags, x, p, s)', RowAt(v, q, s, k)'
                 PROVE  v = x /\ q < p
      BY DEF WordsLast
    <2>1. RowAt(v, q, s, k) BY <1>3
    <2>2. CASE WordAt(lab, x, p, s) BY <2>1, <2>2 DEF LabInv, WordsLast
    <2>3. CASE x = w /\ p = new /\ s = r
      <3>1. v = w BY <2>1, <2>3
      <3>2. q \in 1..Len(results[w]) BY <2>1, <3>1 DEF RowAt
      <3> QED BY <1>4, <2>3, <3>1, <3>2
    <2> QED BY <1>2, <2>2, <2>3
  <1>15. \A s, k, v : \A p \in Nat : Delivered(s, k, v, p)' <=> Delivered(s, k, v, p)
    BY <1>3 DEF Delivered
  <1>16. LiveBehind'
    <2> SUFFICES ASSUME NEW s \in Ranges, NEW n \in Nat, LiveAt(n, s)', requests[n].worker \in alive,
                        NEW k \in Kept(s), k < Due(n)
                 PROVE  Delivered(s, k, requests[n].worker, Len(results[requests[n].worker]) + 1)'
      BY DEF LiveBehind
    <2>1. PICK v : v = requests[n].worker OBVIOUS
    <2>2. Delivered(s, k, v, Len(results[v]) + 1) BY <2>1 DEF LabInv, LiveBehind
    <2>3. v \in Workers BY <2>1, RequestAt DEF LiveAt
    <2>4. Len(results[v]) \in Nat /\ Len(results'[v]) \in Nat /\ Len(results'[v]) >= Len(results[v])
      <3>1. Len(results[v]) \in Nat BY <1>1, <2>3 DEF LabelTypes
      <3>2. CASE v = w BY <1>2, <3>2
      <3>3. CASE v # w BY <1>2, <2>3, <3>1, <3>3
      <3> QED BY <3>1, <3>2, <3>3
    <2>5. PICK m \in Nat : m = Len(results'[v]) + 1 BY <2>4
    <2>6. \A q \in Nat : q < Len(results[v]) + 1 => q < m BY <2>4, <2>5
    <2>7. Delivered(s, k, v, m) BY <2>2, <2>6 DEF Delivered
    <2>8. Delivered(s, k, v, m)' BY <1>15, <2>7
    <2> QED BY <2>1, <2>5, <2>8 DEF Delivered
  <1>17. EndsWhole(tags)'
    <2> SUFFICES ASSUME NEW s \in Ranges, NEW v \in Workers, NEW p \in Nat, EndAt(tags, v, p, s)', NEW k \in Kept(s)
                 PROVE  Delivered(s, k, v, p)'
      BY DEF EndsWhole
    <2>1. CASE EndAt(lab, v, p, s) BY <1>15, <2>1 DEF LabInv, EndsWhole
    <2>2. CASE v = w /\ p = new /\ msg = EndMsg /\ s = r BY <1>4, <1>15, <2>2 DEF new
    <2> QED BY <1>2, <2>1, <2>2
  <1>18. GotWhole(Got)' BY DEF LabInv, GotWhole, Written
  <1>19. LabInv(tags, Got)'
    BY <1>5, <1>6, <1>7, <1>8, <1>9, <1>10, <1>11, <1>12, <1>13, <1>14, <1>16, <1>17, <1>18 DEF LabInv
  <1> QED BY <1>19 DEF tags

(* A page goes to the wire; one without rows goes nowhere.                 *)
LEMMA PageWritten ==
    ASSUME WorkerTypes, NEW lab, NEW Got, LabInv(lab, Got), NEW w \in Workers,
           NEW r \in Ranges, NEW k \in Kept(r), NEW n \in 1..Len(requests), requests[n].worker = w,
           <<r, k>> \notin EmptyPages, Send(w, RowsMsg(r, k)),
           UNCHANGED <<file, info, succeeded, alive, requests, work>>,
           LiveAt(n, r), Due(n) = k, Due(n)' = k + 1,
           \A m, s : LiveAt(m, s)' <=> LiveAt(m, s),
           \A m \in 1..Len(requests) : m # n => Due(m)' = Due(m)
    PROVE  LabInv(Tagged(lab, w, r), Got)'
  <1> DEFINE tags == Tagged(lab, w, r)
             new == Len(results[w]) + 1
  <1>0. \A s : Kept(s)' = Kept(s) BY SameKept
  <1> USE <1>0
  <1>1. LabelTypes(lab) BY DEF LabInv, Labels
  <1>2. /\ LabelTypes(tags)' /\ Len(results[w]) \in Nat /\ Len(results'[w]) = Len(results[w]) + 1
        /\ \A v \in Workers : v # w => results'[v] = results[v]
        /\ \A v, p, s, j : RowAt(v, p, s, j)' <=> RowAt(v, p, s, j) \/ (v = w /\ p = new /\ RowsMsg(r, k) = RowsMsg(s, j))
        /\ \A v, p, s : WordAt(tags, v, p, s)' <=>
              WordAt(lab, v, p, s) \/ (v = w /\ p = new /\ RowsMsg(r, k).kind # "rows" /\ s = r)
        /\ \A v, p, s : EndAt(tags, v, p, s)' <=>
              EndAt(lab, v, p, s) \/ (v = w /\ p = new /\ RowsMsg(r, k) = EndMsg /\ s = r)
    <2>1. RowsMsg(r, k) \in Messages
      <3>1. <<r, k>> \in FileIndex BY DEF FileIndex, Kept
      <3> QED BY <3>1 DEF Messages
    <2>2. RowsMsg(r, k).kind # "error" BY DEF RowsMsg
    <2> QED BY <1>1, <2>1, <2>2, Sent
  <1>3. /\ \A v, p, s, j : RowAt(v, p, s, j)' <=> RowAt(v, p, s, j) \/ (v = w /\ p = new /\ s = r /\ j = k)
        /\ \A v, p, s : WordAt(tags, v, p, s)' <=> WordAt(lab, v, p, s)
        /\ \A v, p, s : EndAt(tags, v, p, s)' <=> EndAt(lab, v, p, s)
    <2>1. \A s, j : RowsMsg(r, k) = RowsMsg(s, j) <=> s = r /\ j = k
      <3>1. \A s, j : RowsMsg(s, j).range = s /\ RowsMsg(s, j).page = j BY DEF RowsMsg
      <3> QED BY <3>1
    <2>2. RowsMsg(r, k).kind = "rows" /\ RowsMsg(r, k) # EndMsg
      <3>1. RowsMsg(r, k).kind = "rows" /\ EndMsg.kind = "end" BY DEF RowsMsg, EndMsg
      <3> QED BY <3>1
    <2> QED BY <1>2, <2>1, <2>2
  <1>4. new \in Nat /\ \A p : p \in 1..Len(results[w]) => p < new BY <1>2
  <1> HIDE DEF tags, new
  <1>5. \A v, p : \A s, j : RowAt(v, p, s, j) => p \in 1..Len(results[v]) BY DEF RowAt
  <1>6. \A v, q : ~RowAt(v, q, r, k)
    <2>1. \A v \in Workers, q \in Nat : RowAt(v, q, r, k) => k < k BY DEF LabInv, LiveAhead
    <2>2. k \in Nat BY DEF Kept, PagesOf
    <2>3. \A v, q : RowAt(v, q, r, k) => v \in Workers /\ q \in Nat BY DEF RowAt
    <2> QED BY <2>1, <2>2, <2>3
  <1>7. file[<<r, k>>] = 0
    <2>1. k >= k BY DEF Kept, PagesOf
    <2> QED BY <2>1 DEF LabInv, LiveAhead
  <1>8. \A v, p, s : QueuedAt(v, p, s)' <=> QueuedAt(v, p, s) BY SameQueues
  <1>9. /\ r \notin Got /\ \A v \in Workers, p \in Nat : ~WordAt(lab, v, p, r)
        /\ \A v \in Workers, p \in Nat : ~QueuedAt(v, p, r)
    BY DEF LabInv, LiveApart, QueuedApart
  <1>10. Labels(tags, Got)' BY <1>2 DEF LabInv, Labels
  <1>11. QueuedOnce' /\ LiveOnce' /\ WordOnce(tags)'
    BY <1>3, <1>8 DEF LabInv, QueuedOnce, LiveOnce, WordOnce
  <1>12. QueuedApart(tags, Got)' /\ LiveApart(tags, Got)' /\ WordApart(tags, Got)'
    BY <1>3, <1>8 DEF LabInv, QueuedApart, LiveApart, WordApart
  <1>13. RowOnce' BY <1>3, <1>6 DEF LabInv, RowOnce
  <1>14. RowNew' BY <1>3, <1>7 DEF LabInv, RowNew
  <1>15. FileOnce' BY DEF LabInv, FileOnce
  <1>16. QueuedClean' BY <1>3, <1>8, <1>9 DEF LabInv, QueuedClean
  <1>17. LiveAhead'
    <2> SUFFICES ASSUME NEW s \in Ranges, NEW m \in Nat, LiveAt(m, s), NEW j \in Kept(s)
                 PROVE  /\ j >= Due(m)' => file[<<s, j>>] = 0
                        /\ \A v \in Workers, q \in Nat : RowAt(v, q, s, j)' => v = requests[m].worker /\ j < Due(m)'
      BY DEF LiveAhead
    <2>1. /\ j >= Due(m) => file[<<s, j>>] = 0
          /\ \A v \in Workers, q \in Nat : RowAt(v, q, s, j) => v = requests[m].worker /\ j < Due(m)
      BY DEF LabInv, LiveAhead
    <2>2. j \in Nat /\ k \in Nat BY DEF Kept, PagesOf
    <2>3. CASE m = n
      <3>1. j >= k + 1 => j >= k BY <2>2
      <3>2. j < k => j < k + 1 BY <2>2
      <3>3. k < k + 1 BY <2>2
      <3> QED BY <1>3, <2>1, <2>3, <3>1, <3>2, <3>3
    <2>4. CASE m # n
      <3>1. s # r BY <2>4 DEF LabInv, LiveOnce
      <3>2. m \in 1..Len(requests) BY DEF LiveAt
      <3> QED BY <1>3, <2>1, <2>4, <3>1, <3>2
    <2> QED BY <2>3, <2>4
  <1>18. WordsLast(tags)'
    <2> SUFFICES ASSUME NEW s \in Ranges, NEW x \in Workers, NEW v \in Workers, NEW p \in Nat, NEW q \in Nat,
                        NEW j \in Kept(s), WordAt(lab, x, p, s), RowAt(v, q, s, j)'
                 PROVE  v = x /\ q < p
      BY <1>3 DEF WordsLast
    <2>1. s # r BY <1>9
    <2> QED BY <1>3, <2>1 DEF LabInv, WordsLast
  <1>19. ASSUME NEW s, NEW j, NEW v, NEW p, Delivered(s, j, v, p) PROVE Delivered(s, j, v, p)'
    BY <1>3, <1>19 DEF Delivered
  <1>20. LiveBehind'
    <2> SUFFICES ASSUME NEW s \in Ranges, NEW m \in Nat, LiveAt(m, s), requests[m].worker \in alive,
                        NEW j \in Kept(s), j < Due(m)'
                 PROVE  Delivered(s, j, requests[m].worker, Len(results[requests[m].worker]) + 1)'
      BY DEF LiveBehind
    <2>1. m \in 1..Len(requests) BY DEF LiveAt
    <2>2. PICK v \in Workers : v = requests[m].worker BY <2>1, RequestAt
    <2>3. Len(results[v]) \in Nat /\ Len(results'[v]) \in Nat /\ Len(results'[v]) >= Len(results[v])
      <3>1. Len(results[v]) \in Nat BY <1>1 DEF LabelTypes
      <3>2. CASE v = w BY <1>2, <3>2
      <3>3. CASE v # w BY <1>2, <3>1, <3>3
      <3> QED BY <3>1, <3>2, <3>3
    <2>4. PICK x \in Nat : x = Len(results'[v]) + 1 BY <2>3
    <2>5. \A q \in Nat : q < Len(results[v]) + 1 => q < x BY <2>3, <2>4
    <2>6. ASSUME j < Due(m) PROVE Delivered(s, j, v, x)'
      <3>1. Delivered(s, j, v, Len(results[v]) + 1) BY <2>2, <2>6 DEF LabInv, LiveBehind
      <3>2. Delivered(s, j, v, x) BY <2>5, <3>1 DEF Delivered
      <3> QED BY <1>19, <3>2
    <2>7. ASSUME m = n, ~(j < Due(m)) PROVE Delivered(s, j, v, x)'
      <3>1. j \in Nat /\ k \in Nat BY DEF Kept, PagesOf
      <3>2. ~(j < k) /\ j < k + 1 BY <2>7
      <3>3. j = k BY <3>1, <3>2
      <3>4. s = r /\ v = w BY <2>2, <2>7 DEF LiveAt
      <3>5. PICK y \in Nat : y = new BY <1>4
      <3>6. RowAt(w, y, r, k)' BY <1>3, <3>5
      <3>7. y < x BY <1>2, <2>4, <3>4, <3>5 DEF new
      <3> QED BY <3>3, <3>4, <3>6, <3>7 DEF Delivered
    <2>8. Delivered(s, j, v, x)' BY <2>1, <2>6, <2>7
    <2> QED BY <2>2, <2>4, <2>8 DEF Delivered
  <1>21. EndsWhole(tags)' BY <1>3, <1>19 DEF LabInv, EndsWhole
  <1>22. GotWhole(Got)' BY DEF LabInv, GotWhole, Written
  <1>23. LabInv(tags, Got)'
    BY <1>10, <1>11, <1>12, <1>13, <1>14, <1>15, <1>16, <1>17, <1>18, <1>20, <1>21, <1>22 DEF LabInv
  <1> QED BY <1>23 DEF tags

LEMMA NoPageWritten ==
    ASSUME WorkerTypes, NEW lab, NEW Got, LabInv(lab, Got),
           NEW r \in Ranges, NEW k \in Kept(r), NEW n \in 1..Len(requests),
           <<r, k>> \in EmptyPages,
           UNCHANGED <<results, file, info, succeeded, alive, requests, work>>,
           LiveAt(n, r), Due(n) = k, Due(n)' = k + 1,
           \A m, s : LiveAt(m, s)' <=> LiveAt(m, s),
           \A m \in 1..Len(requests) : m # n => Due(m)' = Due(m)
    PROVE  LabInv(lab, Got)'
  <1>0. \A s : Kept(s)' = Kept(s) BY SameKept
  <1> USE <1>0
  <1>1. /\ \A v, p, s, j : RowAt(v, p, s, j)' <=> RowAt(v, p, s, j)
        /\ \A v, p, s : WordAt(lab, v, p, s)' <=> WordAt(lab, v, p, s)
        /\ \A v, p, s : EndAt(lab, v, p, s)' <=> EndAt(lab, v, p, s)
        /\ \A v, p, s : QueuedAt(v, p, s)' <=> QueuedAt(v, p, s)
    BY SameWires, SameQueues
  <1>2. Labels(lab, Got)' BY DEF LabInv, Labels, LabelTypes
  <1>3. QueuedOnce' /\ LiveOnce' /\ WordOnce(lab)'
    BY <1>1 DEF LabInv, QueuedOnce, LiveOnce, WordOnce
  <1>4. QueuedApart(lab, Got)' /\ LiveApart(lab, Got)' /\ WordApart(lab, Got)'
    BY <1>1 DEF LabInv, QueuedApart, LiveApart, WordApart
  <1>5. RowOnce' /\ RowNew' /\ FileOnce' /\ QueuedClean'
    BY <1>1 DEF LabInv, RowOnce, RowNew, FileOnce, QueuedClean
  <1>6. \A m, s : LiveAt(m, s) => m \in 1..Len(requests) BY DEF LiveAt
  <1>7. LiveAhead'
    <2> SUFFICES ASSUME NEW s \in Ranges, NEW m \in Nat, LiveAt(m, s), NEW j \in Kept(s)
                 PROVE  /\ j >= Due(m)' => file[<<s, j>>] = 0
                        /\ \A v \in Workers, q \in Nat : RowAt(v, q, s, j) => v = requests[m].worker /\ j < Due(m)'
      BY <1>1 DEF LiveAhead
    <2>1. /\ j >= Due(m) => file[<<s, j>>] = 0
          /\ \A v \in Workers, q \in Nat : RowAt(v, q, s, j) => v = requests[m].worker /\ j < Due(m)
      BY DEF LabInv, LiveAhead
    <2>2. j \in Nat /\ k \in Nat BY DEF Kept, PagesOf
    <2>3. CASE m = n
      <3>1. j >= k + 1 => j >= k BY <2>2
      <3>2. j < k => j < k + 1 BY <2>2
      <3> QED BY <2>1, <2>3, <3>1, <3>2
    <2>4. CASE m # n BY <1>6, <2>1, <2>4
    <2> QED BY <2>3, <2>4
  <1>8. WordsLast(lab)' BY <1>1 DEF LabInv, WordsLast
  <1>9. \A s, j, v, p : Delivered(s, j, v, p)' <=> Delivered(s, j, v, p)
    BY <1>1 DEF Delivered
  <1>10. LiveBehind'
    <2> SUFFICES ASSUME NEW s \in Ranges, NEW m \in Nat, LiveAt(m, s), requests[m].worker \in alive,
                        NEW j \in Kept(s), j < Due(m)'
                 PROVE  Delivered(s, j, requests[m].worker, Len(results[requests[m].worker]) + 1)
      BY <1>9 DEF LiveBehind
    <2>1. CASE j < Due(m) BY <2>1 DEF LabInv, LiveBehind
    <2>2. CASE m = n /\ ~(j < Due(m))
      <3>1. j \in Nat /\ k \in Nat BY DEF Kept, PagesOf
      <3>2. ~(j < k) /\ j < k + 1 BY <2>2
      <3>3. j = k /\ s = r BY <2>2, <3>1, <3>2 DEF LiveAt
      <3> QED BY <3>3 DEF Delivered
    <2> QED BY <1>6, <2>1, <2>2
  <1>11. EndsWhole(lab)' BY <1>1, <1>9 DEF LabInv, EndsWhole
  <1>12. GotWhole(Got)' BY DEF LabInv, GotWhole, Written
  <1> QED BY <1>2, <1>3, <1>4, <1>5, <1>7, <1>8, <1>10, <1>11, <1>12 DEF LabInv

(* A worker asks for the range it takes from its queue.                    *)
LEMMA RangeAsked ==
    ASSUME ExportAssumption, ParentTypes, WorkerTypes, NEW lab, NEW Got, LabInv(lab, Got), NEW w \in Workers,
           NEW r \in Ranges, work[w] # <<>>, r = Head(work[w]), work' = [work EXCEPT ![w] = Tail(@)],
           NEW request \in Requests, request.range = r, request.page = 1, request.open, request.worker = w,
           request.raced = {}, requests' = Append(requests, request),
           NEW next, next.do = "attach", main[w] = Idle, main' = [main EXCEPT ![w] = next],
           UNCHANGED <<results, file, info, succeeded, alive, loop>>
    PROVE  LabInv(lab, Got)'
  <1> DEFINE new == Len(requests) + 1
  <1>1. /\ Len(requests) \in Nat /\ requests'[new] = request
        /\ \A m : m \in 1..Len(requests') <=> m \in 1..Len(requests) \/ m = new
        /\ \A m \in 1..Len(requests) : requests'[m] = requests[m] /\ m # new
    <2>1. requests \in Seq(Requests) BY DEF WorkerTypes
    <2>2. /\ Len(requests) \in Nat /\ requests'[new] = request /\ Len(requests') = Len(requests) + 1
          /\ \A m \in 1..Len(requests) : requests'[m] = requests[m]
      BY <2>1, AppendAt
    <2> QED BY <2>2
  <1>2. PICK x \in Nat : x = new BY <1>1
  <1> HIDE DEF new
  <1>3. \A s : Kept(s)' = Kept(s)
    <2>1. DOMAIN requests = 1..Len(requests) /\ DOMAIN requests' = 1..Len(requests')
      <3>1. requests \in Seq(Requests) BY DEF WorkerTypes
      <3>2. requests' \in Seq(Requests) BY <3>1
      <3> QED BY <3>1, <3>2
    <2>2. \A s, k : Raced(s, k)' <=> Raced(s, k) BY <1>1, <2>1 DEF Raced
    <2> QED BY <2>2 DEF Kept
  <1> USE <1>3
  <1>4. \A m : ~Holds(Idle, m) /\ ~Holds(next, m) /\ ~Holds(next, m)' BY DEF Holds, RunsCallback, Idle
  <1>5. main'[w] = next /\ \A v \in Workers : v # w => main'[v] = main[v] BY DEF WorkerTypes
  <1>6. ASSUME NEW m \in 1..Len(requests) PROVE (Live(m)' <=> Live(m)) /\ Due(m)' = Due(m)
    <2>1. PICK v \in Workers : v = requests[m].worker BY RequestAt
    <2>2. requests'[m] = requests[m] BY <1>1
    <2>3. PICK y, z, z1 : y = loop[v] /\ z = main[v] /\ z1 = main'[v] OBVIOUS
    <2>4. z1 = z \/ (~Holds(z, m) /\ ~Holds(z1, m)') BY <1>4, <1>5, <2>3
    <2>5. (Holds(y, m)' <=> Holds(y, m)) /\ (Holds(z, m)' <=> Holds(z, m)) BY <2>2, HoldsSame
    <2>6. (Holds(main[v], m)' <=> Holds(main[v], m)) /\ (Holds(loop[v], m)' <=> Holds(loop[v], m))
      <3>1. (Holds(main[v], m)' <=> Holds(z1, m)') /\ (Holds(loop[v], m)' <=> Holds(y, m)') BY <2>3
      <3> QED BY <2>3, <2>4, <2>5, <3>1
    <2>7. InHand(m)' <=> InHand(m) BY <2>1, <2>2, <2>6 DEF InHand
    <2>8. InHand(m) => Hand(m)' = Hand(m) BY <2>1, <2>2, <2>3, <2>4, <2>5, <2>6 DEF Hand, InHand
    <2> QED BY <2>2, <2>7, <2>8 DEF Live, Due
  <1>7. ~InHand(x)'
    <2>1. requests'[x].worker = w BY <1>1, <1>2
    <2>2. ~Holds(main[w], x)'
      <3>1. Holds(main[w], x)' <=> Holds(next, x)' BY <1>5
      <3> QED BY <1>4, <3>1
    <2>3. ~Holds(loop[w], x)'
      <3>1. PICK y : y = loop[w] OBVIOUS
      <3>2. LoopFits(w, y) BY <3>1 DEF WorkerTypes
      <3>3. y # Idle => y.request \in 1..Len(requests) BY <3>2, RequestOf
      <3>4. Holds(y, x)' => y # Idle /\ y.request = x BY DEF Holds, RunsCallback, Idle
      <3>5. ~Holds(y, x)' BY <1>1, <1>2, <3>3, <3>4
      <3> QED BY <3>1, <3>5
    <2> QED BY <2>1, <2>2, <2>3 DEF InHand
  <1>8. /\ \A m, s : LiveAt(m, s)' <=> LiveAt(m, s) \/ (m = x /\ s = r)
        /\ Due(x)' = 1 /\ requests'[x].worker = w /\ x \notin 1..Len(requests)
        /\ \A m \in 1..Len(requests) : Due(m)' = Due(m) /\ requests'[m].worker = requests[m].worker
    <2>1. \A m \in 1..Len(requests) : (Live(m)' <=> Live(m)) /\ Due(m)' = Due(m) BY <1>6
    <2>2. Live(x)' BY <1>1, <1>2 DEF Live
    <2>3. Due(x)' = 1 BY <1>1, <1>2, <1>7 DEF Due
    <2>4. x \notin 1..Len(requests) /\ x \in 1..Len(requests') /\ requests'[x] = request BY <1>1, <1>2
    <2>5. \A m, s : LiveAt(m, s)' <=> LiveAt(m, s) \/ (m = x /\ s = r)
      <3> SUFFICES ASSUME NEW m, NEW s PROVE LiveAt(m, s)' <=> LiveAt(m, s) \/ (m = x /\ s = r) OBVIOUS
      <3>1. CASE m = x BY <2>2, <2>4, <3>1 DEF LiveAt
      <3>2. CASE m # x
        <4>1. m \in 1..Len(requests') <=> m \in 1..Len(requests) BY <1>1, <1>2, <3>2
        <4> QED BY <1>1, <2>1, <3>2, <4>1 DEF LiveAt
      <3> QED BY <3>1, <3>2
    <2> QED BY <1>1, <2>1, <2>3, <2>4, <2>5
  <1>9. /\ Head(work[w]) = work[w][1] /\ Len(work[w]) \in Nat \ {0}
        /\ \A v, s : \A p \in Nat : QueuedAt(v, p, s)' <=> p # 0 /\ QueuedAt(v, Later(w, v, p), s)
    BY QueuedLess DEF ParentTypes
  <1>10. QueuedAt(w, 1, r) BY <1>9 DEF QueuedAt
  <1>11. \A v : \A p, q \in Nat : /\ Later(w, v, p) \in Nat /\ (v = w /\ p # 0 => Later(w, v, p) # 1)
                              /\ (Later(w, v, p) = Later(w, v, q) => p = q)
    BY DEF Later
  <1>12. /\ r \notin Got /\ \A n \in Nat : ~LiveAt(n, r) /\ \A v \in Workers, q \in Nat : ~WordAt(lab, v, q, r)
         /\ \A v \in Workers, q \in Nat : QueuedAt(v, q, r) => v = w /\ q = 1
         /\ \A k \in Kept(r) : file[<<r, k>>] = 0 /\ \A v \in Workers, q \in Nat : ~RowAt(v, q, r, k)
    BY <1>10 DEF LabInv, QueuedApart, QueuedOnce, QueuedClean
  <1>13. \A v \in Workers, p \in Nat : ~QueuedAt(v, p, r)' BY <1>9, <1>11, <1>12
  <1>14. /\ \A v, p, s, j : RowAt(v, p, s, j)' <=> RowAt(v, p, s, j)
         /\ \A v, p, s : WordAt(lab, v, p, s)' <=> WordAt(lab, v, p, s)
         /\ \A v, p, s : EndAt(lab, v, p, s)' <=> EndAt(lab, v, p, s)
    BY SameWires
  <1>15. Labels(lab, Got)' BY DEF LabInv, Labels, LabelTypes
  <1>16. QueuedOnce' BY <1>9, <1>11 DEF LabInv, QueuedOnce
  <1>17. LiveOnce' BY <1>8, <1>12 DEF LabInv, LiveOnce
  <1>18. WordOnce(lab)' BY <1>14 DEF LabInv, WordOnce
  <1>19. QueuedApart(lab, Got)'
    <2> SUFFICES ASSUME NEW s \in Ranges, NEW v \in Workers, NEW p \in Nat, QueuedAt(v, p, s)'
                 PROVE  /\ s \notin Got /\ \A n \in Nat : ~LiveAt(n, s)'
                        /\ \A u \in Workers, q \in Nat : ~WordAt(lab, u, q, s)'
      BY DEF QueuedApart
    <2>1. s # r BY <1>13
    <2>2. QueuedAt(v, Later(w, v, p), s) /\ Later(w, v, p) \in Nat BY <1>9, <1>11
    <2>3. /\ s \notin Got /\ \A n \in Nat : ~LiveAt(n, s) /\ \A u \in Workers, q \in Nat : ~WordAt(lab, u, q, s)
      BY <2>2 DEF LabInv, QueuedApart
    <2> QED BY <1>8, <1>14, <2>1, <2>3
  <1>20. LiveApart(lab, Got)'
    <2> SUFFICES ASSUME NEW s \in Ranges, NEW m \in Nat, LiveAt(m, s)'
                 PROVE  s \notin Got /\ \A v \in Workers, q \in Nat : ~WordAt(lab, v, q, s)'
      BY DEF LiveApart
    <2>1. LiveAt(m, s) \/ s = r BY <1>8
    <2>2. s \notin Got /\ \A v \in Workers, q \in Nat : ~WordAt(lab, v, q, s)
      BY <1>12, <2>1 DEF LabInv, LiveApart
    <2> QED BY <1>14, <2>2
  <1>21. WordApart(lab, Got)' BY <1>14 DEF LabInv, WordApart
  <1>22. RowOnce' /\ RowNew' /\ FileOnce' BY <1>14 DEF LabInv, RowOnce, RowNew, FileOnce
  <1>23. QueuedClean' BY <1>9, <1>11, <1>14 DEF LabInv, QueuedClean
  <1>24. \A m, s : LiveAt(m, s) => m \in 1..Len(requests) BY DEF LiveAt
  <1>25. LiveAhead'
    <2> SUFFICES ASSUME NEW s \in Ranges, NEW m \in Nat, LiveAt(m, s)', NEW k \in Kept(s)
                 PROVE  /\ k >= Due(m)' => file'[<<s, k>>] = 0
                        /\ \A v \in Workers, q \in Nat : RowAt(v, q, s, k)' => v = requests'[m].worker /\ k < Due(m)'
      BY DEF LiveAhead
    <2>1. CASE LiveAt(m, s)
      <3>1. Due(m)' = Due(m) /\ requests'[m].worker = requests[m].worker BY <1>8, <1>24, <2>1
      <3>2. /\ k >= Due(m) => file[<<s, k>>] = 0
            /\ \A v \in Workers, q \in Nat : RowAt(v, q, s, k) => v = requests[m].worker /\ k < Due(m)
        BY <2>1 DEF LabInv, LiveAhead
      <3>3. \A v \in Workers, q \in Nat : RowAt(v, q, s, k)' => RowAt(v, q, s, k) BY <1>14
      <3> QED BY <3>1, <3>2, <3>3
    <2>2. CASE m = x /\ s = r
      <3>1. file[<<s, k>>] = 0 /\ \A v \in Workers, q \in Nat : ~RowAt(v, q, s, k) BY <1>12, <2>2
      <3>2. \A v \in Workers, q \in Nat : ~RowAt(v, q, s, k)' BY <1>14, <3>1
      <3> QED BY <3>1, <3>2
    <2> QED BY <1>8, <2>1, <2>2
  <1>26. WordsLast(lab)' BY <1>14 DEF LabInv, WordsLast
  <1>27. \A s, j, v, p : Delivered(s, j, v, p)' <=> Delivered(s, j, v, p) BY <1>14 DEF Delivered
  <1>28. LiveBehind'
    <2> SUFFICES ASSUME NEW s \in Ranges, NEW m \in Nat, LiveAt(m, s)', requests'[m].worker \in alive,
                        NEW j \in Kept(s), j < Due(m)'
                 PROVE  Delivered(s, j, requests'[m].worker, Len(results[requests'[m].worker]) + 1)
      BY <1>27 DEF LiveBehind
    <2>1. m # x
      <3>1. \A i \in Kept(s) : ~(i < 1) BY DEF Kept, PagesOf
      <3> QED BY <1>8, <3>1
    <2> QED BY <1>8, <1>24, <2>1 DEF LabInv, LiveBehind
  <1>29. EndsWhole(lab)' BY <1>14, <1>27 DEF LabInv, EndsWhole
  <1>30. GotWhole(Got)' BY DEF LabInv, GotWhole, Written
  <1> QED BY <1>15, <1>16, <1>17, <1>18, <1>19, <1>20, <1>21, <1>22, <1>23, <1>25, <1>26, <1>28, <1>29, <1>30 DEF LabInv

(* A worker dies: the end of its wire is lost.                             *)
LEMMA WireCut ==
    ASSUME WorkerTypes, NEW lab, NEW Got, LabInv(lab, Got), NEW w \in Workers, NEW n \in 0..Len(results[w]),
           results' = [results EXCEPT ![w] = SubSeq(@, 1, n)], alive' = alive \ {w},
           UNCHANGED <<file, info, succeeded, work, requests, main, loop>>
    PROVE  LabInv(CutTags(lab, w, n), Got)'
  <1> DEFINE tags == CutTags(lab, w, n)
  <1>0. \A s : Kept(s)' = Kept(s) BY SameKept
  <1> USE <1>0
  <1>1. LabelTypes(lab) BY DEF LabInv, Labels
  <1>2. /\ LabelTypes(tags)'
        /\ \A v \in Workers : v # w => results'[v] = results[v]
        /\ \A v, p, s, k : RowAt(v, p, s, k)' <=> RowAt(v, p, s, k) /\ (v = w => p <= n)
        /\ \A v, p, s : WordAt(tags, v, p, s)' <=> WordAt(lab, v, p, s) /\ (v = w => p <= n)
        /\ \A v, p, s : EndAt(tags, v, p, s)' <=> EndAt(lab, v, p, s) /\ (v = w => p <= n)
    BY <1>1, Dropped
  <1> HIDE DEF tags
  <1>3. /\ \A m, s : LiveAt(m, s)' <=> LiveAt(m, s)
        /\ \A m : Due(m)' = Due(m)
        /\ \A v, p, s : QueuedAt(v, p, s)' <=> QueuedAt(v, p, s)
    BY SameRequests, SameQueues
  <1>4. Labels(tags, Got)' BY <1>2 DEF LabInv, Labels
  <1>5. QueuedOnce' /\ LiveOnce' /\ WordOnce(tags)'
    BY <1>2, <1>3 DEF LabInv, QueuedOnce, LiveOnce, WordOnce
  <1>6. QueuedApart(tags, Got)' /\ LiveApart(tags, Got)' /\ WordApart(tags, Got)'
    BY <1>2, <1>3 DEF LabInv, QueuedApart, LiveApart, WordApart
  <1>7. RowOnce' /\ RowNew' /\ FileOnce' BY <1>2 DEF LabInv, RowOnce, RowNew, FileOnce
  <1>8. QueuedClean' BY <1>2, <1>3 DEF LabInv, QueuedClean
  <1>9. LiveAhead' BY <1>2, <1>3 DEF LabInv, LiveAhead
  <1>10. WordsLast(tags)' BY <1>2 DEF LabInv, WordsLast
  <1>11. ASSUME NEW s, NEW k, NEW v \in Workers, v # w, NEW p, Delivered(s, k, v, p)
         PROVE  Delivered(s, k, v, p)'
    BY <1>2, <1>11 DEF Delivered
  <1>12. LiveBehind'
    <2> SUFFICES ASSUME NEW s \in Ranges, NEW m \in Nat, LiveAt(m, s), requests[m].worker \in alive \ {w},
                        NEW k \in Kept(s), k < Due(m)
                 PROVE  Delivered(s, k, requests[m].worker, Len(results[requests[m].worker]) + 1)'
      BY <1>3 DEF LiveBehind
    <2>1. m \in 1..Len(requests) BY DEF LiveAt
    <2>2. PICK v \in Workers : v = requests[m].worker BY <2>1, RequestAt
    <2>3. PICK x : x = Len(results[v]) + 1 OBVIOUS
    <2>4. Delivered(s, k, v, x) BY <2>2, <2>3 DEF LabInv, LiveBehind
    <2>5. Delivered(s, k, v, x)' BY <1>11, <2>2, <2>4
    <2>6. x = Len(results'[v]) + 1 BY <1>2, <2>2, <2>3
    <2> QED BY <2>2, <2>5, <2>6 DEF Delivered
  <1>13. EndsWhole(tags)'
    <2> SUFFICES ASSUME NEW s \in Ranges, NEW v \in Workers, NEW p \in Nat, EndAt(tags, v, p, s)', NEW k \in Kept(s)
                 PROVE  Delivered(s, k, v, p)'
      BY DEF EndsWhole
    <2>1. EndAt(lab, v, p, s) /\ (v = w => p <= n) BY <1>2
    <2>2. Delivered(s, k, v, p) BY <2>1 DEF LabInv, EndsWhole
    <2>3. n \in Nat BY <1>1 DEF LabelTypes
    <2>4. \A q \in Nat : q < p /\ p <= n => q <= n BY <2>3
    <2> QED BY <1>2, <2>1, <2>2, <2>4 DEF Delivered
  <1>14. GotWhole(Got)' BY DEF LabInv, GotWhole, Written
  <1>15. LabInv(tags, Got)'
    BY <1>4, <1>5, <1>6, <1>7, <1>8, <1>9, <1>10, <1>12, <1>13, <1>14 DEF LabInv
  <1> QED BY <1>15 DEF tags

(* The steps of the parent.                                                *)
LEMMA MessageKinds ==
    ASSUME NEW msg \in Messages
    PROVE  \/ msg = EndMsg /\ msg.kind = "end"
           \/ \E r \in Ranges : msg = Error(r) /\ msg.kind = "error" /\ msg.range = r
           \/ \E r \in Ranges : \E k \in PagesOf(r) :
                 msg = RowsMsg(r, k) /\ msg.kind = "rows" /\ msg.range = r /\ msg.page = k
  <1>1. \A p \in FileIndex : \E r \in Ranges : \E k \in PagesOf(r) : p[1] = r /\ p[2] = k
    BY DEF FileIndex
  <1>2. msg = EndMsg \/ (\E r \in Ranges : msg = Error(r)) \/ \E p \in FileIndex : msg = RowsMsg(p[1], p[2])
    BY DEF Messages
  <1>3. EndMsg.kind = "end" BY DEF EndMsg
  <1>4. \A r : Error(r).kind = "error" /\ Error(r).range = r BY DEF Error
  <1>5. \A r, k : RowsMsg(r, k).kind = "rows" /\ RowsMsg(r, k).range = r /\ RowsMsg(r, k).page = k BY DEF RowsMsg
  <1> QED BY <1>1, <1>2, <1>3, <1>4, <1>5

LEMMA InfoTypes ==
    ASSUME NEW x \in [attempts : Nat, rows : Nat, worker : Workers], NEW u \in Workers
    PROVE  /\ [x EXCEPT !.attempts = @ + 1, !.worker = u] \in [attempts : Nat, rows : Nat, worker : Workers]
           /\ [x EXCEPT !.rows = @ + 1] \in [attempts : Nat, rows : Nat, worker : Workers]
  <1>1. x.attempts + 1 \in Nat /\ x.rows + 1 \in Nat OBVIOUS
  <1>2. [x EXCEPT !.attempts = x.attempts + 1] \in [attempts : Nat, rows : Nat, worker : Workers] BY <1>1
  <1> QED BY <1>1, <1>2

LEMMA ReceiveStep ==
    ASSUME ExportAssumption, WorkerTypes, ExportInv, NEW w \in Workers, Receive(w)
    PROVE  ExportInv'
  <1>1. ParentTypes BY DEF ExportInv
  <1>2. PICK lab, Got : LabInv(lab, Got) BY DEF ExportInv
  <1>3. /\ w \in sweep /\ sweep' = sweep \ {w} /\ results' = [results EXCEPT ![w] = Tail(@)]
        /\ UNCHANGED <<phase, alive, sessions, requests, main, loop, faults>>
    BY DEF Receive, workerVars
  <1>4. results[w] # <<>> BY <1>1, <1>3 DEF ParentTypes
  <1>5. PICK msg \in Messages : msg = Head(results[w])
    <2>1. results[w] \in Seq(Messages) BY <1>1 DEF ParentTypes
    <2> QED BY <1>4, <2>1, TailAt
  <1>6. msg = results[w][1]
    <2>1. results[w] \in Seq(Messages) BY <1>1 DEF ParentTypes
    <2> QED BY <1>4, <1>5, <2>1, TailAt
  <1>7. /\ msg.kind = "end" => Finished
        /\ msg.kind = "error" => Failed(msg.range)
        /\ msg.kind = "rows" => Write(msg.range, msg.page)
    <2>1. (CASE msg.kind = "end" -> Finished
             [] msg.kind = "error" -> Failed(msg.range)
             [] msg.kind = "rows" -> Write(msg.range, msg.page))
      BY <1>5 DEF Receive
    <2> QED BY <2>1
  <1>8. sweep' \subseteq {v \in Workers : results'[v] # <<>>}
    BY <1>1, <1>3 DEF ParentTypes
  <1>9. CASE msg = EndMsg /\ msg.kind = "end"
    <2>1. Finished BY <1>7, <1>9
    <2>2. LabInv(Untagged(lab, w), Got \cup {lab[w][1]})'
      BY <1>1, <1>2, <1>3, <1>4, <1>6, <1>9, <2>1, EndTaken
    <2>3. results' \in [Workers -> Seq(Messages)] BY <2>2 DEF LabInv, Labels, LabelTypes
    <2>4. ParentTypes' BY <1>1, <1>3, <1>8, <2>1, <2>3 DEF ParentTypes, Finished
    <2>5. PICK tags, All : tags = Untagged(lab, w) /\ All = Got \cup {lab[w][1]} OBVIOUS
    <2>6. LabInv(tags, All)' BY <2>2, <2>5
    <2> QED BY <2>4, <2>6 DEF ExportInv
  <1>10. ASSUME NEW r \in Ranges, msg = Error(r), msg.kind = "error", msg.range = r PROVE ExportInv'
    <2>1. Failed(r) BY <1>7, <1>10
    <2>2. CASE Retryable(r)
      <3>1. Retry(r) BY <2>1, <2>2 DEF Failed
      <3>2. LabInv(Untagged(lab, w), Got)' BY <1>1, <1>2, <1>3, <1>4, <1>6, <1>10, <2>2, <3>1, RetryTaken
      <3>3. results' \in [Workers -> Seq(Messages)] BY <3>2 DEF LabInv, Labels, LabelTypes
      <3>4. PICK u \in Workers : u = NextWorker(info[r].worker)
        <4>1. info[r].worker \in Workers BY <1>1 DEF ParentTypes
        <4> QED BY <4>1, NextWorkerType
      <3>5. /\ info' = [info EXCEPT ![r].attempts = @ + 1, ![r].worker = u]
            /\ work' = [work EXCEPT ![u] = Append(@, r)] /\ UNCHANGED <<succeeded, file>>
        BY <3>1, <3>4 DEF Retry
      <3>6. work' \in [Workers -> Seq(Ranges \cup {Pill})] BY <1>1, <3>5, QueuedMore DEF ParentTypes
      <3>7. info' \in [Ranges -> [attempts : Nat, rows : Nat, worker : Workers]]
        <4>1. info \in [Ranges -> [attempts : Nat, rows : Nat, worker : Workers]] BY <1>1 DEF ParentTypes
        <4>2. info' = [info EXCEPT ![r] = [info[r] EXCEPT !.attempts = @ + 1, !.worker = u]] BY <3>5, <4>1
        <4>3. [info[r] EXCEPT !.attempts = @ + 1, !.worker = u] \in [attempts : Nat, rows : Nat, worker : Workers]
          BY <4>1, InfoTypes
        <4> QED BY <4>1, <4>2, <4>3
      <3>8. ParentTypes' BY <1>1, <1>3, <1>8, <3>3, <3>5, <3>6, <3>7 DEF ParentTypes
      <3>9. PICK tags : tags = Untagged(lab, w) OBVIOUS
      <3>10. LabInv(tags, Got)' BY <3>2, <3>9
      <3> QED BY <3>8, <3>10 DEF ExportInv
    <2>3. CASE ~Retryable(r)
      <3>1. UNCHANGED <<info, succeeded, file, work>> BY <2>1, <2>3 DEF Failed, GiveUp
      <3>2. LabInv(Untagged(lab, w), Got)' BY <1>1, <1>2, <1>3, <1>4, <1>6, <1>10, <3>1, GiveUpTaken
      <3>3. results' \in [Workers -> Seq(Messages)] BY <3>2 DEF LabInv, Labels, LabelTypes
      <3>4. ParentTypes' BY <1>1, <1>3, <1>8, <3>1, <3>3 DEF ParentTypes
      <3>5. PICK tags : tags = Untagged(lab, w) OBVIOUS
      <3>6. LabInv(tags, Got)' BY <3>2, <3>5
      <3> QED BY <3>4, <3>6 DEF ExportInv
    <2> QED BY <2>2, <2>3
  <1>11. ASSUME NEW r \in Ranges, NEW k \in PagesOf(r), msg = RowsMsg(r, k), msg.kind = "rows", msg.range = r, msg.page = k
         PROVE  ExportInv'
    <2>1. Write(r, k) BY <1>7, <1>11
    <2>2. LabInv(Untagged(lab, w), Got)' BY <1>1, <1>2, <1>3, <1>4, <1>6, <1>11, <2>1, RowsTaken, RacedTaken
    <2>3. results' \in [Workers -> Seq(Messages)] BY <2>2 DEF LabInv, Labels, LabelTypes
    <2>4. /\ file' = [file EXCEPT ![<<r, k>>] = @ + 1] /\ info' = [info EXCEPT ![r].rows = @ + 1]
          /\ UNCHANGED <<succeeded, work>>
      BY <2>1 DEF Write
    <2>5. file' \in [FileIndex -> Nat]
      <3>1. <<r, k>> \in FileIndex BY DEF FileIndex
      <3>2. file[<<r, k>>] \in Nat BY <1>1, <3>1 DEF ParentTypes
      <3> QED BY <1>1, <2>4, <3>1, <3>2 DEF ParentTypes
    <2>6. info' \in [Ranges -> [attempts : Nat, rows : Nat, worker : Workers]]
      <3>1. info \in [Ranges -> [attempts : Nat, rows : Nat, worker : Workers]] BY <1>1 DEF ParentTypes
      <3>2. info' = [info EXCEPT ![r] = [info[r] EXCEPT !.rows = @ + 1]] BY <2>4, <3>1
      <3>3. [info[r] EXCEPT !.rows = @ + 1] \in [attempts : Nat, rows : Nat, worker : Workers] BY <3>1, InfoTypes
      <3> QED BY <3>1, <3>2, <3>3
    <2>7. ParentTypes' BY <1>1, <1>3, <1>8, <2>3, <2>4, <2>5, <2>6 DEF ParentTypes
    <2>8. PICK tags : tags = Untagged(lab, w) OBVIOUS
    <2>9. LabInv(tags, Got)' BY <2>2, <2>8
    <2> QED BY <2>7, <2>9 DEF ExportInv
  <1> QED BY <1>9, <1>10, <1>11, MessageKinds

LEMMA QuietStep ==
    ASSUME ExportInv, UNCHANGED <<info, succeeded, file, results, requests, main, loop>>, alive' \subseteq alive,
           sweep' \subseteq {w \in Workers : results[w] # <<>>},
           work' \in [Workers -> Seq(Ranges \cup {Pill})],
           \A w, p, r : QueuedAt(w, p, r)' <=> QueuedAt(w, p, r)
    PROVE  ExportInv'
  <1>1. ParentTypes' BY DEF ExportInv, ParentTypes
  <1>2. PICK lab, Got : LabInv(lab, Got) BY DEF ExportInv
  <1>3. LabInv(lab, Got)' BY <1>2, StillStep, SameRequests, SameKept
  <1> QED BY <1>1, <1>3 DEF ExportInv

LEMMA ParentSteps ==
    ASSUME ExportAssumption, WorkerTypes, ExportInv, ParentStep \/ ChildTimeout
    PROVE  ExportInv'
  <1>1. ParentTypes BY DEF ExportInv
  <1>2. ASSUME NEW why, Leave(why), UNCHANGED <<results, requests, loop, alive, main>> PROVE ExportInv'
    <2>1. /\ UNCHANGED <<info, succeeded, file, sweep>>
          /\ work' = [w \in Workers |-> IF w \in alive THEN Append(work[w], Pill) ELSE work[w]]
      BY <1>2 DEF Leave
    <2>2. /\ work' \in [Workers -> Seq(Ranges \cup {Pill})]
          /\ \A v, p, s : QueuedAt(v, p, s)' <=> QueuedAt(v, p, s)
      BY <1>1, <2>1, QueuedPills DEF ParentTypes
    <2> QED BY <1>1, <1>2, <2>1, <2>2, QuietStep DEF ParentTypes
  <1>3. CASE Select
    <2>1. /\ sweep' = {w \in Workers : results[w] # <<>>}
          /\ UNCHANGED <<info, succeeded, file, work, results, requests, loop, alive, main>>
      BY <1>3 DEF Select, workerVars
    <2> QED BY <1>1, <2>1, QuietStep, SameQueues DEF ParentTypes
  <1>4. CASE \E w \in Workers : Receive(w) BY <1>4, ReceiveStep
  <1>5. CASE Done BY <1>2, <1>5 DEF Done, Leave, workerVars
  <1>6. CASE ChildDied BY <1>2, <1>6 DEF ChildDied, Leave, workerVars
  <1>7. CASE ChildTimeout BY <1>2, <1>7 DEF ChildTimeout, Leave, workerVars
  <1>8. CASE Close
    <2>1. alive' = {} /\ UNCHANGED <<info, succeeded, file, sweep, work, results, requests, loop, main>>
      BY <1>8 DEF Close
    <2> QED BY <1>1, <2>1, QuietStep, SameQueues DEF ParentTypes
  <1> QED BY <1>3, <1>4, <1>5, <1>6, <1>7, <1>8 DEF ParentStep

LEMMA SentTypes ==
    ASSUME ParentTypes, NEW w \in Workers, NEW msg, Send(w, msg), UNCHANGED <<info, succeeded, file, alive, sweep>>,
           work' \in [Workers -> Seq(Ranges \cup {Pill})], NEW lab, LabelTypes(lab)'
    PROVE  ParentTypes'
  <1>1. results' \in [Workers -> Seq(Messages)] /\ results' = [results EXCEPT ![w] = Append(@, msg)]
    BY DEF LabelTypes, Send
  <1>2. \A v \in Workers : results[v] # <<>> => results'[v] # <<>>
    <2>1. results \in [Workers -> Seq(Messages)] BY DEF ParentTypes
    <2>2. results'[w] = Append(results[w], msg) /\ \A v \in Workers : v # w => results'[v] = results[v]
      BY <1>1, <2>1
    <2>3. results[w] \in Seq(Messages) /\ results'[w] \in Seq(Messages) BY <1>1, <2>1
    <2>4. Len(results'[w]) = Len(results[w]) + 1 /\ Len(results[w]) \in Nat BY <2>2, <2>3
    <2>5. results'[w] # <<>> BY <2>3, <2>4
    <2> QED BY <2>2, <2>5
  <1> QED BY <1>1, <1>2 DEF ParentTypes

-----------------------------------------------------------------------------
(* The steps of a worker.                                                  *)
LEMMA KeptShrinks ==
    ASSUME WorkerTypes, WorkerTypes', Grown
    PROVE  \A r : Kept(r)' \subseteq Kept(r)
  <1>1. DOMAIN requests = 1..Len(requests) /\ DOMAIN requests' = 1..Len(requests') BY DEF WorkerTypes
  <1>2. \A r, k : Raced(r, k) => Raced(r, k)' BY <1>1 DEF Grown, Raced
  <1> QED BY <1>2 DEF Kept

LEMMA StartStep ==
    ASSUME ExportAssumption, WorkerTypes, ExportInv, NEW w \in Workers, NEW r \in Ranges, NEW h \in Hosts,
           StartRequest(w, r, h)
    PROVE  ExportInv'
  <1>1. ParentTypes BY DEF ExportInv
  <1>2. PICK lab, Got : LabInv(lab, Got) BY DEF ExportInv
  <1>3. PICK request, next :
           /\ request = [worker |-> w, range |-> r, host |-> h, page |-> 1, open |-> TRUE, raced |-> {}]
           /\ next = [do |-> "attach", request |-> Len(requests) + 1]
    OBVIOUS
  <1>4. /\ work[w] # <<>> /\ r = Head(work[w]) /\ work' = [work EXCEPT ![w] = Tail(@)] /\ main[w] = Idle
        /\ UNCHANGED <<info, succeeded, failed, phase, sweep, file, alive, results, loop>>
        /\ requests' = Append(requests, request) /\ main' = [main EXCEPT ![w] = next]
    BY <1>3 DEF StartRequest, Take, WorkerStep, parentVars
  <1>5. /\ request \in Requests /\ request.range = r /\ request.page = 1 /\ request.open /\ request.worker = w
        /\ request.raced = {} /\ next.do = "attach"
    BY <1>3 DEF Requests
  <1>6. LabInv(lab, Got)' BY <1>1, <1>2, <1>4, <1>5, RangeAsked
  <1>7. work' \in [Workers -> Seq(Ranges \cup {Pill})] BY <1>1, <1>4, QueuedLess DEF ParentTypes
  <1>8. ParentTypes' BY <1>1, <1>4, <1>7 DEF ParentTypes
  <1> QED BY <1>6, <1>8 DEF ExportInv

LEMMA NoSessionStep ==
    ASSUME ExportAssumption, WorkerTypes, ExportInv, NEW w \in Workers, NEW r \in Ranges, NoSession(w, r)
    PROVE  ExportInv'
  <1>1. ParentTypes BY DEF ExportInv
  <1>2. PICK lab, Got : LabInv(lab, Got) BY DEF ExportInv
  <1>3. /\ work[w] # <<>> /\ r = Head(work[w]) /\ work' = [work EXCEPT ![w] = Tail(@)]
        /\ Send(w, Error(r))
        /\ UNCHANGED <<info, succeeded, failed, phase, sweep, file, alive, loop, requests, main>>
    BY DEF NoSession, Take, WorkerStep, parentVars
  <1>4. Error(r) \in Messages /\ Error(r).kind = "error" /\ Error(r).range = r /\ Error(r) # EndMsg
    <2>1. Error(r).kind = "error" /\ Error(r).range = r /\ EndMsg.kind = "end" BY DEF Error, EndMsg
    <2> QED BY <2>1 DEF Messages
  <1>5. /\ work' \in [Workers -> Seq(Ranges \cup {Pill})] /\ Head(work[w]) = work[w][1] /\ Len(work[w]) \in Nat \ {0}
        /\ \A v, s : \A p \in Nat : QueuedAt(v, p, s)' <=> p # 0 /\ QueuedAt(v, Later(w, v, p), s)
    BY <1>1, <1>3, QueuedLess DEF ParentTypes
  <1>6. QueuedAt(w, 1, r) BY <1>3, <1>5 DEF QueuedAt
  <1>7. \A v : \A p, q \in Nat : /\ Later(w, v, p) \in Nat /\ (v = w /\ p # 0 => Later(w, v, p) # 1)
                              /\ (Later(w, v, p) = Later(w, v, q) => p = q)
    BY DEF Later
  <1>8. /\ r \notin Got /\ \A n \in Nat : ~LiveAt(n, r) /\ \A v \in Workers, q \in Nat : ~WordAt(lab, v, q, r)
        /\ \A v \in Workers, q \in Nat : QueuedAt(v, q, r) => v = w /\ q = 1
        /\ \A k \in Kept(r) : \A v \in Workers, q \in Nat : ~RowAt(v, q, r, k)
    BY <1>2, <1>6 DEF LabInv, QueuedApart, QueuedOnce, QueuedClean
  <1>9. QueuedOnce' BY <1>2, <1>5, <1>7 DEF LabInv, QueuedOnce
  <1>10. \A v, s : \A p \in Nat : QueuedAt(v, p, s)' => s # r /\ \E q \in Nat : QueuedAt(v, q, s)
    <2>1. \A v, p, s : QueuedAt(v, p, s) => v \in Workers BY DEF QueuedAt
    <2> QED BY <1>5, <1>7, <1>8, <2>1
  <1>11. \A n, s : LiveAt(n, s)' => LiveAt(n, s) /\ s # r /\ Due(n)' = Due(n)
    <2>1. (\A n, s : LiveAt(n, s)' <=> LiveAt(n, s)) /\ \A n : Due(n)' = Due(n) BY <1>3, SameRequests
    <2>2. \A n, s : LiveAt(n, s) => n \in Nat BY DEF LiveAt
    <2> QED BY <1>8, <2>1, <2>2
  <1>12. \A v, q : \A k \in Kept(r) : RowAt(v, q, r, k) => v = w
    <2>1. \A v, q, k : RowAt(v, q, r, k) => v \in Workers /\ q \in Nat BY DEF RowAt
    <2> QED BY <1>8, <2>1
  <1>13. LabInv(Tagged(lab, w, r), Got)'
    BY <1>1, <1>2, <1>3, <1>4, <1>8, <1>9, <1>10, <1>11, <1>12, WordSent
  <1>14. ParentTypes' BY <1>1, <1>3, <1>5, <1>13, SentTypes DEF LabInv, Labels
  <1>15. PICK tags : tags = Tagged(lab, w, r) OBVIOUS
  <1>16. LabInv(tags, Got)' BY <1>13, <1>15
  <1> QED BY <1>14, <1>16 DEF ExportInv

(* An answer is taken up.                                                  *)
LEMMA AnswerStep ==
    ASSUME ExportAssumption, WorkerTypes, WorkerTypes', Grown, ExportInv, NEW w \in Workers, NEW t, NEW n, NEW o,
           Finds(w, t, n, o), UNCHANGED <<parentVars, work, results, alive>>
    PROVE  ExportInv'
  <1>1. ParentTypes BY DEF ExportInv
  <1>2. PICK lab, Got : LabInv(lab, Got) BY DEF ExportInv
  <1>3. PICK cb, other, next : cb = Step(w, t) /\ other = Step(w, Others(t)) /\ next = Callback(n, o) OBVIOUS
  <1>4. /\ t \in {"main", "loop"} /\ n \in 1..Len(requests) /\ requests[n].worker = w /\ o \in {"rows", "error"}
        /\ requests[n].open /\ (cb = Idle \/ (cb.do \in {"attach", "errback"} /\ cb.request = n))
        /\ other # Idle /\ other.request = n => RacedWrite(other) \/ (t = "loop" /\ other.do = "errback")
        /\ Answered(n) /\ Becomes(w, t, next)
    BY <1>3 DEF Finds
  <1>5. /\ RequestGoesOn(w, n)
        /\ requests'[n].page = requests[n].page /\ requests'[n].raced = requests[n].raced /\ ~requests'[n].open
    BY <1>4, AnswerGoesOn
  <1>6. requests'[n].range = requests[n].range BY <1>5 DEF RequestGoesOn
  <1>7. next.request = n /\ next.do = o /\ next.page = requests[n].page BY <1>3 DEF Callback
  <1>8. StepTo(w, t, n, cb, next, other) BY <1>3, <1>4, <1>5, <1>7 DEF StepTo
  <1>9. ~Holds(other, n) /\ ~Holds(other, n)'
    <2>1. other = Idle \/ other.do = "errback" => ~RunsCallback(other) BY DEF RunsCallback, Idle
    <2>2. RacedWrite(other) /\ other.request = n => RacedWrite(other)' BY <1>5 DEF RacedWrite, More
    <2> QED BY <1>4, <2>1, <2>2 DEF Holds
  <1>10. ~Holds(cb, n)
    <2>1. ~RunsCallback(cb) BY <1>4 DEF RunsCallback, Idle
    <2> QED BY <2>1 DEF Holds
  <1>11. Holds(next, n)' BY <1>4, <1>7 DEF Holds, RunsCallback, RacedWrite
  <1>12. /\ \A m, s : m # n => (LiveAt(m, s)' <=> LiveAt(m, s))
         /\ \A s : LiveAt(n, s)' <=> s = requests[n].range /\ (requests'[n].open \/ Holds(next, n)')
         /\ \A s : LiveAt(n, s) <=> s = requests[n].range /\ (requests[n].open \/ Holds(cb, n))
         /\ \A m \in 1..Len(requests) : m # n => Due(m)' = Due(m)
         /\ Due(n)' = IF Holds(next, n)' THEN next.page + (IF next.do = "end" THEN 1 ELSE 0) ELSE requests'[n].page
         /\ Due(n) = IF Holds(cb, n) THEN cb.page + (IF cb.do = "end" THEN 1 ELSE 0) ELSE requests[n].page
    BY <1>8, <1>9, HandChange
  <1>13. \A m, s : LiveAt(m, s)' <=> LiveAt(m, s) BY <1>4, <1>11, <1>12
  <1>14. Due(n)' = Due(n)
    <2>1. Due(n)' = requests[n].page + 0 BY <1>4, <1>7, <1>11, <1>12
    <2>2. requests[n].page + 0 = requests[n].page BY <1>4, RequestAt
    <2> QED BY <1>10, <1>12, <2>1, <2>2
  <1>15. UNCHANGED <<info, succeeded, sweep, file, work, results, alive>> BY DEF parentVars
  <1>16. /\ \A r : Kept(r)' \subseteq Kept(r)
         /\ \A m \in 1..Len(requests) :
               requests'[m].worker = requests[m].worker /\ requests'[m].range = requests[m].range
    BY KeptShrinks DEF Grown
  <1>17. LabInv(lab, Got)' BY <1>2, <1>12, <1>13, <1>14, <1>15, <1>16, StillStep, SameQueues
  <1>18. ParentTypes' BY <1>1, <1>15 DEF ParentTypes
  <1> QED BY <1>17, <1>18 DEF ExportInv

(* A thread goes on that has no request in hand, before and after.         *)
LEMMA AsideStep ==
    ASSUME WorkerTypes, ExportInv, NEW w \in Workers, NEW t \in {"main", "loop"}, NEW cb, cb = Step(w, t), NEW next,
           Becomes(w, t, next), UNCHANGED <<requests, parentVars, work, results, alive>>,
           \A m : ~Holds(cb, m) /\ ~Holds(next, m)
    PROVE  ExportInv'
  <1>1. ParentTypes BY DEF ExportInv
  <1>2. PICK lab, Got : LabInv(lab, Got) BY DEF ExportInv
  <1>3. (\A n, r : LiveAt(n, r)' <=> LiveAt(n, r)) /\ \A n \in 1..Len(requests) : Due(n)' = Due(n) BY HandsKept
  <1>4. UNCHANGED <<info, succeeded, sweep, file, work, results, alive>> BY DEF parentVars
  <1>5. LabInv(lab, Got)' BY <1>2, <1>3, <1>4, StillStep, SameQueues, SameKept
  <1>6. ParentTypes' BY <1>1, <1>4 DEF ParentTypes
  <1> QED BY <1>5, <1>6 DEF ExportInv

(* A page that raced goes to the wire.                                     *)
LEMMA RacedSent ==
    ASSUME WorkerTypes, NEW lab, NEW Got, LabInv(lab, Got), NEW w \in Workers,
           NEW r \in Ranges, NEW k \in PagesOf(r), k \notin Kept(r), Send(w, RowsMsg(r, k)),
           UNCHANGED <<file, info, succeeded, alive, requests, work>>,
           \A m, s : LiveAt(m, s)' <=> LiveAt(m, s),
           \A m \in 1..Len(requests) : \A j \in Kept(requests[m].range) :
              (j < Due(m)' <=> j < Due(m)) /\ (j >= Due(m)' <=> j >= Due(m))
    PROVE  LabInv(Tagged(lab, w, r), Got)'
  <1> DEFINE tags == Tagged(lab, w, r)
             new == Len(results[w]) + 1
  <1>0. \A s : Kept(s)' = Kept(s) BY SameKept
  <1> USE <1>0
  <1>1. LabelTypes(lab) BY DEF LabInv, Labels
  <1>2. /\ LabelTypes(tags)' /\ Len(results[w]) \in Nat /\ Len(results'[w]) = Len(results[w]) + 1
        /\ \A v \in Workers : v # w => results'[v] = results[v]
        /\ \A v, p, s, j : RowAt(v, p, s, j)' <=> RowAt(v, p, s, j) \/ (v = w /\ p = new /\ RowsMsg(r, k) = RowsMsg(s, j))
        /\ \A v, p, s : WordAt(tags, v, p, s)' <=>
              WordAt(lab, v, p, s) \/ (v = w /\ p = new /\ RowsMsg(r, k).kind # "rows" /\ s = r)
        /\ \A v, p, s : EndAt(tags, v, p, s)' <=>
              EndAt(lab, v, p, s) \/ (v = w /\ p = new /\ RowsMsg(r, k) = EndMsg /\ s = r)
    <2>1. RowsMsg(r, k) \in Messages
      <3>1. <<r, k>> \in FileIndex BY DEF FileIndex
      <3> QED BY <3>1 DEF Messages
    <2>2. RowsMsg(r, k).kind # "error" BY DEF RowsMsg
    <2> QED BY <1>1, <2>1, <2>2, Sent
  <1>3. /\ \A v, p : \A s, j : j \in Kept(s) => (RowAt(v, p, s, j)' <=> RowAt(v, p, s, j))
        /\ \A v, p, s, j : RowAt(v, p, s, j) => RowAt(v, p, s, j)'
        /\ \A v, p, s : WordAt(tags, v, p, s)' <=> WordAt(lab, v, p, s)
        /\ \A v, p, s : EndAt(tags, v, p, s)' <=> EndAt(lab, v, p, s)
    <2>1. \A s, j : RowsMsg(r, k) = RowsMsg(s, j) <=> s = r /\ j = k
      <3>1. \A s, j : RowsMsg(s, j).range = s /\ RowsMsg(s, j).page = j BY DEF RowsMsg
      <3> QED BY <3>1
    <2>2. RowsMsg(r, k).kind = "rows" /\ RowsMsg(r, k) # EndMsg
      <3>1. RowsMsg(r, k).kind = "rows" /\ EndMsg.kind = "end" BY DEF RowsMsg, EndMsg
      <3> QED BY <3>1
    <2> QED BY <1>2, <2>1, <2>2
  <1> HIDE DEF tags, new
  <1>4. \A v, p, s : QueuedAt(v, p, s)' <=> QueuedAt(v, p, s) BY SameQueues
  <1>5. Labels(tags, Got)' BY <1>2 DEF LabInv, Labels
  <1>6. QueuedOnce' /\ LiveOnce' /\ WordOnce(tags)'
    BY <1>3, <1>4 DEF LabInv, QueuedOnce, LiveOnce, WordOnce
  <1>7. QueuedApart(tags, Got)' /\ LiveApart(tags, Got)' /\ WordApart(tags, Got)'
    BY <1>3, <1>4 DEF LabInv, QueuedApart, LiveApart, WordApart
  <1>8. RowOnce' /\ RowNew' /\ FileOnce' BY <1>3 DEF LabInv, RowOnce, RowNew, FileOnce
  <1>9. QueuedClean' BY <1>3, <1>4 DEF LabInv, QueuedClean
  <1>10. LiveAhead'
    <2> SUFFICES ASSUME NEW s \in Ranges, NEW m \in Nat, LiveAt(m, s), NEW j \in Kept(s)
                 PROVE  /\ j >= Due(m)' => file[<<s, j>>] = 0
                        /\ \A v \in Workers, q \in Nat : RowAt(v, q, s, j)' => v = requests[m].worker /\ j < Due(m)'
      BY DEF LiveAhead
    <2>1. /\ j >= Due(m) => file[<<s, j>>] = 0
          /\ \A v \in Workers, q \in Nat : RowAt(v, q, s, j) => v = requests[m].worker /\ j < Due(m)
      BY DEF LabInv, LiveAhead
    <2>2. m \in 1..Len(requests) /\ requests[m].range = s BY DEF LiveAt
    <2> QED BY <1>3, <2>1, <2>2
  <1>11. WordsLast(tags)' BY <1>3 DEF LabInv, WordsLast
  <1>12. ASSUME NEW s, NEW j, NEW v, NEW p, Delivered(s, j, v, p) PROVE Delivered(s, j, v, p)'
    BY <1>3, <1>12 DEF Delivered
  <1>13. LiveBehind'
    <2> SUFFICES ASSUME NEW s \in Ranges, NEW m \in Nat, LiveAt(m, s), requests[m].worker \in alive,
                        NEW j \in Kept(s), j < Due(m)'
                 PROVE  Delivered(s, j, requests[m].worker, Len(results[requests[m].worker]) + 1)'
      BY DEF LiveBehind
    <2>1. m \in 1..Len(requests) /\ requests[m].range = s BY DEF LiveAt
    <2>2. PICK v \in Workers : v = requests[m].worker BY <2>1, RequestAt
    <2>3. Len(results[v]) \in Nat /\ Len(results'[v]) \in Nat /\ Len(results'[v]) >= Len(results[v])
      <3>1. Len(results[v]) \in Nat BY <1>1 DEF LabelTypes
      <3>2. CASE v = w BY <1>2, <3>2
      <3>3. CASE v # w BY <1>2, <3>1, <3>3
      <3> QED BY <3>1, <3>2, <3>3
    <2>4. PICK x \in Nat : x = Len(results'[v]) + 1 BY <2>3
    <2>5. \A q \in Nat : q < Len(results[v]) + 1 => q < x BY <2>3, <2>4
    <2>6. j < Due(m) BY <2>1
    <2>7. Delivered(s, j, v, Len(results[v]) + 1) BY <2>2, <2>6 DEF LabInv, LiveBehind
    <2>8. Delivered(s, j, v, x) BY <2>5, <2>7 DEF Delivered
    <2>9. Delivered(s, j, v, x)' BY <1>12, <2>8
    <2> QED BY <2>2, <2>4, <2>9 DEF Delivered
  <1>14. EndsWhole(tags)' BY <1>3, <1>12 DEF LabInv, EndsWhole
  <1>15. GotWhole(Got)' BY DEF LabInv, GotWhole, Written
  <1>16. LabInv(tags, Got)'
    BY <1>5, <1>6, <1>7, <1>8, <1>9, <1>10, <1>11, <1>13, <1>14, <1>15 DEF LabInv
  <1> QED BY <1>16 DEF tags

(* A range ends, well or with an error: nothing of it stays with the       *)
(* worker, but for pages that raced.                                       *)
LEMMA RangeEnded ==
    ASSUME ExportAssumption, WorkerTypes, ExportInv, NEW w \in Workers, w \in alive, NEW t \in {"main", "loop"},
           NEW cb, cb = Step(w, t), cb.do \in {"error", "end"},
           NEW msg \in Messages, msg.kind # "rows", msg.kind = "error" => msg.range = cb.range,
           msg = EndMsg => cb.do = "end", Send(w, msg),
           NEW next \in {Idle, Returned(t, cb)}, Becomes(w, t, next),
           UNCHANGED <<info, succeeded, sweep, file, alive, work, requests>>
    PROVE  ExportInv'
  <1>1. ParentTypes BY DEF ExportInv
  <1>2. PICK lab, Got : LabInv(lab, Got) BY DEF ExportInv
  <1>3. PICK n, r, other : n = cb.request /\ r = cb.range /\ other = Step(w, Others(t)) OBVIOUS
  <1>4. RunsCallback(cb) /\ ~RacedWrite(cb) BY DEF RunsCallback, RacedWrite
  <1>5. /\ Holds(cb, n) /\ ~Holds(other, n)
        /\ n \in 1..Len(requests) /\ requests[n].worker = w /\ requests[n].range = r /\ r \in Ranges
        /\ cb.page \in Nat \ {0} /\ Pages[r] \in Nat
        /\ ~requests[n].open
        /\ cb.do = "end" => ~More(cb)
    BY <1>3, <1>4, Alone
  <1>6. next = Idle \/ (next.do = "errback" /\ next.request = n)
    BY <1>3, <1>5, ReturnFits
  <1>7. ~RunsCallback(next) BY <1>6 DEF RunsCallback, Idle
  <1>8. StepTo(w, t, n, cb, next, other) BY <1>3, <1>5, <1>6, StillGoesOn DEF StepTo
  <1>9. ~Holds(next, n)' /\ ~Holds(other, n)' BY <1>5, <1>7 DEF Holds, RacedWrite
  <1>10. /\ \A m, s : m # n => (LiveAt(m, s)' <=> LiveAt(m, s))
         /\ \A s : LiveAt(n, s)' <=> s = requests[n].range /\ (requests'[n].open \/ Holds(next, n)')
         /\ \A s : LiveAt(n, s) <=> s = requests[n].range /\ (requests[n].open \/ Holds(cb, n))
         /\ \A m \in 1..Len(requests) : m # n => Due(m)' = Due(m)
         /\ Due(n) = IF Holds(cb, n) THEN cb.page + (IF cb.do = "end" THEN 1 ELSE 0) ELSE requests[n].page
    BY <1>5, <1>8, <1>9, HandChange
  <1>11. (\A s : ~LiveAt(n, s)') /\ LiveAt(n, r) BY <1>5, <1>9, <1>10
  <1>12. /\ r \notin Got /\ \A v \in Workers, q \in Nat : ~WordAt(lab, v, q, r)
         /\ \A v \in Workers, q \in Nat : ~QueuedAt(v, q, r)
         /\ \A m \in Nat : LiveAt(m, r) => m = n
         /\ \A k \in Kept(r) : \A v \in Workers, q \in Nat : RowAt(v, q, r, k) => v = w
    <2>1. n \in Nat /\ LiveAt(n, r) /\ r \in Ranges /\ requests[n].worker = w BY <1>5, <1>11
    <2>2. r \notin Got /\ \A v \in Workers, q \in Nat : ~WordAt(lab, v, q, r)
      BY <1>2, <2>1 DEF LabInv, LiveApart
    <2>3. \A v \in Workers, q \in Nat : ~QueuedAt(v, q, r) BY <1>2, <2>1 DEF LabInv, QueuedApart
    <2>4. \A m \in Nat : LiveAt(m, r) => m = n BY <1>2, <2>1 DEF LabInv, LiveOnce
    <2>5. \A k \in Kept(r) : \A v \in Workers, q \in Nat : RowAt(v, q, r, k) => v = w
      BY <1>2, <2>1 DEF LabInv, LiveAhead
    <2> QED BY <2>2, <2>3, <2>4, <2>5
  <1>13. \A v, p, s : QueuedAt(v, p, s)' <=> QueuedAt(v, p, s) BY SameQueues
  <1>14. QueuedOnce' BY <1>2, <1>13 DEF LabInv, QueuedOnce
  <1>15. \A v, s : \A p \in Nat : QueuedAt(v, p, s)' => s # r /\ \E q \in Nat : QueuedAt(v, q, s)
    <2>1. \A v, p, s : QueuedAt(v, p, s) => v \in Workers BY DEF QueuedAt
    <2> QED BY <1>12, <1>13, <2>1
  <1>16. \A m, s : LiveAt(m, s)' => LiveAt(m, s) /\ s # r /\ Due(m)' = Due(m)
    <2> SUFFICES ASSUME NEW m, NEW s, LiveAt(m, s)' PROVE LiveAt(m, s) /\ s # r /\ Due(m)' = Due(m)
      OBVIOUS
    <2>1. m # n BY <1>11
    <2>2. LiveAt(m, s) BY <1>10, <2>1
    <2>3. m \in 1..Len(requests) BY <2>2 DEF LiveAt
    <2>4. m \in Nat BY <2>3
    <2> QED BY <1>10, <1>12, <2>1, <2>2, <2>3, <2>4
  <1>17. \A v, q : \A k \in Kept(r) : RowAt(v, q, r, k) => v = w
    <2>1. \A v, q, k : RowAt(v, q, r, k) => v \in Workers /\ q \in Nat BY DEF RowAt
    <2> QED BY <1>12, <2>1
  <1>18. msg = EndMsg => \A k \in Kept(r) : Delivered(r, k, w, Len(results[w]) + 1)
    <2> SUFFICES ASSUME msg = EndMsg, NEW k \in Kept(r) PROVE Delivered(r, k, w, Len(results[w]) + 1) OBVIOUS
    <2>1. Due(n) = cb.page + 1 /\ ~(cb.page < Pages[r]) BY <1>3, <1>5, <1>10 DEF More
    <2>2. k < cb.page + 1 BY <1>5, <2>1 DEF Kept, PagesOf
    <2>3. k < Due(n) BY <2>1, <2>2
    <2>4. n \in Nat BY <1>5
    <2> QED BY <1>2, <1>5, <1>11, <2>3, <2>4 DEF LabInv, LiveBehind
  <1>19. LabInv(Tagged(lab, w, r), Got)'
    <2>1. msg.kind = "error" => msg.range = r BY <1>3
    <2> QED BY <1>2, <1>5, <1>12, <1>14, <1>15, <1>16, <1>17, <1>18, <2>1, WordSent
  <1>20. ParentTypes' BY <1>1, <1>19, SentTypes DEF LabInv, Labels, ParentTypes
  <1>21. PICK tags : tags = Tagged(lab, w, r) OBVIOUS
  <1>22. LabInv(tags, Got)' BY <1>19, <1>21
  <1> QED BY <1>20, <1>22 DEF ExportInv

(* The next page is asked for, or the request completed, before the page   *)
(* is written.                                                             *)
LEMMA AskedStep ==
    ASSUME ExportAssumption, WorkerTypes, WorkerTypes', Grown, ExportInv, NEW w \in Workers, NEW t \in {"main", "loop"},
           NEW cb, cb = Step(w, t), cb.do = "rows",
           NEW next, next.do = "write", next.request = cb.request, next.range = cb.range, next.page = cb.page,
           Becomes(w, t, next), IF More(cb) THEN Fetches(w, cb) ELSE UNCHANGED requests,
           UNCHANGED <<parentVars, work, results, alive>>
    PROVE  ExportInv'
  <1>1. ParentTypes BY DEF ExportInv
  <1>2. PICK lab, Got : LabInv(lab, Got) BY DEF ExportInv
  <1>3. PICK n, other : n = cb.request /\ other = Step(w, Others(t)) OBVIOUS
  <1>4. RunsCallback(cb) /\ ~RacedWrite(cb) BY DEF RunsCallback, RacedWrite
  <1>5. /\ Holds(cb, n) /\ ~Holds(other, n)
        /\ n \in 1..Len(requests) /\ requests[n].worker = w /\ requests[n].range = cb.range
        /\ cb.page \in Nat \ {0}
        /\ other # Idle /\ other.request = n => RacedWrite(other) \/ (t = "loop" /\ other.do = "errback")
    BY <1>3, <1>4, Alone
  <1>6. RequestGoesOn(w, n) /\ (More(cb) => requests'[n].open /\ requests'[n].page = cb.page + 1)
    BY <1>3, <1>5, FetchOf, StillGoesOn
  <1>7. /\ requests'[n].range = cb.range /\ requests[n].raced \subseteq requests'[n].raced /\ n \in 1..Len(requests')
    BY <1>5, <1>6 DEF RequestGoesOn
  <1>8. StepTo(w, t, n, cb, next, other) BY <1>3, <1>6 DEF StepTo
  <1>9. ~Holds(other, n)'
    <2>1. other = Idle \/ other.do = "errback" => ~RunsCallback(other) BY DEF RunsCallback, Idle
    <2>2. RacedWrite(other) /\ other.request = n => RacedWrite(other)' BY <1>7 DEF RacedWrite, More
    <2> QED BY <1>5, <2>1, <2>2 DEF Holds
  <1>10. (More(next)' <=> More(cb)) /\ (Holds(next, n)' <=> ~RacedWrite(next)') /\ (RacedWrite(next)' => More(cb))
    <2>1. More(next)' <=> More(cb) BY DEF More
    <2> QED BY <1>3, <2>1 DEF Holds, RunsCallback, RacedWrite
  <1>11. /\ \A m, s : m # n => (LiveAt(m, s)' <=> LiveAt(m, s))
         /\ \A s : LiveAt(n, s)' <=> s = requests[n].range /\ (requests'[n].open \/ Holds(next, n)')
         /\ \A s : LiveAt(n, s) <=> s = requests[n].range /\ (requests[n].open \/ Holds(cb, n))
         /\ \A m \in 1..Len(requests) : m # n => Due(m)' = Due(m)
         /\ Due(n)' = IF Holds(next, n)' THEN next.page + (IF next.do = "end" THEN 1 ELSE 0) ELSE requests'[n].page
         /\ Due(n) = IF Holds(cb, n) THEN cb.page + (IF cb.do = "end" THEN 1 ELSE 0) ELSE requests[n].page
    BY <1>5, <1>8, <1>9, HandChange
  <1>12. \A m, s : LiveAt(m, s)' <=> LiveAt(m, s) BY <1>5, <1>6, <1>10, <1>11
  <1>13. Due(n) = cb.page
    <2>1. Due(n) = cb.page + 0 BY <1>5, <1>11
    <2> QED BY <1>5, <2>1
  <1>14. \A k \in Kept(cb.range)' : (k < Due(n)' <=> k < Due(n)) /\ (k >= Due(n)' <=> k >= Due(n))
    <2>1. CASE Holds(next, n)'
      <3>1. Due(n)' = cb.page + 0 BY <1>11, <2>1
      <3>2. Due(n)' = Due(n) BY <1>5, <1>13, <3>1
      <3> QED BY <3>2
    <2>2. CASE ~Holds(next, n)'
      <3>1. RacedWrite(next)' /\ More(cb) BY <1>10, <2>2
      <3>2. cb.page \in requests'[n].raced BY <1>3, <3>1 DEF RacedWrite
      <3>3. n \in DOMAIN requests' BY <1>7 DEF WorkerTypes
      <3>4. \A k \in Kept(cb.range)' : k # cb.page BY <1>7, <3>2, <3>3 DEF Kept, Raced
      <3>5. \A k \in Kept(cb.range)' : k \in Nat BY DEF Kept, PagesOf
      <3>6. PICK x, y : x = Due(n) /\ y = Due(n)' OBVIOUS
      <3>7. y = cb.page + 1 /\ x = cb.page BY <1>6, <1>11, <1>13, <2>2, <3>1, <3>6
      <3>8. \A k \in Nat : k # cb.page => (k < y <=> k < x) /\ (k >= y <=> k >= x) BY <1>5, <3>7
      <3> QED BY <3>4, <3>5, <3>6, <3>8
    <2> QED BY <2>1, <2>2
  <1>15. UNCHANGED <<info, succeeded, sweep, file, work, results, alive>> BY DEF parentVars
  <1>16. /\ \A r : Kept(r)' \subseteq Kept(r)
         /\ \A m \in 1..Len(requests) :
               requests'[m].worker = requests[m].worker /\ requests'[m].range = requests[m].range
    BY KeptShrinks DEF Grown
  <1>17. ASSUME NEW m \in 1..Len(requests)
         PROVE  \A k \in Kept(requests[m].range)' : (k < Due(m)' <=> k < Due(m)) /\ (k >= Due(m)' <=> k >= Due(m))
    <2>1. CASE m = n BY <1>7, <1>14, <2>1
    <2>2. CASE m # n
      <3>1. Due(m)' = Due(m) BY <1>11, <2>2
      <3> QED BY <3>1
    <2> QED BY <2>1, <2>2
  <1>18. LabInv(lab, Got)' BY <1>2, <1>12, <1>15, <1>16, <1>17, StillStep, SameQueues
  <1>19. ParentTypes' BY <1>1, <1>15 DEF ParentTypes
  <1> QED BY <1>18, <1>19 DEF ExportInv

(* A page that can be formatted goes to the wire, or is empty.             *)
PagePut(w, r, k) == IF <<r, k>> \in EmptyPages THEN UNCHANGED results ELSE Send(w, RowsMsg(r, k))

LEMMA SentInv ==
    ASSUME ParentTypes, NEW lab, NEW Got, NEW w \in Workers, NEW msg, Send(w, msg), NEW r, LabInv(Tagged(lab, w, r), Got)',
           UNCHANGED <<info, succeeded, sweep, file, alive, work>>
    PROVE  ExportInv'
  <1>1. PICK tags : tags = Tagged(lab, w, r) OBVIOUS
  <1>2. LabInv(tags, Got)' BY <1>1
  <1>3. LabelTypes(tags)' BY <1>2 DEF LabInv, Labels
  <1>4. work' \in [Workers -> Seq(Ranges \cup {Pill})] BY DEF ParentTypes
  <1>5. ParentTypes' BY <1>3, <1>4, SentTypes
  <1> QED BY <1>2, <1>5 DEF ExportInv

(* A page that raced is put there.                                         *)
LEMMA RacedPut ==
    ASSUME WorkerTypes, ParentTypes, NEW lab, NEW Got, LabInv(lab, Got), NEW w \in Workers,
           NEW r \in Ranges, NEW k \in PagesOf(r), k \notin Kept(r), PagePut(w, r, k),
           UNCHANGED <<info, succeeded, sweep, file, alive, work, requests>>,
           \A m, s : LiveAt(m, s)' <=> LiveAt(m, s),
           \A m \in 1..Len(requests) : \A j \in Kept(requests[m].range) :
              (j < Due(m)' <=> j < Due(m)) /\ (j >= Due(m)' <=> j >= Due(m))
    PROVE  ExportInv'
  <1>1. CASE <<r, k>> \in EmptyPages
    <2>1. UNCHANGED results BY <1>1 DEF PagePut
    <2>2. LabInv(lab, Got)' BY <2>1, StillStep, SameQueues, SameKept
    <2>3. ParentTypes' BY <2>1 DEF ParentTypes
    <2> QED BY <2>2, <2>3 DEF ExportInv
  <1>2. CASE <<r, k>> \notin EmptyPages
    <2>1. Send(w, RowsMsg(r, k)) BY <1>2 DEF PagePut
    <2>2. LabInv(Tagged(lab, w, r), Got)' BY <2>1, RacedSent
    <2> QED BY <2>1, <2>2, SentInv
  <1> QED BY <1>1, <1>2

(* It is the page its request has in hand.                                 *)
LEMMA WrittenStep ==
    ASSUME ExportAssumption, WorkerTypes, ExportInv, NEW w \in Workers, NEW t \in {"main", "loop"},
           NEW cb, cb = Step(w, t), cb.do = "write", ~RacedWrite(cb), PagePut(w, cb.range, cb.page),
           NEW next, IF More(cb) THEN next = Returned(t, cb) ELSE next = [cb EXCEPT !.do = "end"],
           Becomes(w, t, next), UNCHANGED <<requests, parentVars, work, alive>>
    PROVE  ExportInv'
  <1>1. ParentTypes BY DEF ExportInv
  <1>2. PICK lab, Got : LabInv(lab, Got) BY DEF ExportInv
  <1>3. PICK n, r, k, other : n = cb.request /\ r = cb.range /\ k = cb.page /\ other = Step(w, Others(t)) OBVIOUS
  <1>4. RunsCallback(cb) BY DEF RunsCallback
  <1>5. /\ Holds(cb, n) /\ ~Holds(other, n)
        /\ n \in 1..Len(requests) /\ requests[n].worker = w /\ requests[n].range = r /\ r \in Ranges
        /\ k \in Nat \ {0} /\ cb \in Callbacks /\ k \in PagesOf(r)
        /\ t = "main" => ~More(cb)
        /\ IF More(cb) THEN requests[n].open /\ requests[n].page = k + 1 ELSE ~requests[n].open
    BY <1>3, <1>4, Alone, CallbackOf
  <1>6. IF More(cb) THEN next = Idle ELSE next.do = "end" /\ next.request = n /\ next.page = k
    <2>1. CASE More(cb) BY <1>5, <2>1 DEF Returned
    <2>2. CASE ~More(cb) BY <1>3, <1>5, <2>2 DEF Callbacks
    <2> QED BY <2>1, <2>2
  <1>7. next = Idle \/ next.request = n BY <1>6
  <1>8. StepTo(w, t, n, cb, next, other) BY <1>3, <1>5, <1>7, StillGoesOn DEF StepTo
  <1>9. (IF More(cb) THEN ~Holds(next, n)' ELSE Holds(next, n)') /\ ~Holds(other, n)'
    <2>1. next = Idle => ~RunsCallback(next) BY DEF RunsCallback, Idle
    <2>2. next.do = "end" => RunsCallback(next) /\ ~RacedWrite(next)' BY DEF RunsCallback, RacedWrite
    <2>3. ~Holds(other, n)' BY <1>5 DEF Holds, RacedWrite
    <2> QED BY <1>6, <2>1, <2>2, <2>3 DEF Holds
  <1>10. /\ \A m, s : m # n => (LiveAt(m, s)' <=> LiveAt(m, s))
         /\ \A s : LiveAt(n, s)' <=> s = requests[n].range /\ (requests'[n].open \/ Holds(next, n)')
         /\ \A s : LiveAt(n, s) <=> s = requests[n].range /\ (requests[n].open \/ Holds(cb, n))
         /\ \A m \in 1..Len(requests) : m # n => Due(m)' = Due(m)
         /\ Due(n)' = IF Holds(next, n)' THEN next.page + (IF next.do = "end" THEN 1 ELSE 0) ELSE requests'[n].page
         /\ Due(n) = IF Holds(cb, n) THEN cb.page + (IF cb.do = "end" THEN 1 ELSE 0) ELSE requests[n].page
    BY <1>5, <1>8, <1>9, HandChange
  <1>11. (\A m, s : LiveAt(m, s)' <=> LiveAt(m, s)) /\ LiveAt(n, r) BY <1>5, <1>9, <1>10
  <1>12. Due(n) = k /\ Due(n)' = k + 1
    <2>1. Due(n) = k + 0 BY <1>3, <1>5, <1>10
    <2>2. CASE More(cb)
      <3>1. Due(n)' = requests[n].page BY <1>9, <1>10, <2>2
      <3> QED BY <1>5, <2>1, <2>2, <3>1
    <2>3. CASE ~More(cb) BY <1>5, <1>6, <1>9, <1>10, <2>1, <2>3
    <2> QED BY <2>2, <2>3
  <1>13. UNCHANGED <<info, succeeded, sweep, file, alive, work, requests>> BY DEF parentVars
  <1>14. CASE k \in Kept(r)
    <2>1. CASE <<r, k>> \in EmptyPages
      <3>1. UNCHANGED results BY <1>3, <2>1 DEF PagePut
      <3>2. LabInv(lab, Got)'
        BY <1>2, <1>5, <1>10, <1>11, <1>12, <1>13, <1>14, <2>1, <3>1, NoPageWritten
      <3>3. ParentTypes' BY <1>1, <1>13, <3>1 DEF ParentTypes
      <3> QED BY <3>2, <3>3 DEF ExportInv
    <2>2. CASE <<r, k>> \notin EmptyPages
      <3>1. Send(w, RowsMsg(r, k)) BY <1>3, <2>2 DEF PagePut
      <3>2. LabInv(Tagged(lab, w, r), Got)'
        BY <1>2, <1>5, <1>10, <1>11, <1>12, <1>13, <1>14, <2>2, <3>1, PageWritten
      <3> QED BY <1>1, <1>13, <3>1, <3>2, SentInv
    <2> QED BY <2>1, <2>2
  <1>15. CASE k \notin Kept(r)
    <2>1. \A m \in 1..Len(requests) : \A j \in Kept(requests[m].range) :
             (j < Due(m)' <=> j < Due(m)) /\ (j >= Due(m)' <=> j >= Due(m))
      <3> SUFFICES ASSUME NEW m \in 1..Len(requests), NEW j \in Kept(requests[m].range)
                   PROVE  (j < Due(m)' <=> j < Due(m)) /\ (j >= Due(m)' <=> j >= Due(m))
        OBVIOUS
      <3>1. CASE m # n BY <1>10, <3>1
      <3>2. CASE m = n
        <4>1. j \in Nat /\ j # k BY <1>5, <1>15, <3>2 DEF Kept, PagesOf
        <4> QED BY <1>5, <1>12, <3>2, <4>1
      <3> QED BY <3>1, <3>2
    <2> QED BY <1>1, <1>2, <1>3, <1>5, <1>11, <1>13, <1>15, <2>1, RacedPut
  <1> QED BY <1>14, <1>15

(* It raced, and the request is already at its next page.                  *)
LEMMA BesideStep ==
    ASSUME ExportAssumption, WorkerTypes, ExportInv, NEW w \in Workers, NEW t \in {"main", "loop"},
           NEW cb, cb = Step(w, t), RacedWrite(cb), PagePut(w, cb.range, cb.page),
           NEW next, next = Returned(t, cb),
           Becomes(w, t, next), UNCHANGED <<requests, parentVars, work, alive>>
    PROVE  ExportInv'
  <1>1. ParentTypes BY DEF ExportInv
  <1>2. PICK lab, Got : LabInv(lab, Got) BY DEF ExportInv
  <1>3. PICK n, r, k, other : n = cb.request /\ r = cb.range /\ k = cb.page /\ other = Step(w, Others(t)) OBVIOUS
  <1>4. cb.do = "write" /\ RunsCallback(cb) BY DEF RunsCallback, RacedWrite
  <1>5. n \in 1..Len(requests) /\ requests[n].range = r /\ r \in Ranges /\ k \in PagesOf(r)
    BY <1>3, <1>4, CallbackOf
  <1>6. k \notin Kept(r)
    <2>1. k \in requests[n].raced BY <1>3 DEF RacedWrite
    <2>2. n \in DOMAIN requests BY <1>5 DEF WorkerTypes
    <2> QED BY <1>5, <2>1, <2>2 DEF Kept, Raced
  <1>7. \A m : ~Holds(cb, m) /\ ~Holds(next, m)
    <2>1. next = Idle \/ next.do = "errback" BY DEF Returned, AtErrback
    <2> QED BY <2>1 DEF Holds, RunsCallback, Idle
  <1>8. (\A m, s : LiveAt(m, s)' <=> LiveAt(m, s)) /\ \A m \in 1..Len(requests) : Due(m)' = Due(m)
    BY <1>7, HandsKept
  <1>9. UNCHANGED <<info, succeeded, sweep, file, alive, work, requests>> BY DEF parentVars
  <1>10. \A m \in 1..Len(requests) : \A j \in Kept(requests[m].range) :
            (j < Due(m)' <=> j < Due(m)) /\ (j >= Due(m)' <=> j >= Due(m))
    BY <1>8
  <1> QED BY <1>1, <1>2, <1>3, <1>5, <1>6, <1>8, <1>9, <1>10, RacedPut

(* A thread goes on with its callback.                                     *)
LEMMA CallbackStays ==
    ASSUME ExportAssumption, WorkerTypes, WorkerTypes', Grown, ~Marred, ExportInv, NEW w \in Workers,
           NEW t \in {"main", "loop"}, NEW cb, cb = Step(w, t), CallbackStep(w, t, cb)
    PROVE  ExportInv'
  <1>1. w \in alive /\ UNCHANGED <<parentVars, work, alive>> /\ UNCHANGED <<info, succeeded, sweep, file>>
    BY DEF CallbackStep, WorkerStep, parentVars
  <1>2. RunsCallback(cb)
    BY DEF CallbackStep, ErrCallback, FetchNext, Complete, WriteRows, EndRange, RunsCallback
  <1>3. PICK other : other = Step(w, Others(t)) OBVIOUS
  <1>4. /\ CallbackFits(w, cb) /\ cb \in Callbacks /\ cb.request \in 1..Len(requests) /\ cb.range \in Ranges
        /\ cb.page \in Nat \ {0} /\ requests[cb.request].range = cb.range
    BY <1>2, <1>3, CallbackOf
  <1>5. /\ Error(cb.range) \in Messages /\ Error(cb.range).kind = "error" /\ Error(cb.range).range = cb.range
        /\ EndMsg \in Messages /\ EndMsg.kind = "end"
    BY <1>4 DEF Messages, Error, EndMsg
  <1>6. CASE ErrCallback(w, t, cb)
    <2>1. PICK msg, next : msg = Error(cb.range) /\ next = Idle OBVIOUS
    <2>2. cb.do = "error" /\ Send(w, msg) /\ Becomes(w, t, next) /\ UNCHANGED requests BY <1>6, <2>1 DEF ErrCallback
    <2>3. msg # EndMsg /\ msg.kind # "rows" /\ msg \in Messages /\ msg.range = cb.range BY <1>5, <2>1
    <2> QED BY <1>1, <2>1, <2>2, <2>3, RangeEnded
  <1>7. ASSUME NEW next, next = [cb EXCEPT !.do = "write"]
        PROVE  next.do = "write" /\ next.request = cb.request /\ next.range = cb.range /\ next.page = cb.page
    BY <1>4, <1>7 DEF Callbacks
  <1>8. CASE FetchNext(w, t, cb)
    <2>1. PICK next : next = [cb EXCEPT !.do = "write"] OBVIOUS
    <2>2. /\ cb.do = "rows" /\ More(cb) /\ Fetches(w, cb) /\ Becomes(w, t, next) /\ UNCHANGED results
      BY <1>8, <2>1 DEF FetchNext, Fetches, Fetched, Racing
    <2> QED BY <1>1, <1>7, <2>1, <2>2, AskedStep
  <1>9. CASE Complete(w, t, cb)
    <2>1. PICK next : next = [cb EXCEPT !.do = "write"] OBVIOUS
    <2>2. /\ cb.do = "rows" /\ ~More(cb) /\ Becomes(w, t, next) /\ UNCHANGED <<requests, results>>
      BY <1>9, <2>1 DEF Complete
    <2> QED BY <1>1, <1>7, <2>1, <2>2, AskedStep
  <1>10. CASE WriteRows(w, t, cb)
    <2>1. <<cb.range, cb.page>> \notin BadPages
      <3>1. cb.request \in DOMAIN requests BY <1>4 DEF WorkerTypes
      <3>2. requests[cb.request].page \in Nat /\ cb.page <= requests[cb.request].page
        BY <1>4, RequestAt DEF CallbackFits
      <3>3. cb.page \in 1..requests[cb.request].page BY <1>4, <3>2
      <3> QED BY <1>4, <3>1, <3>3 DEF Marred
    <2>2. PagePut(w, cb.range, cb.page) BY <1>10, <2>1 DEF WriteRows, PagePut, RowsMsg
    <2>3. PICK next : next = IF More(cb) THEN Returned(t, cb) ELSE [cb EXCEPT !.do = "end"] OBVIOUS
    <2>4. cb.do = "write" /\ Becomes(w, t, next) /\ UNCHANGED requests BY <1>10, <2>3 DEF WriteRows
    <2>5. CASE RacedWrite(cb)
      <3>1. next = Returned(t, cb) BY <2>3, <2>5 DEF RacedWrite
      <3> QED BY <1>1, <2>2, <2>4, <2>5, <3>1, BesideStep
    <2>6. CASE ~RacedWrite(cb) BY <1>1, <2>2, <2>3, <2>4, <2>6, WrittenStep
    <2> QED BY <2>5, <2>6
  <1>11. CASE EndRange(w, t, cb)
    <2>1. PICK msg, next : msg = EndMsg /\ next = Returned(t, cb) OBVIOUS
    <2>2. cb.do = "end" /\ Send(w, msg) /\ Becomes(w, t, next) /\ UNCHANGED requests
      BY <1>11, <2>1 DEF EndRange, EndMsg
    <2> QED BY <1>1, <1>5, <2>1, <2>2, RangeEnded
  <1> QED BY <1>6, <1>8, <1>9, <1>10, <1>11 DEF CallbackStep

LEMMA DieStep ==
    ASSUME WorkerTypes, ExportInv, NEW w \in Workers, Die(w)
    PROVE  ExportInv'
  <1>1. ParentTypes BY DEF ExportInv
  <1>2. PICK lab, Got : LabInv(lab, Got) BY DEF ExportInv
  <1>3. /\ alive' = alive \ {w} /\ sweep' = IF results'[w] = <<>> THEN sweep \ {w} ELSE sweep
        /\ UNCHANGED <<info, succeeded, file, work, requests, loop, main>>
    BY DEF Die
  <1>4. PICK n \in 0..Len(results[w]) : results' = [results EXCEPT ![w] = SubSeq(@, 1, n)] BY DEF Die
  <1>5. LabInv(CutTags(lab, w, n), Got)' BY <1>2, <1>3, <1>4, WireCut
  <1>6. LabelTypes(lab) BY <1>2 DEF LabInv, Labels
  <1>7. \A v \in Workers : v # w => results'[v] = results[v] BY <1>4, <1>6, Dropped
  <1>8. sweep' \subseteq {v \in Workers : results'[v] # <<>>} BY <1>1, <1>3, <1>7 DEF ParentTypes
  <1>9. results' \in [Workers -> Seq(Messages)] BY <1>5 DEF LabInv, Labels, LabelTypes
  <1>10. ParentTypes' BY <1>1, <1>3, <1>8, <1>9 DEF ParentTypes
  <1>11. PICK tags : tags = CutTags(lab, w, n) OBVIOUS
  <1>12. LabInv(tags, Got)' BY <1>5, <1>11
  <1> QED BY <1>10, <1>12 DEF ExportInv

(* The callbacks are attached.                                             *)
LEMMA AttachStep ==
    ASSUME WorkerTypes, ExportInv, NEW w \in Workers, Attach(w) \/ AttachErrback(w)
    PROVE  ExportInv'
  <1>1. PICK t, cb : t = "main" /\ cb = main[w] OBVIOUS
  <1>2. PICK next \in {Idle, AtErrback(main[w].request)} : Becomes(w, t, next)
    BY <1>1 DEF Attach, AttachErrback, Becomes
  <1>3. cb.do \in {"attach", "errback"} /\ UNCHANGED <<requests, parentVars, work, results, alive>>
    BY <1>1 DEF Attach, AttachErrback, WorkerStep
  <1>4. next = Idle \/ next.do = "errback" BY <1>2 DEF AtErrback
  <1>5. \A m : ~Holds(cb, m) /\ ~Holds(next, m) BY <1>3, <1>4 DEF Holds, RunsCallback, Idle
  <1>6. cb = Step(w, t) BY <1>1 DEF Step
  <1> QED BY <1>1, <1>2, <1>3, <1>5, <1>6, AsideStep

LEMMA ExportNext ==
    ASSUME ExportAssumption, WorkerTypes, WorkerTypes', Grown, ~Marred, ExportInv, [Next]_vars
    PROVE  ExportInv'
  <1>1. ParentTypes BY DEF ExportInv
  <1>2. CASE ParentStep \/ ChildTimeout BY <1>2, ParentSteps
  <1>3. ASSUME NEW w \in Workers, OnMain(w) PROVE ExportInv'
    <2>1. PICK t, cb : t = "main" /\ cb = main[w] OBVIOUS
    <2>2. CallbackStep(w, t, cb) BY <1>3, <2>1 DEF OnMain
    <2>3. t \in {"main", "loop"} /\ cb = Step(w, t) BY <2>1 DEF Step
    <2> QED BY <2>2, <2>3, CallbackStays
  <1>4. ASSUME NEW w \in Workers, OnLoop(w) PROVE ExportInv'
    <2>1. PICK t, cb : t = "loop" /\ cb = loop[w] OBVIOUS
    <2>2. CallbackStep(w, t, cb) BY <1>4, <2>1 DEF OnLoop
    <2>3. t \in {"main", "loop"} /\ cb = Step(w, t) BY <2>1 DEF Step
    <2> QED BY <2>2, <2>3, CallbackStays
  <1>5. ASSUME NEW w \in Workers, AttachAnswered(w) \/ ErrbackAnswered(w) PROVE ExportInv'
    <2>1. PICK n, o : Finds(w, "main", n, o) BY <1>5, FoundFinds
    <2>2. UNCHANGED <<parentVars, work, results, alive>> BY <1>5, FoundFinds
    <2> QED BY <2>1, <2>2, AnswerStep
  <1>6. ASSUME NEW n \in DOMAIN requests, NEW o \in {"rows", "error"}, Answer(n, o) PROVE ExportInv'
    <2>1. n \in 1..Len(requests) BY DEF WorkerTypes
    <2>2. PICK w \in Workers : w = requests[n].worker /\ Finds(w, "loop", n, o) BY <1>6, <2>1, AnswerFinds
    <2>3. UNCHANGED <<parentVars, work, results, alive>> BY <1>6, <2>1, AnswerFinds
    <2> QED BY <2>2, <2>3, AnswerStep
  <1>7. ASSUME NEW w \in Workers, TakePill(w) PROVE ExportInv'
    <2>1. UNCHANGED <<info, succeeded, file, results, requests, main, loop, sweep, work>> /\ alive' \subseteq alive
      BY <1>7 DEF TakePill, parentVars
    <2> QED BY <1>1, <2>1, QuietStep, SameQueues DEF ParentTypes
  <1>8. CASE UNCHANGED vars
    <2>1. UNCHANGED <<info, succeeded, file, results, requests, main, loop, sweep, work, alive>>
      BY <1>8 DEF vars, parentVars, workerVars
    <2> QED BY <1>1, <2>1, QuietStep, SameQueues DEF ParentTypes
  <1>9. CASE \E w \in Workers : MainStep(w)
    BY <1>3, <1>5, <1>7, <1>9, StartStep, AttachStep DEF MainStep
  <1>10. CASE \E w \in Workers : LoopStep(w) BY <1>4, <1>6, <1>10 DEF LoopStep
  <1>11. CASE \E w \in Workers : Die(w) \/ (\E r \in Ranges : NoSession(w, r)) \/ ErrbackAnswered(w)
    BY <1>5, <1>11, DieStep, NoSessionStep
  <1> QED BY <1>2, <1>8, <1>9, <1>10, <1>11 DEF Next

-----------------------------------------------------------------------------
(* The start: every range is with one worker, once.                        *)
LEMMA Multiple ==
    ASSUME NEW n \in Nat \ {0}, NEW a \in Nat, NEW p \in Nat, p <= a \div n
    PROVE  p * n <= a
  <1>1. a \div n \in Nat /\ n * (a \div n) <= a OBVIOUS
  <1>2. \A x, y \in Nat : x <= y => n * x <= n * y OBVIOUS
  <1>3. n * p <= n * (a \div n) BY <1>1, <1>2
  <1>4. n * p = p * n /\ n * p \in Nat /\ n * (a \div n) \in Nat BY <1>1
  <1> QED BY <1>1, <1>3, <1>4

LEMMA RoundRobin ==
    ASSUME NEW n \in Nat \ {0}, NEW v \in 1..n, NEW w \in 1..n, NEW p \in Nat, NEW q \in Nat,
           v + (p - 1) * n = w + (q - 1) * n
    PROVE  v = w /\ p = q
  <1>1. \A x, y \in Int : x < y => (y - x) * n >= n OBVIOUS
  <1>2. (p - q) * n = w - v /\ (q - p) * n = v - w
    <2>1. (p - 1) * n = p * n - n /\ (q - 1) * n = q * n - n /\ p * n \in Int /\ q * n \in Int OBVIOUS
    <2>2. (p - q) * n = p * n - q * n /\ (q - p) * n = q * n - p * n OBVIOUS
    <2> QED BY <2>1, <2>2
  <1>3. ~(p < q) BY <1>1, <1>2
  <1>4. ~(q < p) BY <1>1, <1>2
  <1>5. p = q BY <1>3, <1>4
  <1>6. v + (p - 1) * n = w + (p - 1) * n /\ (p - 1) * n \in Int BY <1>5
  <1> QED BY <1>5, <1>6

LEMMA DealtOut ==
    ASSUME ExportAssumption, NEW q \in Orders, NEW w \in Workers, NEW n, n = Cardinality(Workers),
           NEW s, s = EveryNth(q, w)
    PROVE  /\ s \in Seq(Ranges) /\ Len(s) \in Nat /\ n \in Nat \ {0}
           /\ \A p \in 1..Len(s) : w + (p - 1) * n \in DOMAIN q /\ s[p] = q[w + (p - 1) * n]
  <1>1. PICK N \in Nat : N = Cardinality(Ranges) BY FS_CardinalityType DEF ExportAssumption
  <1>2. n \in Nat \ {0} /\ w \in 1..n BY FS_CardinalityType DEF ExportAssumption
  <1>3. q \in [1..N -> Ranges] /\ Len(q) = N BY <1>1 DEF Orders
  <1>4. PICK m : m = (N + n - w) \div n OBVIOUS
  <1>5. N + n - w \in Nat /\ m \in Nat BY <1>2, <1>4
  <1>6. \A p \in 1..m : w + (p - 1) * n \in 1..N
    <2> SUFFICES ASSUME NEW p \in 1..m PROVE w + (p - 1) * n \in 1..N OBVIOUS
    <2>1. p * n <= N + n - w BY <1>2, <1>4, <1>5, Multiple
    <2>2. (p - 1) * n = p * n - n /\ p * n \in Nat /\ p * n >= n BY <1>2
    <2> QED BY <1>2, <2>1, <2>2
  <1>7. s = [p \in 1..m |-> q[w + (p - 1) * n]] BY <1>3, <1>4 DEF EveryNth
  <1>8. \A p \in 1..m : s[p] = q[w + (p - 1) * n] /\ s[p] \in Ranges BY <1>3, <1>6, <1>7
  <1>9. s \in [1..m -> Ranges] BY <1>7, <1>8
  <1>10. s \in Seq(Ranges) /\ Len(s) = m BY <1>5, <1>9
  <1> QED BY <1>2, <1>3, <1>5, <1>6, <1>8, <1>10

LEMMA OrderInverse ==
    ASSUME ExportAssumption, NEW q \in Orders, NEW r \in Ranges
    PROVE  WorkerOfTurn(CHOOSE i \in DOMAIN q : q[i] = r) \in Workers
  <1>1. PICK N \in Nat : N = Cardinality(Ranges) BY FS_CardinalityType DEF ExportAssumption
  <1>2. q \in [1..N -> Ranges] /\ \A i, j \in 1..N : q[i] = q[j] => i = j BY <1>1 DEF Orders
  <1>3. q \in Injection(1..N, Ranges) BY <1>2 DEF Injection, IsInjective
  <1>4. Cardinality(1..N) = N
    <2>1. Cardinality(1..N) = IF 1 > N THEN 0 ELSE N - 1 + 1 BY FS_Interval
    <2> QED BY <2>1
  <1>5. q \in Surjection(1..N, Ranges) BY <1>1, <1>3, <1>4, FS_Injection DEF ExportAssumption
  <1>6. \E i \in 1..N : q[i] = r BY <1>5 DEF Surjection
  <1>7. PICK i : i = CHOOSE j \in DOMAIN q : q[j] = r OBVIOUS
  <1>8. i \in 1..N BY <1>2, <1>6, <1>7
  <1>9. PICK n : n = Cardinality(Workers) OBVIOUS
  <1>10. n \in Nat \ {0} /\ Workers = 1..n BY <1>9, FS_CardinalityType DEF ExportAssumption
  <1>11. (i - 1) % n \in 0..(n - 1) BY <1>8, <1>10
  <1>12. ((i - 1) % n) + 1 \in 1..n BY <1>10, <1>11
  <1> QED BY <1>7, <1>9, <1>10, <1>12 DEF WorkerOfTurn

LEMMA StartInv ==
    ASSUME ExportAssumption, Init
    PROVE  ExportInv
  <1>1. PICK q \in Orders : FirstWork(q) BY DEF Init
  <1>2. /\ info = [r \in Ranges |-> [attempts |-> 1, rows |-> 0,
                                     worker |-> WorkerOfTurn(CHOOSE i \in DOMAIN q : q[i] = r)]]
        /\ work = [w \in Workers |-> EveryNth(q, w)]
    BY <1>1 DEF FirstWork
  <1>3. /\ succeeded = 0 /\ sweep = {} /\ file = [p \in FileIndex |-> 0]
        /\ results = [w \in Workers |-> <<>>] /\ alive = Workers /\ requests = <<>>
        /\ main = [w \in Workers |-> Idle] /\ loop = [w \in Workers |-> Idle]
    BY DEF Init, FileIndex
  <1>4. PICK n : n = Cardinality(Workers) OBVIOUS
  <1>5. \A w \in Workers : /\ work[w] \in Seq(Ranges) /\ Len(work[w]) \in Nat /\ n \in Nat \ {0}
                           /\ \A p \in 1..Len(work[w]) : /\ w + (p - 1) * n \in DOMAIN q
                                                         /\ work[w][p] = q[w + (p - 1) * n]
    BY <1>2, <1>4, DealtOut
  <1>6. ParentTypes
    <2>1. info \in [Ranges -> [attempts : Nat, rows : Nat, worker : Workers]]
      <3>1. \A r \in Ranges : WorkerOfTurn(CHOOSE i \in DOMAIN q : q[i] = r) \in Workers
        BY OrderInverse
      <3> QED BY <1>2, <3>1
    <2>2. work \in [Workers -> Seq(Ranges \cup {Pill})]
      <3>1. \A s \in Seq(Ranges) : s \in Seq(Ranges \cup {Pill}) OBVIOUS
      <3>2. \A w \in Workers : work[w] \in Seq(Ranges \cup {Pill}) BY <1>5, <3>1
      <3> QED BY <1>2, <3>2
    <2>3. results \in [Workers -> Seq(Messages)] BY <1>3
    <2>4. file \in [FileIndex -> Nat] BY <1>3
    <2> QED BY <1>3, <2>1, <2>2, <2>3, <2>4 DEF ParentTypes
  <1>7. PICK lab, Got : lab = [w \in Workers |-> <<>>] /\ Got = {} OBVIOUS
  <1>8. Labels(lab, Got)
    <2>1. results \in [Workers -> Seq(Messages)] /\ lab \in [Workers -> Seq(Ranges)] BY <1>3, <1>7
    <2>2. \A w \in Workers : Len(lab[w]) = Len(results[w]) /\ 1..Len(results[w]) = {} BY <1>3, <1>7
    <2>3. Cardinality(Got) = succeeded BY <1>3, <1>7, FS_EmptySet
    <2> QED BY <1>7, <2>1, <2>2, <2>3 DEF Labels, LabelTypes
  <1>9. /\ \A w, p, r, k : ~RowAt(w, p, r, k)
        /\ \A w, p, r : ~WordAt(lab, w, p, r) /\ ~EndAt(lab, w, p, r)
    <2>1. \A w \in Workers : 1..Len(results[w]) = {} BY <1>3
    <2> QED BY <2>1 DEF RowAt, WordAt, EndAt
  <1>10. \A m, r : ~LiveAt(m, r)
    <2>1. 1..Len(requests) = {} BY <1>3
    <2> QED BY <2>1 DEF LiveAt
  <1>11. \A r \in Ranges : \A k \in Kept(r) : file[<<r, k>>] = 0
    <2>1. \A r \in Ranges : \A k \in Kept(r) : <<r, k>> \in FileIndex BY DEF FileIndex, Kept
    <2> QED BY <1>3, <2>1
  <1>12. QueuedOnce
    <2> SUFFICES ASSUME NEW r \in Ranges, NEW w \in Workers, NEW v \in Workers, NEW p \in Nat, NEW x \in Nat,
                        QueuedAt(w, p, r), QueuedAt(v, x, r)
                 PROVE  w = v /\ p = x
      BY DEF QueuedOnce
    <2>1. PICK i, j : i = w + (p - 1) * n /\ j = v + (x - 1) * n OBVIOUS
    <2>2. i \in DOMAIN q /\ j \in DOMAIN q /\ q[i] = r /\ q[j] = r BY <1>5, <2>1 DEF QueuedAt
    <2>3. i = j BY <2>2 DEF Orders
    <2>4. n \in Nat \ {0} /\ w \in 1..n /\ v \in 1..n
      <3>1. Workers = 1..n BY <1>4 DEF ExportAssumption
      <3> QED BY <1>5, <3>1
    <2> QED BY <2>1, <2>3, <2>4, RoundRobin
  <1>13. LiveOnce /\ WordOnce(lab) BY <1>9, <1>10 DEF LiveOnce, WordOnce
  <1>14. QueuedApart(lab, Got) /\ LiveApart(lab, Got) /\ WordApart(lab, Got)
    BY <1>7, <1>9, <1>10 DEF QueuedApart, LiveApart, WordApart
  <1>15. RowOnce /\ RowNew /\ FileOnce /\ QueuedClean
    BY <1>9, <1>11 DEF RowOnce, RowNew, FileOnce, QueuedClean
  <1>16. LiveAhead /\ WordsLast(lab) /\ LiveBehind /\ EndsWhole(lab)
    BY <1>9, <1>10 DEF LiveAhead, WordsLast, LiveBehind, EndsWhole
  <1>17. GotWhole(Got) BY <1>7 DEF GotWhole
  <1>18. LabInv(lab, Got) BY <1>8, <1>12, <1>13, <1>14, <1>15, <1>16, <1>17 DEF LabInv
  <1> QED BY <1>6, <1>18 DEF ExportInv

(* Whatever is true of the export is true until a page is asked for that   *)
(* cannot be formatted.                                                    *)
ExportSafe == WorkerTypes /\ (Marred \/ ExportInv)

LEMMA ExportSafeAlways ==
    ASSUME ExportAssumption
    PROVE  Spec => []ExportSafe
  <1>1. Init => ExportSafe BY WorkerInit, StartInv DEF ExportSafe
  <1>2. ExportSafe /\ [Next]_vars => ExportSafe'
    <2> SUFFICES ASSUME ExportSafe, [Next]_vars PROVE ExportSafe' OBVIOUS
    <2>1. WorkerTypes BY DEF ExportSafe
    <2>2. WorkerTypes' /\ Grown BY <2>1, WorkerNext
    <2>3. CASE Marred BY <2>1, <2>2, <2>3, MarredStays DEF ExportSafe
    <2>4. CASE ~Marred
      <3>1. ExportInv BY <2>4 DEF ExportSafe
      <3>2. ExportInv' BY <2>1, <2>2, <2>4, <3>1, ExportNext
      <3> QED BY <2>2, <3>2 DEF ExportSafe
    <2> QED BY <2>3, <2>4
  <1> QED BY <1>1, <1>2, PTL DEF Spec

(* No page is in the file twice, whatever queries fail, hosts cannot be    *)
(* reached, workers die or the parent gives up waiting                     *)
(* (ExportTask.export_records: a range is tried again only while no row of *)
(* it was received), but for the pages that two threads of a worker raced  *)
(* for; unless a page was asked for that cannot be formatted.              *)
THEOREM ExportsOnce ==
    ASSUME ExportAssumption
    PROVE  Spec => []NothingTwice
  <1>1. ExportSafe => NothingTwice
    <2> SUFFICES ASSUME ExportInv, NEW r \in Ranges, NEW k \in PagesOf(r), ~Raced(r, k) PROVE file[<<r, k>>] <= 1
      BY DEF ExportSafe, NothingTwice
    <2>1. FileOnce BY DEF ExportInv, LabInv
    <2>2. k \in Kept(r) BY DEF Kept
    <2>3. file[<<r, k>>] \in {0, 1} BY <2>1, <2>2 DEF FileOnce
    <2> QED BY <2>3
  <1> QED BY <1>1, ExportSafeAlways, PTL

(* An export that ends without a warning has every page of every range in  *)
(* its file, once, whatever failed on the way (ExportTask.export_records), *)
(* but for the same pages and unless the same.                             *)
THEOREM ExportsWhole ==
    ASSUME ExportAssumption
    PROVE  Spec => []CompletedMeansExported
  <1>1. ExportSafe => CompletedMeansExported
    <2> SUFFICES ASSUME ExportInv, succeeded >= Cardinality(Ranges), NEW r \in Ranges, NEW k \in PagesOf(r), ~Raced(r, k)
                 PROVE  file[<<r, k>>] = Written(r, k)
      BY DEF ExportSafe, CompletedMeansExported
    <2>1. PICK lab, Got : LabInv(lab, Got) BY DEF ExportInv
    <2>2. Got \subseteq Ranges /\ Cardinality(Got) = succeeded BY <2>1 DEF LabInv, Labels
    <2>3. IsFiniteSet(Ranges) BY DEF ExportAssumption
    <2>4. Cardinality(Got) <= Cardinality(Ranges) /\ IsFiniteSet(Got) BY <2>2, <2>3, FS_Subset
    <2>5. Cardinality(Got) \in Nat /\ Cardinality(Ranges) \in Nat BY <2>3, <2>4, FS_CardinalityType
    <2>6. Cardinality(Ranges) = Cardinality(Got) BY <2>2, <2>4, <2>5
    <2>7. Ranges = Got BY <2>2, <2>3, <2>6, FS_Subset
    <2>8. k \in Kept(r) BY DEF Kept
    <2> QED BY <2>1, <2>7, <2>8 DEF LabInv, GotWhole
  <1> QED BY <1>1, ExportSafeAlways, PTL

-----------------------------------------------------------------------------
(* Throttling: request n is counted for host h by worker w.                *)
IsCounted(w, h, n) == /\ n \in 1..Len(requests) /\ requests[n].worker = w /\ requests[n].host = h
                      /\ Counted(n)
CountedAt(w, h) == {n \in 1..Len(requests) : IsCounted(w, h, n)}
CountedBy(w) == {n \in 1..Len(requests) : \E h \in Hosts : IsCounted(w, h, n)}

(* A thread at one of these steps has the answer of its request in hand.   *)
Busy(cb) == cb.do \in {"rows", "error"}
AtHand(w, n) == \E cb \in {main[w], loop[w]} : Busy(cb) /\ cb.request = n

Balanced(w) ==
    /\ \A h, n : IsCounted(w, h, n) => h \in Connected(w)
    /\ \A h \in Connected(w) : sessions[w][h] \in Nat /\ sessions[w][h] = Cardinality(CountedAt(w, h))
    /\ IsFiniteSet(Places(w)) /\ NumRequests(w) = Cardinality(CountedBy(w)) /\ NumRequests(w) <= MaxRequests + 1
SessionTypes == DOMAIN sessions = Workers /\ \A w \in Workers : DOMAIN sessions[w] \subseteq Hosts
ThrottleTypes == WorkerTypes /\ SessionTypes
ThrottleInv == ThrottleTypes /\ \A w \in Workers : Balanced(w)

(* The places of a worker, from its sessions alone.                        *)
PlacesOf(s) == UNION {{h} \X (1..s[h]) : h \in DOMAIN s}

LEMMA PlacesMore ==
    ASSUME NEW s, NEW t, NEW h, NEW k \in Nat, \A g \in DOMAIN s : s[g] \in Nat,
           k = IF h \in DOMAIN s THEN s[h] ELSE 0,
           DOMAIN t = DOMAIN s \cup {h}, t[h] = k + 1, \A g \in DOMAIN s : g # h => t[g] = s[g]
    PROVE  /\ PlacesOf(t) = PlacesOf(s) \cup {<<h, k + 1>>}
           /\ <<h, k + 1>> \notin PlacesOf(s)
  <1>1. \A f, x : x \in PlacesOf(f) <=> \E g \in DOMAIN f : \E i \in 1..f[g] : x = <<g, i>>
    BY DEF PlacesOf
  <1>2. <<h, k + 1>> \notin PlacesOf(s)
    <2> SUFFICES ASSUME NEW g \in DOMAIN s, NEW i \in 1..s[g], <<h, k + 1>> = <<g, i>> PROVE FALSE BY <1>1
    <2>1. g = h /\ i = k + 1 /\ s[h] = k OBVIOUS
    <2> QED BY <2>1
  <1>3. ASSUME NEW x, x \in PlacesOf(s) PROVE x \in PlacesOf(t)
    <2>1. PICK g \in DOMAIN s : \E i \in 1..s[g] : x = <<g, i>> BY <1>1, <1>3
    <2>2. 1..s[g] \subseteq 1..t[g]
      <3>1. CASE g = h
        <4>1. s[g] = k /\ t[g] = k + 1 BY <3>1
        <4> QED BY <4>1
      <3>2. CASE g # h BY <3>2
      <3> QED BY <3>1, <3>2
    <2> QED BY <1>1, <2>1, <2>2
  <1>4. <<h, k + 1>> \in PlacesOf(t)
    <2>1. k + 1 \in 1..t[h] /\ h \in DOMAIN t OBVIOUS
    <2> QED BY <1>1, <2>1
  <1>5. ASSUME NEW x, x \in PlacesOf(t), x # <<h, k + 1>> PROVE x \in PlacesOf(s)
    <2>1. PICK g \in DOMAIN t : \E i \in 1..t[g] : x = <<g, i>> BY <1>1, <1>5
    <2>2. PICK i \in 1..t[g] : x = <<g, i>> BY <2>1
    <2>3. CASE g = h
      <3>1. i \in 1..(k + 1) /\ i # k + 1 BY <1>5, <2>2, <2>3
      <3>2. i \in 1..k /\ k # 0 BY <3>1
      <3>3. h \in DOMAIN s /\ s[h] = k BY <3>2
      <3> QED BY <1>1, <2>2, <2>3, <3>2, <3>3
    <2>4. CASE g # h
      <3>1. g \in DOMAIN s /\ t[g] = s[g] BY <2>4
      <3> QED BY <1>1, <2>2, <3>1
    <2> QED BY <2>3, <2>4
  <1> QED BY <1>2, <1>3, <1>4, <1>5

LEMMA CountedSets ==
    ASSUME ThrottleTypes, NEW w
    PROVE  /\ Len(requests) \in Nat
           /\ \A h, n : IsCounted(w, h, n) => h \in Hosts /\ n \in 1..Len(requests)
           /\ \A h, n : n \in CountedAt(w, h) <=> IsCounted(w, h, n)
           /\ \A n : n \in CountedBy(w) <=> \E h : IsCounted(w, h, n)
           /\ \A h : IsFiniteSet(CountedAt(w, h)) /\ IsFiniteSet(CountedBy(w))
  <1>1. Len(requests) \in Nat /\ \A n \in 1..Len(requests) : requests[n] \in Requests
    BY RequestAt DEF ThrottleTypes
  <1>2. \A h, n : IsCounted(w, h, n) => h \in Hosts /\ n \in 1..Len(requests)
    BY <1>1 DEF IsCounted, Requests
  <1>3. \A h, n : n \in CountedAt(w, h) <=> IsCounted(w, h, n) BY <1>2 DEF CountedAt
  <1>4. \A n : n \in CountedBy(w) <=> \E h : IsCounted(w, h, n) BY <1>2 DEF CountedBy
  <1>5. IsFiniteSet(1..Len(requests)) BY <1>1, FS_Interval
  <1>6. \A h : CountedAt(w, h) \in SUBSET (1..Len(requests)) /\ CountedBy(w) \in SUBSET (1..Len(requests))
    BY DEF CountedAt, CountedBy
  <1>7. \A h : IsFiniteSet(CountedAt(w, h)) /\ IsFiniteSet(CountedBy(w)) BY <1>5, <1>6, FS_Subset
  <1> QED BY <1>1, <1>2, <1>3, <1>4, <1>7

LEMMA CountedSetsNext ==
    ASSUME ThrottleTypes', NEW w
    PROVE  /\ \A h, n : n \in CountedAt(w, h)' <=> IsCounted(w, h, n)'
           /\ \A n : n \in CountedBy(w)' <=> \E h : IsCounted(w, h, n)'
  <1>1. Len(requests') \in Nat /\ \A n \in 1..Len(requests') : requests'[n] \in Requests
    BY DEF ThrottleTypes, WorkerTypes
  <1>2. \A h, n : IsCounted(w, h, n)' => h \in Hosts /\ n \in 1..Len(requests')
    BY <1>1 DEF IsCounted, Requests
  <1>3. \A h, n : n \in CountedAt(w, h)' <=> IsCounted(w, h, n)' BY <1>2 DEF CountedAt
  <1>4. \A n : n \in CountedBy(w)' <=> \E h : IsCounted(w, h, n)' BY <1>2 DEF CountedBy
  <1> QED BY <1>3, <1>4

LEMMA CountStill ==
    ASSUME ThrottleTypes, ThrottleTypes', NEW w \in Workers, Balanced(w), sessions'[w] = sessions[w],
           \A h, n : IsCounted(w, h, n)' <=> IsCounted(w, h, n)
    PROVE  Balanced(w)'
  <1>0. /\ \A h, n : n \in CountedAt(w, h)' <=> n \in CountedAt(w, h)
        /\ \A n : n \in CountedBy(w)' <=> n \in CountedBy(w)
    BY CountedSets, CountedSetsNext
  <1>1. \A h : CountedAt(w, h)' = CountedAt(w, h) BY <1>0
  <1>2. CountedBy(w)' = CountedBy(w) BY <1>0
  <1>3. Places(w)' = Places(w) /\ Connected(w)' = Connected(w) BY DEF Places, Connected
  <1>4. NumRequests(w)' = NumRequests(w) BY <1>3 DEF NumRequests
  <1>5. \A h, n : IsCounted(w, h, n)' => h \in Connected(w)' BY <1>3 DEF Balanced
  <1>6. \A h \in Connected(w)' : sessions'[w][h] \in Nat /\ sessions'[w][h] = Cardinality(CountedAt(w, h)')
    BY <1>1, <1>3 DEF Balanced
  <1>7. IsFiniteSet(Places(w)') /\ NumRequests(w)' = Cardinality(CountedBy(w)') /\ NumRequests(w)' <= MaxRequests + 1
    BY <1>2, <1>3, <1>4 DEF Balanced
  <1> QED BY <1>5, <1>6, <1>7 DEF Balanced

LEMMA CountUp ==
    ASSUME ExportAssumption, ThrottleTypes, ThrottleTypes', NEW w \in Workers, Balanced(w), Room(w),
           NEW h \in Hosts, NEW n, sessions' = [sessions EXCEPT ![w] = Opened(w, h)],
           \A g : ~IsCounted(w, g, n),
           \A g, m : IsCounted(w, g, m)' <=> IsCounted(w, g, m) \/ (g = h /\ m = n)
    PROVE  Balanced(w)'
  <1>1. PICK s, t : s = sessions[w] /\ t = sessions'[w] OBVIOUS
  <1>2. PICK k : k = IF h \in DOMAIN s THEN s[h] ELSE 0 OBVIOUS
  <1>3. t = [g \in DOMAIN s \cup {h} |-> IF g = h THEN k + 1 ELSE s[g]]
    BY <1>1, <1>2 DEF ThrottleTypes, SessionTypes, Opened, Load, Connected
  <1>4. \A g \in DOMAIN s : s[g] \in Nat /\ s[g] = Cardinality(CountedAt(w, g)) BY <1>1 DEF Balanced, Connected
  <1>5. k \in Nat BY <1>2, <1>4
  <1>6. PlacesOf(t) = PlacesOf(s) \cup {<<h, k + 1>>} /\ <<h, k + 1>> \notin PlacesOf(s)
    BY <1>2, <1>3, <1>4, <1>5, PlacesMore
  <1>7. Places(w) = PlacesOf(s) /\ Places(w)' = PlacesOf(t) BY <1>1 DEF Places, PlacesOf, Connected
  <1>8. /\ \A g, m : m \in CountedAt(w, g)' <=> m \in CountedAt(w, g) \/ (g = h /\ m = n)
        /\ \A m : m \in CountedBy(w)' <=> m \in CountedBy(w) \/ m = n
        /\ \A g : n \notin CountedAt(w, g) /\ n \notin CountedBy(w)
        /\ \A g : IsFiniteSet(CountedAt(w, g)) /\ IsFiniteSet(CountedBy(w))
    BY CountedSets, CountedSetsNext
  <1>9. CountedAt(w, h)' = CountedAt(w, h) \cup {n} /\ CountedBy(w)' = CountedBy(w) \cup {n} BY <1>8
  <1>10. \A g : g # h => CountedAt(w, g)' = CountedAt(w, g) BY <1>8
  <1>11. k = Cardinality(CountedAt(w, h))
    <2>1. CASE h \in DOMAIN s BY <1>2, <1>4, <2>1
    <2>2. CASE h \notin DOMAIN s
      <3>1. CountedAt(w, h) = {} BY <1>1, <2>2, CountedSets DEF Balanced, Connected
      <3> QED BY <1>2, <2>2, <3>1, FS_EmptySet
    <2> QED BY <2>1, <2>2
  <1>12. Cardinality(CountedAt(w, h)') = k + 1
    <2>1. n \notin CountedAt(w, h) /\ IsFiniteSet(CountedAt(w, h)) BY <1>8
    <2> QED BY <1>9, <1>11, <2>1, FS_AddElement
  <1>13. Cardinality(CountedBy(w)') = Cardinality(CountedBy(w)) + 1
    <2>1. n \notin CountedBy(w) /\ IsFiniteSet(CountedBy(w)) BY <1>8
    <2> QED BY <1>9, <2>1, FS_AddElement
  <1>14. IsFiniteSet(PlacesOf(t)) /\ Cardinality(PlacesOf(t)) = Cardinality(PlacesOf(s)) + 1
    <2>1. IsFiniteSet(PlacesOf(s)) BY <1>7 DEF Balanced
    <2> QED BY <1>6, <2>1, FS_AddElement
  <1>15. /\ NumRequests(w)' = Cardinality(PlacesOf(t)) /\ NumRequests(w) = Cardinality(PlacesOf(s))
    BY <1>7 DEF NumRequests
  <1>16. NumRequests(w) \in Nat /\ NumRequests(w) <= MaxRequests /\ MaxRequests \in Nat
    <2>1. IsFiniteSet(PlacesOf(s)) BY <1>7 DEF Balanced
    <2> QED BY <1>15, <2>1, FS_CardinalityType DEF Room, ExportAssumption
  <1>17. NumRequests(w)' <= MaxRequests + 1 BY <1>14, <1>15, <1>16
  <1>18. NumRequests(w)' = Cardinality(CountedBy(w)') BY <1>13, <1>14, <1>15 DEF Balanced
  <1>19. \A g, m : IsCounted(w, g, m)' => g \in DOMAIN t BY <1>1, <1>3 DEF Balanced, Connected
  <1>20. \A g \in DOMAIN t : t[g] \in Nat /\ t[g] = Cardinality(CountedAt(w, g)')
    <2> SUFFICES ASSUME NEW g \in DOMAIN t PROVE t[g] \in Nat /\ t[g] = Cardinality(CountedAt(w, g)') OBVIOUS
    <2>1. CASE g = h BY <1>3, <1>5, <1>12, <2>1
    <2>2. CASE g # h
      <3>1. g \in DOMAIN s /\ t[g] = s[g] BY <1>3, <2>2
      <3> QED BY <1>4, <1>10, <2>2, <3>1
    <2> QED BY <2>1, <2>2
  <1>21. Connected(w)' = DOMAIN t BY <1>1 DEF Connected
  <1>22. \A g \in Connected(w)' : sessions'[w][g] \in Nat /\ sessions'[w][g] = Cardinality(CountedAt(w, g)')
    BY <1>1, <1>20, <1>21
  <1> QED BY <1>7, <1>14, <1>17, <1>18, <1>19, <1>21, <1>22 DEF Balanced

LEMMA CountDown ==
    ASSUME ExportAssumption, ThrottleTypes, ThrottleTypes', NEW w \in Workers, Balanced(w),
           NEW h, NEW n, IsCounted(w, h, n), \A g : IsCounted(w, g, n) => g = h,
           sessions' = [sessions EXCEPT ![w][h] = @ - 1],
           \A g, m : IsCounted(w, g, m)' <=> IsCounted(w, g, m) /\ m # n
    PROVE  Balanced(w)'
  <1>1. PICK s, t : s = sessions[w] /\ t = sessions'[w] OBVIOUS
  <1>2. h \in DOMAIN s BY <1>1 DEF Balanced, Connected
  <1>3. t = [s EXCEPT ![h] = @ - 1] BY <1>1 DEF ThrottleTypes, SessionTypes
  <1>4. \A g \in DOMAIN s : s[g] \in Nat /\ s[g] = Cardinality(CountedAt(w, g)) BY <1>1 DEF Balanced, Connected
  <1>5. /\ \A g, m : m \in CountedAt(w, g)' <=> m \in CountedAt(w, g) /\ m # n
        /\ \A m : m \in CountedBy(w)' <=> m \in CountedBy(w) /\ m # n
        /\ n \in CountedAt(w, h) /\ n \in CountedBy(w) /\ \A g : g # h => n \notin CountedAt(w, g)
        /\ \A g : IsFiniteSet(CountedAt(w, g)) /\ IsFiniteSet(CountedBy(w))
    BY CountedSets, CountedSetsNext
  <1>6. CountedAt(w, h)' = CountedAt(w, h) \ {n} /\ CountedBy(w)' = CountedBy(w) \ {n} BY <1>5
  <1>7. \A g : g # h => CountedAt(w, g)' = CountedAt(w, g) BY <1>5
  <1>8. /\ Cardinality(CountedAt(w, h)') = Cardinality(CountedAt(w, h)) - 1
        /\ Cardinality(CountedBy(w)') = Cardinality(CountedBy(w)) - 1
    BY <1>5, <1>6, FS_RemoveElement
  <1>9. PICK k : k = s[h] - 1 OBVIOUS
  <1>10. k \in Nat /\ s[h] = k + 1 /\ k = Cardinality(CountedAt(w, h)')
    <2>1. IsFiniteSet(CountedAt(w, h)') BY <1>5, <1>6, FS_RemoveElement
    <2>2. Cardinality(CountedAt(w, h)') \in Nat BY <2>1, FS_CardinalityType
    <2> QED BY <1>2, <1>4, <1>8, <1>9, <2>2
  <1>11. DOMAIN t = DOMAIN s /\ t[h] = k /\ \A g \in DOMAIN s : g # h => t[g] = s[g] BY <1>2, <1>3, <1>9
  <1>12. PlacesOf(s) = PlacesOf(t) \cup {<<h, k + 1>>} /\ <<h, k + 1>> \notin PlacesOf(t)
    <2>1. \A g \in DOMAIN t : t[g] \in Nat BY <1>4, <1>10, <1>11
    <2>2. DOMAIN s = DOMAIN t \cup {h} /\ k = (IF h \in DOMAIN t THEN t[h] ELSE 0) /\ s[h] = k + 1
      BY <1>2, <1>10, <1>11
    <2>3. \A g \in DOMAIN t : g # h => s[g] = t[g] BY <1>11
    <2> QED BY <1>10, <2>1, <2>2, <2>3, PlacesMore
  <1>13. Places(w) = PlacesOf(s) /\ Places(w)' = PlacesOf(t) BY <1>1 DEF Places, PlacesOf, Connected
  <1>14. IsFiniteSet(PlacesOf(t)) /\ Cardinality(PlacesOf(s)) = Cardinality(PlacesOf(t)) + 1
         /\ Cardinality(PlacesOf(t)) \in Nat
    <2>1. IsFiniteSet(PlacesOf(s)) BY <1>13 DEF Balanced
    <2>2. IsFiniteSet(PlacesOf(t)) BY <1>12, <2>1, FS_Subset
    <2> QED BY <1>12, <2>2, FS_AddElement, FS_CardinalityType
  <1>15. /\ NumRequests(w)' = Cardinality(PlacesOf(t)) /\ NumRequests(w) = Cardinality(PlacesOf(s))
    BY <1>13 DEF NumRequests
  <1>16. NumRequests(w) <= MaxRequests + 1 /\ NumRequests(w) = Cardinality(CountedBy(w)) /\ MaxRequests \in Nat
    BY DEF Balanced, ExportAssumption
  <1>17. NumRequests(w)' <= MaxRequests + 1 BY <1>14, <1>15, <1>16
  <1>18. NumRequests(w)' = Cardinality(CountedBy(w)') BY <1>8, <1>14, <1>15, <1>16
  <1>19. \A g, m : IsCounted(w, g, m)' => g \in DOMAIN t BY <1>1, <1>11 DEF Balanced, Connected
  <1>20. \A g \in DOMAIN t : t[g] \in Nat /\ t[g] = Cardinality(CountedAt(w, g)')
    BY <1>4, <1>7, <1>10, <1>11
  <1>21. Connected(w)' = DOMAIN t BY <1>1 DEF Connected
  <1>22. \A g \in Connected(w)' : sessions'[w][g] \in Nat /\ sessions'[w][g] = Cardinality(CountedAt(w, g)')
    BY <1>1, <1>20, <1>21
  <1> QED BY <1>13, <1>14, <1>17, <1>18, <1>19, <1>21, <1>22 DEF Balanced

-----------------------------------------------------------------------------
(* A step of thread t of worker w at request n, which the other thread has *)
(* no answer of.                                                           *)
LEMMA CountChange ==
    ASSUME WorkerTypes, NEW w \in Workers, NEW t, NEW n, NEW cb, NEW next, NEW other,
           StepTo(w, t, n, cb, next, other), requests'[n].host = requests[n].host,
           Busy(other) => other.request # n
    PROVE  /\ \A v, h, m : m # n => (IsCounted(v, h, m)' <=> IsCounted(v, h, m))
           /\ \A v, h : IsCounted(v, h, n)' <=> v = w /\ h = requests[n].host /\ (requests'[n].open \/ Busy(next))
           /\ \A v, h : IsCounted(v, h, n) <=> v = w /\ h = requests[n].host /\ (requests[n].open \/ Busy(cb))
  <1>1. /\ t \in {"main", "loop"} /\ Becomes(w, t, next) /\ cb = Step(w, t) /\ other = Step(w, Others(t))
        /\ cb = Idle \/ cb.request = n
        /\ next = Idle \/ next.request = n
        /\ n \in 1..Len(requests) /\ requests[n].worker = w
        /\ Len(requests') = Len(requests)
        /\ \A m \in 1..Len(requests) : m # n => requests'[m] = requests[m]
        /\ requests'[n].worker = w
    BY DEF StepTo, RequestGoesOn
  <1>2. /\ \A v \in Workers : v # w => main'[v] = main[v] /\ loop'[v] = loop[v]
        /\ Step(w, t)' = next /\ Step(w, Others(t))' = other
    BY <1>1, StepMade DEF WorkerTypes
  <1>3. {main[w], loop[w]} = {cb, other} /\ {main'[w], loop'[w]} = {next, other}
    <2>1. CASE t = "main" BY <1>1, <1>2, <2>1 DEF Step, Others
    <2>2. CASE t = "loop" BY <1>1, <1>2, <2>2 DEF Step, Others
    <2> QED BY <1>1, <2>1, <2>2
  <1>4. (Busy(cb) => cb.request = n) /\ (Busy(next) => next.request = n)
    <2>1. ~Busy(Idle) BY DEF Busy, Idle
    <2> QED BY <1>1, <2>1
  <1>5. \A m : AtHand(w, m) <=> (Busy(cb) /\ cb.request = m) \/ (Busy(other) /\ other.request = m)
    BY <1>3 DEF AtHand
  <1>6. \A m : AtHand(w, m)' <=> (Busy(next) /\ next.request = m) \/ (Busy(other) /\ other.request = m)
    BY <1>3 DEF AtHand
  <1>7. \A v \in Workers : \A m : v # w => (AtHand(v, m)' <=> AtHand(v, m)) BY <1>2 DEF AtHand
  <1>8. \A v, h, m : IsCounted(v, h, m) <=>
           m \in 1..Len(requests) /\ requests[m].worker = v /\ requests[m].host = h /\ (requests[m].open \/ AtHand(v, m))
    BY DEF IsCounted, Counted, AtHand, Busy
  <1>9. \A v, h, m : IsCounted(v, h, m)' <=>
           m \in 1..Len(requests) /\ requests'[m].worker = v /\ requests'[m].host = h /\ (requests'[m].open \/ AtHand(v, m)')
    BY <1>1 DEF IsCounted, Counted, AtHand, Busy
  <1>10. ASSUME NEW v, NEW h, NEW m, m # n PROVE IsCounted(v, h, m)' <=> IsCounted(v, h, m)
    <2>1. m \in 1..Len(requests) => requests'[m] = requests[m] /\ requests[m].worker \in Workers
      BY <1>1, <1>10, RequestAt
    <2>2. AtHand(w, m)' <=> AtHand(w, m) BY <1>4, <1>5, <1>6, <1>10
    <2> QED BY <1>7, <1>8, <1>9, <2>1, <2>2
  <1>11. \A v, h : IsCounted(v, h, n)' <=> v = w /\ h = requests[n].host /\ (requests'[n].open \/ Busy(next))
    BY <1>1, <1>4, <1>6, <1>9
  <1>12. \A v, h : IsCounted(v, h, n) <=> v = w /\ h = requests[n].host /\ (requests[n].open \/ Busy(cb))
    BY <1>1, <1>4, <1>5, <1>8
  <1> QED BY <1>10, <1>11, <1>12

(* A step of thread t that has no answer in hand, before and after.        *)
LEMMA CountAside ==
    ASSUME WorkerTypes, NEW w \in Workers, NEW t \in {"main", "loop"}, NEW cb, cb = Step(w, t), NEW next,
           Becomes(w, t, next), UNCHANGED requests, ~Busy(cb), ~Busy(next)
    PROVE  \A v, h, m : IsCounted(v, h, m)' <=> IsCounted(v, h, m)
  <1>1. PICK other : other = Step(w, Others(t)) OBVIOUS
  <1>2. /\ \A v \in Workers : v # w => main'[v] = main[v] /\ loop'[v] = loop[v]
        /\ Step(w, t)' = next /\ Step(w, Others(t))' = other
    BY <1>1, StepMade DEF WorkerTypes
  <1>3. {main[w], loop[w]} = {cb, other} /\ {main'[w], loop'[w]} = {next, other}
    <2>1. CASE t = "main" BY <1>1, <1>2, <2>1 DEF Step, Others
    <2>2. CASE t = "loop" BY <1>1, <1>2, <2>2 DEF Step, Others
    <2> QED BY <2>1, <2>2
  <1>4. \A v \in Workers : \A m : AtHand(v, m)' <=> AtHand(v, m) BY <1>2, <1>3 DEF AtHand
  <1>5. \A m \in 1..Len(requests) : requests[m].worker \in Workers BY RequestAt
  <1>6. \A v, h, m : IsCounted(v, h, m) <=>
           m \in 1..Len(requests) /\ requests[m].worker = v /\ requests[m].host = h /\ (requests[m].open \/ AtHand(v, m))
    BY DEF IsCounted, Counted, AtHand, Busy
  <1>7. \A v, h, m : IsCounted(v, h, m)' <=>
           m \in 1..Len(requests) /\ requests[m].worker = v /\ requests[m].host = h /\ (requests[m].open \/ AtHand(v, m)')
    BY DEF IsCounted, Counted, AtHand, Busy
  <1> QED BY <1>4, <1>5, <1>6, <1>7

LEMMA ThrottleKept ==
    ASSUME ThrottleInv, WorkerTypes', UNCHANGED sessions, \A v, h, m : IsCounted(v, h, m)' <=> IsCounted(v, h, m)
    PROVE  ThrottleInv'
  <1>1. ThrottleTypes /\ ThrottleTypes' BY DEF ThrottleInv, ThrottleTypes, SessionTypes
  <1>2. \A v \in Workers : Balanced(v)' BY <1>1, CountStill DEF ThrottleInv
  <1> QED BY <1>1, <1>2 DEF ThrottleInv

(* An answer is done with, and no further page asked for.                  *)
LEMMA ThrottleEnds ==
    ASSUME ExportAssumption, ThrottleInv, WorkerTypes', NEW w \in Workers, NEW t, NEW n, NEW cb, NEW next, NEW other,
           StepTo(w, t, n, cb, next, other), UNCHANGED requests, Busy(cb), ~Busy(next), ~requests[n].open,
           Busy(other) => other.request # n,
           sessions' = [sessions EXCEPT ![w][requests[n].host] = @ - 1]
    PROVE  ThrottleInv'
  <1>1. ThrottleTypes /\ \A v \in Workers : Balanced(v) BY DEF ThrottleInv
  <1>2. PICK h : h = requests[n].host OBVIOUS
  <1>3. sessions' = [sessions EXCEPT ![w][h] = @ - 1] BY <1>2
  <1>4. ThrottleTypes'
    <2>1. DOMAIN sessions' = Workers /\ \A v \in Workers : DOMAIN sessions'[v] = DOMAIN sessions[v]
      BY <1>1, <1>3 DEF ThrottleTypes, SessionTypes
    <2> QED BY <1>1, <2>1 DEF ThrottleTypes, SessionTypes
  <1>5. /\ \A v, g, m : m # n => (IsCounted(v, g, m)' <=> IsCounted(v, g, m))
        /\ \A v, g : IsCounted(v, g, n)' <=> v = w /\ g = requests[n].host /\ (requests'[n].open \/ Busy(next))
        /\ \A v, g : IsCounted(v, g, n) <=> v = w /\ g = requests[n].host /\ (requests[n].open \/ Busy(cb))
    BY <1>1, CountChange DEF ThrottleTypes
  <1>6. \A v, g : ~IsCounted(v, g, n)' BY <1>5
  <1>7. IsCounted(w, h, n) /\ \A v, g : IsCounted(v, g, n) => v = w /\ g = h BY <1>2, <1>5
  <1>8. Balanced(w)'
    <2>1. \A g, m : IsCounted(w, g, m)' <=> IsCounted(w, g, m) /\ m # n BY <1>5, <1>6
    <2>2. Balanced(w) BY <1>1
    <2> QED BY <1>1, <1>3, <1>4, <1>7, <2>1, <2>2, CountDown
  <1>9. ASSUME NEW v \in Workers, v # w PROVE Balanced(v)'
    <2>1. sessions'[v] = sessions[v] BY <1>1, <1>3, <1>9 DEF ThrottleTypes, SessionTypes
    <2>2. \A g, m : IsCounted(v, g, m)' <=> IsCounted(v, g, m) BY <1>5, <1>6, <1>7, <1>9
    <2>3. Balanced(v) BY <1>1
    <2> QED BY <1>1, <1>4, <2>1, <2>2, <2>3, CountStill
  <1> QED BY <1>4, <1>8, <1>9 DEF ThrottleInv

LEMMA ThrottleCallback ==
    ASSUME ExportAssumption, ThrottleInv, WorkerTypes', NEW w \in Workers, NEW t \in {"main", "loop"},
           NEW cb, cb = Step(w, t), CallbackStep(w, t, cb)
    PROVE  ThrottleInv'
  <1>1. WorkerTypes BY DEF ThrottleInv, ThrottleTypes
  <1>2. PICK n, other : n = cb.request /\ other = Step(w, Others(t)) OBVIOUS
  <1>3. ASSUME Busy(cb)
        PROVE  /\ n \in 1..Len(requests) /\ requests[n].worker = w /\ ~requests[n].open
               /\ Busy(other) => other.request # n
               /\ cb \in Callbacks
    <2>1. RunsCallback(cb) /\ ~RacedWrite(cb) /\ cb.do # "write" BY <1>3 DEF Busy, RunsCallback, RacedWrite
    <2>2. /\ n \in 1..Len(requests) /\ requests[n].worker = w /\ ~requests[n].open
          /\ other # Idle /\ other.request = n => RacedWrite(other) \/ (t = "loop" /\ other.do = "errback")
          /\ cb \in Callbacks
      BY <1>1, <1>2, <2>1, Alone, CallbackOf
    <2>3. Busy(other) => other # Idle /\ ~RacedWrite(other) /\ other.do # "errback" BY DEF Busy, Idle, RacedWrite
    <2> QED BY <2>2, <2>3
  <1>4. CASE ErrCallback(w, t, cb)
    <2>1. PICK next : next = Idle OBVIOUS
    <2>2. Busy(cb) /\ ~Busy(next) /\ Completed(w, n) /\ Becomes(w, t, next) /\ UNCHANGED requests
      BY <1>2, <1>4, <2>1 DEF ErrCallback, Busy, Idle
    <2>3. StepTo(w, t, n, cb, next, other) BY <1>1, <1>2, <1>3, <2>1, <2>2, StillGoesOn DEF StepTo
    <2> QED BY <1>3, <2>2, <2>3, ThrottleEnds DEF Completed
  <1>5. CASE Complete(w, t, cb)
    <2>1. PICK next : next = [cb EXCEPT !.do = "write"] OBVIOUS
    <2>2. Busy(cb) /\ Completed(w, n) /\ Becomes(w, t, next) /\ UNCHANGED requests
      BY <1>2, <1>5, <2>1 DEF Complete, Busy
    <2>3. next.do = "write" /\ next.request = n BY <1>2, <1>3, <2>1, <2>2 DEF Callbacks
    <2>4. StepTo(w, t, n, cb, next, other) BY <1>1, <1>2, <1>3, <2>2, <2>3, StillGoesOn DEF StepTo
    <2>5. ~Busy(next) BY <2>3 DEF Busy
    <2> QED BY <1>3, <2>2, <2>4, <2>5, ThrottleEnds DEF Completed
  <1>6. CASE FetchNext(w, t, cb)
    <2>1. PICK next : next = [cb EXCEPT !.do = "write"] OBVIOUS
    <2>2. cb.do = "rows" /\ More(cb) /\ Busy(cb) /\ Fetches(w, cb) /\ Becomes(w, t, next) /\ UNCHANGED sessions
      BY <1>2, <1>6, <2>1 DEF FetchNext, Busy, Fetches, Fetched, Racing
    <2>3. next.do = "write" /\ next.request = n BY <1>2, <1>3, <2>1, <2>2 DEF Callbacks
    <2>4. RequestGoesOn(w, n) /\ requests'[n].open /\ requests'[n].host = requests[n].host
      BY <1>1, <1>2, <2>2, FetchOf
    <2>5. StepTo(w, t, n, cb, next, other) BY <1>2, <2>2, <2>3, <2>4 DEF StepTo
    <2>6. \A v, h, m : IsCounted(v, h, m)' <=> IsCounted(v, h, m)
      BY <1>1, <1>3, <2>2, <2>4, <2>5, CountChange
    <2> QED BY <2>2, <2>6, ThrottleKept
  <1>7. CASE WriteRows(w, t, cb)
    <2>1. PICK next : next = IF More(cb) THEN Returned(t, cb) ELSE [cb EXCEPT !.do = "end"] OBVIOUS
    <2>2. cb.do = "write" /\ Becomes(w, t, next) /\ UNCHANGED <<sessions, requests>> BY <1>7, <2>1 DEF WriteRows
    <2>3. cb \in Callbacks
      <3>1. RunsCallback(cb) BY <2>2 DEF RunsCallback
      <3> QED BY <1>1, <1>2, <3>1, CallbackOf
    <2>4. next.do \in {"idle", "errback", "end"}
      <3>1. Returned(t, cb).do \in {"idle", "errback"} BY DEF Returned, AtErrback, Idle
      <3>2. [cb EXCEPT !.do = "end"].do = "end" BY <2>3 DEF Callbacks
      <3> QED BY <2>1, <3>1, <3>2
    <2>5. ~Busy(cb) /\ ~Busy(next) BY <2>2, <2>4 DEF Busy
    <2> QED BY <1>1, <2>2, <2>5, CountAside, ThrottleKept
  <1>8. CASE EndRange(w, t, cb)
    <2>1. PICK next : next = Returned(t, cb) OBVIOUS
    <2>2. cb.do = "end" /\ Becomes(w, t, next) /\ UNCHANGED <<sessions, requests>> BY <1>8, <2>1 DEF EndRange
    <2>3. next.do \in {"idle", "errback"} BY <2>1 DEF Returned, AtErrback, Idle
    <2>4. ~Busy(cb) /\ ~Busy(next) BY <2>2, <2>3 DEF Busy
    <2> QED BY <1>1, <2>2, <2>4, CountAside, ThrottleKept
  <1> QED BY <1>4, <1>5, <1>6, <1>7, <1>8 DEF CallbackStep

LEMMA ThrottleFinds ==
    ASSUME ExportAssumption, ThrottleInv, WorkerTypes', NEW w \in Workers, NEW t, NEW n, NEW o, Finds(w, t, n, o),
           UNCHANGED sessions
    PROVE  ThrottleInv'
  <1>1. WorkerTypes BY DEF ThrottleInv, ThrottleTypes
  <1>2. PICK cb, other, next : cb = Step(w, t) /\ other = Step(w, Others(t)) /\ next = Callback(n, o) OBVIOUS
  <1>3. /\ t \in {"main", "loop"} /\ n \in 1..Len(requests) /\ requests[n].worker = w /\ o \in {"rows", "error"}
        /\ requests[n].open /\ (cb = Idle \/ (cb.do \in {"attach", "errback"} /\ cb.request = n))
        /\ other # Idle /\ other.request = n => RacedWrite(other) \/ (t = "loop" /\ other.do = "errback")
        /\ Answered(n) /\ Becomes(w, t, next)
    BY <1>2 DEF Finds
  <1>4. RequestGoesOn(w, n) /\ requests'[n].host = requests[n].host BY <1>1, <1>3, AnswerGoesOn
  <1>5. next.request = n /\ Busy(next) BY <1>2, <1>3 DEF Callback, Busy
  <1>6. StepTo(w, t, n, cb, next, other) BY <1>2, <1>3, <1>4, <1>5 DEF StepTo
  <1>7. Busy(other) => other.request # n
    <2>1. Busy(other) => other # Idle /\ ~RacedWrite(other) /\ other.do # "errback" BY DEF Busy, Idle, RacedWrite
    <2> QED BY <1>3, <2>1
  <1>8. \A v, h, m : IsCounted(v, h, m)' <=> IsCounted(v, h, m)
    BY <1>1, <1>3, <1>4, <1>5, <1>6, <1>7, CountChange
  <1> QED BY <1>8, ThrottleKept

LEMMA ThrottleStart ==
    ASSUME ExportAssumption, ThrottleInv, WorkerTypes', NEW w \in Workers, NEW r \in Ranges, NEW h \in Hosts,
           StartRequest(w, r, h)
    PROVE  ThrottleInv'
  <1>1. ThrottleTypes /\ WorkerTypes /\ \A v \in Workers : Balanced(v) BY DEF ThrottleInv, ThrottleTypes
  <1>2. PICK n, q : n = Len(requests) + 1
                    /\ q = [worker |-> w, range |-> r, host |-> h, page |-> 1, open |-> TRUE, raced |-> {}]
    OBVIOUS
  <1>3. PICK next : next = [do |-> "attach", request |-> n] OBVIOUS
  <1>4. /\ Room(w) /\ main[w] = Idle /\ sessions' = [sessions EXCEPT ![w] = Opened(w, h)]
        /\ requests' = Append(requests, q) /\ main' = [main EXCEPT ![w] = next] /\ UNCHANGED loop
    BY <1>2, <1>3 DEF StartRequest, Take
  <1>5. q \in Requests /\ q.worker = w /\ q.host = h /\ q.open BY <1>2 DEF Requests
  <1>6. requests \in Seq(Requests) /\ Len(requests) \in Nat BY <1>1 DEF WorkerTypes
  <1>7. /\ requests'[n] = q
        /\ \A m \in 1..Len(requests) : requests'[m] = requests[m]
        /\ \A m : m \in 1..Len(requests') <=> m \in 1..Len(requests) \/ m = n
        /\ n \notin 1..Len(requests)
    <2>1. /\ Len(requests') = Len(requests) + 1 /\ requests'[Len(requests) + 1] = q
          /\ \A m \in 1..Len(requests) : requests'[m] = requests[m]
      BY <1>4, <1>5, <1>6, AppendAt
    <2> QED BY <1>2, <1>6, <2>1
  <1>8. ThrottleTypes'
    <2>1. sessions'[w] = Opened(w, h) /\ DOMAIN sessions' = Workers
          /\ \A v \in Workers : v # w => sessions'[v] = sessions[v]
      BY <1>1, <1>4 DEF ThrottleTypes, SessionTypes
    <2>2. DOMAIN Opened(w, h) \subseteq Hosts BY <1>1 DEF ThrottleTypes, SessionTypes, Opened, Connected
    <2>3. \A v \in Workers : DOMAIN sessions'[v] \subseteq Hosts BY <1>1, <2>1, <2>2 DEF ThrottleTypes, SessionTypes
    <2> QED BY <2>1, <2>3 DEF ThrottleTypes, SessionTypes
  <1>9. main'[w] = next /\ \A v \in Workers : v # w => main'[v] = main[v]
    BY <1>1, <1>4 DEF WorkerTypes
  <1>10. ~Busy(Idle) /\ ~Busy(next) BY <1>3 DEF Busy, Idle
  <1>11. \A v \in Workers : \A m : AtHand(v, m)' <=> AtHand(v, m)
    BY <1>4, <1>9, <1>10 DEF AtHand
  <1>12. \A m \in 1..Len(requests) : requests[m].worker \in Workers BY <1>1, RequestAt
  <1>13. ASSUME NEW v, NEW g, NEW m, m # n PROVE IsCounted(v, g, m)' <=> IsCounted(v, g, m)
    <2>1. CASE m \in 1..Len(requests) /\ requests[m].worker = v
      <3>1. Counted(m) <=> requests[m].open \/ AtHand(v, m) BY <2>1 DEF Counted, AtHand, Busy
      <3>2. requests'[m] = requests[m] /\ m \in 1..Len(requests') BY <1>7, <2>1
      <3>3. Counted(m)' <=> requests[m].open \/ AtHand(v, m)' BY <2>1, <3>2 DEF Counted, AtHand, Busy
      <3> QED BY <1>11, <1>12, <2>1, <3>1, <3>2, <3>3 DEF IsCounted
    <2>2. CASE ~(m \in 1..Len(requests) /\ requests[m].worker = v)
      BY <1>7, <1>13, <2>2 DEF IsCounted
    <2> QED BY <2>1, <2>2
  <1>14. \A v, g : IsCounted(v, g, n)' <=> v = w /\ g = h
    <2>1. Counted(n)' BY <1>5, <1>7 DEF Counted
    <2> QED BY <1>5, <1>7, <2>1 DEF IsCounted
  <1>15. \A v, g : ~IsCounted(v, g, n) BY <1>7 DEF IsCounted
  <1>16. Balanced(w)'
    <2>1. \A g, m : IsCounted(w, g, m)' <=> IsCounted(w, g, m) \/ (g = h /\ m = n) BY <1>13, <1>14, <1>15
    <2>2. Balanced(w) BY <1>1
    <2> QED BY <1>1, <1>4, <1>8, <1>15, <2>1, <2>2, CountUp
  <1>17. ASSUME NEW v \in Workers, v # w PROVE Balanced(v)'
    <2>1. \A g, m : IsCounted(v, g, m)' <=> IsCounted(v, g, m) BY <1>13, <1>14, <1>15, <1>17
    <2>2. sessions'[v] = sessions[v] BY <1>1, <1>4, <1>17 DEF ThrottleTypes, SessionTypes
    <2>3. Balanced(v) BY <1>1
    <2> QED BY <1>1, <1>8, <2>1, <2>2, <2>3, CountStill
  <1> QED BY <1>8, <1>16, <1>17 DEF ThrottleInv

LEMMA ThrottleNext ==
    ASSUME ExportAssumption, ThrottleInv, [Next]_vars
    PROVE  ThrottleInv'
  <1>1. WorkerTypes BY DEF ThrottleInv, ThrottleTypes
  <1>2. WorkerTypes' BY <1>1, WorkerNext
  <1>3. CASE UNCHANGED <<sessions, requests, main, loop>>
    <2>1. \A v, h, m : IsCounted(v, h, m)' <=> IsCounted(v, h, m) BY <1>3 DEF IsCounted, Counted
    <2> QED BY <1>2, <1>3, <2>1, ThrottleKept
  <1>4. ASSUME NEW w \in Workers, OnMain(w) PROVE ThrottleInv'
    <2>1. PICK t, cb : t = "main" /\ cb = main[w] OBVIOUS
    <2>2. CallbackStep(w, t, cb) BY <1>4, <2>1 DEF OnMain
    <2>3. t \in {"main", "loop"} /\ cb = Step(w, t) BY <2>1 DEF Step
    <2> QED BY <1>2, <2>2, <2>3, ThrottleCallback
  <1>5. ASSUME NEW w \in Workers, OnLoop(w) PROVE ThrottleInv'
    <2>1. PICK t, cb : t = "loop" /\ cb = loop[w] OBVIOUS
    <2>2. CallbackStep(w, t, cb) BY <1>5, <2>1 DEF OnLoop
    <2>3. t \in {"main", "loop"} /\ cb = Step(w, t) BY <2>1 DEF Step
    <2> QED BY <1>2, <2>2, <2>3, ThrottleCallback
  <1>6. ASSUME NEW w \in Workers, AttachAnswered(w) \/ ErrbackAnswered(w) PROVE ThrottleInv'
    <2>1. PICK n, o : Finds(w, "main", n, o) BY <1>1, <1>6, FoundFinds
    <2>2. UNCHANGED sessions BY <1>6 DEF AttachAnswered, ErrbackAnswered
    <2> QED BY <1>2, <2>1, <2>2, ThrottleFinds
  <1>7. ASSUME NEW n \in DOMAIN requests, NEW o \in {"rows", "error"}, Answer(n, o) PROVE ThrottleInv'
    <2>1. n \in 1..Len(requests) BY <1>1 DEF WorkerTypes
    <2>2. PICK w \in Workers : w = requests[n].worker /\ Finds(w, "loop", n, o) BY <1>1, <1>7, <2>1, AnswerFinds
    <2>3. UNCHANGED sessions BY <1>7 DEF Answer
    <2> QED BY <1>2, <2>2, <2>3, ThrottleFinds
  <1>8. ASSUME NEW w \in Workers, Attach(w) \/ AttachErrback(w) PROVE ThrottleInv'
    <2>1. PICK t, cb : t = "main" /\ cb = main[w] OBVIOUS
    <2>2. PICK next \in {Idle, AtErrback(main[w].request)} : Becomes(w, t, next)
      BY <1>8, <2>1 DEF Attach, AttachErrback, Becomes
    <2>3. cb.do \in {"attach", "errback"} /\ UNCHANGED <<requests, sessions>> BY <1>8, <2>1 DEF Attach, AttachErrback
    <2>4. ~Busy(cb) /\ ~Busy(next) BY <2>2, <2>3 DEF Busy, AtErrback, Idle
    <2>5. cb = Step(w, t) BY <2>1 DEF Step
    <2>6. \A v, h, m : IsCounted(v, h, m)' <=> IsCounted(v, h, m) BY <1>1, <2>1, <2>2, <2>3, <2>4, <2>5, CountAside
    <2> QED BY <1>2, <2>3, <2>6, ThrottleKept
  <1>9. ASSUME NEW w \in Workers, TakePill(w) \/ Die(w) \/ \E r \in Ranges : NoSession(w, r)
        PROVE  UNCHANGED <<sessions, requests, main, loop>>
    BY <1>9 DEF TakePill, Die, NoSession
  <1>10. ParentStep \/ ChildTimeout \/ UNCHANGED vars => UNCHANGED <<sessions, requests, main, loop>>
    BY DEF ParentStep, ChildTimeout, Select, Receive, Done, ChildDied, Close, Leave, vars, workerVars
  <1>11. CASE ParentStep \/ ChildTimeout \/ UNCHANGED vars BY <1>3, <1>10, <1>11
  <1>12. CASE \E w \in Workers : MainStep(w)
    BY <1>2, <1>3, <1>4, <1>6, <1>8, <1>9, <1>12, ThrottleStart DEF MainStep
  <1>13. CASE \E w \in Workers : LoopStep(w) BY <1>5, <1>7, <1>13 DEF LoopStep
  <1>14. CASE \E w \in Workers : Die(w) \/ (\E r \in Ranges : NoSession(w, r)) \/ ErrbackAnswered(w)
    BY <1>3, <1>6, <1>9, <1>14
  <1> QED BY <1>11, <1>12, <1>13, <1>14 DEF Next

LEMMA ThrottleStarts ==
    ASSUME ExportAssumption, Init
    PROVE  ThrottleInv
  <1>1. requests = <<>> /\ sessions = [w \in Workers |-> <<>>] BY DEF Init
  <1>2. ThrottleTypes
    <2>1. DOMAIN <<>> = {} OBVIOUS
    <2> QED BY <1>1, <2>1, WorkerInit DEF ThrottleTypes, SessionTypes
  <1>3. ASSUME NEW w \in Workers PROVE Balanced(w)
    <2>1. Connected(w) = {} BY <1>1 DEF Connected
    <2>2. Places(w) = {} BY <2>1 DEF Places
    <2>3. 1..Len(requests) = {} BY <1>1
    <2>4. CountedBy(w) = {} /\ \A h, n : ~IsCounted(w, h, n) BY <2>3 DEF CountedBy, IsCounted
    <2>5. NumRequests(w) = 0 /\ Cardinality(CountedBy(w)) = 0 /\ IsFiniteSet(Places(w))
      BY <2>2, <2>4, FS_EmptySet DEF NumRequests
    <2>6. 0 <= MaxRequests + 1 BY DEF ExportAssumption
    <2> QED BY <2>1, <2>4, <2>5, <2>6 DEF Balanced
  <1> QED BY <1>2, <1>3 DEF ThrottleInv

(* What a worker counts for throttling is what it has in progress, and     *)
(* that is maxrequests and one more at most, on whichever thread answers   *)
(* come, whatever fails (ExportSession, ExportProcess.inner_run).          *)
THEOREM ExportThrottled ==
    ASSUME ExportAssumption
    PROVE  Spec => []Throttled
  <1>1. ThrottleInv => Throttled
    <2> SUFFICES ASSUME ThrottleInv, NEW w \in Workers
                 PROVE  /\ NumRequests(w) = Cardinality({n \in DOMAIN requests : requests[n].worker = w /\ Counted(n)})
                        /\ NumRequests(w) <= MaxRequests + 1
      BY DEF Throttled
    <2>1. ThrottleTypes /\ Balanced(w) BY DEF ThrottleInv
    <2>2. DOMAIN requests = 1..Len(requests) BY <2>1 DEF ThrottleTypes, WorkerTypes
    <2>3. \A n : n \in CountedBy(w) <=> n \in 1..Len(requests) /\ requests[n].worker = w /\ Counted(n)
      BY <2>1, CountedSets DEF IsCounted
    <2>4. CountedBy(w) = {n \in DOMAIN requests : requests[n].worker = w /\ Counted(n)} BY <2>2, <2>3
    <2> QED BY <2>1, <2>4 DEF Balanced
  <1>2. Init => ThrottleInv BY ThrottleStarts
  <1>3. ThrottleInv /\ [Next]_vars => ThrottleInv' BY ThrottleNext
  <1> QED BY <1>1, <1>2, <1>3, PTL DEF Spec

-----------------------------------------------------------------------------
(* The settings of the shell (Shell), whose variables are its own.         *)
CONSTANTS None, Commands, Keyspaces, Levels, SerialLevels, PageSizes, Batch, Dse, MaxCommands, MaxDepth
VARIABLES stack, logins, conns, profiles, count, status
Cqlsh == INSTANCE Shell WITH sessions <- logins

AnyKeyspace == Keyspaces \cup {None}
AnyLevel == Levels \cup {"ONE"}
AnySerial == SerialLevels \cup {"SERIAL"}
Sizes == PageSizes \cup {Cqlsh!DefaultPageSize}
Shells == [keyspace : AnyKeyspace, session : Nat, conn : Nat, owns : BOOLEAN, own : Nat, boosted : Nat,
           tracing : BOOLEAN, level : AnyLevel, serial : AnySerial, paging : BOOLEAN, pageSize : Sizes,
           expand : BOOLEAN, executeAs : {"someone", None}, color : BOOLEAN, shunted : BOOLEAN \cup {None},
           error : BOOLEAN, stop : BOOLEAN, at : {"prompt", "line"},
           wish : [color : BOOLEAN, tracing : BOOLEAN], cut : SUBSET {"use", "tracing"}]
Logins == [conn : Nat, keyspace : AnyKeyspace]
Conns == [open : BOOLEAN, profile : Nat]
Timeouts == {Cqlsh!DefaultTimeout, "boosted"}
Profiles == [timeout : Timeouts, level : AnyLevel, serial : AnySerial]

(* A shell works on what it was given or made itself.                      *)
SoundShell(s) ==
    /\ s.session \in 1..Len(logins) /\ s.conn \in 1..Len(conns) /\ s.own \in 1..Len(profiles)
    /\ logins[s.session].conn = s.conn
    /\ ~s.stop => conns[s.conn].open
    /\ "use" \notin s.cut => s.keyspace = logins[s.session].keyspace
    /\ profiles[s.own].level = s.level /\ profiles[s.own].serial = s.serial
    /\ Dse => s.own # 1

(* Its level is that of its connection, if it did not make the connection  *)
(* of DSEShell.                                                            *)
Linked(s) == (Dse /\ s.conn = 1) \/ conns[s.conn].profile = s.own

(* Its tracing, colour and page size are the user's.                       *)
AsWished(s) ==
    /\ s.tracing = s.wish.tracing \/ "tracing" \in s.cut
    /\ IF s.shunted = None THEN s.color = s.wish.color ELSE s.shunted = s.wish.color
    /\ ~s.paging => s.pageSize = Cqlsh!DefaultPageSize
Healthy(s) == s \in Shells /\ SoundShell(s) /\ AsWished(s)

FirstKept == Dse => /\ 1 \in 1..Len(conns) /\ conns[1].profile = 1
                    /\ 1 \in 1..Len(profiles) /\ profiles[1].level = "ONE" /\ profiles[1].serial = "SERIAL"
ListsFit == logins \in Seq(Logins) /\ conns \in Seq(Conns) /\ profiles \in Seq(Profiles) /\ FirstKept
StackFits == /\ stack \in Seq(Shells) /\ Len(stack) \in Nat \ {0}
             /\ \A n \in 1..Len(stack) : stack[n].owns <=> n = 1
             /\ \A m, n \in 1..Len(stack) : m # n => /\ stack[m].session # stack[n].session
                                                     /\ stack[m].own # stack[n].own
ShellInv == /\ ListsFit /\ StackFits
            /\ \A n \in 1..Len(stack) : Healthy(stack[n])
            /\ Linked(stack[1])

-----------------------------------------------------------------------------
(* The running shell becomes new: those under it, and what they work on,   *)
(* stay.                                                                   *)
LEMMA RunningShell ==
    ASSUME ShellInv
    PROVE  /\ Cqlsh!Shell = Len(stack) /\ Cqlsh!Shell \in 1..Len(stack)
           /\ Cqlsh!self = stack[Len(stack)] /\ Cqlsh!self \in Shells
           /\ Healthy(Cqlsh!self)
  <1>1. StackFits BY DEF ShellInv
  <1>2. Len(stack) \in 1..Len(stack) BY <1>1 DEF StackFits
  <1> QED BY <1>1, <1>2 DEF StackFits, ShellInv, Cqlsh!Shell, Cqlsh!self

OthersStay == \A n \in 1..(Len(stack) - 1) : \A s \in Shells : s = stack[n] /\ SoundShell(s) => SoundShell(s)'

LEMMA SetShell ==
    ASSUME ShellInv, NEW new, Cqlsh!Set(new), OthersStay, ListsFit', Healthy(new)',
           new.owns = stack[Len(stack)].owns, new.own = stack[Len(stack)].own,
           new.session = stack[Len(stack)].session \/ new.session > Len(logins),
           Len(stack) = 1 => Linked(new)',
           Len(stack) > 1 => conns'[stack[1].conn].profile = conns[stack[1].conn].profile
    PROVE  ShellInv'
  <1>1. StackFits /\ Len(stack) \in Nat \ {0} BY DEF ShellInv, StackFits
  <1>2. PICK top \in 1..Len(stack) : top = Len(stack) BY <1>1
  <1>3. stack' = [stack EXCEPT ![top] = new] /\ new \in Shells
    BY <1>2 DEF Cqlsh!Set, Cqlsh!Shell, Healthy
  <1>4. /\ stack' \in Seq(Shells) /\ Len(stack') = Len(stack) /\ stack'[top] = new
        /\ \A n \in 1..Len(stack) : n # top => stack'[n] = stack[n]
    BY <1>1, <1>3 DEF StackFits
  <1>5. \A n \in 1..Len(stack) : n # top => /\ n \in 1..(Len(stack) - 1)
                                            /\ stack[n] \in Shells /\ SoundShell(stack[n]) /\ AsWished(stack[n])
                                            /\ stack[n].session \in 1..Len(logins)
    BY <1>1, <1>2 DEF ShellInv, Healthy, StackFits, SoundShell
  <1>6. ASSUME NEW n \in 1..Len(stack) PROVE Healthy(stack[n])'
    <2>1. CASE n = top BY <2>1, <1>4 DEF Healthy, SoundShell, AsWished
    <2>2. CASE n # top
      <3>1. PICK s \in Shells : s = stack[n] /\ SoundShell(s) /\ AsWished(s) BY <1>5, <2>2
      <3>2. SoundShell(s)' /\ AsWished(s)' BY <1>5, <2>2, <3>1 DEF OthersStay, AsWished
      <3>3. stack'[n] = s BY <1>4, <2>2, <3>1
      <3> QED BY <3>1, <3>2, <3>3 DEF Healthy, SoundShell, AsWished
    <2> QED BY <2>1, <2>2
  <1>7. /\ \A n \in 1..Len(stack) : stack'[n].owns <=> n = 1
        /\ \A m, n \in 1..Len(stack) : m # n => /\ stack'[m].session # stack'[n].session
                                                /\ stack'[m].own # stack'[n].own
    <2>1. Len(logins) \in Nat BY DEF ShellInv, ListsFit
    <2>2. \A n \in 1..Len(stack) : n # top => stack[n].session # new.session
      BY <1>1, <1>2, <1>5, <2>1 DEF StackFits
    <2> QED BY <1>1, <1>2, <1>4, <2>2 DEF StackFits
  <1>8. Linked(stack[1])'
    <2>1. CASE Len(stack) = 1 BY <1>2, <1>4, <2>1 DEF Linked
    <2>2. CASE Len(stack) > 1
      <3>1. 1 \in 1..Len(stack) /\ 1 # top BY <1>1, <1>2, <2>2
      <3> QED BY <1>4, <2>2, <3>1 DEF ShellInv, Linked
    <2>3. \A n \in Nat \ {0} : n = 1 \/ n > 1 OBVIOUS
    <2> QED BY <1>1, <2>1, <2>2, <2>3
  <1> QED BY <1>1, <1>4, <1>6, <1>7, <1>8 DEF ShellInv, StackFits

(* A shell that changes nothing but itself.                                *)
LEMMA SetOnly ==
    ASSUME ShellInv, NEW new, Cqlsh!Set(new), UNCHANGED <<logins, conns, profiles>>, Healthy(new),
           new.owns = stack[Len(stack)].owns, new.own = stack[Len(stack)].own,
           new.session = stack[Len(stack)].session, new.conn = stack[Len(stack)].conn
    PROVE  ShellInv'
  <1>1. OthersStay /\ ListsFit' BY DEF OthersStay, SoundShell, ShellInv, ListsFit, FirstKept
  <1>2. Healthy(new)' BY DEF Healthy, SoundShell, AsWished
  <1>3. Len(stack) = 1 => Linked(new)' BY DEF ShellInv, Linked
  <1> QED BY <1>1, <1>2, <1>3, SetShell

(* A shell that only printed an error, or is at another place of its       *)
(* input.                                                                  *)
LikeShell(s, t) == t \in Shells /\ \E e \in BOOLEAN, a \in {"prompt", "line"} : t = [s EXCEPT !.error = e, !.at = a]

LEMMA LikeHealthy ==
    ASSUME NEW s \in Shells, NEW t, LikeShell(s, t)
    PROVE  /\ SoundShell(s) => SoundShell(t)
           /\ AsWished(s) => AsWished(t)
           /\ t \in Shells /\ t.owns = s.owns /\ t.own = s.own /\ t.session = s.session /\ t.conn = s.conn
           /\ t.level = s.level /\ t.serial = s.serial /\ t.stop = s.stop /\ t.cut = s.cut /\ t.keyspace = s.keyspace
  <1>1. PICK e \in BOOLEAN, a \in {"prompt", "line"} : t = [s EXCEPT !.error = e, !.at = a] BY DEF LikeShell
  <1>2. /\ t.owns = s.owns /\ t.own = s.own /\ t.session = s.session /\ t.conn = s.conn
        /\ t.level = s.level /\ t.serial = s.serial /\ t.stop = s.stop /\ t.cut = s.cut /\ t.keyspace = s.keyspace
        /\ t.tracing = s.tracing /\ t.wish = s.wish /\ t.shunted = s.shunted /\ t.color = s.color
        /\ t.paging = s.paging /\ t.pageSize = s.pageSize
    BY <1>1 DEF Shells
  <1> QED BY <1>2 DEF LikeShell, SoundShell, AsWished

LEMMA ReplyOutcome ==
    ASSUME NEW s \in Shells, NEW outcome \in {"ok", "error", "raise", "interrupt"}
    PROVE  /\ LikeShell(s, Cqlsh!After(s, outcome)) /\ LikeShell(s, s)
           /\ LikeShell(s, Cqlsh!Failed(s)) /\ LikeShell(s, Cqlsh!Aborted(s))
           /\ outcome = "ok" => Cqlsh!After(s, outcome) = s
  <1>1. s = [s EXCEPT !.error = s.error, !.at = s.at] /\ s.error \in BOOLEAN /\ s.at \in {"prompt", "line"}
    BY DEF Shells
  <1>2. LikeShell(s, s) BY <1>1 DEF LikeShell
  <1>3. LikeShell(s, Cqlsh!Failed(s))
    <2>1. Cqlsh!Failed(s) = [s EXCEPT !.error = TRUE, !.at = s.at] /\ Cqlsh!Failed(s) \in Shells
      BY DEF Shells, Cqlsh!Failed
    <2> QED BY <1>1, <2>1 DEF LikeShell
  <1>4. LikeShell(s, Cqlsh!Aborted(s))
    <2>1. Cqlsh!Aborted(s) = [s EXCEPT !.error = s.error, !.at = "prompt"] /\ Cqlsh!Aborted(s) \in Shells
      BY DEF Shells, Cqlsh!Aborted
    <2> QED BY <1>1, <2>1 DEF LikeShell
  <1>5. CASE outcome = "ok" BY <1>2, <1>3, <1>4, <1>5 DEF Cqlsh!After
  <1>6. CASE outcome = "error" \/ outcome = "raise" BY <1>2, <1>3, <1>4, <1>6 DEF Cqlsh!After
  <1>7. CASE outcome = "interrupt" BY <1>2, <1>3, <1>4, <1>7 DEF Cqlsh!After
  <1> QED BY <1>5, <1>6, <1>7

(* A shell that ends a step with an outcome, all else as it was.           *)
KinShell(s, t) == t \in Shells /\ t.owns = s.owns /\ t.own = s.own /\ t.session = s.session /\ t.conn = s.conn

LEMMA SetKin ==
    ASSUME ShellInv, NEW s, s = Cqlsh!self, NEW mid, NEW new, Cqlsh!Set(new), UNCHANGED <<logins, conns, profiles>>,
           KinShell(s, mid), SoundShell(mid), AsWished(mid), LikeShell(mid, new)
    PROVE  ShellInv'
  <1>1. Healthy(new) /\ new.owns = s.owns /\ new.own = s.own /\ new.session = s.session /\ new.conn = s.conn
    BY LikeHealthy DEF Healthy, KinShell
  <1> QED BY <1>1, RunningShell, SetOnly

LEMMA ShellMoves ==
    ASSUME ShellInv, Cqlsh!ReadLine \/ Cqlsh!EndLine
    PROVE  ShellInv'
  <1>1. PICK s \in Shells : s = Cqlsh!self /\ Healthy(s) BY RunningShell
  <1>2. PICK a \in {"prompt", "line"} : Cqlsh!Set([s EXCEPT !.at = a]) /\ UNCHANGED <<logins, conns, profiles>>
    BY <1>1 DEF Cqlsh!ReadLine, Cqlsh!EndLine, Cqlsh!Same
  <1>3. PICK new : new = [s EXCEPT !.at = a] OBVIOUS
  <1>4. new = [s EXCEPT !.error = s.error, !.at = a] /\ new \in Shells /\ s.error \in BOOLEAN
    BY <1>1, <1>3 DEF Shells
  <1>5. LikeShell(s, new) BY <1>4 DEF LikeShell
  <1> QED BY <1>1, <1>2, <1>3, <1>5, SetKin DEF Healthy, KinShell

LEMMA Tracing ==
    ASSUME ShellInv, Cqlsh!ShellAssumption, NEW switch \in {"ON", "OFF", None}, Cqlsh!DoTracing(switch)
    PROVE  ShellInv'
  <1>1. PICK s \in Shells : s = Cqlsh!self /\ Healthy(s) BY RunningShell
  <1>2. PICK mid : mid = [s EXCEPT !.tracing = Cqlsh!Switch(@, switch), !.cut = IF switch = None THEN @ ELSE @ \ {"tracing"},
                                   !.wish.tracing = Cqlsh!Switch(@, switch)] OBVIOUS
  <1>3. PICK new : new = Cqlsh!Switched(mid, s.tracing, switch) OBVIOUS
  <1>4. Cqlsh!Set(new) /\ UNCHANGED <<logins, conns, profiles>>
    BY <1>1, <1>2, <1>3 DEF Cqlsh!DoTracing, Cqlsh!Same
  <1>5. \A b \in BOOLEAN : /\ Cqlsh!Switch(b, switch) \in BOOLEAN
                           /\ switch = None => Cqlsh!Switch(b, switch) = b
                           /\ \A c \in BOOLEAN : switch # None => Cqlsh!Switch(b, switch) = Cqlsh!Switch(c, switch)
    BY DEF Cqlsh!Switch, Cqlsh!ShellAssumption
  <1>6. PICK b \in BOOLEAN, c \in BOOLEAN : b = Cqlsh!Switch(s.tracing, switch) /\ c = Cqlsh!Switch(s.wish.tracing, switch)
    BY <1>1, <1>5 DEF Shells
  <1>7. PICK cut \in SUBSET {"use", "tracing"} : /\ cut = IF switch = None THEN s.cut ELSE s.cut \ {"tracing"}
                                                 /\ "use" \in cut <=> "use" \in s.cut
    <2>1. s.cut \in SUBSET {"use", "tracing"} BY DEF Shells
    <2>2. PICK cut : cut = IF switch = None THEN s.cut ELSE s.cut \ {"tracing"} OBVIOUS
    <2>3. cut \in SUBSET {"use", "tracing"} /\ ("use" \in cut <=> "use" \in s.cut) BY <2>1, <2>2
    <2> QED BY <2>2, <2>3
  <1>8. mid = [s EXCEPT !.tracing = b, !.cut = cut, !.wish.tracing = c] BY <1>1, <1>2, <1>6, <1>7 DEF Shells
  <1>9. mid \in Shells /\ mid.tracing = b /\ mid.cut = cut /\ mid.wish.tracing = c /\ mid.wish.color = s.wish.color
        /\ mid.shunted = s.shunted /\ mid.color = s.color /\ mid.paging = s.paging /\ mid.pageSize = s.pageSize
        /\ mid.owns = s.owns /\ mid.own = s.own /\ mid.session = s.session /\ mid.conn = s.conn
        /\ mid.level = s.level /\ mid.serial = s.serial /\ mid.stop = s.stop /\ mid.keyspace = s.keyspace
    BY <1>8 DEF Shells
  <1>10. b = c \/ "tracing" \in cut
    <2>1. s.wish.tracing \in BOOLEAN /\ s.tracing \in BOOLEAN BY DEF Shells
    <2>2. CASE switch = None BY <1>1, <1>5, <1>6, <1>7, <2>1, <2>2 DEF Healthy, AsWished
    <2>3. CASE switch # None BY <1>5, <1>6, <2>1, <2>3
    <2> QED BY <2>2, <2>3
  <1>11. SoundShell(mid) /\ AsWished(mid) BY <1>1, <1>7, <1>9, <1>10 DEF Healthy, SoundShell, AsWished
  <1>12. LikeShell(mid, new) BY <1>3, <1>9, ReplyOutcome DEF Cqlsh!Switched
  <1>13. KinShell(s, mid) BY <1>9 DEF KinShell
  <1> QED BY <1>1, <1>4, <1>11, <1>12, <1>13, SetKin

LEMMA Selects ==
    ASSUME ShellInv, NEW ks, NEW outcome \in {"ok", "error", "raise", "interrupt"}, Cqlsh!Select(ks, outcome)
    PROVE  ShellInv'
  <1>1. PICK s \in Shells : s = Cqlsh!self /\ Healthy(s) BY RunningShell
  <1>2. PICK before : before = [s EXCEPT !.tracing = @ /\ ~(Cqlsh!Traces = IF ks = None THEN s.keyspace ELSE ks)] OBVIOUS
  <1>3. PICK mid : mid = CASE Cqlsh!Returned(outcome) -> s
                           [] ~Cqlsh!Returned(outcome) /\ before # s -> [before EXCEPT !.cut = @ \cup {"tracing"}]
                           [] OTHER -> s
    OBVIOUS
  <1>4. Cqlsh!Set(Cqlsh!After(mid, outcome)) /\ UNCHANGED <<logins, conns, profiles>>
    BY <1>1, <1>2, <1>3 DEF Cqlsh!Select, Cqlsh!Same
  <1>5. mid = s \/ mid = [before EXCEPT !.cut = @ \cup {"tracing"}]
    <2>1. CASE Cqlsh!Returned(outcome) BY <1>3, <2>1
    <2>2. CASE ~Cqlsh!Returned(outcome) /\ before # s BY <1>3, <2>2
    <2>3. CASE ~Cqlsh!Returned(outcome) /\ before = s BY <1>3, <2>3
    <2> QED BY <2>1, <2>2, <2>3
  <1>6. KinShell(s, mid) /\ SoundShell(mid) /\ AsWished(mid)
    <2>1. CASE mid = s BY <1>1, <2>1 DEF KinShell, Healthy
    <2>2. CASE mid = [before EXCEPT !.cut = @ \cup {"tracing"}]
      <3>1. PICK b \in BOOLEAN : before = [s EXCEPT !.tracing = b] BY <1>2 DEF Shells
      <3>2. before \in Shells /\ before.cut = s.cut BY <3>1 DEF Shells
      <3>3. PICK cut \in SUBSET {"use", "tracing"} : cut = before.cut \cup {"tracing"} BY <3>2 DEF Shells
      <3>4. mid = [before EXCEPT !.cut = cut] BY <2>2, <3>3
      <3>5. mid \in Shells /\ mid.cut = cut /\ mid.wish = s.wish
            /\ mid.shunted = s.shunted /\ mid.color = s.color /\ mid.paging = s.paging /\ mid.pageSize = s.pageSize
            /\ mid.owns = s.owns /\ mid.own = s.own /\ mid.session = s.session /\ mid.conn = s.conn
            /\ mid.level = s.level /\ mid.serial = s.serial /\ mid.stop = s.stop /\ mid.keyspace = s.keyspace
        BY <3>1, <3>2, <3>4 DEF Shells
      <3>6. "tracing" \in cut /\ ("use" \in cut <=> "use" \in s.cut) BY <3>2, <3>3
      <3> QED BY <1>1, <3>5, <3>6 DEF KinShell, Healthy, SoundShell, AsWished
    <2> QED BY <1>5, <2>1, <2>2
  <1>7. LikeShell(mid, Cqlsh!After(mid, outcome)) BY <1>6, ReplyOutcome DEF KinShell
  <1> QED BY <1>1, <1>4, <1>6, <1>7, SetKin

LEMMA Displays ==
    ASSUME ShellInv, NEW switch \in {"ON", "OFF", None}, Cqlsh!ShellAssumption,
           Cqlsh!DoExpand(switch) \/ Cqlsh!DoPaging(switch)
    PROVE  ShellInv'
  <1>1. PICK s \in Shells : s = Cqlsh!self /\ Healthy(s) BY RunningShell
  <1>2. \A b \in BOOLEAN : Cqlsh!Switch(b, switch) \in BOOLEAN BY DEF Cqlsh!Switch, Cqlsh!ShellAssumption
  <1>3. PICK b, c : b = Cqlsh!Switch(s.expand, switch) /\ c = Cqlsh!Switch(s.paging, switch) OBVIOUS
  <1>4. b \in BOOLEAN /\ c \in BOOLEAN BY <1>2, <1>3 DEF Shells
  <1>5. CASE Cqlsh!DoExpand(switch)
    <2>1. PICK mid : mid = [s EXCEPT !.expand = b] OBVIOUS
    <2>2. PICK new : new = Cqlsh!Switched(mid, s.expand, switch) OBVIOUS
    <2>3. Cqlsh!Set(new) /\ UNCHANGED <<logins, conns, profiles>>
      BY <1>1, <1>3, <1>5, <2>1, <2>2 DEF Cqlsh!DoExpand, Cqlsh!Same
    <2>4. mid \in Shells /\ mid.cut = s.cut /\ mid.wish = s.wish /\ mid.tracing = s.tracing
          /\ mid.shunted = s.shunted /\ mid.color = s.color /\ mid.paging = s.paging /\ mid.pageSize = s.pageSize
          /\ mid.owns = s.owns /\ mid.own = s.own /\ mid.session = s.session /\ mid.conn = s.conn
          /\ mid.level = s.level /\ mid.serial = s.serial /\ mid.stop = s.stop /\ mid.keyspace = s.keyspace
      BY <1>4, <2>1 DEF Shells
    <2>5. KinShell(s, mid) /\ SoundShell(mid) /\ AsWished(mid) BY <1>1, <2>4 DEF KinShell, Healthy, SoundShell, AsWished
    <2>6. LikeShell(mid, new) BY <2>2, <2>4, ReplyOutcome DEF Cqlsh!Switched
    <2> QED BY <1>1, <2>3, <2>5, <2>6, SetKin
  <1>6. CASE Cqlsh!DoPaging(switch)
    <2>1. PICK size : size = IF c THEN s.pageSize ELSE Cqlsh!DefaultPageSize OBVIOUS
    <2>2. PICK mid : mid = [s EXCEPT !.paging = c, !.pageSize = size] OBVIOUS
    <2>3. PICK new : new = Cqlsh!Switched(mid, s.paging, switch) OBVIOUS
    <2>4. mid = [s EXCEPT !.paging = c, !.pageSize = IF c THEN @ ELSE Cqlsh!DefaultPageSize]
      BY <2>1, <2>2
    <2>5. Cqlsh!Set(new) /\ UNCHANGED <<logins, conns, profiles>>
      BY <1>1, <1>3, <1>6, <2>3, <2>4 DEF Cqlsh!DoPaging, Cqlsh!Same
    <2>6. size \in Sizes BY <2>1 DEF Shells, Sizes
    <2>7. mid \in Shells /\ mid.cut = s.cut /\ mid.wish = s.wish /\ mid.tracing = s.tracing
          /\ mid.shunted = s.shunted /\ mid.color = s.color /\ mid.paging = c /\ mid.pageSize = size
          /\ mid.owns = s.owns /\ mid.own = s.own /\ mid.session = s.session /\ mid.conn = s.conn
          /\ mid.level = s.level /\ mid.serial = s.serial /\ mid.stop = s.stop /\ mid.keyspace = s.keyspace
      BY <1>4, <2>2, <2>6 DEF Shells
    <2>8. KinShell(s, mid) /\ SoundShell(mid) /\ AsWished(mid) BY <1>1, <2>1, <2>7 DEF KinShell, Healthy, SoundShell, AsWished
    <2>9. LikeShell(mid, new) BY <2>3, <2>7, ReplyOutcome DEF Cqlsh!Switched
    <2> QED BY <1>1, <2>5, <2>8, <2>9, SetKin
  <1> QED BY <1>5, <1>6

LEMMA PageSize ==
    ASSUME ShellInv, NEW size \in PageSizes, Cqlsh!DoPageSize(size)
    PROVE  ShellInv'
  <1>1. PICK s \in Shells : s = Cqlsh!self /\ Healthy(s) BY RunningShell
  <1>2. PICK mid : mid = [s EXCEPT !.paging = TRUE, !.pageSize = size] OBVIOUS
  <1>3. Cqlsh!Set(mid) /\ UNCHANGED <<logins, conns, profiles>>
    BY <1>1, <1>2 DEF Cqlsh!DoPageSize, Cqlsh!Same
  <1>4. size \in Sizes BY DEF Sizes
  <1>5. mid \in Shells /\ mid.cut = s.cut /\ mid.wish = s.wish /\ mid.tracing = s.tracing
        /\ mid.shunted = s.shunted /\ mid.color = s.color /\ mid.paging
        /\ mid.owns = s.owns /\ mid.own = s.own /\ mid.session = s.session /\ mid.conn = s.conn
        /\ mid.level = s.level /\ mid.serial = s.serial /\ mid.stop = s.stop /\ mid.keyspace = s.keyspace
    BY <1>2, <1>4 DEF Shells
  <1>6. KinShell(s, mid) /\ SoundShell(mid) /\ AsWished(mid) BY <1>1, <1>5 DEF KinShell, Healthy, SoundShell, AsWished
  <1>7. LikeShell(mid, mid) BY <1>5, ReplyOutcome
  <1> QED BY <1>1, <1>3, <1>6, <1>7, SetKin

LEMMA ExecuteAs ==
    ASSUME ShellInv, NEW user \in {"someone", None}, Cqlsh!DoExecute(user)
    PROVE  ShellInv'
  <1>1. PICK s \in Shells : s = Cqlsh!self /\ Healthy(s) BY RunningShell
  <1>2. PICK mid : mid = [s EXCEPT !.executeAs = user] OBVIOUS
  <1>3. Cqlsh!Set(mid) /\ UNCHANGED <<logins, conns, profiles>>
    BY <1>1, <1>2 DEF Cqlsh!DoExecute, Cqlsh!Same
  <1>4. mid \in Shells /\ mid.cut = s.cut /\ mid.wish = s.wish /\ mid.tracing = s.tracing
        /\ mid.shunted = s.shunted /\ mid.color = s.color /\ mid.paging = s.paging /\ mid.pageSize = s.pageSize
        /\ mid.owns = s.owns /\ mid.own = s.own /\ mid.session = s.session /\ mid.conn = s.conn
        /\ mid.level = s.level /\ mid.serial = s.serial /\ mid.stop = s.stop /\ mid.keyspace = s.keyspace
    BY <1>2 DEF Shells
  <1>5. KinShell(s, mid) /\ SoundShell(mid) /\ AsWished(mid) BY <1>1, <1>4 DEF KinShell, Healthy, SoundShell, AsWished
  <1>6. LikeShell(mid, mid) BY <1>4, ReplyOutcome
  <1> QED BY <1>1, <1>3, <1>5, <1>6, SetKin

LEMMA Captures ==
    ASSUME ShellInv, Cqlsh!ShellAssumption, Cqlsh!CaptureOff \/ \E opens \in BOOLEAN : Cqlsh!CaptureTo(opens)
    PROVE  ShellInv'
  <1>1. PICK s \in Shells : s = Cqlsh!self /\ Healthy(s) BY RunningShell
  <1>2. PICK new : Cqlsh!Set(new) /\ UNCHANGED <<logins, conns, profiles>>
                   /\ \/ new = Cqlsh!Failed(s)
                      \/ s.shunted = None /\ new = [s EXCEPT !.shunted = s.color, !.color = FALSE]
                      \/ s.shunted # None /\ new = [s EXCEPT !.color = s.shunted, !.shunted = None]
    BY <1>1 DEF Cqlsh!CaptureOff, Cqlsh!CaptureTo, Cqlsh!Same
  <1>3. CASE new = Cqlsh!Failed(s)
    <2>1. LikeShell(s, new) BY <1>3, ReplyOutcome
    <2> QED BY <1>1, <1>2, <2>1, SetKin DEF Healthy, KinShell
  <1>4. CASE new # Cqlsh!Failed(s)
    <2>1. PICK color \in BOOLEAN, shunted \in BOOLEAN \cup {None} :
              /\ new = [s EXCEPT !.color = color, !.shunted = shunted]
              /\ IF shunted = None THEN color = s.wish.color ELSE shunted = s.wish.color
      <3>1. s.color \in BOOLEAN /\ s.shunted \in BOOLEAN \cup {None} /\ None \notin BOOLEAN
        BY DEF Shells, Cqlsh!ShellAssumption
      <3>2. CASE s.shunted = None /\ new = [s EXCEPT !.shunted = s.color, !.color = FALSE]
        <4>1. new = [s EXCEPT !.color = FALSE, !.shunted = s.color] BY <3>2 DEF Shells
        <4> QED BY <1>1, <3>1, <3>2, <4>1 DEF Healthy, AsWished
      <3>3. CASE s.shunted # None /\ new = [s EXCEPT !.color = s.shunted, !.shunted = None]
        BY <1>1, <3>1, <3>3 DEF Healthy, AsWished
      <3> QED BY <1>2, <1>4, <3>2, <3>3
    <2>2. new \in Shells /\ new.cut = s.cut /\ new.wish = s.wish /\ new.tracing = s.tracing
          /\ new.shunted = shunted /\ new.color = color /\ new.paging = s.paging /\ new.pageSize = s.pageSize
          /\ new.owns = s.owns /\ new.own = s.own /\ new.session = s.session /\ new.conn = s.conn
          /\ new.level = s.level /\ new.serial = s.serial /\ new.stop = s.stop /\ new.keyspace = s.keyspace
      BY <2>1 DEF Shells
    <2>3. KinShell(s, new) /\ SoundShell(new) /\ AsWished(new) BY <1>1, <2>1, <2>2 DEF KinShell, Healthy, SoundShell, AsWished
    <2>4. LikeShell(new, new) BY <2>2, ReplyOutcome
    <2> QED BY <1>1, <1>2, <2>3, <2>4, SetKin
  <1> QED BY <1>3, <1>4

-----------------------------------------------------------------------------
(* Steps that change what the shell works on.                              *)
LEMMA ConnectionsApart ==
    ASSUME ShellInv, NEW n \in 1..(Len(stack) - 1)
    PROVE  /\ stack[n].session # stack[Len(stack)].session /\ stack[n].own # stack[Len(stack)].own
           /\ Healthy(stack[n]) /\ ~stack[Len(stack)].owns /\ Len(stack) > 1
           /\ 1 \in 1..(Len(stack) - 1)
  <1>1. StackFits BY DEF ShellInv
  <1>2. Len(stack) \in Nat BY <1>1 DEF StackFits
  <1>3. \A len \in Nat : \A m \in 1..(len - 1) :
            m \in 1..len /\ len \in 1..len /\ m # len /\ len # 1 /\ len > 1 /\ 1 \in 1..(len - 1)
    OBVIOUS
  <1>4. /\ n \in 1..Len(stack) /\ Len(stack) \in 1..Len(stack) /\ n # Len(stack) /\ Len(stack) # 1
        /\ Len(stack) > 1 /\ 1 \in 1..(Len(stack) - 1)
    BY <1>2, <1>3
  <1> QED BY <1>1, <1>4 DEF StackFits, ShellInv

LEMMA Uses ==
    ASSUME ShellInv, NEW ks \in Keyspaces, NEW outcome \in {"ok", "error", "raise", "interrupt"},
           NEW applied \in BOOLEAN, Cqlsh!Use(ks, outcome, applied)
    PROVE  ShellInv'
  <1>1. PICK s \in Shells : s = Cqlsh!self /\ s = stack[Len(stack)] /\ Healthy(s) BY RunningShell
  <1>2. PICK mid : mid = CASE outcome = "ok" -> [s EXCEPT !.keyspace = ks, !.cut = @ \ {"use"}]
                           [] applied /\ outcome # "ok" -> [s EXCEPT !.cut = @ \cup {"use"}]
                           [] OTHER -> s
    OBVIOUS
  <1>3. PICK new : new = Cqlsh!After(mid, outcome) OBVIOUS
  <1>4. /\ Cqlsh!Set(new) /\ UNCHANGED <<conns, profiles>>
        /\ outcome = "ok" => applied
        /\ logins' = IF applied THEN [logins EXCEPT ![s.session].keyspace = ks] ELSE logins
    BY <1>1, <1>2, <1>3 DEF Cqlsh!Use
  <1>5. /\ logins \in Seq(Logins) /\ Len(logins) \in Nat /\ s.session \in 1..Len(logins) /\ ks \in AnyKeyspace
    BY <1>1 DEF ShellInv, ListsFit, Healthy, SoundShell, AnyKeyspace
  <1>6. /\ logins' \in Seq(Logins) /\ Len(logins') = Len(logins)
        /\ \A n \in 1..Len(logins) : logins'[n].conn = logins[n].conn
        /\ \A n \in 1..Len(logins) : n # s.session => logins'[n] = logins[n]
        /\ applied => logins'[s.session].keyspace = ks
        /\ ~applied => logins' = logins
    <2>1. CASE ~applied BY <1>4, <1>5, <2>1
    <2>2. CASE applied
      <3>1. PICK n \in 1..Len(logins) : n = s.session BY <1>5
      <3>2. PICK login : login = [logins[n] EXCEPT !.keyspace = ks] OBVIOUS
      <3>3. login \in Logins /\ login.conn = logins[n].conn /\ login.keyspace = ks
        <4>1. logins[n] \in Logins BY <1>5
        <4> QED BY <1>5, <3>2, <4>1 DEF Logins
      <3>4. logins' = [logins EXCEPT ![n] = login] BY <1>4, <2>2, <3>1, <3>2
      <3> QED BY <1>5, <2>2, <3>1, <3>3, <3>4
    <2> QED BY <2>1, <2>2
  <1>7. /\ mid \in Shells /\ mid.wish = s.wish /\ mid.tracing = s.tracing
        /\ mid.shunted = s.shunted /\ mid.color = s.color /\ mid.paging = s.paging /\ mid.pageSize = s.pageSize
        /\ mid.owns = s.owns /\ mid.own = s.own /\ mid.session = s.session /\ mid.conn = s.conn
        /\ mid.level = s.level /\ mid.serial = s.serial /\ mid.stop = s.stop
        /\ "tracing" \in s.cut => "tracing" \in mid.cut
        /\ "use" \notin mid.cut => mid.keyspace = logins'[s.session].keyspace
    <2>1. s.cut \in SUBSET {"use", "tracing"} BY DEF Shells
    <2>2. CASE outcome = "ok"
      <3>1. PICK cut \in SUBSET {"use", "tracing"} : cut = s.cut \ {"use"} BY <2>1
      <3>2. mid = [s EXCEPT !.keyspace = ks, !.cut = cut] BY <1>2, <2>2, <3>1
      <3>3. "tracing" \in s.cut => "tracing" \in cut BY <3>1
      <3> QED BY <1>4, <1>5, <1>6, <2>2, <3>2, <3>3 DEF Shells
    <2>3. CASE applied /\ outcome # "ok"
      <3>1. PICK cut \in SUBSET {"use", "tracing"} : cut = s.cut \cup {"use"} BY <2>1
      <3>2. mid = [s EXCEPT !.cut = cut] BY <1>2, <2>3, <3>1
      <3>3. "use" \in cut /\ ("tracing" \in s.cut => "tracing" \in cut) BY <3>1
      <3> QED BY <3>2, <3>3 DEF Shells
    <2>4. CASE ~applied /\ outcome # "ok"
      <3>1. mid = s BY <1>2, <2>4
      <3> QED BY <1>1, <1>6, <2>4, <3>1 DEF Healthy, SoundShell
    <2> QED BY <2>2, <2>3, <2>4
  <1>8. LikeShell(mid, new) BY <1>3, <1>7, ReplyOutcome
  <1>9. SoundShell(mid)' /\ AsWished(mid) BY <1>1, <1>4, <1>6, <1>7 DEF Healthy, SoundShell, AsWished
  <1>10. /\ new \in Shells /\ AsWished(new) /\ new.owns = s.owns /\ new.own = s.own /\ new.session = s.session
         /\ new.conn = s.conn /\ new.level = s.level /\ new.serial = s.serial /\ new.stop = s.stop
         /\ new.cut = mid.cut /\ new.keyspace = mid.keyspace
    BY <1>7, <1>8, <1>9, LikeHealthy
  <1>11. Healthy(new)'
    <2>1. SoundShell(new)' BY <1>4, <1>6, <1>7, <1>9, <1>10 DEF SoundShell
    <2> QED BY <1>10, <2>1 DEF Healthy, AsWished
  <1>12. OthersStay
    <2> SUFFICES ASSUME NEW n \in 1..(Len(stack) - 1), NEW t \in Shells, t = stack[n], SoundShell(t) PROVE SoundShell(t)'
      BY DEF OthersStay
    <2>1. t.session # s.session BY <1>1, ConnectionsApart
    <2> QED BY <1>4, <1>6, <2>1 DEF SoundShell
  <1>13. ListsFit' BY <1>4, <1>6 DEF ShellInv, ListsFit, FirstKept
  <1>14. Len(stack) = 1 => Linked(new)' BY <1>1, <1>4, <1>10 DEF ShellInv, Linked
  <1> QED BY <1>1, <1>4, <1>10, <1>11, <1>12, <1>13, <1>14, SetShell

LEMMA Exits ==
    ASSUME ShellInv, Cqlsh!DoExit
    PROVE  ShellInv'
  <1>1. PICK s \in Shells : s = Cqlsh!self /\ s = stack[Len(stack)] /\ Healthy(s) BY RunningShell
  <1>2. PICK new : new = [s EXCEPT !.stop = TRUE] OBVIOUS
  <1>3. /\ Cqlsh!Set(new) /\ UNCHANGED <<logins, profiles>>
        /\ conns' = IF s.owns THEN [conns EXCEPT ![s.conn].open = FALSE] ELSE conns
    BY <1>1, <1>2 DEF Cqlsh!DoExit
  <1>4. /\ conns \in Seq(Conns) /\ s.conn \in 1..Len(conns) BY <1>1 DEF ShellInv, ListsFit, Healthy, SoundShell
  <1>5. /\ conns' \in Seq(Conns) /\ Len(conns') = Len(conns)
        /\ \A n \in 1..Len(conns) : conns'[n].profile = conns[n].profile
    <2>1. CASE ~s.owns BY <1>3, <1>4, <2>1
    <2>2. CASE s.owns
      <3>1. PICK n \in 1..Len(conns) : n = s.conn BY <1>4
      <3>2. PICK conn : conn = [conns[n] EXCEPT !.open = FALSE] OBVIOUS
      <3>3. conn \in Conns /\ conn.profile = conns[n].profile
        <4>1. conns[n] \in Conns BY <1>4
        <4> QED BY <3>2, <4>1 DEF Conns
      <3>4. conns' = [conns EXCEPT ![n] = conn] BY <1>3, <2>2, <3>1, <3>2
      <3> QED BY <1>4, <3>3, <3>4
    <2> QED BY <2>1, <2>2
  <1>6. /\ new \in Shells /\ new.cut = s.cut /\ new.wish = s.wish /\ new.tracing = s.tracing
        /\ new.shunted = s.shunted /\ new.color = s.color /\ new.paging = s.paging /\ new.pageSize = s.pageSize
        /\ new.owns = s.owns /\ new.own = s.own /\ new.session = s.session /\ new.conn = s.conn
        /\ new.level = s.level /\ new.serial = s.serial /\ new.stop /\ new.keyspace = s.keyspace
    BY <1>2 DEF Shells
  <1>7. Healthy(new)' BY <1>1, <1>3, <1>5, <1>6 DEF Healthy, SoundShell, AsWished
  <1>8. OthersStay
    <2> SUFFICES ASSUME NEW n \in 1..(Len(stack) - 1), NEW t \in Shells, t = stack[n], SoundShell(t) PROVE SoundShell(t)'
      BY DEF OthersStay
    <2>1. ~s.owns BY <1>1, ConnectionsApart
    <2> QED BY <1>3, <2>1 DEF SoundShell
  <1>9. ListsFit' BY <1>3, <1>5 DEF ShellInv, ListsFit, FirstKept
  <1>10. Len(stack) = 1 => Linked(new)' BY <1>1, <1>4, <1>5, <1>6 DEF ShellInv, Linked
  <1>11. Len(stack) > 1 => conns'[stack[1].conn].profile = conns[stack[1].conn].profile
    <2>1. StackFits BY DEF ShellInv
    <2>2. 1 \in 1..Len(stack) BY <2>1 DEF StackFits
    <2>3. stack[1].conn \in 1..Len(conns) BY <2>2 DEF ShellInv, Healthy, SoundShell
    <2> QED BY <1>5, <2>3
  <1> QED BY <1>1, <1>3, <1>6, <1>7, <1>8, <1>9, <1>10, <1>11, SetShell

(* A level chosen, or the time-out of some statements, changes one         *)
(* profile.                                                                *)
LEMMA Profiled ==
    ASSUME ShellInv, NEW s, s = Cqlsh!self, NEW new \in Shells, Cqlsh!Set(new), UNCHANGED <<logins, conns>>,
           profiles' \in Seq(Profiles), Len(profiles') = Len(profiles),
           \A n \in 1..Len(profiles) : n # s.own => profiles'[n].level = profiles[n].level
                                                    /\ profiles'[n].serial = profiles[n].serial,
           profiles'[s.own].level = new.level, profiles'[s.own].serial = new.serial,
           KinShell(s, new), new.stop = s.stop, new.cut = s.cut, new.keyspace = s.keyspace, AsWished(new)
    PROVE  ShellInv'
  <1>1. s = stack[Len(stack)] /\ Healthy(s) BY RunningShell
  <1>2. Healthy(new)' BY <1>1 DEF Healthy, SoundShell, AsWished, KinShell
  <1>3. OthersStay
    <2> SUFFICES ASSUME NEW n \in 1..(Len(stack) - 1), NEW t \in Shells, t = stack[n], SoundShell(t) PROVE SoundShell(t)'
      BY DEF OthersStay
    <2>1. t.own # s.own BY <1>1, ConnectionsApart
    <2> QED BY <2>1 DEF SoundShell
  <1>4. ListsFit'
    <2>1. FirstKept' BY <1>1 DEF ShellInv, ListsFit, FirstKept, Healthy, SoundShell
    <2> QED BY <2>1 DEF ShellInv, ListsFit
  <1>5. Len(stack) = 1 => Linked(new)' BY <1>1 DEF ShellInv, KinShell, Linked
  <1>6. new.owns = s.owns /\ new.own = s.own /\ new.session = s.session BY DEF KinShell
  <1> QED BY <1>1, <1>2, <1>3, <1>4, <1>5, <1>6, SetShell

LEMMA ProfileStep ==
    ASSUME profiles \in Seq(Profiles), NEW k \in 1..Len(profiles), NEW p, profiles' = [profiles EXCEPT ![k] = p],
           p \in Profiles
    PROVE  /\ profiles' \in Seq(Profiles) /\ Len(profiles') = Len(profiles) /\ profiles'[k] = p
           /\ \A n \in 1..Len(profiles) : n # k => profiles'[n] = profiles[n]
  OBVIOUS

LEMMA LevelsSet ==
    ASSUME ShellInv, \/ \E level \in Levels : Cqlsh!DoConsistency(level)
                     \/ \E level \in SerialLevels : Cqlsh!DoSerial(level)
    PROVE  ShellInv'
  <1>1. PICK s \in Shells : s = Cqlsh!self /\ Healthy(s) BY RunningShell
  <1>2. PICK k \in 1..Len(profiles) : k = s.own BY <1>1 DEF Healthy, SoundShell
  <1>3. profiles \in Seq(Profiles) BY DEF ShellInv, ListsFit
  <1>4. profiles[k] \in Profiles BY <1>3
  <1>5. PICK new, p : /\ Cqlsh!Set(new) /\ UNCHANGED <<logins, conns>> /\ profiles' = [profiles EXCEPT ![k] = p]
                      /\ \/ \E level \in Levels : new = [s EXCEPT !.level = level] /\ p = [profiles[k] EXCEPT !.level = level]
                         \/ \E level \in SerialLevels : new = [s EXCEPT !.serial = level] /\ p = [profiles[k] EXCEPT !.serial = level]
    <2>1. CASE \E level \in Levels : Cqlsh!DoConsistency(level)
      BY <1>1, <1>2, <2>1 DEF Cqlsh!DoConsistency
    <2>2. CASE \E level \in SerialLevels : Cqlsh!DoSerial(level)
      BY <1>1, <1>2, <2>2 DEF Cqlsh!DoSerial
    <2> QED BY <2>1, <2>2
  <1>6. /\ new \in Shells /\ p \in Profiles
        /\ p.level = new.level \/ (new.level = s.level /\ p.level = profiles[k].level)
        /\ p.serial = new.serial \/ (new.serial = s.serial /\ p.serial = profiles[k].serial)
        /\ new.cut = s.cut /\ new.wish = s.wish /\ new.tracing = s.tracing
        /\ new.shunted = s.shunted /\ new.color = s.color /\ new.paging = s.paging /\ new.pageSize = s.pageSize
        /\ new.owns = s.owns /\ new.own = s.own /\ new.session = s.session /\ new.conn = s.conn
        /\ new.stop = s.stop /\ new.keyspace = s.keyspace
    <2>1. CASE \E level \in Levels : new = [s EXCEPT !.level = level] /\ p = [profiles[k] EXCEPT !.level = level]
      <3>1. PICK level \in AnyLevel : new = [s EXCEPT !.level = level] /\ p = [profiles[k] EXCEPT !.level = level]
        BY <2>1 DEF AnyLevel
      <3>2. p \in Profiles /\ p.level = level /\ p.serial = profiles[k].serial BY <1>4, <3>1 DEF Profiles
      <3> QED BY <3>1, <3>2 DEF Shells
    <2>2. CASE \E level \in SerialLevels : new = [s EXCEPT !.serial = level] /\ p = [profiles[k] EXCEPT !.serial = level]
      <3>1. PICK level \in AnySerial : new = [s EXCEPT !.serial = level] /\ p = [profiles[k] EXCEPT !.serial = level]
        BY <2>2 DEF AnySerial
      <3>2. p \in Profiles /\ p.serial = level /\ p.level = profiles[k].level BY <1>4, <3>1 DEF Profiles
      <3> QED BY <3>1, <3>2 DEF Shells
    <2> QED BY <1>5, <2>1, <2>2
  <1>7. /\ profiles' \in Seq(Profiles) /\ Len(profiles') = Len(profiles) /\ profiles'[k] = p
        /\ \A n \in 1..Len(profiles) : n # k => profiles'[n] = profiles[n]
    BY <1>3, <1>5, <1>6, ProfileStep
  <1>8. profiles[k].level = s.level /\ profiles[k].serial = s.serial BY <1>1, <1>2 DEF Healthy, SoundShell
  <1>9. profiles'[s.own].level = new.level /\ profiles'[s.own].serial = new.serial BY <1>2, <1>6, <1>7, <1>8
  <1>10. KinShell(s, new) /\ AsWished(new) BY <1>1, <1>6 DEF KinShell, Healthy, AsWished
  <1> QED BY <1>1, <1>2, <1>5, <1>6, <1>7, <1>9, <1>10, Profiled

LEMMA Manages ==
    ASSUME ShellInv, NEW outcome \in {"ok", "error", "raise", "interrupt"}, Cqlsh!ManageSearch(outcome)
    PROVE  ShellInv'
  <1>1. PICK s \in Shells : s = Cqlsh!self /\ Healthy(s) BY RunningShell
  <1>2. PICK new : new = Cqlsh!After(s, outcome) OBVIOUS
  <1>3. /\ Cqlsh!Set(new) /\ UNCHANGED <<logins, conns>>
        /\ profiles' = profiles \/ profiles' = [profiles EXCEPT ![s.boosted].timeout = "boosted"]
    BY <1>1, <1>2 DEF Cqlsh!ManageSearch
  <1>4. LikeShell(s, new) BY <1>2, ReplyOutcome
  <1>5. profiles \in Seq(Profiles) BY DEF ShellInv, ListsFit
  <1>6. /\ profiles' \in Seq(Profiles) /\ Len(profiles') = Len(profiles)
        /\ \A n \in 1..Len(profiles) : profiles'[n].level = profiles[n].level /\ profiles'[n].serial = profiles[n].serial
    <2>1. CASE profiles' = profiles BY <1>5, <2>1
    <2>2. CASE profiles' = [profiles EXCEPT ![s.boosted].timeout = "boosted"]
      <3>1. CASE s.boosted \in 1..Len(profiles)
        <4>1. PICK k \in 1..Len(profiles) : k = s.boosted BY <3>1
        <4>2. PICK p : p = [profiles[k] EXCEPT !.timeout = "boosted"] OBVIOUS
        <4>3. profiles[k] \in Profiles BY <1>5
        <4>4. p \in Profiles /\ p.level = profiles[k].level /\ p.serial = profiles[k].serial
          BY <4>2, <4>3 DEF Profiles, Timeouts
        <4>5. profiles' = [profiles EXCEPT ![k] = p] BY <2>2, <4>1, <4>2
        <4> QED BY <1>5, <4>4, <4>5, ProfileStep
      <3>2. CASE s.boosted \notin 1..Len(profiles)
        <4>1. profiles' = profiles BY <1>5, <2>2, <3>2
        <4> QED BY <1>5, <4>1
      <3> QED BY <3>1, <3>2
    <2> QED BY <1>3, <2>1, <2>2
  <1>7. /\ new \in Shells /\ AsWished(new) /\ KinShell(s, new) /\ new.level = s.level /\ new.serial = s.serial
        /\ new.stop = s.stop /\ new.cut = s.cut /\ new.keyspace = s.keyspace
    BY <1>1, <1>4, LikeHealthy DEF Healthy, KinShell
  <1>8. profiles'[s.own].level = new.level /\ profiles'[s.own].serial = new.serial
    BY <1>1, <1>6, <1>7 DEF Healthy, SoundShell
  <1> QED BY <1>1, <1>3, <1>6, <1>7, <1>8, Profiled

LEMMA LogsIn ==
    ASSUME ShellInv, NEW outcome \in {"ok", "raise", "interrupt"}, Cqlsh!DoLogin(outcome)
    PROVE  ShellInv'
  <1>1. PICK s \in Shells : s = Cqlsh!self /\ s = stack[Len(stack)] /\ Healthy(s) BY RunningShell
  <1>2. PICK conn, login : conn = [open |-> TRUE, profile |-> s.own] /\ login = [conn |-> Len(conns) + 1, keyspace |-> s.keyspace]
    OBVIOUS
  <1>3. conns' = Append(conns, conn) /\ UNCHANGED profiles BY <1>1, <1>2 DEF Cqlsh!DoLogin
  <1>4. /\ logins \in Seq(Logins) /\ Len(logins) \in Nat /\ conns \in Seq(Conns) /\ Len(conns) \in Nat
        /\ profiles \in Seq(Profiles)
    BY DEF ShellInv, ListsFit
  <1>5. conn \in Conns /\ conn.open /\ conn.profile = s.own BY <1>2 DEF Conns, Shells
  <1>6. login \in Logins /\ login.conn = Len(conns) + 1 /\ login.keyspace = s.keyspace BY <1>2, <1>4 DEF Logins, Shells
  <1>7. /\ conns' \in Seq(Conns) /\ Len(conns') = Len(conns) + 1 /\ conns'[Len(conns) + 1] = conn
        /\ \A n \in 1..Len(conns) : conns'[n] = conns[n] /\ n \in 1..Len(conns')
        /\ Len(conns) + 1 \in 1..Len(conns')
    BY <1>3, <1>4, <1>5
  <1>8. Len(stack) > 1 => conns'[stack[1].conn].profile = conns[stack[1].conn].profile
    <2>1. StackFits BY DEF ShellInv
    <2>2. 1 \in 1..Len(stack) BY <2>1 DEF StackFits
    <2>3. stack[1].conn \in 1..Len(conns) BY <2>2 DEF ShellInv, Healthy, SoundShell
    <2> QED BY <1>7, <2>3
  <1>9. FirstKept' BY <1>3, <1>7 DEF ShellInv, ListsFit, FirstKept
  <1>10. CASE outcome = "ok"
    <2>1. PICK new : new = [s EXCEPT !.conn = Len(conns) + 1, !.session = Len(logins) + 1, !.cut = @ \ {"use"}] OBVIOUS
    <2>2. Cqlsh!Set(new) /\ logins' = Append(logins, login) BY <1>1, <1>2, <1>10, <2>1 DEF Cqlsh!DoLogin
    <2>3. /\ logins' \in Seq(Logins) /\ Len(logins') = Len(logins) + 1 /\ logins'[Len(logins) + 1] = login
          /\ \A n \in 1..Len(logins) : logins'[n] = logins[n] /\ n \in 1..Len(logins')
          /\ Len(logins) + 1 \in 1..Len(logins')
      BY <1>4, <1>6, <2>2
    <2>4. PICK cut \in SUBSET {"use", "tracing"} : cut = s.cut \ {"use"} BY DEF Shells
    <2>5. "tracing" \in s.cut => "tracing" \in cut BY <2>4
    <2>6. PICK c \in Nat, l \in Nat : c = Len(conns) + 1 /\ l = Len(logins) + 1 BY <1>4
    <2>7. new = [s EXCEPT !.conn = c, !.session = l, !.cut = cut] BY <2>1, <2>4, <2>6
    <2>8. /\ new \in Shells /\ new.cut = cut /\ new.wish = s.wish /\ new.tracing = s.tracing
          /\ new.shunted = s.shunted /\ new.color = s.color /\ new.paging = s.paging /\ new.pageSize = s.pageSize
          /\ new.owns = s.owns /\ new.own = s.own /\ new.session = l /\ new.conn = c
          /\ new.level = s.level /\ new.serial = s.serial /\ new.stop = s.stop /\ new.keyspace = s.keyspace
      BY <2>7 DEF Shells
    <2>9. Healthy(new)' BY <1>1, <1>3, <1>5, <1>6, <1>7, <2>3, <2>5, <2>6, <2>8 DEF Healthy, SoundShell, AsWished
    <2>10. OthersStay BY <1>3, <1>7, <2>3 DEF OthersStay, SoundShell
    <2>11. ListsFit' BY <1>3, <1>4, <1>7, <1>9, <2>3 DEF ListsFit
    <2>12. Linked(new)' BY <1>5, <1>7, <2>6, <2>8 DEF Linked
    <2>13. new.session > Len(logins) BY <1>4, <2>6, <2>8
    <2> QED BY <1>1, <1>8, <2>2, <2>8, <2>9, <2>10, <2>11, <2>12, <2>13, SetShell
  <1>11. CASE outcome # "ok"
    <2>1. PICK new : new = Cqlsh!After(s, outcome) OBVIOUS
    <2>2. Cqlsh!Set(new) /\ UNCHANGED logins BY <1>1, <1>11, <2>1 DEF Cqlsh!DoLogin
    <2>3. LikeShell(s, new) BY <2>1, ReplyOutcome
    <2>4. /\ new \in Shells /\ SoundShell(new) /\ AsWished(new) /\ new.owns = s.owns /\ new.own = s.own
          /\ new.session = s.session /\ new.conn = s.conn
      BY <1>1, <2>3, LikeHealthy DEF Healthy
    <2>5. Healthy(new)' BY <1>3, <1>7, <2>2, <2>4 DEF Healthy, SoundShell, AsWished
    <2>6. OthersStay BY <1>3, <1>7, <2>2 DEF OthersStay, SoundShell
    <2>7. ListsFit' BY <1>3, <1>4, <1>7, <1>9, <2>2 DEF ListsFit
    <2>8. Len(stack) = 1 => Linked(new)' BY <1>1, <1>7, <2>4 DEF ShellInv, Healthy, SoundShell, Linked
    <2> QED BY <1>1, <1>8, <2>2, <2>4, <2>5, <2>6, <2>7, <2>8, SetShell
  <1> QED BY <1>10, <1>11

LEMMA SourceFails ==
    ASSUME ShellInv, NEW outcome, outcome # "ok", Cqlsh!DoSource(outcome)
    PROVE  ShellInv'
  <1>1. PICK s \in Shells : s = Cqlsh!self /\ Healthy(s) BY RunningShell
  <1>2. PICK new : new = IF outcome = "interrupt" THEN Cqlsh!Aborted(s) ELSE Cqlsh!Failed(s) OBVIOUS
  <1>3. Cqlsh!Set(new) /\ UNCHANGED <<logins, conns, profiles>> BY <1>1, <1>2 DEF Cqlsh!DoSource
  <1>4. LikeShell(s, new)
    <2>1. "ok" \in {"ok", "error", "raise", "interrupt"} OBVIOUS
    <2> QED BY <1>2, <2>1, ReplyOutcome
  <1> QED BY <1>1, <1>3, <1>4, SetKin DEF Healthy, KinShell

LEMMA Sources ==
    ASSUME ShellInv, Cqlsh!DoSource("ok")
    PROVE  ShellInv'
  <1>1. PICK s \in Shells : s = Cqlsh!self /\ s = stack[Len(stack)] /\ Healthy(s) BY RunningShell
  <1>2. PICK login, p, new :
            /\ login = [conn |-> s.conn, keyspace |-> s.keyspace]
            /\ p = Cqlsh!Profile(profiles[s.own].timeout)
            /\ new = Cqlsh!NewShell(s.keyspace, Len(logins) + 1, s.conn, FALSE, Len(profiles) + 1, s.color, s.tracing)
    OBVIOUS
  <1>3. /\ logins' = Append(logins, login) /\ profiles' = Append(profiles, p) /\ stack' = Append(stack, new)
        /\ UNCHANGED conns /\ conns[s.conn].open
    BY <1>1, <1>2 DEF Cqlsh!DoSource, Cqlsh!Outcomes
  <1>4. /\ logins \in Seq(Logins) /\ Len(logins) \in Nat /\ profiles \in Seq(Profiles) /\ Len(profiles) \in Nat
        /\ conns \in Seq(Conns) /\ stack \in Seq(Shells) /\ Len(stack) \in Nat /\ Len(stack) \in Nat \ {0}
        /\ s.conn \in 1..Len(conns) /\ s.own \in 1..Len(profiles)
    BY <1>1 DEF ShellInv, ListsFit, StackFits, Healthy, SoundShell
  <1>5. login \in Logins /\ login.conn = s.conn /\ login.keyspace = s.keyspace BY <1>2 DEF Logins, Shells
  <1>6. p \in Profiles /\ p.level = "ONE" /\ p.serial = "SERIAL"
    <2>1. profiles[s.own] \in Profiles BY <1>4
    <2>2. profiles[s.own].timeout \in Timeouts BY <2>1 DEF Profiles
    <2> QED BY <1>2, <2>2 DEF Profiles, Cqlsh!Profile, AnyLevel, AnySerial
  <1>7. /\ new \in Shells /\ new.cut = {} /\ new.wish.tracing = s.tracing /\ new.wish.color = s.color
        /\ new.tracing = s.tracing /\ new.shunted = None /\ new.color = s.color /\ new.paging
        /\ ~new.owns /\ new.own = Len(profiles) + 1 /\ new.session = Len(logins) + 1 /\ new.conn = s.conn
        /\ new.level = "ONE" /\ new.serial = "SERIAL" /\ ~new.stop /\ new.keyspace = s.keyspace
    <2>1. conns[s.conn] \in Conns BY <1>4
    <2>2. conns[s.conn].profile \in Nat BY <2>1 DEF Conns
    <2>3. /\ s.keyspace \in AnyKeyspace /\ s.conn \in Nat /\ s.color \in BOOLEAN /\ s.tracing \in BOOLEAN
      BY DEF Shells
    <2>4. Len(logins) + 1 \in Nat /\ Len(profiles) + 1 \in Nat BY <1>4
    <2>5. /\ "ONE" \in AnyLevel /\ "SERIAL" \in AnySerial /\ Cqlsh!DefaultPageSize \in Sizes
      BY DEF AnyLevel, AnySerial, Sizes
    <2>6. new = [keyspace |-> s.keyspace, session |-> Len(logins) + 1, conn |-> s.conn, owns |-> FALSE,
                 own |-> Len(profiles) + 1, boosted |-> conns[s.conn].profile, tracing |-> s.tracing,
                 level |-> "ONE", serial |-> "SERIAL",
                 paging |-> TRUE, pageSize |-> Cqlsh!DefaultPageSize, expand |-> FALSE, executeAs |-> None,
                 color |-> s.color, shunted |-> None, error |-> FALSE, stop |-> FALSE, at |-> "prompt",
                 wish |-> [color |-> s.color, tracing |-> s.tracing], cut |-> {}]
      BY <1>2 DEF Cqlsh!NewShell
    <2>7. new \in Shells BY <2>2, <2>3, <2>4, <2>5, <2>6 DEF Shells
    <2> QED BY <2>6, <2>7
  <1>8. /\ logins' \in Seq(Logins) /\ Len(logins') = Len(logins) + 1 /\ logins'[Len(logins) + 1] = login
        /\ \A n \in 1..Len(logins) : logins'[n] = logins[n] /\ n \in 1..Len(logins')
        /\ Len(logins) + 1 \in 1..Len(logins')
    BY <1>3, <1>4, <1>5
  <1>9. /\ profiles' \in Seq(Profiles) /\ Len(profiles') = Len(profiles) + 1 /\ profiles'[Len(profiles) + 1] = p
        /\ \A n \in 1..Len(profiles) : profiles'[n] = profiles[n] /\ n \in 1..Len(profiles')
        /\ Len(profiles) + 1 \in 1..Len(profiles')
    BY <1>3, <1>4, <1>6
  <1>10. /\ stack' \in Seq(Shells) /\ Len(stack') = Len(stack) + 1 /\ stack'[Len(stack) + 1] = new
         /\ \A n \in 1..Len(stack) : stack'[n] = stack[n]
         /\ \A n \in 1..Len(stack') : n \in 1..Len(stack) \/ n = Len(stack) + 1
         /\ 1 \in 1..Len(stack) /\ Len(stack) + 1 # 1
    BY <1>3, <1>4, <1>7
  <1>11. ListsFit'
    <2>1. FirstKept' BY <1>3, <1>9 DEF ShellInv, ListsFit, FirstKept
    <2> QED BY <1>3, <1>4, <1>8, <1>9, <2>1 DEF ListsFit
  <1>12. \A n \in 1..Len(stack) : /\ Healthy(stack[n]) /\ stack[n].session \in 1..Len(logins)
                                  /\ stack[n].own \in 1..Len(profiles)
    BY DEF ShellInv, Healthy, SoundShell
  <1>13. \A n \in 1..Len(stack') : Healthy(stack[n])'
    <2>1. ASSUME NEW n \in 1..Len(stack) PROVE Healthy(stack[n])'
      <3>1. PICK t \in Shells : t = stack[n] /\ SoundShell(t) /\ AsWished(t) BY <1>12 DEF Healthy
      <3>2. SoundShell(t)' BY <1>3, <1>8, <1>9, <3>1 DEF SoundShell
      <3>3. stack'[n] = t BY <1>10, <3>1
      <3> QED BY <3>1, <3>2, <3>3 DEF Healthy, SoundShell, AsWished
    <2>2. SoundShell(new)' BY <1>3, <1>4, <1>5, <1>6, <1>7, <1>8, <1>9 DEF SoundShell
    <2>3. AsWished(new) BY <1>7 DEF AsWished
    <2>4. ASSUME NEW n \in 1..Len(stack'), n = Len(stack) + 1 PROVE Healthy(stack[n])'
      <3>1. PICK t \in Shells : t = new /\ SoundShell(t)' /\ AsWished(t) BY <1>7, <2>2, <2>3
      <3>2. stack'[n] = t BY <1>10, <2>4, <3>1
      <3> QED BY <3>1, <3>2 DEF Healthy, SoundShell, AsWished
    <2> QED BY <1>10, <2>1, <2>4
  <1>14. StackFits'
    <2>1. \A n \in 1..Len(stack') : stack'[n].owns <=> n = 1
      BY <1>7, <1>10 DEF ShellInv, StackFits
    <2>2. \A m, n \in 1..Len(stack') : m # n => /\ stack'[m].session # stack'[n].session
                                                /\ stack'[m].own # stack'[n].own
      <3>1. \A n \in 1..Len(stack) : stack[n].session # new.session /\ stack[n].own # new.own
        BY <1>4, <1>7, <1>12
      <3>2. \A m, n \in 1..Len(stack) : m # n => stack[m].session # stack[n].session /\ stack[m].own # stack[n].own
        BY DEF ShellInv, StackFits
      <3> QED BY <1>10, <3>1, <3>2
    <2>3. Len(stack') \in Nat \ {0} BY <1>4, <1>10
    <2> QED BY <1>10, <2>1, <2>2, <2>3 DEF StackFits
  <1>15. Linked(stack[1])' BY <1>3, <1>10 DEF ShellInv, Linked
  <1> QED BY <1>11, <1>13, <1>14, <1>15 DEF ShellInv

LEMMA Returns ==
    ASSUME ShellInv, Cqlsh!Return
    PROVE  ShellInv'
  <1>1. /\ Len(stack) > 1 /\ stack' = SubSeq(stack, 1, Len(stack) - 1) /\ UNCHANGED <<logins, conns, profiles>>
    BY DEF Cqlsh!Return, Cqlsh!Shell
  <1>2. stack \in Seq(Shells) /\ Len(stack) \in Nat BY DEF ShellInv, StackFits
  <1>3. /\ stack' \in Seq(Shells) /\ Len(stack') = Len(stack) - 1 /\ Len(stack') \in Nat \ {0}
        /\ \A n \in 1..Len(stack') : stack'[n] = stack[n] /\ n \in 1..Len(stack)
        /\ 1 \in 1..Len(stack')
    BY <1>1, <1>2
  <1>4. StackFits'
    <2>1. /\ \A n \in 1..Len(stack) : stack[n].owns <=> n = 1
          /\ \A m, n \in 1..Len(stack) : m # n => stack[m].session # stack[n].session /\ stack[m].own # stack[n].own
      BY DEF ShellInv, StackFits
    <2>2. \A n \in 1..Len(stack') : stack'[n].owns <=> n = 1 BY <1>3, <2>1
    <2>3. \A m, n \in 1..Len(stack') : m # n => /\ stack'[m].session # stack'[n].session
                                                /\ stack'[m].own # stack'[n].own
      BY <1>3, <2>1
    <2> QED BY <1>3, <2>2, <2>3 DEF StackFits
  <1>5. \A n \in 1..Len(stack') : Healthy(stack[n])' BY <1>1, <1>3 DEF ShellInv, Healthy, SoundShell, AsWished
  <1>6. ListsFit' BY <1>1 DEF ShellInv, ListsFit, FirstKept
  <1>7. Linked(stack[1])' BY <1>1, <1>3 DEF ShellInv, Linked
  <1> QED BY <1>4, <1>5, <1>6, <1>7 DEF ShellInv

LEMMA ShellStays ==
    ASSUME ShellInv, UNCHANGED <<stack, logins, conns, profiles>>
    PROVE  ShellInv'
  BY DEF ShellInv, ListsFit, FirstKept, StackFits, Healthy, SoundShell, AsWished, Linked

LEMMA ShellStarts ==
    ASSUME Cqlsh!ShellAssumption, Cqlsh!Init
    PROVE  ShellInv
  <1>0. PICK own \in 1..2 : own = Cqlsh!FirstOwn /\ (own = 1 <=> ~Dse) BY DEF Cqlsh!FirstOwn, Cqlsh!ShellAssumption
  <1>1. PICK p, conn : /\ p = Cqlsh!Profile(Cqlsh!DefaultTimeout) /\ conn = [open |-> TRUE, profile |-> 1]
                       /\ profiles = [n \in 1..own |-> p] /\ conns = <<conn>>
    BY <1>0 DEF Cqlsh!Init
  <1>2. PICK ks \in {None} \cup Keyspaces, color \in BOOLEAN :
            /\ logins = <<[conn |-> 1, keyspace |-> ks]>>
            /\ stack = <<Cqlsh!NewShell(ks, 1, 1, TRUE, own, color, FALSE)>>
    BY <1>0 DEF Cqlsh!Init
  <1>3. PICK login, s : login = [conn |-> 1, keyspace |-> ks] /\ s = Cqlsh!NewShell(ks, 1, 1, TRUE, own, color, FALSE)
                        /\ logins = <<login>> /\ stack = <<s>>
    BY <1>2
  <1>4. p \in Profiles /\ p.level = "ONE" /\ p.serial = "SERIAL"
    BY <1>1 DEF Profiles, Cqlsh!Profile, AnyLevel, AnySerial, Timeouts
  <1>5. conn \in Conns /\ conn.open /\ conn.profile = 1 BY <1>1 DEF Conns
  <1>6. login \in Logins /\ login.conn = 1 /\ login.keyspace = ks BY <1>3 DEF Logins, AnyKeyspace
  <1>7. /\ conns[1] = conn /\ logins[1] = login /\ stack[1] = s /\ profiles[1] = p /\ profiles[own] = p
        /\ Len(conns) = 1 /\ Len(logins) = 1 /\ profiles \in Seq({p}) /\ Len(profiles) = own /\ Len(stack) = 1
    BY <1>1, <1>3
  <1>8. /\ s \in Shells /\ s.cut = {} /\ s.wish.tracing = FALSE /\ s.wish.color = color
        /\ s.tracing = FALSE /\ s.shunted = None /\ s.color = color /\ s.paging
        /\ s.owns /\ s.own = own /\ s.session = 1 /\ s.conn = 1
        /\ s.level = "ONE" /\ s.serial = "SERIAL" /\ ~s.stop /\ s.keyspace = ks
    <2>1. s = [keyspace |-> ks, session |-> 1, conn |-> 1, owns |-> TRUE,
                 own |-> own, boosted |-> 1, tracing |-> FALSE,
                 level |-> "ONE", serial |-> "SERIAL",
                 paging |-> TRUE, pageSize |-> Cqlsh!DefaultPageSize, expand |-> FALSE, executeAs |-> None,
                 color |-> color, shunted |-> None, error |-> FALSE, stop |-> FALSE, at |-> "prompt",
                 wish |-> [color |-> color, tracing |-> FALSE], cut |-> {}]
      BY <1>3, <1>5, <1>7 DEF Cqlsh!NewShell
    <2>2. /\ "ONE" \in AnyLevel /\ "SERIAL" \in AnySerial /\ Cqlsh!DefaultPageSize \in Sizes /\ ks \in AnyKeyspace
      BY DEF AnyLevel, AnySerial, Sizes, AnyKeyspace
    <2>3. s \in Shells BY <2>1, <2>2 DEF Shells
    <2> QED BY <2>1, <2>3
  <1>9. SoundShell(s) /\ AsWished(s)
    <2>1. 1 \in 1..1 OBVIOUS
    <2>2. SoundShell(s) BY <1>0, <1>4, <1>5, <1>6, <1>7, <1>8, <2>1 DEF SoundShell
    <2>3. AsWished(s) BY <1>8 DEF AsWished
    <2> QED BY <2>2, <2>3
  <1>10. ListsFit
    <2>1. FirstKept BY <1>0, <1>4, <1>5, <1>7 DEF FirstKept
    <2> QED BY <1>1, <1>3, <1>4, <1>5, <1>6, <1>7, <2>1 DEF ListsFit
  <1>11. \A n \in 1..Len(stack) : n = 1 BY <1>7
  <1>12. StackFits
    <2>1. \A S : \A x \in S : <<x>> \in Seq(S) OBVIOUS
    <2>2. stack \in Seq(Shells) BY <1>3, <1>8, <2>1
    <2> QED BY <1>7, <1>8, <1>11, <2>2 DEF StackFits
  <1>13. \A n \in 1..Len(stack) : Healthy(stack[n]) BY <1>7, <1>8, <1>9, <1>11 DEF Healthy
  <1>14. Linked(stack[1]) BY <1>0, <1>5, <1>7, <1>8 DEF Linked
  <1> QED BY <1>10, <1>12, <1>13, <1>14 DEF ShellInv

LEMMA ShellNext ==
    ASSUME Cqlsh!ShellAssumption, ShellInv, [Cqlsh!Next]_Cqlsh!vars
    PROVE  ShellInv'
  <1>1. ASSUME NEW outcome \in Cqlsh!Outcomes,
               \/ \E ks \in Keyspaces, applied \in BOOLEAN : Cqlsh!Use(ks, outcome, applied)
               \/ \E ks \in Keyspaces \cup {None} : Cqlsh!Select(ks, outcome)
               \/ Cqlsh!ManageSearch(outcome)
        PROVE  ShellInv'
    <2>1. outcome \in {"ok", "error", "raise", "interrupt"} BY DEF Cqlsh!Outcomes
    <2> QED BY <1>1, <2>1, Uses, Selects, Manages
  <1>2. ASSUME NEW switch \in {"ON", "OFF", None},
               Cqlsh!DoTracing(switch) \/ Cqlsh!DoExpand(switch) \/ Cqlsh!DoPaging(switch)
        PROVE  ShellInv'
    BY <1>2, Tracing, Displays
  <1>3. ASSUME NEW size \in PageSizes, Cqlsh!DoPageSize(size) PROVE ShellInv' BY <1>3, PageSize
  <1>4. CASE \/ \E level \in Levels : Cqlsh!DoConsistency(level)
             \/ \E level \in SerialLevels : Cqlsh!DoSerial(level)
    BY <1>4, LevelsSet
  <1>5. CASE Cqlsh!CaptureOff \/ \E opens \in BOOLEAN : Cqlsh!CaptureTo(opens) BY <1>5, Captures
  <1>6. CASE Cqlsh!Exit \/ Cqlsh!HandleEof BY <1>6, Exits DEF Cqlsh!Exit, Cqlsh!HandleEof
  <1>7. ASSUME NEW user \in {"someone", None}, Cqlsh!DoExecute(user) PROVE ShellInv' BY <1>7, ExecuteAs
  <1>8. ASSUME NEW outcome \in {"ok", "raise", "interrupt"}, Cqlsh!DoLogin(outcome) PROVE ShellInv' BY <1>8, LogsIn
  <1>9. ASSUME NEW outcome, Cqlsh!DoSource(outcome) PROVE ShellInv' BY <1>9, SourceFails, Sources
  <1>10. CASE Cqlsh!ReadLine \/ Cqlsh!EndLine BY <1>10, ShellMoves
  <1>11. CASE Cqlsh!Return BY <1>11, Returns
  <1>12. CASE Cqlsh!Quit BY <1>12, ShellStays DEF Cqlsh!Quit
  <1>13. CASE UNCHANGED Cqlsh!vars BY <1>13, ShellStays DEF Cqlsh!vars
  <1>14. CASE Cqlsh!Command
    BY <1>1, <1>2, <1>3, <1>4, <1>5, <1>6, <1>7, <1>8, <1>9, <1>14 DEF Cqlsh!Command
  <1> QED BY <1>6, <1>10, <1>11, <1>12, <1>13, <1>14 DEF Cqlsh!Next, Cqlsh!Step

LEMMA ShellAlways ==
    ASSUME Cqlsh!ShellAssumption
    PROVE  Cqlsh!Spec => []ShellInv
  <1>1. Cqlsh!Init => ShellInv BY ShellStarts
  <1>2. ShellInv /\ [Cqlsh!Next]_Cqlsh!vars => ShellInv' BY ShellNext
  <1> QED BY <1>1, <1>2, PTL DEF Cqlsh!Spec

(* A shell that goes on has an open connection, and its session is one of  *)
(* that connection, through logins, sourced files and failures of either;  *)
(* requests that name no level go out with the level of the shell that     *)
(* made the connection, but until a login DSEShell sends them with the     *)
(* level it started with (owns_connection, do_login, do_source, do_exit,   *)
(* DSEShell.__init__).                                                     *)
THEOREM ShellsConnected ==
    ASSUME Cqlsh!ShellAssumption
    PROVE  Cqlsh!Spec => []Cqlsh!Connected
  <1>1. ShellInv => Cqlsh!Connected
    <2> SUFFICES ASSUME ShellInv, NEW n \in 1..Len(stack)
                 PROVE  /\ ~stack[n].stop => conns[stack[n].conn].open
                        /\ logins[stack[n].session].conn = stack[n].conn
                        /\ n = 1 => LET p == profiles[conns[stack[n].conn].profile] IN
                                    IF Dse /\ stack[n].conn = 1 THEN p.level = "ONE" /\ p.serial = "SERIAL"
                                    ELSE p.level = stack[n].level /\ p.serial = stack[n].serial
      BY DEF Cqlsh!Connected, Cqlsh!Shell
    <2>1. SoundShell(stack[n]) BY DEF ShellInv, Healthy
    <2>2. n = 1 => Linked(stack[n]) BY DEF ShellInv
    <2>3. FirstKept BY DEF ShellInv, ListsFit
    <2> QED BY <2>1, <2>2, <2>3 DEF SoundShell, Linked, FirstKept
  <1> QED BY <1>1, ShellAlways, PTL

(* The keyspace in the prompt of each shell is the one the server resolves *)
(* names in, unless a USE that was applied was cut short (do_use,          *)
(* do_login, do_source).                                                   *)
THEOREM KeyspacesShown ==
    ASSUME Cqlsh!ShellAssumption
    PROVE  Cqlsh!Spec => []Cqlsh!KeyspaceShown
  <1>1. ShellInv => Cqlsh!KeyspaceShown BY DEF ShellInv, Healthy, SoundShell, Cqlsh!KeyspaceShown, Cqlsh!Shell
  <1> QED BY <1>1, ShellAlways, PTL

(* Tracing, colour and page size are as the user chose them, although      *)
(* queries of the traces and captured output change them for a while       *)
(* (do_select, do_capture, do_paging).                                     *)
THEOREM SettingsAsChosen ==
    ASSUME Cqlsh!ShellAssumption
    PROVE  Cqlsh!Spec => []Cqlsh!AsChosen
  <1>1. ShellInv => Cqlsh!AsChosen BY DEF ShellInv, Healthy, AsWished, Cqlsh!AsChosen, Cqlsh!Shell
  <1> QED BY <1>1, ShellAlways, PTL

-----------------------------------------------------------------------------
(* What both directions of COPY share (CopyTask), whose variables are its  *)
(* own.                                                                    *)
CONSTANTS Bad, Copies, ConfigFiles, Columns, PrimaryKey, NumProcesses
VARIABLES task, command, options, processes, params, writer, errFile, lost
Copying == INSTANCE CopyTask WITH Commands <- Copies, phase <- task

Process(i) == [inpipe : {Copying!OutPipe(i)}, outpipe : {Copying!InPipe(i)},
               outpipes : {{}, {Copying!OutPipe(j) : j \in 1..(i - 1)}}, state : {"new", "alive", "dead"}]

(* Until close, only an export has its file open, and nothing runs before  *)
(* the start; the processes made so far have their own pipes.              *)
ProcessesFit ==
    /\ DOMAIN processes = 1..Len(processes) /\ Len(processes) \in Nat
    /\ Len(processes) <= Copying!NumberOfProcesses
    /\ \A i \in 1..Len(processes) : processes[i] \in Process(i)
    /\ Copying!Import /\ Len(processes) = Copying!NumberOfProcesses =>
           processes[Len(processes)].outpipes = {Copying!OutPipe(j) : j \in 1..(Len(processes) - 1)}
StartsLast ==
    /\ task \in {"new", "checked"} => processes = <<>> /\ writer = "closed"
    /\ task \in {"new", "checked", "create"} => \A i \in 1..Len(processes) : processes[i].state = "new"
    /\ task \in {"returned", "raised"} /\ ~lost =>
           writer = "closed" /\ \A i \in 1..Len(processes) : processes[i].state # "alive"
TaskInv == ProcessesFit /\ StartsLast

(* A process may start, die or be stopped; its pipes stay.                 *)
LEMMA StateMoves ==
    ASSUME ProcessesFit, NEW i \in DOMAIN processes, NEW state \in {"alive", "dead"}, UNCHANGED command,
           Copying!Now(i, state)
    PROVE  ProcessesFit' /\ Len(processes') = Len(processes)
  <1>1. PICK p : p = [processes[i] EXCEPT !.state = state] OBVIOUS
  <1>2. i \in 1..Len(processes) /\ processes[i] \in Process(i) BY DEF ProcessesFit
  <1>3. p \in Process(i) /\ p.outpipes = processes[i].outpipes BY <1>1, <1>2 DEF Process
  <1>4. processes' = [processes EXCEPT ![i] = p] BY <1>1 DEF Copying!Now
  <1>5. /\ DOMAIN processes' = DOMAIN processes /\ processes'[i] = p
        /\ \A j \in DOMAIN processes : j # i => processes'[j] = processes[j]
    BY <1>4
  <1>6. Len(processes') = Len(processes) BY <1>5 DEF ProcessesFit
  <1> QED BY <1>3, <1>5, <1>6 DEF ProcessesFit, Process, Copying!NumberOfProcesses, Copying!Import

LEMMA Creates ==
    ASSUME Copying!CopyTaskAssumption, TaskInv, Copying!Create
    PROVE  TaskInv'
  <1>1. PICK i : i = Len(processes) + 1 OBVIOUS
  <1>2. Copying!NumberOfProcesses \in Nat BY DEF Copying!NumberOfProcesses, Copying!CopyTaskAssumption
  <1>3. /\ Len(processes) \in Nat /\ DOMAIN processes = 1..Len(processes) /\ Len(processes) < Copying!NumberOfProcesses
        /\ UNCHANGED <<task, command, options, writer, errFile, lost>> /\ task = "create"
    BY DEF Copying!Create, TaskInv, ProcessesFit
  <1>4. PICK p : /\ processes' = Append(processes, p) /\ p \in Process(i) /\ p.state = "new"
                 /\ Copying!Import /\ i = Copying!NumberOfProcesses =>
                        p.outpipes = {Copying!OutPipe(j) : j \in 1..(i - 1)}
    <2>1. CASE Copying!Import /\ i = Copying!NumberOfProcesses
      <3>1. PICK p : p = Copying!Feeder(i) OBVIOUS
      <3>2. p \in Process(i) /\ p.state = "new" /\ p.outpipes = {Copying!OutPipe(j) : j \in 1..(i - 1)}
        BY <3>1 DEF Process, Copying!Feeder
      <3> QED BY <1>1, <2>1, <3>1, <3>2 DEF Copying!Create
    <2>2. CASE ~(Copying!Import /\ i = Copying!NumberOfProcesses)
      <3>1. /\ params' = [inpipe |-> Copying!OutPipe(i), outpipe |-> Copying!InPipe(i)]
            /\ processes' = Append(processes, Copying!Worker(i))
        BY <1>1, <2>2 DEF Copying!Create
      <3>2. PICK p : p = Copying!Worker(i) OBVIOUS
      <3>3. p = [inpipe |-> Copying!OutPipe(i), outpipe |-> Copying!InPipe(i), outpipes |-> {}, state |-> "new"]
        BY <3>1, <3>2 DEF Copying!Worker
      <3>4. p \in Process(i) /\ p.state = "new" BY <3>3 DEF Process
      <3> QED BY <2>2, <3>1, <3>2, <3>4
    <2> QED BY <2>1, <2>2
  <1>5. PICK len \in Nat : len = Len(processes) /\ DOMAIN processes = 1..len /\ i = len + 1 BY <1>1, <1>3
  <1>6. /\ DOMAIN processes' = 1..(len + 1) /\ Len(processes') = len + 1 /\ processes'[len + 1] = p
        /\ \A j \in 1..len : processes'[j] = processes[j]
    BY <1>4, <1>5
  <1>7. \A j \in 1..(len + 1) : j \in 1..len \/ j = i BY <1>5
  <1>8. \A j \in 1..len : processes[j] \in Process(j) /\ processes[j].state = "new"
    BY <1>3, <1>5 DEF TaskInv, ProcessesFit, StartsLast
  <1>9. ProcessesFit'
    <2>1. Copying!NumberOfProcesses' = Copying!NumberOfProcesses /\ Copying!Import' = Copying!Import
      BY <1>3 DEF Copying!NumberOfProcesses, Copying!Import
    <2>2. len + 1 <= Copying!NumberOfProcesses /\ len + 1 \in Nat BY <1>2, <1>3, <1>5
    <2>3. \A j \in 1..(len + 1) : processes'[j] \in Process(j) BY <1>4, <1>5, <1>6, <1>7, <1>8
    <2>4. Copying!Import /\ len + 1 = Copying!NumberOfProcesses =>
              processes'[len + 1].outpipes = {Copying!OutPipe(j) : j \in 1..((len + 1) - 1)}
      BY <1>4, <1>5, <1>6
    <2> QED BY <1>6, <2>1, <2>2, <2>3, <2>4 DEF ProcessesFit
  <1>10. StartsLast'
    <2>1. \A j \in 1..(len + 1) : processes'[j].state = "new" BY <1>4, <1>5, <1>6, <1>7, <1>8
    <2> QED BY <1>3, <1>6, <2>1 DEF StartsLast
  <1> QED BY <1>9, <1>10 DEF TaskInv

LEMMA Closes ==
    ASSUME Copying!CopyTaskAssumption, TaskInv, Copying!Close
    PROVE  TaskInv'
  <1>1. /\ processes' = [i \in DOMAIN processes |-> Copying!Terminated(processes[i])]
        /\ writer' = "closed" /\ task' = "returned" /\ UNCHANGED command
    BY DEF Copying!Close
  <1>2. \A i \in 1..Len(processes) : processes[i] \in Process(i) /\ DOMAIN processes = 1..Len(processes)
    BY DEF TaskInv, ProcessesFit
  <1>3. ASSUME NEW i \in 1..Len(processes), NEW p, p = processes[i]
        PROVE  /\ processes'[i] \in Process(i) /\ processes'[i].outpipes = processes[i].outpipes
               /\ processes'[i].state # "alive"
    <2>1. processes'[i] = Copying!Terminated(p) /\ p \in Process(i) BY <1>1, <1>2, <1>3
    <2>2. CASE p.state = "alive" BY <1>3, <2>1, <2>2 DEF Copying!Terminated, Process
    <2>3. CASE p.state # "alive" BY <1>3, <2>1, <2>3 DEF Copying!Terminated, Process
    <2> QED BY <2>2, <2>3
  <1>4. DOMAIN processes' = 1..Len(processes) /\ Len(processes') = Len(processes)
    BY <1>1 DEF TaskInv, ProcessesFit
  <1>5. ProcessesFit'
    <2>1. Copying!NumberOfProcesses' = Copying!NumberOfProcesses /\ Copying!Import' = Copying!Import
      BY <1>1 DEF Copying!NumberOfProcesses, Copying!Import
    <2>2. Copying!Import /\ Len(processes) = Copying!NumberOfProcesses =>
              processes'[Len(processes)].outpipes = {Copying!OutPipe(j) : j \in 1..(Len(processes) - 1)}
      <3>1. CASE Len(processes) \in 1..Len(processes) BY <1>3, <3>1 DEF TaskInv, ProcessesFit
      <3>2. CASE Len(processes) \notin 1..Len(processes)
        <4>1. \A n \in Nat : n \notin 1..n => n = 0 OBVIOUS
        <4>2. Len(processes) = 0 BY <3>2, <4>1 DEF TaskInv, ProcessesFit
        <4>3. Copying!NumberOfProcesses \in Nat \ {0}
          BY DEF Copying!NumberOfProcesses, Copying!CopyTaskAssumption
        <4>4. Copying!NumberOfProcesses # 0 BY <4>3
        <4> QED BY <4>2, <4>4
      <3> QED BY <3>1, <3>2
    <2> QED BY <1>3, <1>4, <2>1, <2>2 DEF TaskInv, ProcessesFit
  <1>6. StartsLast' BY <1>1, <1>3, <1>4 DEF StartsLast
  <1> QED BY <1>5, <1>6 DEF TaskInv

LEMMA TaskNext ==
    ASSUME Copying!CopyTaskAssumption, TaskInv, [Copying!Next]_Copying!vars
    PROVE  TaskInv'
  <1>1. CASE Copying!Create BY <1>1, Creates
  <1>2. CASE Copying!Close BY <1>2, Closes
  <1>3. CASE Copying!Start
    <2>1. PICK i : /\ i = CHOOSE n \in Copying!In("new") : \A j \in Copying!In("new") : n <= j
                   /\ Copying!Now(i, "alive") /\ task' = "start" /\ UNCHANGED command
      BY <1>3 DEF Copying!Start
    <2>2. CASE i \in DOMAIN processes
      BY <2>1, <2>2, StateMoves DEF TaskInv, StartsLast
    <2>3. CASE i \notin DOMAIN processes
      <3>1. processes' = [processes EXCEPT ![i] = [processes[i] EXCEPT !.state = "alive"]]
        BY <2>1 DEF Copying!Now
      <3>2. DOMAIN processes' = DOMAIN processes /\ \A j \in DOMAIN processes : processes'[j] = processes[j]
        BY <2>3, <3>1
      <3>3. Len(processes') = Len(processes) BY <3>2 DEF TaskInv, ProcessesFit
      <3> QED BY <2>1, <3>2, <3>3 DEF TaskInv, StartsLast, ProcessesFit, Copying!NumberOfProcesses, Copying!Import
    <2> QED BY <2>2, <2>3
  <1>4. ASSUME NEW i \in DOMAIN processes, Copying!Die(i) PROVE TaskInv'
    <2>1. Copying!Now(i, "dead") /\ UNCHANGED <<task, command, writer, lost>> /\ task \in {"start", "work", "pills", "close"}
      BY <1>4 DEF Copying!Die
    <2> QED BY <1>4, <2>1, StateMoves DEF TaskInv, StartsLast
  <1>5. ASSUME UNCHANGED <<command, processes>>, StartsLast' PROVE TaskInv'
    BY <1>5 DEF TaskInv, ProcessesFit, Copying!NumberOfProcesses, Copying!Import
  <1>6. CASE Copying!Construct BY <1>5, <1>6 DEF Copying!Construct, TaskInv, StartsLast
  <1>7. CASE Copying!Refuse BY <1>5, <1>7 DEF Copying!Refuse, TaskInv, StartsLast
  <1>8. CASE Copying!Begin BY <1>5, <1>8 DEF Copying!Begin, TaskInv, StartsLast
  <1>9. CASE Copying!StartFails BY <1>5, <1>9 DEF Copying!StartFails, TaskInv, StartsLast
  <1>10. CASE Copying!Started \/ Copying!Worked \/ Copying!WorkFails \/ Copying!Waited
    BY <1>5, <1>10 DEF Copying!Started, Copying!Worked, Copying!WorkFails, Copying!Waited, StartsLast
  <1>11. CASE UNCHANGED Copying!vars BY <1>5, <1>11 DEF Copying!vars, TaskInv, StartsLast
  <1> QED BY <1>1, <1>2, <1>3, <1>4, <1>6, <1>7, <1>8, <1>9, <1>10, <1>11 DEF Copying!Next, Copying!Step

LEMMA TaskAlways ==
    ASSUME Copying!CopyTaskAssumption
    PROVE  Copying!Spec => []TaskInv
  <1>1. Copying!Init => TaskInv
    <2>1. Copying!Init => /\ processes = <<>> /\ writer = "closed" /\ task = "new" BY DEF Copying!Init, Copying!Unstarted
    <2>2. Copying!NumberOfProcesses \in Nat \ {0} BY DEF Copying!NumberOfProcesses, Copying!CopyTaskAssumption
    <2>3. Copying!NumberOfProcesses # 0 /\ 0 <= Copying!NumberOfProcesses BY <2>2
    <2>4. Copying!Init => Len(processes) = 0 /\ DOMAIN processes = 1..0 BY <2>1
    <2> QED BY <2>1, <2>3, <2>4 DEF TaskInv, ProcessesFit, StartsLast
  <1>2. TaskInv /\ [Copying!Next]_Copying!vars => TaskInv' BY TaskNext
  <1> QED BY <1>1, <1>2, PTL DEF Copying!Spec

(* When COPY is over, no process of its runs and its file is closed,       *)
(* whatever died or failed on the way; only an export that could not start *)
(* all its processes leaves some behind (CopyTask.close, ExportTask.run,   *)
(* ImportTask.run).                                                        *)
THEOREM NothingIsLeft ==
    ASSUME Copying!CopyTaskAssumption
    PROVE  Copying!Spec => []Copying!NothingLeft
  <1>1. TaskInv => Copying!NothingLeft
    BY DEF TaskInv, ProcessesFit, StartsLast, Copying!NothingLeft, Copying!In
  <1> QED BY <1>1, TaskAlways, PTL

(* No two processes share a pipe, and the feeder sends where the workers   *)
(* listen, for any number of workers (update_params, ImportTask.run).      *)
THEOREM PipesFit ==
    ASSUME Copying!CopyTaskAssumption
    PROVE  Copying!Spec => []Copying!PipesMatch
  <1>1. TaskInv => Copying!PipesMatch
    <2> SUFFICES ASSUME TaskInv PROVE Copying!PipesMatch OBVIOUS
    <2>1. \A i \in DOMAIN processes : /\ processes[i].inpipe = <<"to child", i>>
                                      /\ processes[i].outpipe = <<"to parent", i>>
      BY DEF TaskInv, ProcessesFit, Process, Copying!OutPipe, Copying!InPipe
    <2>2. \A i, j \in DOMAIN processes : i # j => /\ processes[i].inpipe # processes[j].inpipe
                                                  /\ processes[i].outpipe # processes[j].outpipe
      <3> SUFFICES ASSUME NEW i \in DOMAIN processes, NEW j \in DOMAIN processes, i # j
                   PROVE  /\ processes[i].inpipe # processes[j].inpipe
                          /\ processes[i].outpipe # processes[j].outpipe
        OBVIOUS
      <3>1. <<"to child", i>> # <<"to child", j>> /\ <<"to parent", i>> # <<"to parent", j>> OBVIOUS
      <3> QED BY <2>1, <3>1
    <2>3. ASSUME Copying!Import, Len(processes) = Copying!NumberOfProcesses
          PROVE  processes[Copying!NumberOfProcesses].outpipes =
                     {processes[i].inpipe : i \in 1..(Copying!NumberOfProcesses - 1)}
      <3>1. \A i \in 1..(Len(processes) - 1) : processes[i].inpipe = Copying!OutPipe(i)
        <4>1. \A n \in Nat : \A i \in 1..(n - 1) : i \in 1..n OBVIOUS
        <4>2. \A i \in 1..(Len(processes) - 1) : i \in DOMAIN processes BY <4>1 DEF TaskInv, ProcessesFit
        <4> QED BY <2>1, <4>2 DEF Copying!OutPipe
      <3> QED BY <2>3, <3>1 DEF TaskInv, ProcessesFit
    <2> QED BY <2>2, <2>3 DEF Copying!PipesMatch
  <1> QED BY <1>1, TaskAlways, PTL

(* An option that a place gives has the value of the last that gives it.   *)
LEMMA UpdateGives ==
    ASSUME NEW acc, NEW opts, NEW new, new = Copying!Update(acc, opts), NEW name
    PROVE  /\ name \in DOMAIN new <=> name \in DOMAIN acc \/ name \in DOMAIN opts
           /\ name \in DOMAIN opts => new[name] = opts[name]
           /\ name \in DOMAIN acc /\ name \notin DOMAIN opts => new[name] = acc[name]
  BY DEF Copying!Update

LEMMA LastOfFour ==
    ASSUME NEW S \in SUBSET (1..4), S # {}
    PROVE  Copying!Max(S) = IF 4 \in S THEN 4 ELSE IF 3 \in S THEN 3 ELSE IF 2 \in S THEN 2 ELSE 1
  <1>1. PICK m \in S : m = IF 4 \in S THEN 4 ELSE IF 3 \in S THEN 3 ELSE IF 2 \in S THEN 2 ELSE 1
    <2>1. PICK k \in S : k \in {1, 2, 3, 4}
      <3>1. PICK k \in S : k \in 1..4 OBVIOUS
      <3>2. k \in {1, 2, 3, 4} BY <3>1
      <3> QED BY <3>1, <3>2
    <2>2. 4 \notin S /\ 3 \notin S /\ 2 \notin S => 1 \in S BY <2>1
    <2> QED BY <2>2
  <1>2. \A i \in S : m >= i BY <1>1
  <1>3. \A i, j \in S : i >= j /\ j >= i => i = j OBVIOUS
  <1>4. Copying!Max(S) = m BY <1>2, <1>3 DEF Copying!Max
  <1> QED BY <1>1, <1>4

LEMMA OptionsRead ==
    ASSUME NEW c, c = command, NEW name \in Copying!Recognized,
           name \in DOMAIN c.options \/ Copying!Places(name) # {}
    PROVE  /\ name \in DOMAIN Copying!ReadOptions(c)
           /\ Copying!ReadOptions(c)[name] = Copying!Wanted(name)
  <1>1. PICK g, own : g = Copying!Given(c) /\ own = Copying!Without(c.options, {"configfile"}) OBVIOUS
  <1>2. PICK two : two = Copying!Update(g[1], g[2]) OBVIOUS
  <1>3. PICK three : three = Copying!Update(two, g[3]) OBVIOUS
  <1>4. PICK four : four = Copying!Update(three, g[4]) OBVIOUS
  <1>5. PICK all : all = Copying!Update(four, own) OBVIOUS
  <1>6. Copying!ReadOptions(c) = all BY <1>1, <1>2, <1>3, <1>4, <1>5 DEF Copying!ReadOptions
  <1>7. /\ name \in DOMAIN own <=> name \in DOMAIN c.options
        /\ name \in DOMAIN own => own[name] = c.options[name]
    <2>1. name # "configfile" BY DEF Copying!Recognized
    <2> QED BY <1>1, <2>1 DEF Copying!Without
  <1>8. PICK S : S = Copying!Places(name) OBVIOUS
  <1>9. S \in SUBSET (1..4) /\ \A i \in 1..4 : i \in S <=> name \in DOMAIN g[i] BY <1>1, <1>8 DEF Copying!Places
  <1>10. CASE name \in DOMAIN c.options
    <2>1. name \in DOMAIN all /\ all[name] = own[name] BY <1>5, <1>7, <1>10, UpdateGives
    <2> QED BY <1>6, <1>7, <1>10, <2>1 DEF Copying!Wanted
  <1>11. CASE name \notin DOMAIN c.options
    <2>1. PICK m : m = Copying!Max(S) OBVIOUS
    <2>2. S # {} BY <1>8, <1>11
    <2>3. m = IF 4 \in S THEN 4 ELSE IF 3 \in S THEN 3 ELSE IF 2 \in S THEN 2 ELSE 1
      BY <1>9, <2>1, <2>2, LastOfFour
    <2>4. Copying!Wanted(name) = g[m] [name] BY <1>1, <1>8, <1>11, <2>1 DEF Copying!Wanted
    <2>5. name \in DOMAIN four => name \in DOMAIN all /\ all[name] = four[name]
      BY <1>5, <1>7, <1>11, UpdateGives
    <2>6. name \in DOMAIN four /\ four[name] = g[m] [name]
      <3>1. CASE 4 \in S
        <4>1. m = 4 /\ name \in DOMAIN g[4] BY <1>9, <2>3, <3>1
        <4> QED BY <1>4, <4>1, UpdateGives
      <3>2. CASE 4 \notin S /\ 3 \in S
        <4>1. m = 3 /\ name \in DOMAIN g[3] /\ name \notin DOMAIN g[4] BY <1>9, <2>3, <3>2
        <4>2. name \in DOMAIN three /\ three[name] = g[3] [name] BY <1>3, <4>1, UpdateGives
        <4> QED BY <1>4, <4>1, <4>2, UpdateGives
      <3>3. CASE 4 \notin S /\ 3 \notin S /\ 2 \in S
        <4>1. m = 2 /\ name \in DOMAIN g[2] /\ name \notin DOMAIN g[3] /\ name \notin DOMAIN g[4] BY <1>9, <2>3, <3>3
        <4>2. name \in DOMAIN two /\ two[name] = g[2] [name] BY <1>2, <4>1, UpdateGives
        <4>3. name \in DOMAIN three /\ three[name] = two[name] BY <1>3, <4>1, <4>2, UpdateGives
        <4> QED BY <1>4, <4>1, <4>2, <4>3, UpdateGives
      <3>4. CASE 4 \notin S /\ 3 \notin S /\ 2 \notin S
        <4>1. 1 \in S /\ m = 1
          <5>1. PICK k \in S : k \in 1..4 BY <1>9, <2>2
          <5>2. 1 \in S BY <3>4, <5>1
          <5>3. m = 1 BY <2>3, <3>4
          <5> QED BY <5>2, <5>3
        <4>2. name \in DOMAIN g[1] /\ name \notin DOMAIN g[2] /\ name \notin DOMAIN g[3] /\ name \notin DOMAIN g[4]
          BY <1>9, <3>4, <4>1
        <4>3. name \in DOMAIN two /\ two[name] = g[1] [name] BY <1>2, <4>2, UpdateGives
        <4>4. name \in DOMAIN three /\ three[name] = two[name] BY <1>3, <4>2, <4>3, UpdateGives
        <4> QED BY <1>4, <4>1, <4>2, <4>3, <4>4, UpdateGives
      <3> QED BY <3>1, <3>2, <3>3, <3>4
    <2> QED BY <1>6, <2>4, <2>5, <2>6
  <1> QED BY <1>10, <1>11

(* parse_options takes what is given, whatever the defaults of the others. *)
LEMMA OptionsParsed ==
    ASSUME NEW opts, NEW parsed, parsed = Copying!ParseOptions(opts), NEW name \in Copying!Recognized,
           name \in DOMAIN opts, name \in DOMAIN parsed
    PROVE  parsed[name] = opts[name]
  <1>1. name # "escape" BY DEF Copying!ParseOptions
  <1>2. name \in {"quote", "boolstyle", "maxbatchsize", "requesttimeout", "childtimeout", "pagesize", "pagetimeout"}
    BY <1>1 DEF Copying!Recognized
  <1>3. CASE name = "quote"
    <2>1. "quote" \in DOMAIN opts BY <1>3
    <2>2. Copying!ParseOptions(opts).quote = opts["quote"] BY <2>1 DEF Copying!ParseOptions
    <2> QED BY <1>3, <2>2
  <1>4. CASE name = "boolstyle"
    <2>1. "boolstyle" \in DOMAIN opts BY <1>4
    <2>2. Copying!ParseOptions(opts).boolstyle = opts["boolstyle"] BY <2>1 DEF Copying!ParseOptions
    <2> QED BY <1>4, <2>2
  <1>5. CASE name = "maxbatchsize"
    <2>1. "maxbatchsize" \in DOMAIN opts BY <1>5
    <2>2. Copying!ParseOptions(opts).maxbatchsize = opts["maxbatchsize"] BY <2>1 DEF Copying!ParseOptions
    <2> QED BY <1>5, <2>2
  <1>6. CASE name = "requesttimeout"
    <2>1. "requesttimeout" \in DOMAIN opts BY <1>6
    <2>2. Copying!ParseOptions(opts).requesttimeout = opts["requesttimeout"] BY <2>1 DEF Copying!ParseOptions
    <2> QED BY <1>6, <2>2
  <1>7. CASE name = "childtimeout"
    <2>1. "childtimeout" \in DOMAIN opts BY <1>7
    <2>2. Copying!ParseOptions(opts).childtimeout = opts["childtimeout"] BY <2>1 DEF Copying!ParseOptions
    <2> QED BY <1>7, <2>2
  <1>8. CASE name = "pagesize"
    <2>1. "pagesize" \in DOMAIN opts BY <1>8
    <2>2. Copying!ParseOptions(opts).pagesize = opts["pagesize"] BY <2>1 DEF Copying!ParseOptions
    <2> QED BY <1>8, <2>2
  <1>9. CASE name = "pagetimeout"
    <2>1. "pagetimeout" \in DOMAIN opts BY <1>9
    <2>2. Copying!ParseOptions(opts).pagetimeout = opts["pagetimeout"] BY <2>1 DEF Copying!ParseOptions
    <2> QED BY <1>9, <2>2
  <1> QED BY <1>2, <1>3, <1>4, <1>5, <1>6, <1>7, <1>8, <1>9

OptionsInv ==
    /\ task = "new" => options = Copying!NoOptions
    /\ options = Copying!NoOptions \/ \E c : c = command /\ options = Copying!ParseOptions(Copying!ReadOptions(c))

(* Each option of a COPY has the value of the most special place that      *)
(* gives it: the command, the table and direction, the table, the          *)
(* direction, all of COPY (maybe_read_config_file, parse_options).         *)
THEOREM MostSpecialFirst ==
    Copying!Spec => []Copying!MostSpecialWins
  <1>1. Copying!Init => OptionsInv BY DEF Copying!Init, OptionsInv
  <1>2. OptionsInv /\ [Copying!Next]_Copying!vars => OptionsInv'
    <2> SUFFICES ASSUME OptionsInv, [Copying!Next]_Copying!vars PROVE OptionsInv' OBVIOUS
    <2>1. PICK c : c = command OBVIOUS
    <2>3. CASE Copying!Construct
      <3>1. /\ command' = c /\ task' \in {"raised", "checked"}
            /\ \/ options' = Copying!ParseOptions(Copying!ReadOptions(c))
               \/ options' = options /\ options = Copying!NoOptions
        BY <2>1, <2>3 DEF Copying!Construct, OptionsInv
      <3> QED BY <3>1 DEF OptionsInv
    <2>4. ASSUME options' = options, command' = c, task # "new" => task' # "new", task = "new" => task' = "new"
          PROVE  OptionsInv'
      BY <2>1, <2>4 DEF OptionsInv
    <2>5. CASE \/ Copying!Refuse \/ Copying!Begin \/ Copying!Create \/ Copying!Start \/ Copying!StartFails
               \/ Copying!Started \/ Copying!Waited \/ Copying!Close
      BY <2>1, <2>4, <2>5 DEF Copying!Refuse, Copying!Begin, Copying!Create, Copying!Start, Copying!StartFails,
         Copying!Started, Copying!Waited, Copying!Close
    <2>6. CASE \/ Copying!Worked \/ Copying!WorkFails \/ (\E i \in DOMAIN processes : Copying!Die(i))
               \/ UNCHANGED Copying!vars
      <3>1. options' = options /\ command' = c
        BY <2>1, <2>6 DEF Copying!Worked, Copying!WorkFails, Copying!Die, Copying!vars
      <3>2. (task # "new" => task' # "new") /\ (task = "new" => task' = "new")
        BY <2>6 DEF Copying!Worked, Copying!WorkFails, Copying!Die, Copying!vars
      <3> QED BY <2>4, <3>1, <3>2
    <2> QED BY <2>3, <2>5, <2>6 DEF Copying!Next, Copying!Step
  <1>3. OptionsInv => Copying!MostSpecialWins
    <2> SUFFICES ASSUME OptionsInv, options # Copying!NoOptions, NEW name \in Copying!Recognized \cap DOMAIN options,
                        name \in DOMAIN command.options \/ Copying!Places(name) # {}
                 PROVE  options[name] = Copying!Wanted(name)
      BY DEF Copying!MostSpecialWins
    <2>1. PICK opts : opts = Copying!ReadOptions(command) OBVIOUS
    <2>2. options = Copying!ParseOptions(opts) BY <2>1 DEF OptionsInv
    <2>3. name \in DOMAIN opts /\ opts[name] = Copying!Wanted(name) BY <2>1, OptionsRead
    <2>4. options[name] = opts[name] BY <2>2, <2>3, OptionsParsed
    <2> QED BY <2>3, <2>4
  <1> QED BY <1>1, <1>2, <1>3, PTL DEF Copying!Spec

-----------------------------------------------------------------------------
(* Timestamps in CSV files (Timestamps), whose variables are its own.      *)
CONSTANTS Hours, Millis, Zones, LocalZone, Python3
VARIABLES instant, format, stage, text, result
Times == INSTANCE Timestamps

IsDate(i) == i.era \in {"early", "modern"}
(* What is in the file for the instant, and what was read of it.           *)
TextInv ==
    /\ stage = "exported" /\ format.zone /\ (Python3 \/ instant.era # "early") =>
          text = IF instant.era = "far" THEN Times!Number(instant)
                 ELSE LET i == Times!Shown(instant) IN Times!Date(i.era, i.hour, i.ms, 0, TRUE)
    /\ stage = "written" => /\ instant.era # "far"
                            /\ \E z \in Zones : text = Times!Date(instant.era, instant.hour + z, instant.ms, z, FALSE)
TimesInv == /\ instant \in Times!Instants /\ format \in Times!Formats
            /\ TextInv /\ Times!RoundTrip

LEMMA Fields ==
    ASSUME NEW i \in Times!Instants
    PROVE  /\ i.era \in {"early", "modern", "far"} /\ i.hour \in Hours /\ i.ms \in Millis
           /\ i = [era |-> i.era, hour |-> i.hour, ms |-> i.ms]
           /\ [i EXCEPT !.ms = 0] = [era |-> i.era, hour |-> i.hour, ms |-> 0]
  BY DEF Times!Instants

LEMMA ShownIs ==
    ASSUME instant \in Times!Instants, 0 \in Millis \/ 0 \in Nat, NEW i, i = Times!Shown(instant)
    PROVE  /\ i.era = instant.era /\ i.hour = instant.hour
           /\ i = [era |-> i.era, hour |-> i.hour, ms |-> i.ms]
  <1>1. CASE format.fraction BY <1>1, Fields DEF Times!Shown
  <1>2. CASE ~format.fraction
    <2>1. i = [era |-> instant.era, hour |-> instant.hour, ms |-> 0] BY <1>2, Fields DEF Times!Shown
    <2> QED BY <2>1
  <1> QED BY <1>1, <1>2

LEMMA ExportKeeps ==
    ASSUME TimesInv, Times!Export
    PROVE  TimesInv'
  <1>1. stage' = "exported" /\ instant' = instant /\ format' = format BY DEF Times!Export
  <1>2. ASSUME format.zone, Python3 \/ instant.era # "early"
        PROVE text' = IF instant.era = "far" THEN Times!Number(instant)
                      ELSE LET i == Times!Shown(instant) IN Times!Date(i.era, i.hour, i.ms, 0, TRUE)
    <2>1. CASE instant.era = "far" BY <2>1 DEF Times!Export
    <2>2. CASE instant.era # "far"
      <3>1. ~(instant.era = "early" /\ ~Python3) BY <1>2
      <3>2. text' = LET i == Times!Shown(instant) IN Times!Date(i.era, i.hour, i.ms, 0, TRUE)
        BY <1>2, <2>2, <3>1 DEF Times!Export, Times!RoundMicroseconds
      <3> QED BY <2>2, <3>2
    <2> QED BY <2>1, <2>2
  <1>3. Times!Shown(instant)' = Times!Shown(instant) BY <1>1 DEF Times!Shown
  <1>4. TextInv' BY <1>1, <1>2, <1>3 DEF TextInv, Times!Number
  <1> QED BY <1>1, <1>4 DEF TimesInv, Times!RoundTrip

LEMMA ImportKeeps ==
    ASSUME Times!TimestampsAssumption, None \notin Int, TimesInv, Times!Import
    PROVE  TimesInv'
  <1>1. instant' = instant /\ format' = format /\ text' = text /\ stage' \in {"returned", "imported"}
    BY DEF Times!Import
  <1>2. ASSUME stage' = "returned", format.zone, Python3 \/ instant.era # "early"
        PROVE  result' = IF instant.era = "far" THEN instant ELSE Times!Shown(instant)
    <2>1. stage = "exported" BY <1>2 DEF Times!Import
    <2>2. CASE instant.era = "far"
      <3>1. text = Times!Number(instant) BY <1>2, <2>1, <2>2 DEF TimesInv, TextInv
      <3>2. text.kind = "number" /\ text.era = instant.era /\ text.hour = instant.hour /\ text.ms = instant.ms
        BY <3>1 DEF Times!Number
      <3>3. result' = Times!Instant(text.hour, text.ms) BY <3>2 DEF Times!Import, Times!Parses
      <3>4. result' = instant BY <3>2, <3>3, Fields DEF Times!Instant, TimesInv
      <3> QED BY <2>2, <3>4
    <2>3. CASE instant.era # "far"
      <3>1. PICK i : i = Times!Shown(instant) OBVIOUS
      <3>2. text = Times!Date(i.era, i.hour, i.ms, 0, TRUE) BY <1>2, <2>1, <2>3, <3>1 DEF TimesInv, TextInv
      <3>3. text.kind = "date" /\ text.own /\ text.era = i.era /\ text.hour = i.hour /\ text.ms = i.ms /\ text.zone = 0
        BY <3>2 DEF Times!Date
      <3>4. i = [era |-> i.era, hour |-> i.hour, ms |-> i.ms] /\ i.hour \in Int
        BY <3>1, ShownIs, Fields DEF TimesInv, Times!TimestampsAssumption
      <3>5. i.hour - 0 = i.hour /\ i.hour + 0 = i.hour BY <3>4
      <3>6. 0 # None OBVIOUS
      <3>7. CASE Python3
        <4>1. Times!Parses BY <3>3, <3>7 DEF Times!Parses
        <4>2. result' = Times!ByFormat BY <4>1 DEF Times!Import
        <4>3. Times!ByFormat = Times!Instant(i.hour - 0, i.ms) BY <3>3, <3>6, <3>7 DEF Times!ByFormat
        <4> QED BY <2>3, <3>1, <3>3, <3>4, <3>5, <4>2, <4>3 DEF Times!Instant
      <3>8. CASE ~Python3
        <4>1. ~Times!Parses BY <1>2, <3>8 DEF Times!Parses
        <4>2. result' = Times!ByPattern BY <3>3, <4>1 DEF Times!Import
        <4>3. Times!ByPattern = Times!Instant(i.hour + 0, i.ms) BY <3>3, <3>6 DEF Times!ByPattern
        <4> QED BY <2>3, <3>1, <3>3, <3>4, <3>5, <4>2, <4>3 DEF Times!Instant
      <3> QED BY <3>7, <3>8
    <2> QED BY <2>2, <2>3
  <1>3. Times!Shown(instant)' = Times!Shown(instant) BY <1>1 DEF Times!Shown
  <1>4. TextInv' BY <1>1 DEF TextInv
  <1>5. Times!RoundTrip' BY <1>1, <1>2, <1>3 DEF Times!RoundTrip
  <1> QED BY <1>1, <1>4, <1>5 DEF TimesInv

LEMMA TimesNext ==
    ASSUME Times!TimestampsAssumption, None \notin Int, TimesInv, [Times!Next]_Times!vars
    PROVE  TimesInv'
  <1>1. CASE Times!Export BY <1>1, ExportKeeps
  <1>2. CASE Times!Import BY <1>2, ImportKeeps
  <1>3. ASSUME NEW zone \in Zones, Times!WriteElsewhere(zone) PROVE TimesInv'
    <2>1. /\ instant' = instant /\ format' = format /\ stage' = "written" /\ instant.era # "far"
          /\ text' = Times!Date(instant.era, instant.hour + zone, instant.ms, zone, FALSE)
      BY <1>3 DEF Times!WriteElsewhere
    <2>2. TextInv' BY <2>1 DEF TextInv, Times!Date
    <2> QED BY <2>1, <2>2 DEF TimesInv, Times!RoundTrip
  <1>4. CASE UNCHANGED Times!vars
    BY <1>4 DEF TimesInv, TextInv, Times!vars, Times!RoundTrip, Times!Shown, Times!Number, Times!Date
  <1> QED BY <1>1, <1>2, <1>3, <1>4 DEF Times!Next

(* COPY FROM reads what COPY TO wrote as the same instant, with any format *)
(* that says the zone, whatever the zone of the machine, except what       *)
(* Python 2 writes before 1900 (round_microseconds,                        *)
(* format_value_timestamp, convert_datetime).                              *)
THEOREM TimesRoundTrip ==
    ASSUME Times!TimestampsAssumption, None \notin Int
    PROVE  Times!Spec => []Times!RoundTrip
  <1>1. Times!Init => TimesInv BY DEF Times!Init, TimesInv, TextInv, Times!RoundTrip
  <1>2. TimesInv /\ [Times!Next]_Times!vars => TimesInv' BY TimesNext
  <1>3. TimesInv => Times!RoundTrip BY DEF TimesInv
  <1> QED BY <1>1, <1>2, <1>3, PTL DEF Times!Spec

-----------------------------------------------------------------------------
(* What a text of another program is read as: its offset is added, so the  *)
(* instant moves by twice the zone.                                        *)
Elsewhere(z) == Times!Date(instant.era, instant.hour + z, instant.ms, z, FALSE)
ReadInv ==
    /\ instant \in Times!Instants
    /\ stage = "written" => \E z \in Zones : text = Elsewhere(z)
    /\ stage = "imported" =>
          \E z \in Zones : /\ text = Elsewhere(z)
                           /\ result = [era |-> instant.era, hour |-> instant.hour + z + z, ms |-> instant.ms]

LEMMA ReadNext ==
    ASSUME Times!TimestampsAssumption, None \notin Int, ReadInv, [Times!Next]_Times!vars
    PROVE  ReadInv'
  <1>1. CASE Times!Export BY <1>1 DEF Times!Export, ReadInv
  <1>2. CASE Times!Import
    <2>1. instant' = instant /\ text' = text /\ stage' \in {"returned", "imported"} BY <1>2 DEF Times!Import
    <2>2. ASSUME stage' = "imported"
          PROVE  \E z \in Zones : /\ text = Elsewhere(z)
                                  /\ result' = [era |-> instant.era, hour |-> instant.hour + z + z, ms |-> instant.ms]
      <3>1. stage = "written" BY <1>2, <2>2 DEF Times!Import
      <3>2. PICK z \in Zones : text = Elsewhere(z) BY <3>1 DEF ReadInv
      <3>3. /\ text.kind = "date" /\ ~text.own /\ text.era = instant.era /\ text.hour = instant.hour + z
            /\ text.ms = instant.ms /\ text.zone = z
        BY <3>2 DEF Elsewhere, Times!Date
      <3>4. z # None BY <3>2 DEF Times!TimestampsAssumption
      <3>5. ~Times!Parses BY <3>3 DEF Times!Parses
      <3>6. result' = Times!ByPattern BY <1>2, <3>3, <3>5 DEF Times!Import
      <3>7. Times!ByPattern = Times!Instant(instant.hour + z + z, instant.ms) BY <3>3, <3>4 DEF Times!ByPattern
      <3>8. result' = [era |-> instant.era, hour |-> instant.hour + z + z, ms |-> instant.ms]
        BY <3>3, <3>6, <3>7 DEF Times!Instant
      <3> QED BY <3>2, <3>8
    <2> QED BY <2>1, <2>2 DEF ReadInv, Elsewhere
  <1>3. ASSUME NEW zone \in Zones, Times!WriteElsewhere(zone) PROVE ReadInv'
    <2>1. /\ instant' = instant /\ stage' = "written"
          /\ text' = Times!Date(instant.era, instant.hour + zone, instant.ms, zone, FALSE)
      BY <1>3 DEF Times!WriteElsewhere
    <2> QED BY <2>1 DEF ReadInv, Elsewhere
  <1>4. CASE UNCHANGED Times!vars BY <1>4 DEF ReadInv, Times!vars, Elsewhere
  <1> QED BY <1>1, <1>2, <1>3, <1>4 DEF Times!Next

LEMMA ReadAlways ==
    ASSUME Times!TimestampsAssumption, None \notin Int
    PROVE  Times!Spec => []ReadInv
  <1>1. Times!Init => ReadInv BY DEF Times!Init, ReadInv
  <1>2. ReadInv /\ [Times!Next]_Times!vars => ReadInv' BY ReadNext
  <1> QED BY <1>1, <1>2, PTL DEF Times!Spec

(* A text of another program is read as an instant off by twice the zone   *)
(* it says, and by nothing else, whatever the zones: as the instant it     *)
(* says when that is in UTC and in no other zone, for the offset is added, *)
(* where it should be subtracted (convert_datetime).                       *)
THEOREM ReadOffByTwiceTheZone ==
    ASSUME Times!TimestampsAssumption, None \notin Int
    PROVE  Times!Spec => []Times!ReadByItsZone
  <1>1. ReadInv => Times!ReadByItsZone
    <2> SUFFICES ASSUME ReadInv, stage = "imported"
                 PROVE  /\ result = [instant EXCEPT !.hour = @ + 2 * text.zone]
                        /\ result = instant <=> text.zone = 0
      BY DEF Times!ReadByItsZone
    <2>1. PICK z \in Zones :
             /\ text = Elsewhere(z)
             /\ result = [era |-> instant.era, hour |-> instant.hour + z + z, ms |-> instant.ms]
      BY DEF ReadInv
    <2>2. text.zone = z BY <2>1 DEF Elsewhere, Times!Date
    <2>3. instant \in [era : {"early", "modern", "far"}, hour : Hours, ms : Millis] BY DEF ReadInv, Times!Instants
    <2>4. z \in Int /\ instant.hour \in Int BY <2>1, <2>3 DEF Times!TimestampsAssumption
    <2>5. instant.hour + z + z = instant.hour + 2 * z BY <2>4
    <2>6. result = [instant EXCEPT !.hour = instant.hour + 2 * z] BY <2>1, <2>3, <2>5
    <2>7. result = instant <=> instant.hour + z + z = instant.hour BY <2>1, <2>3
    <2>8. result = instant <=> z = 0 BY <2>4, <2>7
    <2> QED BY <2>2, <2>6, <2>8
  <1> QED BY <1>1, ReadAlways, PTL

-----------------------------------------------------------------------------
(* How the shell cuts its input (Statements), whose variables are its own. *)
CONSTANTS Lines, Mode, MaxLines
VARIABLES reading, buffer, settled, running, log, prompt, emptyLines, stop, typed, ended
Cutting == INSTANCE Statements WITH phase <- reading

(* A line is a sequence of items, and so is the text read so far.          *)
LinesFit(Items) == {";", "nl"} \subseteq Items /\ Lines \subseteq Seq(Items)
PromptInv(Items) == buffer \in Seq(Items) /\ Cutting!PromptTells

LEMMA EndsFit ==
    ASSUME NEW Items, LinesFit(Items)
    PROVE  <<"nl">> \in Seq(Items) /\ <<";">> \in Seq(Items) /\ <<>> \in Seq(Items)
  <1>1. "nl" \in Items /\ ";" \in Items BY DEF LinesFit
  <1>2. \A x \in Items : <<x>> \in Seq(Items) OBVIOUS
  <1>3. <<"nl">> \in Seq(Items) BY <1>1, <1>2
  <1>4. <<";">> \in Seq(Items) BY <1>1, <1>2
  <1>5. <<>> \in Seq(Items) OBVIOUS
  <1> QED BY <1>3, <1>4, <1>5

LEMMA NotEmpty ==
    ASSUME NEW S, NEW s \in Seq(S), NEW t \in Seq(S), s # <<>> \/ t # <<>>
    PROVE  s \o t \in Seq(S) /\ s \o t # <<>>
  <1>1. Len(s \o t) = Len(s) + Len(t) /\ Len(s) \in Nat /\ Len(t) \in Nat /\ s \o t \in Seq(S) OBVIOUS
  <1>2. Len(s) # 0 \/ Len(t) # 0 OBVIOUS
  <1>3. Len(<<>>) = 0 OBVIOUS
  <1> QED BY <1>1, <1>2, <1>3

(* A text that was tried is handled, or waits and is not complete.         *)
LEMMA OneCmdKeeps ==
    ASSUME NEW Items, NEW whole \in Seq(Items), whole # <<>>, NEW line, Cutting!OneCmd(whole, line)
    PROVE  PromptInv(Items)'
  <1> DEFINE bad == Cutting!Lex(whole).bad
             complete == Cutting!Complete(whole)
  <1>1. CASE bad
    <2>1. reading' = "read" /\ prompt' = "fresh" /\ buffer' = <<>>
      BY <1>1 DEF Cutting!OneCmd, Cutting!ResetStatement
    <2> QED BY <2>1 DEF PromptInv, Cutting!PromptTells
  <1>2. CASE ~bad /\ complete
    <2>1. reading' = "run" /\ buffer' = whole BY <1>2 DEF Cutting!OneCmd
    <2> QED BY <2>1 DEF PromptInv, Cutting!PromptTells
  <1>3. CASE ~bad /\ ~complete
    <2>1. buffer' = whole /\ Cutting!SetContinuePrompt(line) BY <1>3 DEF Cutting!OneCmd
    <2>2. prompt' \in {"hint", "continue"} BY <2>1 DEF Cutting!SetContinuePrompt
    <2>3. prompt' # "fresh" /\ buffer' # <<>> /\ ~Cutting!Complete(buffer') BY <1>3, <2>1, <2>2
    <2> QED BY <2>1, <2>3 DEF PromptInv, Cutting!PromptTells
  <1> QED BY <1>1, <1>2, <1>3

LEMMA PromptNext ==
    ASSUME NEW Items, LinesFit(Items), PromptInv(Items), [Cutting!Next]_Cutting!vars
    PROVE  PromptInv(Items)'
  <1>1. ASSUME NEW line \in Lines, NEW cut \in BOOLEAN, Cutting!ReadLine(line, cut) PROVE PromptInv(Items)'
    <2>1. PICK tail : tail = IF cut THEN <<"nl">> ELSE <<>> OBVIOUS
    <2>2. line \in Seq(Items) /\ tail \in Seq(Items) /\ buffer \in Seq(Items)
      BY <2>1, EndsFit DEF LinesFit, PromptInv
    <2>3. line # <<>> \/ tail # <<>> BY <1>1, <2>1 DEF Cutting!ReadLine
    <2>4. PICK whole : whole = buffer \o line \o tail OBVIOUS
    <2>5. whole \in Seq(Items) /\ whole # <<>>
      <3>1. CASE line # <<>>
        <4>1. buffer \o line \in Seq(Items) /\ buffer \o line # <<>> BY <2>2, <3>1, NotEmpty
        <4> QED BY <2>2, <2>4, <4>1, NotEmpty
      <3>2. CASE tail # <<>>
        <4>1. buffer \o line \in Seq(Items) BY <2>2
        <4> QED BY <2>2, <2>4, <3>2, <4>1, NotEmpty
      <3> QED BY <2>3, <3>1, <3>2
    <2>6. Cutting!OneCmd(whole, line) BY <1>1, <2>1, <2>4 DEF Cutting!ReadLine
    <2> QED BY <2>5, <2>6, OneCmdKeeps
  <1>2. ASSUME NEW line \in Lines, Cutting!Execute(line) PROVE PromptInv(Items)'
    <2>1. PICK tail : tail = IF Cutting!Last(line) = ";" THEN <<>> ELSE <<";">> OBVIOUS
    <2>2. line \in Seq(Items) /\ tail \in Seq(Items) /\ line # <<>>
      BY <1>2, <2>1, EndsFit DEF LinesFit, Cutting!Execute
    <2>3. line \o tail \in Seq(Items) /\ line \o tail # <<>> BY <2>2, NotEmpty
    <2>4. Cutting!OneCmd(line \o tail, line) BY <1>2, <2>1 DEF Cutting!Execute
    <2> QED BY <2>3, <2>4, OneCmdKeeps
  <1>3. CASE Cutting!HandleEof
    <2>1. CASE buffer = <<>> BY <1>3, <2>1 DEF Cutting!HandleEof, PromptInv, Cutting!PromptTells
    <2>2. CASE buffer # <<>>
      <3>1. Cutting!OneCmd(buffer, <<>>) BY <1>3, <2>2 DEF Cutting!HandleEof
      <3> QED BY <2>2, <3>1, OneCmdKeeps DEF PromptInv
    <2> QED BY <2>1, <2>2
  <1>4. CASE Cutting!RunStatement BY <1>4 DEF Cutting!RunStatement, PromptInv, Cutting!PromptTells
  <1>5. CASE Cutting!AfterRun \/ Cutting!Interrupt
    <2>1. reading' = "read" /\ prompt' = "fresh" /\ buffer' = <<>>
      BY <1>5 DEF Cutting!AfterRun, Cutting!Interrupt, Cutting!ResetStatement
    <2> QED BY <2>1 DEF PromptInv, Cutting!PromptTells
  <1>6. CASE Cutting!Finish BY <1>6 DEF Cutting!Finish, PromptInv, Cutting!PromptTells
  <1>7. CASE UNCHANGED Cutting!vars BY <1>7 DEF Cutting!vars, PromptInv, Cutting!PromptTells
  <1> QED BY <1>1, <1>2, <1>3, <1>4, <1>5, <1>6, <1>7 DEF Cutting!Next, Cutting!Step

(* Whatever is typed, read or given, with whatever interrupts: the prompt  *)
(* says that text is waiting exactly when some is, and what waits is not a *)
(* complete statement (cmdloop, onecmd, set_continue_prompt).              *)
THEOREM PromptIsTrue ==
    ASSUME NEW Items, LinesFit(Items)
    PROVE  Cutting!Spec => []Cutting!PromptTells
  <1>1. Cutting!Init => PromptInv(Items) BY DEF Cutting!Init, PromptInv, Cutting!PromptTells
  <1>2. PromptInv(Items) /\ [Cutting!Next]_Cutting!vars => PromptInv(Items)' BY PromptNext
  <1>3. PromptInv(Items) => Cutting!PromptTells BY DEF PromptInv
  <1> QED BY <1>1, <1>2, <1>3, PTL DEF Cutting!Spec

-----------------------------------------------------------------------------
(* The files of an export (ExportFiles), whose variables are its own.      *)
CONSTANTS PageRows, MaxOutputSize, ToFile, Header, MaxRows, OpenFails
VARIABLES writing, files, numWritten, received, page
Filing == INSTANCE ExportFiles WITH PageSizes <- PageRows, phase <- writing

LEMMA LeastOf ==
    ASSUME NEW S \in SUBSET Nat, S # {}
    PROVE  \E m \in S : \A k \in S : m <= k
  <1>1. IsWellFoundedOn(OpToRel(<, Nat), Nat) BY NatLessThanWellFounded
  <1>2. PICK R : R = OpToRel(<, Nat) OBVIOUS
  <1>3. PICK m \in S : \A k \in S : ~(<<k, m>> \in R) BY <1>1, <1>2, WFMin
  <1>4. \A k \in S : <<k, m>> \in Nat \X Nat OBVIOUS
  <1>5. \A ss \in Nat \X Nat : ss[1] < ss[2] => ss \in R BY <1>2 DEF OpToRel
  <1>6. \A k \in S : ~(k < m) BY <1>3, <1>4, <1>5
  <1> QED BY <1>6

(* The files written one after the other: piles[k] is the first k of them. *)
Pile(fs, n, piles) ==
    /\ piles \in [1..n -> Seq(Nat)]
    /\ \A i \in 1..n : piles[i] = IF i = 1 THEN fs[i] ELSE piles[i - 1] \o fs[i]

(* What FlattenSeq takes off the top of a pile is all of it: there is only *)
(* one pile of the files.                                                  *)
LEMMA FlattenIsPile ==
    ASSUME NEW fs \in Seq(Seq(Nat)), NEW n \in Nat, n = Len(fs), n # 0, NEW piles, Pile(fs, n, piles)
    PROVE  Filing!FlattenSeq(fs) = piles[n]
  <1> DEFINE Eq(f) == f = [i \in 1..Len(fs) |-> IF i = 1 THEN fs[i] ELSE f[i - 1] \o fs[i]]
  <1>1. piles \in [1..n -> Seq(Nat)] /\ \A i \in 1..n : piles[i] = IF i = 1 THEN fs[i] ELSE piles[i - 1] \o fs[i]
    BY DEF Pile
  <1>2. Eq(piles) BY <1>1
  <1>3. Filing!FlattenSeq(fs) = (CHOOSE f : Eq(f))[Len(fs)] BY DEF Filing!FlattenSeq
  <1>4. PICK f : f = CHOOSE g : Eq(g) OBVIOUS
  <1>5. Eq(f)
    <2> HIDE DEF Eq
    <2> QED BY <1>2, <1>4
  <1>6. \A i \in 1..n : f[i] = IF i = 1 THEN fs[i] ELSE f[i - 1] \o fs[i] BY <1>5
  <1>7. PICK S : S = {k \in 1..n : f[k] # piles[k]} OBVIOUS
  <1>8. S = {}
    <2> SUFFICES ASSUME S # {} PROVE FALSE OBVIOUS
    <2>1. S \in SUBSET Nat BY <1>7
    <2>2. PICK k \in S : \A l \in S : k <= l BY <2>1, LeastOf
    <2>3. k \in 1..n /\ f[k] # piles[k] /\ k \in Nat BY <1>7
    <2>4. k # 1 BY <1>1, <1>6, <2>3
    <2>5. k - 1 \in 1..n /\ ~(k <= k - 1) BY <2>3, <2>4
    <2>6. f[k - 1] = piles[k - 1] BY <1>7, <2>2, <2>5
    <2> QED BY <1>1, <1>6, <2>3, <2>4, <2>6
  <1>9. n \in 1..n OBVIOUS
  <1>10. f[n] = piles[n] BY <1>7, <1>8, <1>9
  <1> QED BY <1>3, <1>4, <1>10

LEMMA Concatenated ==
    ASSUME NEW s \in Seq(Nat), NEW t \in Seq(Nat)
    PROVE  /\ s \o t \in Seq(Nat) /\ Len(s \o t) = Len(s) + Len(t) /\ Len(s) \in Nat /\ Len(t) \in Nat
           /\ \A i \in 1..Len(s) : (s \o t)[i] = s[i]
           /\ \A i \in 1..Len(t) : (s \o t)[Len(s) + i] = t[i]
  OBVIOUS

LEMMA Associates ==
    ASSUME NEW s \in Seq(Nat), NEW t \in Seq(Nat), NEW u \in Seq(Nat)
    PROVE  s \o (t \o u) = (s \o t) \o u
  OBVIOUS

(* The files make up the text L.                                           *)
Topped(fs, n, L) == /\ fs \in Seq(Seq(Nat)) /\ n \in Nat /\ n = Len(fs) /\ n # 0
                    /\ \E piles : Pile(fs, n, piles) /\ piles[n] = L

(* Lines written to the last file, or to a next one, come last in the      *)
(* pile.                                                                   *)
LEMMA PileGrows ==
    ASSUME NEW fs, NEW n, NEW L, Topped(fs, n, L), NEW ls \in Seq(Nat)
    PROVE  Topped([fs EXCEPT ![n] = @ \o ls], n, L \o ls)
  <1>a. fs \in Seq(Seq(Nat)) /\ n \in Nat /\ n = Len(fs) /\ n # 0 BY DEF Topped
  <1>b. PICK piles : Pile(fs, n, piles) /\ piles[n] = L BY DEF Topped
  <1>c. PICK gs : gs = [fs EXCEPT ![n] = @ \o ls] OBVIOUS
  <1>1. piles \in [1..n -> Seq(Nat)] /\ \A i \in 1..n : piles[i] = IF i = 1 THEN fs[i] ELSE piles[i - 1] \o fs[i]
    BY <1>b DEF Pile
  <1>2. n \in 1..n /\ fs[n] \in Seq(Nat) /\ piles[n] \in Seq(Nat)
    <2>1. n \in 1..n BY <1>a
    <2>2. fs[n] \in Seq(Nat) BY <1>a, <2>1
    <2> QED BY <1>1, <2>1, <2>2
  <1>3. PICK last \in Seq(Nat), top \in Seq(Nat) : last = fs[n] \o ls /\ top = piles[n] \o ls BY <1>a, <1>2, Concatenated
  <1>4. gs \in Seq(Seq(Nat)) /\ Len(gs) = n /\ gs[n] = last /\ \A i \in 1..n : i # n => gs[i] = fs[i] BY <1>a, <1>c, <1>2, <1>3
  <1>5. PICK new : new = [piles EXCEPT ![n] = top] OBVIOUS
  <1>6. new \in [1..n -> Seq(Nat)] /\ new[n] = top /\ \A i \in 1..n : i # n => new[i] = piles[i] BY <1>a, <1>1, <1>2, <1>5
  <1>7. ASSUME NEW i \in 1..n PROVE new[i] = IF i = 1 THEN gs[i] ELSE new[i - 1] \o gs[i]
    <2>1. CASE i # n
      <3>1. i # 1 => i - 1 \in 1..n /\ i - 1 # n BY <1>a
      <3> QED BY <1>a, <1>1, <1>4, <1>6, <2>1, <3>1
    <2>2. CASE i = n
      <3>1. CASE n = 1 BY <1>a, <1>1, <1>2, <1>3, <1>4, <1>6, <2>2, <3>1
      <3>2. CASE n # 1
        <4>1. n - 1 \in 1..n /\ n - 1 # n BY <1>a, <3>2
        <4>2. piles[n] = piles[n - 1] \o fs[n] /\ piles[n - 1] \in Seq(Nat) BY <1>a, <1>1, <1>2, <3>2, <4>1
        <4>3. PICK a \in Seq(Nat), b \in Seq(Nat) : a = piles[n - 1] /\ b = fs[n] BY <1>a, <1>2, <4>2
        <4>4. a \o (b \o ls) = (a \o b) \o ls BY Associates
        <4>5. top = piles[n - 1] \o last BY <1>a, <1>3, <4>2, <4>3, <4>4
        <4> QED BY <1>a, <1>4, <1>6, <2>2, <3>2, <4>1, <4>5
      <3> QED BY <3>1, <3>2
    <2> QED BY <2>1, <2>2
  <1>8. Pile(gs, n, new) BY <1>a, <1>6, <1>7 DEF Pile
  <1>9. new[n] = L \o ls BY <1>b, <1>3, <1>6
  <1>10. Topped(gs, n, L \o ls) BY <1>a, <1>4, <1>8, <1>9 DEF Topped
  <1> QED BY <1>c, <1>10

LEMMA PileExtends ==
    ASSUME NEW fs, NEW n, NEW L, Topped(fs, n, L), NEW ls \in Seq(Nat)
    PROVE  Topped(Append(fs, ls), n + 1, L \o ls)
  <1>a. fs \in Seq(Seq(Nat)) /\ n \in Nat /\ n = Len(fs) /\ n # 0 BY DEF Topped
  <1>b. PICK piles : Pile(fs, n, piles) /\ piles[n] = L BY DEF Topped
  <1>c. PICK gs : gs = Append(fs, ls) OBVIOUS
  <1>1. piles \in [1..n -> Seq(Nat)] /\ \A i \in 1..n : piles[i] = IF i = 1 THEN fs[i] ELSE piles[i - 1] \o fs[i]
    BY <1>b DEF Pile
  <1>2. n \in 1..n /\ piles[n] \in Seq(Nat)
    <2>1. n \in 1..n BY <1>a
    <2> QED BY <1>a, <1>1, <2>1
  <1>3. PICK top \in Seq(Nat) : top = piles[n] \o ls BY <1>a, <1>2, Concatenated
  <1>4. gs \in Seq(Seq(Nat)) /\ Len(gs) = n + 1 /\ gs[n + 1] = ls /\ \A i \in 1..n : gs[i] = fs[i] BY <1>a, <1>c
  <1>5. PICK new : new = [i \in 1..(n + 1) |-> IF i = n + 1 THEN top ELSE piles[i]] OBVIOUS
  <1>6. \A i \in 1..(n + 1) : i # n + 1 => i \in 1..n BY <1>a
  <1>7. new \in [1..(n + 1) -> Seq(Nat)] BY <1>a, <1>1, <1>3, <1>5, <1>6
  <1>8. n + 1 \in 1..(n + 1) /\ n + 1 # 1 /\ \A i \in 1..n : i \in 1..(n + 1) /\ i # n + 1 BY <1>a
  <1>9. new[n + 1] = top /\ \A i \in 1..n : new[i] = piles[i] BY <1>a, <1>5, <1>8
  <1>10. ASSUME NEW i \in 1..(n + 1) PROVE new[i] = IF i = 1 THEN gs[i] ELSE new[i - 1] \o gs[i]
    <2>1. CASE i = n + 1
      <3>1. new[n] = piles[n] /\ i - 1 = n BY <1>a, <1>2, <1>9, <2>1
      <3>2. new[i] = top /\ gs[i] = ls /\ i # 1 BY <1>a, <1>4, <1>8, <1>9, <2>1
      <3> QED BY <1>a, <1>3, <3>1, <3>2
    <2>2. CASE i # n + 1
      <3>1. i \in 1..n /\ (i # 1 => i - 1 \in 1..n) BY <1>a, <1>6, <2>2
      <3> QED BY <1>a, <1>1, <1>4, <1>9, <3>1
    <2> QED BY <2>1, <2>2
  <1>11. Pile(gs, n + 1, new) BY <1>a, <1>7, <1>10 DEF Pile
  <1>12. new[n + 1] = L \o ls /\ n + 1 \in Nat /\ n + 1 # 0 BY <1>a, <1>b, <1>3, <1>9
  <1>13. Topped(gs, n + 1, L \o ls) BY <1>4, <1>11, <1>12 DEF Topped
  <1> QED BY <1>c, <1>13

(* The header and the first m rows, in their order, are what is written.   *)
Heads == IF Header THEN 1 ELSE 0
Rows(L, m) == /\ L \in Seq(Nat) /\ Len(L) = Heads + m /\ (Header => L[1] = Filing!Heading)
              /\ \A k \in 1..m : L[Heads + k] = k
Held(fs, m) == m \in Nat /\ \E n, L : Topped(fs, n, L) /\ Rows(L, m)
(* All files but the last are full, and the last has m rows.               *)
Above(k) == IF Header /\ k = 1 THEN 1 ELSE 0
Sized(fs, m) == /\ \A k \in 1..(Len(fs) - 1) : Len(fs[k]) - Above(k) = MaxOutputSize
                /\ Len(fs[Len(fs)]) - Above(Len(fs)) = m

(* The page being split: the next file begins before the page ends, or has *)
(* begun at the line lastSwitch.                                           *)
PageInv(p, total) ==
    /\ p = [lines |-> p.lines, i |-> p.i, num |-> p.num, remaining |-> p.remaining, lastSwitch |-> p.lastSwitch]
    /\ p.num \in Nat /\ p.i \in 0..p.num /\ p.remaining \in Nat /\ p.i <= p.remaining /\ p.lastSwitch \in 0..p.num
    /\ p.lastSwitch = p.remaining - MaxOutputSize \/ p.remaining < p.num
    /\ p.num <= total /\ p.lines \in Seq(Nat) /\ Len(p.lines) = p.num
    /\ \A j \in 1..p.num : p.lines[j] = total - p.num + j
FileInv ==
    /\ writing \in {"new", "open", "split", "closed", "refused", "raised"}
    /\ received \in Nat /\ numWritten \in Nat
    /\ writing = "new" => files = <<>> /\ received = 0 /\ numWritten = 0
    /\ writing \in {"new", "open", "closed"} => page = Filing!NoPage
    /\ writing \in {"open", "closed"} =>
          Held(files, received) /\ (Filing!Splits => numWritten <= MaxOutputSize /\ Sized(files, numWritten))
    /\ writing = "split" => /\ Filing!Splits /\ PageInv(page, received)
                            /\ Held(files, received - page.num + page.i)
                            /\ Sized(files, MaxOutputSize + page.i - page.remaining)

LEMMA RowsGrow ==
    ASSUME NEW L, NEW m \in Nat, Rows(L, m), NEW n \in Nat, NEW ls \in Seq(Nat), Len(ls) = n,
           \A k \in 1..n : ls[k] = m + k
    PROVE  Rows(L \o ls, m + n)
  <1>1. Heads \in {0, 1} /\ (Header => Heads = 1) BY DEF Heads
  <1>2. L \in Seq(Nat) /\ Len(L) = Heads + m /\ (Header => L[1] = Filing!Heading) /\ \A k \in 1..m : L[Heads + k] = k
    BY DEF Rows
  <1>b. PICK l \in Seq(Nat) : l = L BY <1>2
  <1>3. PICK new : new = l \o ls /\ l = L BY <1>b
  <1>a. /\ new \in Seq(Nat) /\ Len(new) = Len(l) + Len(ls)
        /\ \A i \in 1..Len(l) : new[i] = l[i]
        /\ \A i \in 1..Len(ls) : new[Len(l) + i] = ls[i]
    BY <1>3, Concatenated
  <1>4. /\ new \in Seq(Nat) /\ Len(new) = Heads + (m + n) /\ \A i \in 1..(Heads + m) : new[i] = L[i]
        /\ \A i \in 1..n : new[Heads + m + i] = ls[i]
    <2>1. PICK h \in Nat : h = Heads /\ h + m \in Nat BY <1>1
    <2>2. Len(l) = h + m /\ Len(new) = h + m + n BY <1>2, <1>3, <1>a, <2>1
    <2>3. \A i \in 1..(h + m) : new[i] = L[i] BY <1>3, <1>a, <2>2
    <2>4. \A i \in 1..n : new[h + m + i] = ls[i] BY <1>a, <2>2
    <2> QED BY <1>a, <2>1, <2>2, <2>3, <2>4
  <1>5. Header => new[1] = Filing!Heading
    <2>1. Header => 1 \in 1..(Heads + m) BY <1>1
    <2> QED BY <1>2, <1>4, <2>1
  <1>6. ASSUME NEW k \in 1..(m + n) PROVE new[Heads + k] = k
    <2>1. CASE k <= m
      <3>1. k \in 1..m /\ Heads + k \in 1..(Heads + m) BY <1>1, <2>1
      <3> QED BY <1>2, <1>4, <3>1
    <2>2. CASE k > m
      <3>1. PICK i \in 1..n : i = k - m BY <2>2
      <3>2. Heads + k = Heads + m + i /\ m + i = k BY <1>1, <3>1
      <3> QED BY <1>4, <3>1, <3>2
    <2> QED BY <2>1, <2>2
  <1> QED BY <1>3, <1>4, <1>5, <1>6 DEF Rows

(* Rows written after the others, to the last file or to the next.         *)
LEMMA HeldMore ==
    ASSUME NEW fs, NEW m, Held(fs, m), NEW n \in Nat, NEW ls \in Seq(Nat), Len(ls) = n,
           \A k \in 1..n : ls[k] = m + k
    PROVE  /\ Held([fs EXCEPT ![Len(fs)] = @ \o ls], m + n)
           /\ Held(Append(fs, ls), m + n)
  <1>1. m \in Nat BY DEF Held
  <1>2. PICK len, L : Topped(fs, len, L) /\ Rows(L, m) BY DEF Held
  <1>3. PICK whole : whole = L \o ls OBVIOUS
  <1>4. Rows(whole, m + n) BY <1>1, <1>2, <1>3, RowsGrow
  <1>5. len = Len(fs) BY <1>2 DEF Topped
  <1>6. Topped([fs EXCEPT ![len] = @ \o ls], len, whole) /\ Topped(Append(fs, ls), len + 1, whole)
    BY <1>2, <1>3, PileGrows, PileExtends
  <1>7. m + n \in Nat BY <1>1
  <1> QED BY <1>4, <1>5, <1>6, <1>7 DEF Held

LEMMA HeldFits ==
    ASSUME NEW fs, NEW m, Held(fs, m)
    PROVE  fs \in Seq(Seq(Nat)) /\ Len(fs) # 0
  BY DEF Held, Topped

LEMMA SizedMore ==
    ASSUME NEW fs \in Seq(Seq(Nat)), Len(fs) # 0, NEW m \in Int, Sized(fs, m), NEW n \in Nat, NEW ls \in Seq(Nat),
           Len(ls) = n
    PROVE  /\ Sized([fs EXCEPT ![Len(fs)] = @ \o ls], m + n)
           /\ m = MaxOutputSize => Sized(Append(fs, ls), n)
  <1>1. PICK len \in Nat : len = Len(fs) /\ len \in 1..len OBVIOUS
  <1>2. /\ \A k \in 1..(len - 1) : Len(fs[k]) - Above(k) = MaxOutputSize
        /\ Len(fs[len]) - Above(len) = m
    BY <1>1 DEF Sized
  <1>3. \A k \in Nat : Above(k) \in {0, 1} /\ (k > 1 => Above(k) = 0) BY DEF Above
  <1>4. fs[len] \in Seq(Nat) /\ Len(fs[len]) \in Nat BY <1>1
  <1>5. PICK last \in Seq(Nat) : last = fs[len] \o ls /\ Len(last) = Len(fs[len]) + n BY <1>4, Concatenated
  <1>6. PICK gs, hs : gs = [fs EXCEPT ![len] = @ \o ls] /\ hs = Append(fs, ls) OBVIOUS
  <1>7. Len(gs) = len /\ gs[len] = last /\ \A k \in 1..(len - 1) : gs[k] = fs[k]
    <2>1. gs = [fs EXCEPT ![len] = last] /\ last \in Seq(Nat) BY <1>5, <1>6
    <2>2. DOMAIN fs = 1..len /\ len \in Nat /\ len \in 1..len BY <1>1
    <2>3. gs[len] = last /\ \A k \in 1..len : k # len => gs[k] = fs[k] BY <2>1, <2>2
    <2>4. \A k \in 1..(len - 1) : k \in 1..len /\ k # len BY <2>2
    <2>5. Len(gs) = len BY <1>1, <2>1
    <2> QED BY <2>3, <2>4, <2>5
  <1>8. Len(gs[len]) - Above(len) = m + n
    <2>1. PICK a \in Nat, b \in Nat : a = Above(len) /\ b = Len(fs[len]) BY <1>1, <1>3, <1>4
    <2>2. b - a = m BY <1>2, <2>1
    <2>3. Len(gs[len]) = b + n BY <1>5, <1>7, <2>1
    <2>4. Len(gs[len]) - a = m + n BY <2>2, <2>3
    <2> QED BY <2>1, <2>4
  <1>9. Sized(gs, m + n) BY <1>2, <1>7, <1>8 DEF Sized
  <1>10. Len(hs) = len + 1 /\ hs[len + 1] = ls /\ \A k \in 1..len : hs[k] = fs[k] BY <1>1, <1>6
  <1>11. ASSUME m = MaxOutputSize PROVE Sized(hs, n)
    <2>1. \A k \in 1..len : Len(hs[k]) - Above(k) = MaxOutputSize
      <3>1. \A k \in 1..len : k = len \/ k \in 1..(len - 1) OBVIOUS
      <3> QED BY <1>2, <1>10, <1>11, <3>1
    <2>2. Len(hs[len + 1]) - Above(len + 1) = n
      <3>1. Above(len + 1) = 0
        <4>1. len + 1 \in Nat /\ len + 1 > 1 BY <1>1
        <4> QED BY <1>3, <4>1
      <3> QED BY <1>10, <3>1
    <2>3. Len(hs) - 1 = len BY <1>10
    <2> QED BY <1>10, <2>1, <2>2, <2>3 DEF Sized
  <1> QED BY <1>1, <1>6, <1>9, <1>11

LEMMA FilesBegin ==
    ASSUME Filing!Init
    PROVE  FileInv
  BY DEF Filing!Init, FileInv

LEMMA FilesOpen ==
    ASSUME Filing!FilesAssumption, FileInv, Filing!Open
    PROVE  FileInv'
  <1>1. /\ writing = "new" /\ writing' = "open" /\ numWritten' = 0 /\ received' = 0 /\ page' = Filing!NoPage
        /\ files' = << IF Header THEN <<Filing!Heading>> ELSE <<>> >>
    BY DEF Filing!Open, FileInv
  <1>2. Filing!Heading = 0 /\ Header \in BOOLEAN BY DEF Filing!Heading, Filing!FilesAssumption
  <1>3. PICK first : first = IF Header THEN <<0>> ELSE <<>> OBVIOUS
  <1>4. first \in Seq(Nat) /\ Len(first) = Heads /\ (Header => first[1] = 0)
    <2>1. <<0>> \in Seq(Nat) /\ <<>> \in Seq(Nat) OBVIOUS
    <2>2. Len(<<>>) = 0 OBVIOUS
    <2> QED BY <1>3, <2>1, <2>2 DEF Heads
  <1>5. PICK fs : fs = <<first>> OBVIOUS
  <1>6. fs \in Seq(Seq(Nat)) /\ Len(fs) = 1 /\ fs[1] = first BY <1>4, <1>5
  <1>7. PICK piles : piles = [i \in 1..1 |-> first] OBVIOUS
  <1>8. Pile(fs, 1, piles) /\ piles[1] = first BY <1>4, <1>6, <1>7 DEF Pile
  <1>9. Heads \in {0, 1} BY DEF Heads
  <1>10. Rows(first, 0) BY <1>2, <1>4, <1>9 DEF Rows
  <1>11. Held(fs, 0)
    <2>1. Topped(fs, 1, first) BY <1>6, <1>8 DEF Topped
    <2> QED BY <1>10, <2>1 DEF Held
  <1>12. Sized(fs, 0)
    <2>1. Above(1) = Heads BY <1>2 DEF Above, Heads
    <2>2. Len(fs[1]) - Above(1) = 0 BY <1>4, <1>6, <1>9, <2>1
    <2> QED BY <1>6, <2>2 DEF Sized
  <1>13. files' = fs BY <1>1, <1>2, <1>3, <1>5
  <1>14. Held(files', received') /\ Sized(files', numWritten') BY <1>1, <1>11, <1>12, <1>13
  <1>15. Filing!Splits => 0 <= MaxOutputSize BY DEF Filing!Splits, Filing!FilesAssumption
  <1> QED BY <1>1, <1>14, <1>15 DEF FileInv

LEMMA FilesWriteWhole ==
    ASSUME Filing!FilesAssumption, FileInv, NEW num \in PageRows, Filing!WriteWhole(num)
    PROVE  FileInv'
  <1>1. num \in Nat /\ MaxOutputSize \in Int BY DEF Filing!FilesAssumption
  <1>2. PICK ls : ls = Filing!LinesOf(num) OBVIOUS
  <1>3. ls = [k \in 1..num |-> received + k] /\ received \in Nat /\ numWritten \in Nat
    BY <1>2 DEF Filing!LinesOf, FileInv
  <1>4. ls \in Seq(Nat) /\ Len(ls) = num /\ \A k \in 1..num : ls[k] = received + k BY <1>1, <1>3
  <1>5. /\ writing = "open" /\ writing' = "open" /\ page' = page /\ received' = received + num
        /\ files' = [files EXCEPT ![Len(files)] = @ \o ls]
        /\ numWritten' = IF Filing!Splits THEN numWritten + num ELSE numWritten
        /\ ~(Filing!Splits /\ Filing!Full(num))
    BY <1>2 DEF Filing!WriteWhole, Filing!Arrive, Filing!Appended
  <1>6. /\ page = Filing!NoPage /\ Held(files, received)
        /\ (Filing!Splits => numWritten <= MaxOutputSize /\ Sized(files, numWritten))
    BY <1>5 DEF FileInv
  <1>7. PICK fs, gs, r, w : fs = files /\ gs = files' /\ r = received /\ w = numWritten OBVIOUS
  <1>8. Held(gs, r + num)
    <2>1. Held(fs, r) /\ gs = [fs EXCEPT ![Len(fs)] = @ \o ls] /\ \A k \in 1..num : ls[k] = r + k
      BY <1>4, <1>5, <1>6, <1>7
    <2> QED BY <1>1, <1>4, <2>1, HeldMore
  <1>9. ASSUME Filing!Splits PROVE Sized(gs, w + num) /\ w + num <= MaxOutputSize
    <2>1. Sized(fs, w) /\ gs = [fs EXCEPT ![Len(fs)] = @ \o ls] /\ w \in Int BY <1>3, <1>5, <1>6, <1>7, <1>9
    <2>2. fs \in Seq(Seq(Nat)) /\ Len(fs) # 0 BY <1>6, <1>7, HeldFits
    <2>3. Sized(gs, w + num) BY <1>1, <1>4, <2>1, <2>2, SizedMore
    <2>4. ~(numWritten + num > MaxOutputSize) BY <1>5, <1>9 DEF Filing!Full
    <2> QED BY <1>1, <1>3, <1>7, <2>3, <2>4
  <1>10. Held(files', received') BY <1>5, <1>7, <1>8
  <1>11. Filing!Splits => Sized(files', numWritten') /\ numWritten' <= MaxOutputSize BY <1>5, <1>7, <1>9
  <1>12. received' \in Nat /\ numWritten' \in Nat BY <1>1, <1>3, <1>5
  <1> QED BY <1>5, <1>6, <1>10, <1>11, <1>12 DEF FileInv, Filing!Splits

LEMMA FilesBeginSplit ==
    ASSUME Filing!FilesAssumption, FileInv, NEW num \in PageRows, Filing!BeginSplit(num)
    PROVE  FileInv'
  <1>1. num \in Nat /\ MaxOutputSize \in Int BY DEF Filing!FilesAssumption
  <1>2. PICK ls : ls = Filing!LinesOf(num) OBVIOUS
  <1>3. ls = [k \in 1..num |-> received + k] /\ received \in Nat /\ numWritten \in Nat
    BY <1>2 DEF Filing!LinesOf, FileInv
  <1>4. ls \in Seq(Nat) /\ Len(ls) = num /\ \A k \in 1..num : ls[k] = received + k BY <1>1, <1>3
  <1>5. /\ writing = "open" /\ writing' = "split" /\ received' = received + num /\ files' = files
        /\ numWritten' = numWritten /\ Filing!Splits /\ numWritten + num > MaxOutputSize
        /\ page' = [lines |-> ls, i |-> 0, num |-> num, remaining |-> MaxOutputSize - numWritten, lastSwitch |-> 0]
    BY <1>2 DEF Filing!BeginSplit, Filing!Arrive, Filing!Full
  <1>6. Held(files, received) /\ numWritten <= MaxOutputSize /\ Sized(files, numWritten)
    BY <1>5 DEF FileInv
  <1>7. PICK p : p = page' OBVIOUS
  <1>8. /\ p = [lines |-> ls, i |-> 0, num |-> num, remaining |-> MaxOutputSize - numWritten, lastSwitch |-> 0]
        /\ p.lines = ls /\ p.i = 0 /\ p.num = num /\ p.remaining = MaxOutputSize - numWritten /\ p.lastSwitch = 0
    BY <1>5, <1>7
  <1>9. PICK rest \in Nat : rest = MaxOutputSize - numWritten /\ rest < num /\ MaxOutputSize + 0 - rest = numWritten
    BY <1>1, <1>3, <1>5, <1>6
  <1>10. PICK r \in Nat : r = received + num /\ num <= r /\ r - num = received /\ r - num + 0 = received BY <1>1, <1>3
  <1>11. PageInv(p, r)
    <2>1. \A j \in 1..p.num : p.lines[j] = r - p.num + j BY <1>4, <1>8, <1>10
    <2>2. p.num <= r /\ p.lines \in Seq(Nat) /\ Len(p.lines) = p.num BY <1>4, <1>5, <1>8, <1>10
    <2>3. /\ p.num \in Nat /\ p.i \in 0..p.num /\ p.remaining \in Nat /\ p.i <= p.remaining /\ p.lastSwitch \in 0..p.num
          /\ p.remaining < p.num
      BY <1>1, <1>8, <1>9
    <2> QED BY <1>8, <2>1, <2>2, <2>3 DEF PageInv
  <1>12. Held(files', r - p.num + p.i) BY <1>5, <1>6, <1>8, <1>10
  <1>13. Sized(files', MaxOutputSize + p.i - p.remaining) BY <1>5, <1>6, <1>8, <1>9
  <1>14. received' = r BY <1>5, <1>10
  <1> QED BY <1>3, <1>5, <1>7, <1>11, <1>12, <1>13, <1>14 DEF FileInv, Filing!Splits

(* A turn of the loop over the lines of a page.                            *)
LEMMA TurnFacts ==
    ASSUME Filing!FilesAssumption, FileInv, Filing!Turn,
           NEW p, p = page, NEW ls, ls = Filing!Line, NEW r, r = received, NEW fs, fs = files
    PROVE  /\ writing = "split" /\ MaxOutputSize \in Nat /\ r \in Nat /\ PageInv(p, r) /\ p.i < p.num
           /\ Held(fs, r - p.num + p.i) /\ Sized(fs, MaxOutputSize + p.i - p.remaining)
           /\ ls \in Seq(Nat) /\ Len(ls) = 1 /\ \A k \in 1..1 : ls[k] = r - p.num + p.i + k
           /\ fs \in Seq(Seq(Nat)) /\ Len(fs) # 0
  <1>1. /\ writing = "split" /\ Filing!Splits /\ PageInv(p, r) /\ r \in Nat
        /\ Held(fs, r - p.num + p.i) /\ Sized(fs, MaxOutputSize + p.i - p.remaining)
    BY DEF FileInv, Filing!Turn
  <1>2. MaxOutputSize \in Nat BY <1>1 DEF Filing!Splits, Filing!FilesAssumption
  <1>3. /\ p.num \in Nat /\ p.i \in 0..p.num /\ Len(p.lines) = p.num /\ p.lines \in Seq(Nat)
        /\ \A j \in 1..p.num : p.lines[j] = r - p.num + j
    BY <1>1 DEF PageInv
  <1>4. p.i < p.num BY <1>3 DEF Filing!Turn
  <1>5. PICK j \in Nat : j = p.i + 1 /\ j \in 1..p.num BY <1>3, <1>4
  <1>6. ls = <<p.lines[j]>> /\ p.lines[j] \in Nat /\ p.lines[j] = r - p.num + j BY <1>3, <1>5 DEF Filing!Line
  <1>7. ls \in Seq(Nat) /\ Len(ls) = 1 /\ ls[1] = p.lines[j] BY <1>6
  <1>8. r - p.num + j = r - p.num + p.i + 1
    <2>1. PICK num \in Nat, i \in Nat : num = p.num /\ i = p.i /\ j = i + 1 BY <1>3, <1>5
    <2>2. r \in Nat BY <1>1
    <2>3. r - num + j = r - num + i + 1 BY <2>1, <2>2
    <2> QED BY <2>1, <2>3
  <1>9. fs \in Seq(Seq(Nat)) /\ Len(fs) # 0 BY <1>1, HeldFits
  <1> QED BY <1>1, <1>2, <1>4, <1>6, <1>7, <1>8, <1>9

LEMMA FilesWriteLine ==
    ASSUME Filing!FilesAssumption, FileInv, Filing!WriteLine
    PROVE  FileInv'
  <1>1. PICK p, ls, r, fs, gs, q :
           p = page /\ ls = Filing!Line /\ r = received /\ fs = files /\ gs = files' /\ q = page'
    OBVIOUS
  <1>2. /\ Filing!Turn /\ p.i # p.remaining /\ writing' = writing /\ numWritten' = numWritten /\ received' = r
        /\ gs = [fs EXCEPT ![Len(fs)] = @ \o ls] /\ q = [p EXCEPT !.i = @ + 1]
    BY <1>1 DEF Filing!WriteLine, Filing!Appended
  <1>3. /\ writing = "split" /\ MaxOutputSize \in Nat /\ r \in Nat /\ PageInv(p, r) /\ p.i < p.num
        /\ Held(fs, r - p.num + p.i) /\ Sized(fs, MaxOutputSize + p.i - p.remaining)
        /\ ls \in Seq(Nat) /\ Len(ls) = 1 /\ \A k \in 1..1 : ls[k] = r - p.num + p.i + k
        /\ fs \in Seq(Seq(Nat)) /\ Len(fs) # 0
    BY <1>1, <1>2, TurnFacts
  <1>4. PICK num \in Nat, i \in Nat, left \in Nat : num = p.num /\ i = p.i /\ left = p.remaining /\ i < num
    BY <1>3 DEF PageInv
  <1>5. /\ q.lines = p.lines /\ q.i = i + 1 /\ q.num = num /\ q.remaining = left /\ q.lastSwitch = p.lastSwitch
        /\ q = [lines |-> q.lines, i |-> q.i, num |-> q.num, remaining |-> q.remaining, lastSwitch |-> q.lastSwitch]
    BY <1>2, <1>3, <1>4 DEF PageInv
  <1>6. PageInv(q, r)
    <2>1. i <= left /\ i # left BY <1>2, <1>3, <1>4 DEF PageInv
    <2>2. q.i \in 0..num /\ q.i <= left BY <1>4, <1>5, <2>1
    <2> QED BY <1>3, <1>4, <1>5, <2>2 DEF PageInv
  <1>7. PICK m : m = r - num + i /\ m + 1 = r - num + (i + 1)
    <2>1. r \in Nat BY <1>3
    <2> QED BY <2>1
  <1>8. Held(gs, m + 1)
    <2>1. Held(fs, m) /\ \A k \in 1..1 : ls[k] = m + k BY <1>3, <1>4, <1>7
    <2> QED BY <1>2, <1>3, <2>1, HeldMore
  <1>9. PICK w \in Int : w = MaxOutputSize + i - left /\ w + 1 = MaxOutputSize + (i + 1) - left BY <1>3, <1>4
  <1>10. Sized(gs, w + 1)
    <2>1. Sized(fs, w) BY <1>3, <1>4, <1>9
    <2> QED BY <1>2, <1>3, <2>1, SizedMore
  <1>11. Held(gs, r - q.num + q.i) /\ Sized(gs, MaxOutputSize + q.i - q.remaining) BY <1>5, <1>7, <1>8, <1>9, <1>10
  <1> QED BY <1>1, <1>2, <1>3, <1>6, <1>11 DEF FileInv, Filing!Splits

LEMMA FilesWriteToNext ==
    ASSUME Filing!FilesAssumption, FileInv, Filing!WriteToNext
    PROVE  FileInv'
  <1>1. PICK p, ls, r, fs, gs, q :
           p = page /\ ls = Filing!Line /\ r = received /\ fs = files /\ gs = files' /\ q = page'
    OBVIOUS
  <1>2. /\ Filing!Turn /\ p.i = p.remaining /\ writing' = writing /\ numWritten' = numWritten /\ received' = r
        /\ gs = Append(fs, ls) /\ q = [p EXCEPT !.i = @ + 1, !.remaining = @ + MaxOutputSize, !.lastSwitch = p.i]
    BY <1>1 DEF Filing!WriteToNext
  <1>3. /\ writing = "split" /\ MaxOutputSize \in Nat /\ r \in Nat /\ PageInv(p, r) /\ p.i < p.num
        /\ Held(fs, r - p.num + p.i) /\ Sized(fs, MaxOutputSize + p.i - p.remaining)
        /\ ls \in Seq(Nat) /\ Len(ls) = 1 /\ \A k \in 1..1 : ls[k] = r - p.num + p.i + k
        /\ fs \in Seq(Seq(Nat)) /\ Len(fs) # 0
    BY <1>1, <1>2, TurnFacts
  <1>4. PICK num \in Nat, i \in Nat, max \in Nat :
           num = p.num /\ i = p.i /\ i = p.remaining /\ i < num /\ max = MaxOutputSize /\ max > 0
    <2>1. MaxOutputSize > 0 BY <1>3 DEF FileInv, Filing!Splits
    <2> QED BY <1>2, <1>3, <2>1 DEF PageInv
  <1>5. /\ q.lines = p.lines /\ q.i = i + 1 /\ q.num = num /\ q.remaining = i + max /\ q.lastSwitch = i
        /\ q = [lines |-> q.lines, i |-> q.i, num |-> q.num, remaining |-> q.remaining, lastSwitch |-> q.lastSwitch]
    BY <1>2, <1>3, <1>4 DEF PageInv
  <1>6. PageInv(q, r)
    <2>1. q.i \in 0..num /\ q.i <= q.remaining /\ q.remaining \in Nat /\ q.lastSwitch \in 0..num
      BY <1>4, <1>5
    <2>2. q.lastSwitch = q.remaining - MaxOutputSize BY <1>4, <1>5
    <2> QED BY <1>3, <1>4, <1>5, <2>1, <2>2 DEF PageInv
  <1>7. PICK m : m = r - num + i /\ m + 1 = r - num + (i + 1)
    <2>1. r \in Nat BY <1>3
    <2> QED BY <2>1
  <1>8. Held(gs, m + 1)
    <2>1. Held(fs, m) /\ \A k \in 1..1 : ls[k] = m + k BY <1>3, <1>4, <1>7
    <2> QED BY <1>2, <1>3, <2>1, HeldMore
  <1>9. Sized(gs, 1)
    <2>1. MaxOutputSize + i - i = MaxOutputSize /\ MaxOutputSize \in Int BY <1>3, <1>4
    <2>2. Sized(fs, MaxOutputSize) BY <1>3, <1>4, <2>1
    <2> QED BY <1>2, <1>3, <2>1, <2>2, SizedMore
  <1>10. r - q.num + q.i = m + 1 /\ MaxOutputSize + q.i - q.remaining = 1 BY <1>3, <1>4, <1>5, <1>7
  <1>11. Held(gs, r - q.num + q.i) /\ Sized(gs, MaxOutputSize + q.i - q.remaining) BY <1>8, <1>9, <1>10
  <1> QED BY <1>1, <1>2, <1>3, <1>6, <1>11 DEF FileInv, Filing!Splits

LEMMA FilesEndSplit ==
    ASSUME Filing!FilesAssumption, FileInv, Filing!EndSplit
    PROVE  FileInv'
  <1>1. PICK p, r, fs : p = page /\ r = received /\ fs = files OBVIOUS
  <1>2. /\ writing = "split" /\ p.i = Len(p.lines) /\ writing' = "open" /\ page' = Filing!NoPage
        /\ numWritten' = p.num - p.lastSwitch /\ files' = fs /\ received' = r
    BY <1>1 DEF Filing!EndSplit
  <1>3. /\ Filing!Splits /\ PageInv(p, r) /\ r \in Nat /\ Held(fs, r - p.num + p.i)
        /\ Sized(fs, MaxOutputSize + p.i - p.remaining)
    BY <1>1, <1>2 DEF FileInv
  <1>4. MaxOutputSize \in Int BY DEF Filing!FilesAssumption
  <1>5. PICK num \in Nat, left \in Nat, switch \in Nat :
           num = p.num /\ num = p.i /\ left = p.remaining /\ switch = p.lastSwitch /\ num <= left /\ switch <= num
           /\ (switch = left - MaxOutputSize \/ left < num)
    BY <1>2, <1>3 DEF PageInv
  <1>6. switch = left - MaxOutputSize BY <1>5
  <1>7. PICK w \in Nat : w = num - switch /\ w = MaxOutputSize + num - left /\ w <= MaxOutputSize BY <1>4, <1>5, <1>6
  <1>8. Held(files', received')
    <2>1. r - num + num = r BY <1>3, <1>5
    <2> QED BY <1>2, <1>3, <1>5, <2>1
  <1>9. Sized(files', numWritten') /\ numWritten' <= MaxOutputSize /\ numWritten' \in Nat BY <1>2, <1>3, <1>5, <1>7
  <1> QED BY <1>2, <1>3, <1>8, <1>9 DEF FileInv, Filing!Splits

LEMMA FilesStep ==
    ASSUME Filing!FilesAssumption, FileInv, [Filing!Next]_Filing!vars
    PROVE  FileInv'
  <1>1. CASE Filing!Refuse BY <1>1 DEF Filing!Refuse, FileInv
  <1>2. CASE Filing!Raise BY <1>2 DEF Filing!Raise, FileInv
  <1>3. CASE Filing!Close BY <1>3 DEF Filing!Close, FileInv, Filing!Splits
  <1>4. CASE UNCHANGED Filing!vars BY <1>4 DEF Filing!vars, FileInv, Filing!Splits
  <1> QED BY <1>1, <1>2, <1>3, <1>4, FilesOpen, FilesWriteWhole, FilesBeginSplit, FilesWriteLine, FilesWriteToNext,
             FilesEndSplit DEF Filing!Next

LEMMA RestOf ==
    ASSUME NEW s \in Seq(Nat), NEW n \in Nat, n = Len(s), NEW i \in Nat, i <= n, NEW t, t = SubSeq(s, i + 1, n)
    PROVE  t \in Seq(Nat) /\ Len(t) = n - i /\ \A k \in 1..(n - i) : t[k] = s[i + k]
  <1>1. t = [k \in 1..(n - i) |-> s[i + k]]
    <2>1. t = [k \in 1..(n - (i + 1) + 1) |-> s[i + 1 + k - 1]] OBVIOUS
    <2>2. n - (i + 1) + 1 = n - i /\ \A k \in Nat : i + 1 + k - 1 = i + k OBVIOUS
    <2> QED BY <2>1, <2>2
  <1>2. \A k \in 1..(n - i) : i + k \in 1..n OBVIOUS
  <1>3. \A k \in 1..(n - i) : s[i + k] \in Nat BY <1>2
  <1>4. n - i \in Nat OBVIOUS
  <1> QED BY <1>1, <1>3, <1>4

(* What the invariant says of the text of the files and the rest of a      *)
(* page.                                                                   *)
LEMMA FilesTell ==
    ASSUME Filing!FilesAssumption, FileInv
    PROVE  Filing!LinesKept /\ Filing!FilesFilled
  <1>1. ASSUME writing \in {"open", "split", "closed"}
        PROVE  Filing!FlattenSeq(files) \o Filing!Rest
                 = (IF Header THEN <<Filing!Heading>> ELSE <<>>) \o [k \in 1..received |-> k]
    <2>1. \E m \in Nat : \E rest :
             /\ Held(files, m) /\ m <= received /\ rest = Filing!Rest /\ rest \in Seq(Nat)
             /\ Len(rest) = received - m /\ \A k \in 1..(received - m) : rest[k] = m + k
      <3>1. CASE writing = "split"
        <4>1. PICK p, r : p = page /\ r = received OBVIOUS
        <4>2. PageInv(p, r) /\ r \in Nat /\ Held(files, r - p.num + p.i) BY <3>1, <4>1 DEF FileInv
        <4>3. PICK num \in Nat, i \in Nat : num = p.num /\ i = p.i /\ num <= r /\ i <= num BY <4>2 DEF PageInv
        <4>4. PICK ls \in Seq(Nat) : ls = p.lines /\ Len(ls) = num /\ \A j \in 1..num : ls[j] = r - num + j
          BY <4>2, <4>3 DEF PageInv
        <4>5. Filing!Rest = SubSeq(ls, i + 1, num) BY <4>1, <4>3, <4>4 DEF Filing!Rest
        <4>6. PICK m \in Nat : m = r - num + i /\ m <= r /\ r - m = num - i BY <4>2, <4>3
        <4>7. PICK rest : rest = SubSeq(ls, i + 1, num) OBVIOUS
        <4>8. rest \in Seq(Nat) /\ Len(rest) = num - i /\ \A k \in 1..(num - i) : rest[k] = ls[i + k]
          <5>1. num = Len(ls) /\ i <= num BY <4>3, <4>4
          <5> QED BY <4>7, <5>1, RestOf
        <4>9. \A k \in 1..(num - i) : rest[k] = m + k
          <5>1. r \in Nat /\ i <= num /\ m = r - num + i BY <4>2, <4>3, <4>6
          <5>2. \A k \in 1..(num - i) : i + k \in 1..num BY <5>1
          <5>3. \A k \in Nat : r - num + (i + k) = m + k BY <5>1
          <5> QED BY <4>4, <4>8, <5>2, <5>3
        <4>10. Held(files, m) /\ m <= received /\ rest = Filing!Rest BY <4>1, <4>2, <4>3, <4>5, <4>6, <4>7
        <4>11. rest \in Seq(Nat) /\ Len(rest) = received - m /\ \A k \in 1..(received - m) : rest[k] = m + k
          BY <4>1, <4>6, <4>8, <4>9
        <4> QED BY <4>10, <4>11
      <3>2. CASE writing # "split"
        <4>1. page = Filing!NoPage /\ Held(files, received) /\ received \in Nat BY <1>1, <3>2 DEF FileInv
        <4>2. Filing!Rest = SubSeq(<<>>, 0 + 1, Len(<<>>)) BY <4>1 DEF Filing!Rest, Filing!NoPage
        <4>3. Len(<<>>) = 0 /\ <<>> \in Seq(Nat) OBVIOUS
        <4>4. SubSeq(<<>>, 0 + 1, 0) = <<>> OBVIOUS
        <4>5. Filing!Rest = <<>> BY <4>2, <4>3, <4>4
        <4>6. PICK m \in Nat : m = received BY <4>1
        <4>10. PICK rest : rest = <<>> OBVIOUS
        <4>7. m <= m /\ m - m = 0 /\ \A k \in 1..0 : FALSE OBVIOUS
        <4>8. Held(files, m) /\ m <= received /\ rest = Filing!Rest BY <4>1, <4>5, <4>6, <4>7, <4>10
        <4>9. rest \in Seq(Nat) /\ Len(rest) = received - m /\ \A k \in 1..(received - m) : rest[k] = m + k
          BY <4>3, <4>6, <4>7, <4>10
        <4> QED BY <4>8, <4>9
      <3> QED BY <3>1, <3>2
    <2>8. PICK m \in Nat : \E rest :
             /\ Held(files, m) /\ m <= received /\ rest = Filing!Rest /\ rest \in Seq(Nat)
             /\ Len(rest) = received - m /\ \A k \in 1..(received - m) : rest[k] = m + k
      BY <2>1
    <2>9. PICK rest : /\ Held(files, m) /\ m <= received /\ rest = Filing!Rest /\ rest \in Seq(Nat)
                      /\ Len(rest) = received - m /\ \A k \in 1..(received - m) : rest[k] = m + k
      BY <2>8
    <2>2. PICK n, L : Topped(files, n, L) /\ Rows(L, m) BY <2>9 DEF Held
    <2>3. Filing!FlattenSeq(files) = L
      <3>1. files \in Seq(Seq(Nat)) /\ n \in Nat /\ n = Len(files) /\ n # 0 BY <2>2 DEF Topped
      <3>2. PICK piles : Pile(files, n, piles) /\ piles[n] = L BY <2>2 DEF Topped
      <3> QED BY <3>1, <3>2, FlattenIsPile
    <2>4. received \in Nat BY DEF FileInv
    <2>5. Rows(L \o rest, received)
      <3>1. PICK n1 \in Nat : n1 = received - m /\ m + n1 = received BY <2>9, <2>4
      <3>2. Len(rest) = n1 /\ \A k \in 1..n1 : rest[k] = m + k BY <2>9, <3>1
      <3>3. Rows(L \o rest, m + n1) BY <2>9, <2>2, <3>2, RowsGrow
      <3> QED BY <3>1, <3>3
    <2>6. PICK all : all = L \o rest OBVIOUS
    <2>7. all = (IF Header THEN <<Filing!Heading>> ELSE <<>>) \o [k \in 1..received |-> k]
      <3>13. PICK r \in Nat : r = received BY <2>4
      <3>14. PICK head : head = IF Header THEN <<0>> ELSE <<>> OBVIOUS
      <3>1. r = received /\ head = IF Header THEN <<0>> ELSE <<>> BY <3>13, <3>14
      <3>2. Filing!Heading = 0 BY DEF Filing!Heading
      <3>3. PICK body : body = [k \in 1..r |-> k] OBVIOUS
      <3>4. body \in Seq(Nat) /\ Len(body) = r /\ \A k \in 1..r : body[k] = k BY <3>3
      <3>5. <<0>> \in Seq(Nat) /\ <<>> \in Seq(Nat) OBVIOUS
      <3>6. Len(<<>>) = 0 OBVIOUS
      <3>7. head \in Seq(Nat) /\ Len(head) = Heads /\ (Header => head[1] = 0) /\ Heads \in {0, 1}
        BY <3>1, <3>5, <3>6 DEF Heads
      <3>8. all \in Seq(Nat) /\ Len(all) = Heads + r /\ (Header => all[1] = 0) /\ \A k \in 1..r : all[Heads + k] = k
        BY <2>5, <2>6, <3>1, <3>2 DEF Rows
      <3>9. PICK both : both = head \o body OBVIOUS
      <3>10. /\ both \in Seq(Nat) /\ Len(both) = Heads + r /\ (\A i \in 1..Heads : both[i] = head[i])
             /\ \A i \in 1..r : both[Heads + i] = body[i]
        <4>1. PICK h \in Seq(Nat), b \in Seq(Nat) : h = head /\ b = body BY <3>4, <3>7
        <4>2. /\ both \in Seq(Nat) /\ Len(both) = Len(h) + Len(b) /\ (\A i \in 1..Len(h) : both[i] = h[i])
              /\ \A i \in 1..Len(b) : both[Len(h) + i] = b[i]
          BY <3>9, <4>1, Concatenated
        <4> QED BY <3>4, <3>7, <4>1, <4>2
      <3>11. ASSUME NEW i \in 1..(Heads + r) PROVE all[i] = both[i]
        <4>1. CASE i <= Heads
          <5>1. i = 1 /\ Heads = 1 /\ i \in 1..Heads BY <3>7, <4>1
          <5>2. Header BY <5>1 DEF Heads
          <5> QED BY <3>7, <3>8, <3>10, <5>1, <5>2
        <4>2. CASE i > Heads
          <5>1. PICK k \in 1..r : i = Heads + k BY <3>7, <4>2
          <5> QED BY <3>4, <3>8, <3>10, <5>1
        <4> QED BY <3>7, <4>1, <4>2
      <3>12. all = both BY <3>8, <3>10, <3>11
      <3> QED BY <3>1, <3>2, <3>3, <3>9, <3>12
    <2> QED BY <2>9, <2>3, <2>6, <2>7
  <1>2. ASSUME Filing!Splits, writing \in {"open", "closed"}
        PROVE  /\ \A k \in 1..(Len(files) - 1) : Filing!RowsIn(k) = MaxOutputSize
               /\ Filing!RowsIn(Len(files)) = numWritten /\ numWritten <= MaxOutputSize
    BY <1>2 DEF FileInv, Sized, Filing!RowsIn, Above
  <1> QED BY <1>1, <1>2 DEF Filing!LinesKept, Filing!FilesFilled

(* The files of an export, one after the other, are the header and then    *)
(* the rows in the order they came, and each but the last holds as many    *)
(* rows as a file may, whatever the pages and MAXOUTPUTSIZE (ExportWriter  *)
(* of copyutil.py).                                                        *)
THEOREM FilesHoldTheRows ==
    ASSUME Filing!FilesAssumption
    PROVE  Filing!Spec => [](Filing!LinesKept /\ Filing!FilesFilled)
  <1>1. Filing!Init => FileInv BY FilesBegin
  <1>2. FileInv /\ [Filing!Next]_Filing!vars => FileInv' BY FilesStep
  <1>3. FileInv => Filing!LinesKept /\ Filing!FilesFilled BY FilesTell
  <1> QED BY <1>1, <1>2, <1>3, PTL DEF Filing!Spec

-----------------------------------------------------------------------------
(* The start of the shell (Startup), whose variables are its own.          *)
CONSTANTS Rcs, Envs, Args, Machines, KnownZones, Files
VARIABLES starting, rc, env, args, machine, chosen, stdin, timezone, warned
Starting == INSTANCE Startup WITH Zones <- KnownZones, phase <- starting, options <- chosen

(* What main knows: the options read, the input opened, the zone found.    *)
HostIsNearest ==
    chosen.host = CASE "host" \in DOMAIN args -> args["host"]
                    [] "host" \notin DOMAIN args /\ "host" \in DOMAIN env -> env["host"]
                    [] OTHER -> Starting!FirstOf("host", <<rc>>, "127.0.0.1")
InputGiven == /\ chosen.tty => chosen.file = None /\ chosen.execute = None
              /\ chosen.file = None \/ chosen.file \in DOMAIN Files
ZoneIsTold ==
    ~warned => \A wish \in {IF Starting!TZ # None THEN Starting!TZ ELSE chosen.timezone} \ {None} : timezone = wish
BeginInv ==
    /\ args \in Args
    /\ starting \in {"new", "options", "refused"} => stdin = None
    /\ starting \notin {"new", "refused"} => HostIsNearest /\ InputGiven
    /\ stdin # None => chosen.file # None /\ Starting!EncodingFits
    /\ starting \in {"zone", "made"} => ZoneIsTold

LEMMA FirstOfOne ==
    ASSUME NEW name, NEW p, NEW default
    PROVE  Starting!FirstOf(name, <<p>>, default) = IF name \in DOMAIN p THEN p[name] ELSE default
  <1>1. PICK places, given : places = <<p>> /\ given = {i \in DOMAIN places : name \in DOMAIN places[i]} OBVIOUS
  <1>2. DOMAIN places = {1} /\ places[1] = p BY <1>1
  <1>3. Starting!FirstOf(name, <<p>>, default) = IF given = {} THEN default ELSE places[Starting!Min(given)][name]
    BY <1>1 DEF Starting!FirstOf
  <1>4. CASE name \in DOMAIN p
    <2>1. given = {1} BY <1>1, <1>2, <1>4
    <2>2. Starting!Min(given) = 1 BY <2>1 DEF Starting!Min
    <2> QED BY <1>2, <1>3, <1>4, <2>1, <2>2
  <1>5. CASE name \notin DOMAIN p
    <2>1. given = {} BY <1>1, <1>2, <1>5
    <2> QED BY <1>3, <1>5, <2>1
  <1> QED BY <1>4, <1>5

LEMMA FirstOfThree ==
    ASSUME NEW name, NEW a, NEW e, NEW r, NEW default
    PROVE  Starting!FirstOf(name, <<a, e, r>>, default) =
             CASE name \in DOMAIN a -> a[name]
               [] name \notin DOMAIN a /\ name \in DOMAIN e -> e[name]
               [] OTHER -> Starting!FirstOf(name, <<r>>, default)
  <1>1. PICK places, given : places = <<a, e, r>> /\ given = {i \in DOMAIN places : name \in DOMAIN places[i]} OBVIOUS
  <1>2. DOMAIN places = 1..3 /\ places[1] = a /\ places[2] = e /\ places[3] = r BY <1>1
  <1>3. Starting!FirstOf(name, <<a, e, r>>, default) = IF given = {} THEN default ELSE places[Starting!Min(given)][name]
    BY <1>1 DEF Starting!FirstOf
  <1>4. /\ given \subseteq {1, 2, 3} /\ (1 \in given <=> name \in DOMAIN a) /\ (2 \in given <=> name \in DOMAIN e)
        /\ (3 \in given <=> name \in DOMAIN r)
    BY <1>1, <1>2
  <1>5. ASSUME NEW m \in given, \A i \in given : m <= i PROVE Starting!Min(given) = m
    <2>1. \A i, j \in given : i <= j /\ j <= i => i = j BY <1>4
    <2> QED BY <1>5, <2>1 DEF Starting!Min
  <1>6. CASE name \in DOMAIN a
    <2>1. 1 \in given /\ \A i \in given : 1 <= i BY <1>4, <1>6
    <2>2. Starting!Min(given) = 1 BY <1>5, <2>1
    <2> QED BY <1>2, <1>3, <1>6, <2>1, <2>2
  <1>7. CASE name \notin DOMAIN a /\ name \in DOMAIN e
    <2>1. 2 \in given /\ \A i \in given : 2 <= i BY <1>4, <1>7
    <2>2. Starting!Min(given) = 2 BY <1>5, <2>1
    <2> QED BY <1>2, <1>3, <1>7, <2>1, <2>2
  <1>8. CASE name \notin DOMAIN a /\ name \notin DOMAIN e
    <2>1. Starting!FirstOf(name, <<r>>, default) = IF name \in DOMAIN r THEN r[name] ELSE default BY FirstOfOne
    <2>2. CASE name \in DOMAIN r
      <3>1. 3 \in given /\ \A i \in given : 3 <= i BY <1>4, <1>8, <2>2
      <3>2. Starting!Min(given) = 3 BY <1>5, <3>1
      <3>3. Starting!FirstOf(name, <<a, e, r>>, default) = r[name] BY <1>2, <1>3, <3>1, <3>2
      <3> QED BY <1>8, <2>1, <2>2, <3>3
    <2>3. CASE name \notin DOMAIN r
      <3>1. given = {} BY <1>4, <1>8, <2>3
      <3> QED BY <1>3, <1>8, <2>1, <2>3, <3>1
    <2> QED BY <2>2, <2>3
  <1> QED BY <1>6, <1>7, <1>8

(* The first byte of a mark: no two marks that a file may bear share it,   *)
(* but that of UTF-16 with the low byte first, which comes before its own. *)
LEMMA FirstByte ==
    ASSUME NEW i \in 1..5, NEW bytes, Starting!IsPrefix(Starting!Boms[i][2], bytes)
    PROVE  bytes[1] = CASE i = 1 -> 239 [] i \in {2, 4} -> 255 [] i = 3 -> 254 [] i = 5 -> 0
  <1>1. \A mark : Starting!IsPrefix(mark, bytes) /\ Len(mark) \in Nat \ {0} => bytes[1] = mark[1]
    <2> SUFFICES ASSUME NEW mark, Starting!IsPrefix(mark, bytes), Len(mark) \in Nat \ {0} PROVE bytes[1] = mark[1]
      OBVIOUS
    <2>1. SubSeq(mark, 1, Len(mark)) = SubSeq(bytes, 1, Len(mark)) BY DEF Starting!IsPrefix
    <2>2. 1 \in 1..Len(mark) OBVIOUS
    <2>3. SubSeq(mark, 1, Len(mark))[1] = mark[1] /\ SubSeq(bytes, 1, Len(mark))[1] = bytes[1] BY <2>2
    <2> QED BY <2>1, <2>3
  <1>2. PICK mark : mark = Starting!Boms[i][2] OBVIOUS
  <1>3. /\ i = 1 => mark = <<239, 187, 191>>
        /\ i = 2 => mark = <<255, 254>>
        /\ i = 3 => mark = <<254, 255>>
        /\ i = 4 => mark = <<255, 254, 0, 0>>
        /\ i = 5 => mark = <<0, 0, 254, 255>>
    BY <1>2 DEF Starting!Boms
  <1>4. Len(mark) \in Nat \ {0} /\ mark[1] = CASE i = 1 -> 239 [] i \in {2, 4} -> 255 [] i = 3 -> 254 [] i = 5 -> 0
    <2>1. CASE i = 1 BY <1>3, <2>1
    <2>2. CASE i = 2 BY <1>3, <2>2
    <2>3. CASE i = 3 BY <1>3, <2>3
    <2>4. CASE i = 4
      <3>1. mark = <<255, 254, 0, 0>> BY <1>3, <2>4
      <3>2. Len(mark) = 4 BY <3>1
      <3>3. mark[1] = 255 BY <3>1
      <3> QED BY <2>4, <3>2, <3>3
    <2>5. CASE i = 5
      <3>1. mark = <<0, 0, 254, 255>> BY <1>3, <2>5
      <3>2. Len(mark) = 4 BY <3>1
      <3>3. mark[1] = 0 BY <3>1
      <3> QED BY <2>5, <3>2, <3>3
    <2> QED BY <2>1, <2>2, <2>3, <2>4, <2>5
  <1> QED BY <1>1, <1>2, <1>4

LEMMA EncodingFound ==
    ASSUME NEW bytes, NEW i \in {1, 2, 3, 5}, Starting!IsPrefix(Starting!Boms[i][2], bytes)
    PROVE  Starting!EncodingOf(bytes).encoding = Starting!Boms[i][1]
  <1>1. DOMAIN Starting!Boms = 1..5 BY DEF Starting!Boms
  <1>2. PICK fit : fit = {j \in DOMAIN Starting!Boms : Starting!IsPrefix(Starting!Boms[j][2], bytes)} OBVIOUS
  <1>3. i \in fit /\ fit \subseteq 1..5 BY <1>1, <1>2
  <1>4. ASSUME NEW j \in fit PROVE i <= j
    <2>1. j \in 1..5 /\ Starting!IsPrefix(Starting!Boms[j][2], bytes) BY <1>2, <1>3
    <2>2. bytes[1] = CASE j = 1 -> 239 [] j \in {2, 4} -> 255 [] j = 3 -> 254 [] j = 5 -> 0 BY <2>1, FirstByte
    <2>3. i \in 1..5 BY <1>3
    <2>4. bytes[1] = CASE i = 1 -> 239 [] i \in {2, 4} -> 255 [] i = 3 -> 254 [] i = 5 -> 0 BY <2>3, FirstByte
    <2> QED BY <2>1, <2>2, <2>4
  <1>5. Starting!Min(fit) = i
    <2>1. \A a, b \in fit : a <= b /\ b <= a => a = b BY <1>3
    <2> QED BY <1>3, <1>4, <2>1 DEF Starting!Min
  <1> QED BY <1>2, <1>3, <1>5 DEF Starting!EncodingOf

LEMMA NoMark ==
    ASSUME NEW bytes, \A i \in DOMAIN Starting!Boms : ~Starting!IsPrefix(Starting!Boms[i][2], bytes)
    PROVE  Starting!EncodingOf(bytes).encoding = "utf-8"
  <1>1. {i \in DOMAIN Starting!Boms : Starting!IsPrefix(Starting!Boms[i][2], bytes)} = {} OBVIOUS
  <1> QED BY <1>1 DEF Starting!EncodingOf

LEMMA BeginRead ==
    ASSUME Starting!StartupAssumption, BeginInv, Starting!ReadOptions
    PROVE  BeginInv'
  <1>1. PICK o, a, e, r : o = chosen' /\ a = args /\ e = env /\ r = rc OBVIOUS
  <1>2. /\ o.host = Starting!HostOf("host", "127.0.0.1")
        /\ o.file = Starting!FirstOf("file", <<a>>, None)
        /\ o.execute = Starting!Terminated(Starting!FirstOf("execute", <<a>>, None))
        /\ o.tty = ("file" \notin DOMAIN a /\ "execute" \notin DOMAIN a /\ Starting!Option("tty", machine.tty))
    BY <1>1 DEF Starting!ReadOptions
  <1>3. /\ starting = "new" /\ starting' \in {"options", "refused"} /\ stdin' = stdin
        /\ args' = a /\ env' = e /\ rc' = r
    BY <1>1 DEF Starting!ReadOptions
  <1>4. stdin = None /\ a \in Args BY <1>1, <1>3 DEF BeginInv
  <1>5. o.host = CASE "host" \in DOMAIN a -> a["host"]
                   [] "host" \notin DOMAIN a /\ "host" \in DOMAIN e -> e["host"]
                   [] OTHER -> Starting!FirstOf("host", <<r>>, "127.0.0.1")
    BY <1>1, <1>2, FirstOfThree DEF Starting!HostOf
  <1>6. HostIsNearest' BY <1>1, <1>3, <1>5 DEF HostIsNearest
  <1>7. o.file = IF "file" \in DOMAIN a THEN a["file"] ELSE None BY <1>2, FirstOfOne
  <1>8. "execute" \notin DOMAIN a => o.execute = None
    <2>1. "execute" \notin DOMAIN a => Starting!FirstOf("execute", <<a>>, None) = None BY FirstOfOne
    <2> QED BY <1>2, <2>1 DEF Starting!Terminated
  <1>9. o.file = None \/ o.file \in DOMAIN Files BY <1>4, <1>7 DEF Starting!StartupAssumption
  <1>10. o.tty => o.file = None /\ o.execute = None BY <1>2, <1>7, <1>8
  <1>11. InputGiven' BY <1>1, <1>9, <1>10 DEF InputGiven
  <1> QED BY <1>1, <1>3, <1>4, <1>6, <1>11 DEF BeginInv

LEMMA BeginOpen ==
    ASSUME Starting!StartupAssumption, BeginInv, Starting!OpenInput
    PROVE  BeginInv'
  <1>1. /\ starting = "options" /\ starting' \in {"input", "aborted"} /\ args' = args /\ env' = env /\ rc' = rc
        /\ chosen' = chosen
    BY DEF Starting!OpenInput
  <1>2. stdin = None /\ HostIsNearest /\ InputGiven /\ args \in Args BY <1>1 DEF BeginInv
  <1>3. HostIsNearest' /\ InputGiven' BY <1>1, <1>2 DEF HostIsNearest, InputGiven
  <1>4. CASE stdin' = stdin
    <2>1. stdin' = None BY <1>2, <1>4
    <2> QED BY <1>1, <1>2, <1>3, <2>1 DEF BeginInv
  <1>5. CASE stdin' # stdin
    <2>1. PICK given, in : given = Files[chosen.file] /\ in = stdin' OBVIOUS
    <2>2. in = Starting!EncodingOf(given.bytes) /\ chosen.file # None BY <1>5, <2>1 DEF Starting!OpenInput
    <2>3. chosen.file \in DOMAIN Files BY <1>2, <2>2 DEF InputGiven
    <2>4. \/ given.encoding = "utf-8" /\ \A i \in DOMAIN Starting!Boms : ~Starting!IsPrefix(Starting!Boms[i][2], given.bytes)
          \/ given.encoding = "utf-32le"
          \/ \E i \in {1, 2, 3, 5} : Starting!Bears(given, i)
      BY <2>1, <2>3 DEF Starting!StartupAssumption
    <2>5. in.encoding = given.encoding \/ given.encoding = "utf-32le"
      <3>1. CASE given.encoding = "utf-8" /\ \A i \in DOMAIN Starting!Boms : ~Starting!IsPrefix(Starting!Boms[i][2], given.bytes)
        BY <2>2, <3>1, NoMark
      <3>2. CASE \E i \in {1, 2, 3, 5} : Starting!Bears(given, i)
        <4>1. PICK i \in {1, 2, 3, 5} : Starting!Bears(given, i) BY <3>2
        <4>2. given.encoding = Starting!Boms[i][1] /\ Starting!IsPrefix(Starting!Boms[i][2], given.bytes)
          BY <4>1 DEF Starting!Bears
        <4>3. Starting!EncodingOf(given.bytes).encoding = Starting!Boms[i][1] BY <4>2, EncodingFound
        <4> QED BY <2>2, <4>2, <4>3
      <3> QED BY <2>4, <3>1, <3>2
    <2>6. Starting!EncodingFits' BY <1>1, <2>1, <2>5 DEF Starting!EncodingFits
    <2> QED BY <1>1, <1>2, <1>3, <2>2, <2>6 DEF BeginInv
  <1> QED BY <1>4, <1>5

LEMMA BeginZone ==
    ASSUME Starting!StartupAssumption, BeginInv, Starting!FindZone
    PROVE  BeginInv'
  <1>1. PICK tz, wish, zone, said :
           /\ tz = Starting!TZ /\ wish = chosen.timezone /\ zone = timezone' /\ said = warned'
    OBVIOUS
  <1>2. /\ starting = "input" /\ starting' = "zone" /\ args' = args /\ env' = env /\ rc' = rc /\ chosen' = chosen
        /\ stdin' = stdin
        /\ zone = CASE Starting!Recognized(tz) -> tz
                    [] ~Starting!Recognized(tz) /\ Starting!Recognized(wish) -> wish
                    [] OTHER -> IF machine.tzlocal THEN machine.zone ELSE None
        /\ said = (\/ \E name \in {tz, wish} \ {None} : ~Starting!Recognized(name)
                   \/ zone = None /\ chosen.format # "default")
    BY <1>1 DEF Starting!FindZone
  <1>3. ~Starting!Recognized(None) BY DEF Starting!StartupAssumption, Starting!Recognized
  <1>4. PICK asked : asked = IF tz # None THEN tz ELSE wish OBVIOUS
  <1>5. ASSUME ~said, asked # None PROVE zone = asked
    <2>1. Starting!Recognized(asked) BY <1>2, <1>4, <1>5
    <2>2. CASE tz # None BY <1>2, <1>4, <2>1, <2>2
    <2>3. CASE tz = None BY <1>2, <1>3, <1>4, <2>1, <2>3
    <2> QED BY <2>2, <2>3
  <1>6. Starting!TZ' = tz BY <1>1, <1>2 DEF Starting!TZ
  <1>7. ZoneIsTold' BY <1>1, <1>2, <1>4, <1>5, <1>6 DEF ZoneIsTold
  <1>8. HostIsNearest /\ InputGiven BY <1>2 DEF BeginInv
  <1>9. HostIsNearest' /\ InputGiven' BY <1>2, <1>8 DEF HostIsNearest, InputGiven
  <1> QED BY <1>2, <1>7, <1>9 DEF BeginInv, Starting!EncodingFits

LEMMA BeginRest ==
    ASSUME BeginInv, Starting!MakeShell \/ UNCHANGED Starting!vars
    PROVE  BeginInv'
  <1>1. /\ args' = args /\ env' = env /\ rc' = rc /\ chosen' = chosen /\ stdin' = stdin /\ timezone' = timezone
        /\ warned' = warned
    BY DEF Starting!MakeShell, Starting!vars
  <1>2. starting' = starting \/ (starting = "zone" /\ starting' \in {"made", "aborted"})
    BY DEF Starting!MakeShell, Starting!vars
  <1>3. /\ HostIsNearest' <=> HostIsNearest
        /\ InputGiven' <=> InputGiven
        /\ Starting!EncodingFits' <=> Starting!EncodingFits
    BY <1>1 DEF HostIsNearest, InputGiven, Starting!EncodingFits
  <1>4. ZoneIsTold' <=> ZoneIsTold BY <1>1 DEF ZoneIsTold, Starting!TZ
  <1> QED BY <1>1, <1>2, <1>3, <1>4 DEF BeginInv

(* A shell that runs works with the host its nearest place names, shows    *)
(* the zone asked for or has warned, never prompts for input that is no    *)
(* terminal, and reads a file in the encoding its mark announces, if the   *)
(* mark is not that of UTF-32 with the low byte first (read_options, main  *)
(* and get_file_encoding_bomsize).                                         *)
THEOREM StartsAsAsked ==
    ASSUME Starting!StartupAssumption
    PROVE  Starting!Spec => [](Starting!NearestWins /\ Starting!EncodingFits)
  <1>1. Starting!Init => BeginInv BY DEF Starting!Init, BeginInv
  <1>2. BeginInv /\ [Starting!Next]_Starting!vars => BeginInv'
    BY BeginRead, BeginOpen, BeginZone, BeginRest DEF Starting!Next
  <1>3. BeginInv => Starting!NearestWins /\ Starting!EncodingFits
    <2> SUFFICES ASSUME BeginInv PROVE Starting!NearestWins /\ Starting!EncodingFits OBVIOUS
    <2>1. Starting!EncodingFits BY DEF BeginInv, Starting!EncodingFits
    <2>2. ASSUME starting = "made" PROVE HostIsNearest /\ InputGiven /\ ZoneIsTold /\ (stdin # None => chosen.file # None)
      BY <2>2 DEF BeginInv
    <2>3. Starting!NearestWins BY <2>2 DEF HostIsNearest, InputGiven, ZoneIsTold, Starting!NearestWins
    <2> QED BY <2>1, <2>3
  <1> QED BY <1>1, <1>2, <1>3, PTL DEF Starting!Spec

=============================================================================
