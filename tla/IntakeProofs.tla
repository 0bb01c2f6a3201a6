---------------------------- MODULE IntakeProofs ----------------------------
(***************************************************************************)
(* Theorems about Intake, for any bodies, bounds and number of writers: a  *)
(* stored row the flow misses had its insert open when the cursor passed   *)
(* it, so one writer at a time loses nothing; what the flow has read it    *)
(* loses nowhere, and reads and publishes again only after a restart; a    *)
(* queue exceeds its threshold by one poll.                                *)
(***************************************************************************)
EXTENDS Intake, FiniteSetTheorems, TLAPS

QdtOK == qdt \in [task : {"idle", "polled"}, state : Nat, cursor : Nat, polls : Nat]

\* The numbers the argument is about.
NumbersOK ==
    /\ last \in Nat
    /\ QdtOK
    /\ \A r \in txns \cup open : r.transaction_id \in Nat /\ r.transaction_id <= last

\* The cursor stays behind the sequence and the stored state behind the cursor.
CursorBehind == qdt.cursor <= last /\ qdt.state <= qdt.cursor

\* What the history says of the inserts still open.
PassedOpenNoted == \A r \in open : r.transaction_id <= qdt.cursor => r \in overtaken

GapInv == NumbersOK /\ CursorBehind /\ PassedOpenNoted /\ GapsWereOpen

-----------------------------------------------------------------------------
(* The flow only reads the store, and keeps what it has captured.           *)
LEMMA FlowReadsOnly ==
    Flow => UNCHANGED <<last, open>> /\ txns' = txns /\ captured \subseteq captured'
  BY DEF Flow, Beside, I!Next, I!Capture, I!Work, I!Fault, I!Poll,
         I!SaveState, I!Split, I!SplitFails, I!LookupMatched, I!LookupUnmatched, I!PutFile,
         I!PutFileFails, I!Publish, I!PublishDone, I!PublishFails, I!Crash

(* The cursor only moves over rows that are read in the same step.          *)
LEMMA CursorKeepsPace ==
    ASSUME NumbersOK, CursorBehind, Flow
    PROVE  /\ QdtOK' /\ CursorBehind'
           /\ \A r \in txns : Passed(r)' => Passed(r) \/ Copies(r)' # {}
  <1> USE DEF NumbersOK, QdtOK
  <1>r. last' = last /\ captured \subseteq captured'
    BY FlowReadsOnly
  <1>1. CASE I!Poll
    <2> DEFINE new == {r \in txns : r.transaction_id > qdt.cursor}
    <2>1. PICK max \in I!Ids(new) :
             /\ qdt' = [qdt EXCEPT !.task = "polled", !.cursor = max, !.polls = qdt.polls + 1]
             /\ captured' = captured \cup [poll : {qdt.polls + 1}, row : new]
      BY <1>1 DEF I!Poll
    <2>2. max \in Nat /\ max <= last /\ qdt.cursor < max
      BY DEF I!Ids
    <2>3. qdt' = [task |-> "polled", state |-> qdt.state, cursor |-> max,
                  polls |-> qdt.polls + 1]
      BY <2>1
    <2>4. QdtOK' /\ CursorBehind'
      BY <1>r, <2>2, <2>3 DEF CursorBehind
    <2>5. ASSUME NEW r \in txns, Passed(r)' PROVE Passed(r) \/ Copies(r)' # {}
      <3>1. CASE r.transaction_id > qdt.cursor
        <4>1. [poll |-> qdt.polls + 1, row |-> r] \in captured'
          BY <2>1, <3>1
        <4> QED BY <4>1 DEF Copies
      <3>2. CASE ~(r.transaction_id > qdt.cursor)
        BY <2>3, <2>5, <3>2 DEF Passed
      <3> QED BY <3>1, <3>2
    <2> QED BY <2>4, <2>5
  <1>2. CASE I!SaveState
    <2>1. qdt' = [task |-> "idle", state |-> qdt.cursor, cursor |-> qdt.cursor, polls |-> qdt.polls]
      BY <1>2 DEF I!SaveState
    <2> QED BY <2>1, <1>r DEF CursorBehind, Passed
  <1>3. CASE I!Crash
    <2>1. qdt' = [task |-> "idle", state |-> qdt.state, cursor |-> qdt.state, polls |-> qdt.polls]
      BY <1>3 DEF I!Crash
    <2> QED BY <2>1, <1>r DEF CursorBehind, Passed
  <1>4. CASE UNCHANGED qdt
    BY <1>4, <1>r DEF CursorBehind, Passed
  <1> QED BY <1>1, <1>2, <1>3, <1>4
          DEF Flow, I!Next, I!Capture, I!Work, I!Fault, I!Split, I!SplitFails, I!LookupMatched,
              I!LookupUnmatched, I!PutFile, I!PutFileFails, I!Publish, I!PublishDone,
              I!PublishFails

LEMMA GapInvInit == Init => GapInv
  <1> SUFFICES ASSUME Init PROVE GapInv
    OBVIOUS
  <1>1. SeedLast \in Nat
    BY SeedAssumption
  <1>2. txns = SeedTxns /\ last = SeedLast /\ open = {}
    BY DEF Init, S!Init
  <1>3. qdt = [task |-> "idle", state |-> 0, cursor |-> 0, polls |-> 0]
    BY DEF Init, I!Init
  <1>4. \A r \in txns : r.transaction_id \in 1 .. last
    BY <1>2, SeedAssumption
  <1>5. NumbersOK
    BY <1>1, <1>2, <1>3, <1>4 DEF NumbersOK, QdtOK
  <1> QED BY <1>1, <1>2, <1>3, <1>4, <1>5
          DEF GapInv, CursorBehind, PassedOpenNoted, GapsWereOpen, Passed

LEMMA GapInvStep == GapInv /\ [Next]_vars => GapInv'
  <1> SUFFICES ASSUME GapInv, [Next]_vars PROVE GapInv'
    OBVIOUS
  <1>n. NumbersOK /\ CursorBehind
    BY DEF GapInv
  <1>1. CASE Insert
    <2>1. PICK b \in Bodies : /\ last' = last + 1
                              /\ open' = open \cup {S!Row(last + 1, b)}
                              /\ txns' = txns
      BY <1>1 DEF Insert, S!Draw
    <2>2. S!Row(last + 1, b).transaction_id = last + 1
      BY DEF S!Row
    <2>3. UNCHANGED <<qdt, captured, overtaken>>
      BY <1>1 DEF Insert, flowVars
    <2>4. NumbersOK' /\ CursorBehind'
      BY <1>n, <2>1, <2>2, <2>3 DEF NumbersOK, QdtOK, CursorBehind
    <2>5. PassedOpenNoted'
      BY <1>n, <2>1, <2>2, <2>3 DEF GapInv, NumbersOK, QdtOK, CursorBehind, PassedOpenNoted
    <2>6. GapsWereOpen'
      BY <2>1, <2>3 DEF GapInv, GapsWereOpen, Passed, Copies
    <2> QED BY <2>4, <2>5, <2>6 DEF GapInv
  <1>2. CASE EndInsert
    <2>1. /\ open' \subseteq open /\ txns \subseteq txns' /\ txns' \subseteq txns \cup open
          /\ last' = last
      BY <1>2 DEF EndInsert, S!Commit, S!Abort
    <2>2. UNCHANGED <<qdt, captured, overtaken>>
      BY <1>2 DEF EndInsert, flowVars
    <2>3. NumbersOK' /\ CursorBehind' /\ PassedOpenNoted'
      BY <2>1, <2>2 DEF GapInv, NumbersOK, QdtOK, CursorBehind, PassedOpenNoted
    <2>4. GapsWereOpen'
      BY <2>1, <2>2 DEF GapInv, PassedOpenNoted, GapsWereOpen, Passed, Copies
    <2> QED BY <2>3, <2>4 DEF GapInv
  <1>3. CASE SignUp
    BY <1>3 DEF SignUp, storeVars, flowVars, GapInv, NumbersOK, QdtOK, CursorBehind,
                PassedOpenNoted, GapsWereOpen, Passed, Copies
  <1>4. CASE Flow
    <2>1. UNCHANGED <<last, open>> /\ txns' = txns /\ captured \subseteq captured'
      BY <1>4, FlowReadsOnly
    <2>2. overtaken' = overtaken \cup {r \in open : r.transaction_id <= qdt'.cursor}
      BY <1>4 DEF Flow, Beside
    <2>3. PassedOpenNoted'
      BY <2>1, <2>2 DEF PassedOpenNoted
    <2>4. QdtOK' /\ CursorBehind' /\ \A r \in txns : Passed(r)' => Passed(r) \/ Copies(r)' # {}
      BY <1>4, <1>n, CursorKeepsPace
    <2>5. NumbersOK'
      BY <2>1, <2>4, <1>n DEF NumbersOK
    <2>6. GapsWereOpen'
      BY <2>1, <2>2, <2>4 DEF GapInv, GapsWereOpen, Copies
    <2> QED BY <2>3, <2>4, <2>5, <2>6 DEF GapInv
  <1>5. CASE UNCHANGED vars
    BY <1>5 DEF vars, storeVars, flowVars, GapInv, NumbersOK, QdtOK, CursorBehind,
                PassedOpenNoted, GapsWereOpen, Passed, Copies
  <1> QED BY <1>1, <1>2, <1>3, <1>4, <1>5 DEF Next

\* A stored row that the poller's cursor passed unread had its insert open at
\* that moment, for any number of writers and restarts.
THEOREM GapsAreOvertaken == Spec => []GapsWereOpen
  <1>1. GapInv => GapsWereOpen
    BY DEF GapInv
  <1> QED BY GapInvInit, GapInvStep, <1>1, PTL DEF Spec

-----------------------------------------------------------------------------
(* With one writer an open insert is ahead of every stored row and of the   *)
(* cursor, so nothing can overtake it.                                      *)

OpenIsAhead ==
    /\ IsFiniteSet(open)
    /\ \A r, s \in open : r = s
    /\ \A r \in open : /\ qdt.cursor < r.transaction_id
                       /\ \A t \in txns : t.transaction_id < r.transaction_id

SerialInv == OpenIsAhead /\ CursorLeavesNoGap

LEMMA SerialInvInit == Init => SerialInv
  <1> SUFFICES ASSUME Init PROVE SerialInv
    OBVIOUS
  <1>1. open = {}
    BY DEF Init, S!Init
  <1>2. qdt.cursor = 0
    BY DEF Init, I!Init
  <1>3. \A r \in txns : r.transaction_id \in 1 .. SeedLast
    BY SeedAssumption DEF Init, S!Init
  <1>4. CursorLeavesNoGap
    BY <1>2, <1>3, SeedAssumption DEF CursorLeavesNoGap, Passed
  <1> QED BY <1>1, <1>4, FS_EmptySet DEF SerialInv, OpenIsAhead

LEMMA SerialInvStep == Writers = 1 /\ GapInv /\ SerialInv /\ [Next]_vars => SerialInv'
  <1> SUFFICES ASSUME Writers = 1, GapInv, SerialInv, [Next]_vars PROVE SerialInv'
    OBVIOUS
  <1>n. NumbersOK /\ CursorBehind
    BY DEF GapInv
  <1>1. CASE Insert
    <2>1. PICK b \in Bodies : /\ open' = open \cup {S!Row(last + 1, b)}
                              /\ txns' = txns
      BY <1>1 DEF Insert, S!Draw
    <2>2. open = {}
      <3>1. Cardinality(open) \in Nat /\ Cardinality(open) < 1
        BY <1>1, FS_CardinalityType DEF Insert, SerialInv, OpenIsAhead
      <3> QED BY <3>1, FS_EmptySet DEF SerialInv, OpenIsAhead
    <2>3. S!Row(last + 1, b).transaction_id = last + 1
      BY DEF S!Row
    <2>4. UNCHANGED <<qdt, captured>>
      BY <1>1 DEF Insert, flowVars
    <2>5. open' = {S!Row(last + 1, b)}
      BY <2>1, <2>2
    <2>6. IsFiniteSet(open')
      BY <2>5, FS_Singleton
    <2>7. OpenIsAhead'
      BY <1>n, <2>1, <2>3, <2>4, <2>5, <2>6 DEF OpenIsAhead, NumbersOK, QdtOK, CursorBehind
    <2>8. CursorLeavesNoGap'
      BY <2>1, <2>4 DEF SerialInv, CursorLeavesNoGap, Passed, Copies
    <2> QED BY <2>7, <2>8 DEF SerialInv
  <1>2. CASE EndInsert
    <2>1. UNCHANGED <<qdt, captured>>
      BY <1>2 DEF EndInsert, flowVars
    <2>2. CASE \E r \in open : S!Commit(r)
      <3>1. PICK r \in open : txns' = txns \cup {r} /\ open' = open \ {r}
        BY <2>2 DEF S!Commit
      <3>2. open' = {}
        BY <3>1 DEF SerialInv, OpenIsAhead
      <3>3. ~Passed(r)
        BY <1>n DEF SerialInv, OpenIsAhead, Passed, NumbersOK, QdtOK
      <3>4. CursorLeavesNoGap'
        BY <2>1, <3>1, <3>3 DEF SerialInv, CursorLeavesNoGap, Passed, Copies
      <3> QED BY <3>2, <3>4, FS_EmptySet DEF SerialInv, OpenIsAhead
    <2>3. CASE \E rows \in SUBSET open : S!Abort(rows)
      <3>1. open' \subseteq open /\ txns' = txns
        BY <2>3 DEF S!Abort
      <3>2. IsFiniteSet(open')
        BY <3>1, FS_Subset DEF SerialInv, OpenIsAhead
      <3> QED BY <2>1, <3>1, <3>2 DEF SerialInv, OpenIsAhead, CursorLeavesNoGap, Passed, Copies
    <2> QED BY <1>2, <2>2, <2>3 DEF EndInsert
  <1>3. CASE SignUp
    BY <1>3 DEF SignUp, storeVars, flowVars, SerialInv, OpenIsAhead, CursorLeavesNoGap,
                Passed, Copies
  <1>4. CASE Flow
    \* Only the cursor could disturb the invariant, and it stops at stored rows.
    <2>1. open' = open /\ txns' = txns /\ captured \subseteq captured'
      BY <1>4, FlowReadsOnly
    <2>2. qdt'.cursor \in {qdt.cursor, qdt.state} \cup I!Ids(txns) \cup {0}
      <3>1. CASE I!Poll
        <4>1. I!Ids({r \in txns : r.transaction_id > qdt.cursor}) \subseteq I!Ids(txns)
          BY DEF I!Ids
        <4> QED BY <3>1, <4>1, <1>n DEF I!Poll, NumbersOK, QdtOK
      <3>2. CASE I!SaveState \/ I!Crash
        BY <3>2, <1>n DEF I!SaveState, I!Crash, NumbersOK, QdtOK
      <3>3. CASE UNCHANGED qdt
        BY <3>3
      <3> QED BY <1>4, <3>1, <3>2, <3>3
              DEF Flow, I!Next, I!Capture, I!Work, I!Fault, I!Split, I!SplitFails, I!LookupMatched,
                  I!LookupUnmatched, I!PutFile, I!PutFileFails, I!Publish, I!PublishDone,
                  I!PublishFails
    <2>3. ASSUME NEW r \in open PROVE qdt'.cursor < r.transaction_id
      <3>1. qdt.cursor < r.transaction_id /\ qdt.state <= qdt.cursor
        BY <1>n DEF SerialInv, OpenIsAhead, CursorBehind
      <3>2. r.transaction_id \in Nat /\ qdt.cursor \in Nat /\ qdt.state \in Nat
        BY <1>n DEF NumbersOK, QdtOK
      <3>3. \A i \in I!Ids(txns) : i < r.transaction_id
        BY DEF SerialInv, OpenIsAhead, I!Ids
      <3> QED BY <2>2, <3>1, <3>2, <3>3
    <2>4. OpenIsAhead'
      BY <2>1, <2>3 DEF SerialInv, OpenIsAhead
    <2>5. \A r \in txns : Passed(r)' => Passed(r) \/ Copies(r)' # {}
      BY <1>4, <1>n, CursorKeepsPace
    <2>6. CursorLeavesNoGap'
      BY <2>1, <2>5 DEF SerialInv, CursorLeavesNoGap, Copies
    <2> QED BY <2>4, <2>6 DEF SerialInv
  <1>5. CASE UNCHANGED vars
    BY <1>5 DEF vars, storeVars, flowVars, SerialInv, OpenIsAhead, CursorLeavesNoGap,
                Passed, Copies
  <1> QED BY <1>1, <1>2, <1>3, <1>4, <1>5 DEF Next

\* One handler at a time: the poller never passes a stored row it has not read.
THEOREM OneWriterLeavesNoGap ==
    ASSUME Writers = 1
    PROVE  Spec => []CursorLeavesNoGap
  <1>1. Init => GapInv /\ SerialInv
    BY GapInvInit, SerialInvInit
  <1>2. GapInv /\ SerialInv /\ [Next]_vars => (GapInv /\ SerialInv)'
    BY GapInvStep, SerialInvStep
  <1>3. SerialInv => CursorLeavesNoGap
    BY DEF SerialInv
  <1> QED BY <1>1, <1>2, <1>3, PTL DEF Spec
-----------------------------------------------------------------------------
(* Flow files: each is in one place and bears a poll that was made; those     *)
(* that LookupRecord has matched have their user.                            *)
Rest == {"split", "matched", "failure"}

PollsCounted ==
    /\ \A f \in captured : f.poll \in 1 .. qdt.polls
    /\ \A g \in connection["success"] : g.poll \in 1 .. qdt.polls

QueuedIsCaptured ==
    /\ \A g \in connection["success"] : [poll : {g.poll}, row : g.rows] \subseteq captured
    /\ \A q \in Rest : connection[q] \subseteq captured

InOnePlace ==
    /\ \A g, h \in connection["success"] : g.poll = h.poll => g = h
    /\ \A g \in connection["success"], q \in Rest : \A f \in connection[q] : f.poll # g.poll
    /\ \A p, q \in Rest : p # q => connection[p] \cap connection[q] = {}
    /\ \A f, g \in sent : f = g

MatchedHaveUser == \A f \in connection["matched"] : I!UserOf(f) # {}
SentIsPublished == \A f \in sent : Published(f)

FileInv ==
    /\ TypeOK /\ IsFiniteSet(txns)
    /\ PollsCounted /\ QueuedIsCaptured /\ InOnePlace /\ MatchedHaveUser
    /\ SentIsPublished /\ CapturesAccountedFor

\* The type invariant of the flow, part by part.
LEMMA FlowTyped ==
    ASSUME TypeOK
    PROVE  /\ QdtOK
           /\ DOMAIN connection = Rest \cup {"success"}
           /\ \A g \in connection["success"] : g.poll \in Nat /\ g.rows \subseteq txns
           /\ \A q \in Rest : connection[q] \subseteq I!Splits
           /\ sent \subseteq connection["matched"]
           /\ topic \in Seq(I!Messages)
           /\ errorLog \subseteq I!Splits /\ captured \subseteq I!Splits /\ failed \subseteq I!Splits
           /\ crashes \in 0 .. MaxCrashes
  BY DEF TypeOK, I!TypeOK, I!Queues, QdtOK, Rest

\* More rows and more users admit more flow files and more messages.
LEMMA FilesGrow ==
    ASSUME txns \subseteq txns', users \subseteq users'
    PROVE  I!Splits \subseteq I!Splits' /\ I!Messages \subseteq I!Messages'
  <1>1. I!Splits \subseteq I!Splits'
    BY DEF I!Splits
  <1> QED BY <1>1 DEF I!Messages

\* It is enough to look at the parts of the type invariant that a step of the
\* flow changes.
LEMMA FlowTypeStep ==
    ASSUME TypeOK, txns' = txns, UNCHANGED <<last, open, users>>,
           QdtOK', DOMAIN connection' = Rest \cup {"success"},
           \A g \in connection'["success"] : g.poll \in Nat /\ g.rows \subseteq txns,
           \A q \in Rest : connection'[q] \subseteq I!Splits,
           sent' \subseteq connection'["matched"],
           topic' \in Seq(I!Messages),
           errorLog' \subseteq I!Splits, captured' \subseteq I!Splits, failed' \subseteq I!Splits,
           crashes' \in 0 .. MaxCrashes
    PROVE  TypeOK'
  <1>1. I!Splits' = I!Splits /\ I!Messages' = I!Messages
    BY DEF I!Splits, I!Messages
  <1>2. I!TypeOK'
    BY <1>1 DEF I!TypeOK, I!Queues, Rest, QdtOK
  <1> QED BY <1>2 DEF TypeOK

\* Where the queues only get shorter, every flow file stays in one place.
LEMMA QueuesShrink ==
    ASSUME PollsCounted, QueuedIsCaptured, InOnePlace, MatchedHaveUser,
           \A q \in Rest \cup {"success"} : connection'[q] \subseteq connection[q],
           captured' = captured, users' = users, qdt'.polls = qdt.polls,
           \A f, g \in sent' : f = g
    PROVE  PollsCounted' /\ QueuedIsCaptured' /\ InOnePlace' /\ MatchedHaveUser'
  <1>1. connection'["success"] \subseteq connection["success"]
        /\ connection'["matched"] \subseteq connection["matched"]
        /\ \A q \in Rest : connection'[q] \subseteq connection[q]
    BY DEF Rest
  <1>2. PollsCounted' /\ QueuedIsCaptured'
    BY <1>1 DEF PollsCounted, QueuedIsCaptured
  <1>3. InOnePlace'
    BY <1>1 DEF InOnePlace
  <1>4. MatchedHaveUser'
    BY <1>1 DEF MatchedHaveUser, I!UserOf
  <1> QED BY <1>2, <1>3, <1>4

\* What PublishKafkaRecord makes of a flow file, and what the log keeps.
LEMMA MessageTyped ==
    ASSUME NEW f \in I!Splits, I!UserOf(f) # {}, NEW ok \in BOOLEAN
    PROVE  I!Message(f, ok) \in I!Messages
  <1>1. (CHOOSE u \in I!UserOf(f) : TRUE) \in users
    BY DEF I!UserOf
  <1> QED BY <1>1 DEF I!Message, I!Messages

LEMMA LogGrows ==
    ASSUME topic \in Seq(I!Messages), NEW m \in I!Messages, topic' \in {topic, Append(topic, m)}
    PROVE  /\ topic' \in Seq(I!Messages)
           /\ \A f : Published(f) => Published(f)'
           /\ topic' = Append(topic, m) /\ m.committed => Published(m.split)'
  <1>1. Append(topic, m) \in Seq(I!Messages) /\ Len(topic) \in Nat
    OBVIOUS
  <1>2. \A i \in 1 .. Len(topic) : i \in 1 .. Len(topic') /\ topic'[i] = topic[i]
    BY <1>1
  <1>3. topic' = Append(topic, m) => Len(topic') \in 1 .. Len(topic') /\ topic'[Len(topic')] = m
    BY <1>1
  <1> QED BY <1>1, <1>2, <1>3 DEF Published

\* What leaves the flow is published, in the error directory or given up.
Kept(f) ==
    \/ Queued(f) \/ Published(f) \/ f \in errorLog \/ f \in failed
    \/ \E g \in errorLog : g.poll = f.poll /\ g # f

LEMMA KeptStays ==
    ASSUME CapturesAccountedFor, errorLog \subseteq errorLog', failed \subseteq failed',
           \A f : Published(f) => Published(f)',
           \A f \in captured : Queued(f) => Kept(f)',
           \A f \in captured' : f \in captured \/ Queued(f)'
    PROVE  CapturesAccountedFor'
  <1>1. \A f \in captured : Kept(f)
    BY DEF CapturesAccountedFor, Kept
  <1>2. \A f \in captured : Kept(f)'
    BY <1>1 DEF Kept
  <1>3. \A f \in captured' : Kept(f)'
    BY <1>2 DEF Kept
  <1> QED BY <1>3 DEF CapturesAccountedFor, Kept

LEMMA FileInvInit == Init => FileInv
  <1> SUFFICES ASSUME Init PROVE FileInv
    OBVIOUS
  <1> USE DEF Init, S!Init, I!Init
  <1>1. last \in Nat /\ \A r \in txns \cup open : r.transaction_id \in 1 .. last
    BY SeedAssumption
  <1>2. DOMAIN connection = I!Queues /\ \A q \in I!Queues : connection[q] = {}
    OBVIOUS
  <1>3. I!TypeOK
    BY <1>2, BoundsAssumption DEF I!TypeOK, I!Queues
  <1>4. TypeOK
    BY <1>1, <1>3 DEF TypeOK
  <1>5. PollsCounted /\ QueuedIsCaptured /\ InOnePlace /\ MatchedHaveUser /\ SentIsPublished
        /\ CapturesAccountedFor
    BY <1>2 DEF PollsCounted, QueuedIsCaptured, InOnePlace, MatchedHaveUser, SentIsPublished,
                CapturesAccountedFor, I!Queues, Rest
  <1> QED BY <1>4, <1>5, SeedAssumption DEF FileInv

\* A task of QueryDatabaseTable or a restart: the queues stay as they are.
LEMMA OnlyTask ==
    ASSUME FileInv,
           UNCHANGED <<last, open, users, txns, connection, topic, errorLog, captured, failed>>,
           QdtOK', qdt'.polls = qdt.polls, sent' \in {sent, {}}, crashes' \in 0 .. MaxCrashes
    PROVE  FileInv'
  <1> USE DEF FileInv
  <1>1. TypeOK'
    <2>1. sent' \subseteq connection["matched"]
      BY FlowTyped
    <2> QED BY <2>1, FlowTyped, FlowTypeStep
  <1>2. PollsCounted' /\ QueuedIsCaptured' /\ InOnePlace' /\ MatchedHaveUser'
    <2>1. \A f, g \in sent' : f = g
      BY DEF InOnePlace
    <2> QED BY <2>1, QueuesShrink
  <1>3. SentIsPublished' /\ CapturesAccountedFor'
    BY DEF SentIsPublished, CapturesAccountedFor, Published, Queued
  <1> QED BY <1>1, <1>2, <1>3

\* A flow file leaves a queue: PutFile and PublishKafkaRecord.
LEMMA Leaves ==
    ASSUME FileInv, NEW q \in Rest, NEW f \in connection[q],
           connection' = [connection EXCEPT ![q] = @ \ {f}],
           UNCHANGED <<last, open, users, txns, qdt, captured, crashes>>,
           sent' \subseteq sent, sent' \subseteq connection'["matched"],
           topic' \in Seq(I!Messages), \A g : Published(g) => Published(g)',
           errorLog \subseteq errorLog', errorLog' \subseteq I!Splits,
           failed \subseteq failed', failed' \subseteq I!Splits,
           Kept(f)'
    PROVE  FileInv'
  <1> USE DEF FileInv
  <1>1. DOMAIN connection' = Rest \cup {"success"}
        /\ connection'[q] = connection[q] \ {f}
        /\ \A p \in Rest \cup {"success"} : p # q => connection'[p] = connection[p]
    BY FlowTyped
  <1>2. \A p \in Rest \cup {"success"} : connection'[p] \subseteq connection[p]
    BY <1>1
  <1>3. connection'["success"] = connection["success"]
    BY <1>1 DEF Rest
  <1>4. TypeOK'
    <2>1. QdtOK' /\ crashes' \in 0 .. MaxCrashes /\ captured' \subseteq I!Splits
      BY FlowTyped DEF QdtOK
    <2>2. \A p \in Rest : connection'[p] \subseteq I!Splits
      BY <1>2, FlowTyped
    <2>3. \A g \in connection'["success"] : g.poll \in Nat /\ g.rows \subseteq txns
      BY <1>3, FlowTyped
    <2> QED BY <1>1, <2>1, <2>2, <2>3, FlowTypeStep
  <1>5. PollsCounted' /\ QueuedIsCaptured' /\ InOnePlace' /\ MatchedHaveUser'
    <2>1. \A g, h \in sent' : g = h
      BY DEF InOnePlace
    <2> QED BY <1>2, <2>1, QueuesShrink
  <1>6. SentIsPublished'
    BY DEF SentIsPublished
  <1>7. CapturesAccountedFor'
    <2>1. ASSUME NEW g \in captured, Queued(g) PROVE Kept(g)'
      <3>1. CASE g = f
        BY <3>1
      <3>2. CASE g # f
        BY <1>1, <1>3, <2>1, <3>2 DEF Queued, Kept, Rest
      <3> QED BY <3>1, <3>2
    <2> QED BY <2>1, KeptStays
  <1> QED BY <1>4, <1>5, <1>6, <1>7

\* LookupRecord: a split joins the matched ones, if it has a user, or the others.
LEMMA Joins ==
    ASSUME FileInv, NEW to \in {"matched", "failure"}, NEW f \in connection["split"],
           to = "matched" => I!UserOf(f) # {},
           connection' = [connection EXCEPT !["split"] = @ \ {f}, ![to] = @ \cup {f}],
           UNCHANGED <<last, open, users, txns, qdt, sent, topic, errorLog, captured, failed,
                       crashes>>
    PROVE  FileInv'
  <1> USE DEF FileInv
  <1>1. DOMAIN connection' = Rest \cup {"success"}
        /\ connection'["split"] = connection["split"] \ {f}
        /\ connection'[to] = connection[to] \cup {f}
        /\ \A p \in Rest \cup {"success"} : p \notin {"split", to} => connection'[p] = connection[p]
    BY FlowTyped DEF Rest
  <1>2. connection'["success"] = connection["success"]
    BY <1>1 DEF Rest
  <1>3. f \in captured /\ f \in I!Splits
    BY FlowTyped DEF QueuedIsCaptured, Rest
  <1>4. TypeOK'
    <2>1. QdtOK' /\ crashes' \in 0 .. MaxCrashes /\ captured' \subseteq I!Splits
          /\ topic' \in Seq(I!Messages) /\ errorLog' \subseteq I!Splits /\ failed' \subseteq I!Splits
      BY FlowTyped DEF QdtOK
    <2>2. \A p \in Rest : connection'[p] \subseteq I!Splits
      BY <1>1, <1>3, FlowTyped DEF Rest
    <2>3. \A g \in connection'["success"] : g.poll \in Nat /\ g.rows \subseteq txns
      BY <1>2, FlowTyped
    <2>4. sent' \subseteq connection'["matched"]
      BY <1>1, FlowTyped DEF Rest
    <2> QED BY <1>1, <2>1, <2>2, <2>3, <2>4, FlowTypeStep
  <1>5. PollsCounted'
    BY <1>2 DEF PollsCounted
  <1>6. QueuedIsCaptured'
    BY <1>1, <1>2, <1>3 DEF QueuedIsCaptured, Rest
  <1>7. InOnePlace'
    BY <1>1, <1>2 DEF InOnePlace, Rest
  <1>8. MatchedHaveUser'
    BY <1>1 DEF MatchedHaveUser, I!UserOf, Rest
  <1>9. SentIsPublished'
    BY DEF SentIsPublished, Published
  <1>10. CapturesAccountedFor'
    <2>1. ASSUME NEW g \in captured, Queued(g) PROVE Queued(g)'
      BY <1>1, <1>2, <2>1 DEF Queued, Rest
    <2>2. \A g : Published(g) => Published(g)'
      BY DEF Published
    <2> QED BY <2>1, <2>2, KeptStays DEF Kept
  <1> QED BY <1>4, <1>5, <1>6, <1>7, <1>8, <1>9, <1>10

\* SplitAvro: the rows of a result become flow files of its poll.
LEMMA Splitting ==
    ASSUME FileInv, NEW g \in connection["success"],
           connection' = [connection EXCEPT !["success"] = @ \ {g},
                                            !["split"] = @ \cup [poll : {g.poll}, row : g.rows]],
           UNCHANGED <<last, open, users, txns, qdt, sent, topic, errorLog, captured, failed,
                       crashes>>
    PROVE  FileInv'
  <1> USE DEF FileInv
  <1> DEFINE parts == [poll : {g.poll}, row : g.rows]
  <1>1. DOMAIN connection' = Rest \cup {"success"}
        /\ connection'["success"] = connection["success"] \ {g}
        /\ connection'["split"] = connection["split"] \cup parts
        /\ connection'["matched"] = connection["matched"]
        /\ connection'["failure"] = connection["failure"]
    BY FlowTyped DEF Rest
  <1>2. parts \subseteq captured /\ parts \subseteq I!Splits
    BY FlowTyped DEF QueuedIsCaptured
  <1>3. \A f \in parts : f.poll = g.poll
    OBVIOUS
  <1> HIDE DEF parts
  <1>4. TypeOK'
    <2>1. QdtOK' /\ crashes' \in 0 .. MaxCrashes /\ captured' \subseteq I!Splits
          /\ topic' \in Seq(I!Messages) /\ errorLog' \subseteq I!Splits /\ failed' \subseteq I!Splits
      BY FlowTyped DEF QdtOK
    <2>2. \A p \in Rest : connection'[p] \subseteq I!Splits
      BY <1>1, <1>2, FlowTyped DEF Rest
    <2>3. \A h \in connection'["success"] : h.poll \in Nat /\ h.rows \subseteq txns
      BY <1>1, FlowTyped
    <2>4. sent' \subseteq connection'["matched"]
      BY <1>1, FlowTyped
    <2> QED BY <1>1, <2>1, <2>2, <2>3, <2>4, FlowTypeStep
  <1>5. PollsCounted'
    BY <1>1 DEF PollsCounted
  <1>6. QueuedIsCaptured'
    BY <1>1, <1>2 DEF QueuedIsCaptured, Rest
  <1>7. InOnePlace'
    BY <1>1, <1>3 DEF InOnePlace, Rest
  <1>8. MatchedHaveUser' /\ SentIsPublished'
    BY <1>1 DEF MatchedHaveUser, I!UserOf, SentIsPublished, Published
  <1>9. CapturesAccountedFor'
    <2>1. ASSUME NEW f \in captured, Queued(f) PROVE Queued(f)'
      <3>1. CASE f.poll = g.poll /\ f.row \in g.rows
        <4>1. f \in I!Splits
          BY FlowTyped
        <4>2. f = [poll |-> f.poll, row |-> f.row]
          BY <4>1 DEF I!Splits
        <4>3. f \in parts
          BY <3>1, <4>2 DEF parts
        <4> QED BY <1>1, <4>3 DEF Queued
      <3>2. CASE ~(f.poll = g.poll /\ f.row \in g.rows)
        BY <1>1, <2>1, <3>2 DEF Queued
      <3> QED BY <3>1, <3>2
    <2>2. \A f : Published(f) => Published(f)'
      BY DEF Published
    <2> QED BY <2>1, <2>2, KeptStays DEF Kept
  <1> QED BY <1>4, <1>5, <1>6, <1>7, <1>8, <1>9

\* A poll that finds rows queues one result, whose poll no file bears yet.
LEMMA Polling ==
    ASSUME FileInv, NEW rows \in SUBSET txns, NEW max \in Nat,
           qdt' = [qdt EXCEPT !.task = "polled", !.cursor = max, !.polls = qdt.polls + 1],
           connection' = [connection EXCEPT !["success"] =
                             @ \cup {[poll |-> qdt.polls + 1, rows |-> rows]}],
           captured' = captured \cup [poll : {qdt.polls + 1}, row : rows],
           UNCHANGED <<last, open, users, txns, sent, topic, errorLog, failed, crashes>>
    PROVE  FileInv'
  <1> USE DEF FileInv
  <1> DEFINE n == qdt.polls + 1
             parts == [poll : {n}, row : rows]
             g == [poll |-> n, rows |-> rows]
  <1>1. QdtOK /\ QdtOK' /\ qdt'.polls = n /\ qdt.polls \in Nat
    <2>1. QdtOK
      BY FlowTyped
    <2>2. qdt' = [task |-> "polled", state |-> qdt.state, cursor |-> max, polls |-> n]
      BY <2>1 DEF QdtOK
    <2> QED BY <2>1, <2>2 DEF QdtOK
  <1>2. DOMAIN connection' = Rest \cup {"success"}
        /\ connection'["success"] = connection["success"] \cup {g}
        /\ \A q \in Rest : connection'[q] = connection[q]
    BY FlowTyped DEF Rest
  <1>3. \A f \in parts : f.poll = n /\ f.row \in rows /\ f \in I!Splits
    BY <1>1 DEF I!Splits
  <1>4. g.poll = n /\ g.rows = rows /\ [poll : {g.poll}, row : g.rows] = parts
    OBVIOUS
  <1>5. captured' = captured \cup parts
    OBVIOUS
  <1> HIDE DEF parts, g
  <1>6. TypeOK'
    <2>1. captured' \subseteq I!Splits
      BY <1>3, <1>5, FlowTyped
    <2>2. \A h \in connection'["success"] : h.poll \in Nat /\ h.rows \subseteq txns
      BY <1>1, <1>2, <1>4, FlowTyped
    <2>3. \A q \in Rest : connection'[q] \subseteq I!Splits
      BY <1>2, FlowTyped
    <2>4. sent' \subseteq connection'["matched"]
      BY <1>2, FlowTyped DEF Rest
    <2>5. topic' \in Seq(I!Messages) /\ errorLog' \subseteq I!Splits /\ failed' \subseteq I!Splits
          /\ crashes' \in 0 .. MaxCrashes
      BY FlowTyped
    <2> QED BY <1>1, <1>2, <2>1, <2>2, <2>3, <2>4, <2>5, FlowTypeStep
  <1>7. PollsCounted'
    BY <1>1, <1>2, <1>3, <1>4, <1>5 DEF PollsCounted
  <1>8. QueuedIsCaptured'
    BY <1>2, <1>4, <1>5 DEF QueuedIsCaptured
  <1>9. InOnePlace'
    <2>1. \A f \in captured : f.poll # n
      BY <1>1 DEF PollsCounted
    <2>2. \A h \in connection["success"] : h.poll # n
      BY <1>1 DEF PollsCounted
    <2>3. \A q \in Rest : \A f \in connection[q] : f.poll # n
      BY <2>1 DEF QueuedIsCaptured
    <2> QED BY <1>2, <1>4, <2>2, <2>3 DEF InOnePlace
  <1>10. MatchedHaveUser' /\ SentIsPublished'
    BY <1>2 DEF MatchedHaveUser, I!UserOf, SentIsPublished, Published, Rest
  <1>11. CapturesAccountedFor'
    <2>1. ASSUME NEW f \in captured, Queued(f) PROVE Queued(f)'
      BY <1>2, <2>1 DEF Queued, Rest
    <2>2. ASSUME NEW f \in parts PROVE Queued(f)'
      BY <1>2, <1>3, <1>4 DEF Queued
    <2>3. \A f : Published(f) => Published(f)'
      BY DEF Published
    <2> QED BY <1>5, <2>1, <2>2, <2>3, KeptStays DEF Kept
  <1> QED BY <1>6, <1>7, <1>8, <1>9, <1>10, <1>11

\* SplitAvro drops a result it cannot read: its rows are given up.
LEMMA Dropping ==
    ASSUME FileInv, NEW g \in connection["success"],
           connection' = [connection EXCEPT !["success"] = @ \ {g}],
           failed' = failed \cup [poll : {g.poll}, row : g.rows],
           UNCHANGED <<last, open, users, txns, qdt, sent, topic, errorLog, captured, crashes>>
    PROVE  FileInv'
  <1> USE DEF FileInv
  <1> DEFINE parts == [poll : {g.poll}, row : g.rows]
  <1>1. DOMAIN connection' = Rest \cup {"success"}
        /\ connection'["success"] = connection["success"] \ {g}
        /\ \A q \in Rest : connection'[q] = connection[q]
    BY FlowTyped DEF Rest
  <1>2. parts \subseteq I!Splits /\ failed' = failed \cup parts
    BY FlowTyped DEF QueuedIsCaptured
  <1> HIDE DEF parts
  <1>3. TypeOK'
    <2>1. QdtOK' /\ crashes' \in 0 .. MaxCrashes /\ captured' \subseteq I!Splits
          /\ topic' \in Seq(I!Messages) /\ errorLog' \subseteq I!Splits /\ failed' \subseteq I!Splits
      BY <1>2, FlowTyped DEF QdtOK
    <2>2. \A q \in Rest : connection'[q] \subseteq I!Splits
      BY <1>1, FlowTyped
    <2>3. \A h \in connection'["success"] : h.poll \in Nat /\ h.rows \subseteq txns
      BY <1>1, FlowTyped
    <2>4. sent' \subseteq connection'["matched"]
      BY <1>1, FlowTyped DEF Rest
    <2> QED BY <1>1, <2>1, <2>2, <2>3, <2>4, FlowTypeStep
  <1>4. PollsCounted' /\ QueuedIsCaptured' /\ InOnePlace' /\ MatchedHaveUser'
    <2>1. \A q \in Rest \cup {"success"} : connection'[q] \subseteq connection[q]
      BY <1>1
    <2>2. \A e, f \in sent' : e = f
      BY DEF InOnePlace
    <2> QED BY <2>1, <2>2, QueuesShrink
  <1>5. SentIsPublished'
    BY DEF SentIsPublished, Published
  <1>6. CapturesAccountedFor'
    <2>1. ASSUME NEW f \in captured, Queued(f) PROVE Queued(f)' \/ f \in failed'
      <3>1. CASE f.poll = g.poll /\ f.row \in g.rows
        <4>1. f \in I!Splits
          BY FlowTyped
        <4>2. f = [poll |-> f.poll, row |-> f.row]
          BY <4>1 DEF I!Splits
        <4>3. f \in parts
          BY <3>1, <4>2 DEF parts
        <4> QED BY <1>2, <4>3
      <3>2. CASE ~(f.poll = g.poll /\ f.row \in g.rows)
        BY <1>1, <2>1, <3>2 DEF Queued, Rest
      <3> QED BY <3>1, <3>2
    <2>2. \A f : Published(f) => Published(f)'
      BY DEF Published
    <2> QED BY <1>2, <2>1, <2>2, KeptStays DEF Kept
  <1> QED BY <1>3, <1>4, <1>5, <1>6

LEMMA CaptureKeepsFiles ==
    ASSUME FileInv, UNCHANGED <<last, open>>, I!Capture
    PROVE  FileInv'
  <1>0. QdtOK /\ QdtOK /\ crashes \in 0 .. MaxCrashes
    BY FlowTyped DEF FileInv
  <1>i. \A rows : rows \subseteq txns => \A m \in I!Ids(rows) : m \in Nat
    BY DEF FileInv, TypeOK, I!Ids
  <1>1. CASE I!Poll
    <2> DEFINE new == {r \in txns : r.transaction_id > qdt.cursor}
    <2>1. new \subseteq txns
      OBVIOUS
    <2>2. PICK max \in I!Ids(new) :
             /\ qdt' = [qdt EXCEPT !.task = "polled", !.cursor = max, !.polls = qdt.polls + 1]
             /\ connection' = [connection EXCEPT !["success"] =
                                  @ \cup {[poll |-> qdt.polls + 1, rows |-> new]}]
             /\ captured' = captured \cup [poll : {qdt.polls + 1}, row : new]
      BY <1>1 DEF I!Poll
    <2> HIDE DEF new
    <2>3. max \in Nat
      BY <1>i, <2>1
    <2>4. UNCHANGED <<last, open, users, txns, sent, topic, errorLog, failed, crashes>>
      BY <1>1 DEF I!Poll
    <2> QED BY <2>1, <2>2, <2>3, <2>4, Polling
  <1>2. CASE I!SaveState
    <2>1. QdtOK' /\ qdt'.polls = qdt.polls
      BY <1>0, <1>2 DEF I!SaveState, QdtOK
    <2> QED BY <1>0, <1>2, <2>1, OnlyTask DEF I!SaveState
  <1> QED BY <1>1, <1>2 DEF I!Capture

LEMMA WorkKeepsFiles ==
    ASSUME FileInv, UNCHANGED <<last, open>>, I!Work
    PROVE  FileInv'
  <1> USE DEF FileInv
  <1>q. /\ errorLog \subseteq I!Splits /\ failed \subseteq I!Splits /\ topic \in Seq(I!Messages)
        /\ sent \subseteq connection["matched"]
        /\ \A q \in Rest : connection[q] \subseteq I!Splits
    BY FlowTyped
  <1>p. UNCHANGED topic => \A g : Published(g) => Published(g)'
    BY DEF Published
  <1>1. ASSUME NEW g \in connection["success"], I!Split(g) PROVE FileInv'
    BY <1>1, Splitting DEF I!Split
  <1>2. ASSUME NEW f \in connection["split"], I!LookupMatched(f) PROVE FileInv'
    BY <1>2, Joins DEF I!LookupMatched, I!Move
  <1>3. ASSUME NEW f \in connection["split"], I!LookupUnmatched(f) PROVE FileInv'
    BY <1>3, Joins DEF I!LookupUnmatched, I!Move
  <1>4. ASSUME NEW f \in connection["failure"], I!PutFile(f) PROVE FileInv'
    <2>1. /\ connection' = [connection EXCEPT !["failure"] = @ \ {f}]
          /\ UNCHANGED <<last, open, users, txns, qdt, sent, topic, captured, failed, crashes>>
      BY <1>4 DEF I!PutFile, I!Take
    <2>2. f \in I!Splits /\ errorLog' \in {errorLog, errorLog \cup {f}}
      BY <1>q, <1>4 DEF I!PutFile, Rest
    <2>3. connection'["matched"] = connection["matched"]
      BY <2>1
    \* Either the file is written or another file of its poll is in its place.
    <2>4. Kept(f)'
      BY <1>4 DEF I!PutFile, I!Written, Kept
    <2> QED BY <1>q, <1>p, <2>1, <2>2, <2>3, <2>4, Leaves DEF Rest
  <1>5. ASSUME NEW f \in connection["matched"], I!Publish(f) PROVE FileInv'
    <2>1. /\ topic' = Append(topic, I!Message(f, TRUE)) /\ sent' = {f}
          /\ UNCHANGED <<last, open, users, txns, qdt, connection, errorLog, captured, failed,
                         crashes>>
      BY <1>5 DEF I!Publish
    <2>2. I!Message(f, TRUE) \in I!Messages
      BY <1>q, MessageTyped DEF MatchedHaveUser, Rest
    <2>3. /\ topic' \in Seq(I!Messages)
          /\ \A g : Published(g) => Published(g)'
          /\ Published(f)'
      BY <1>q, <2>1, <2>2, LogGrows DEF I!Message
    <2>4. TypeOK'
      BY <2>1, <2>3, FlowTyped, FlowTypeStep DEF QdtOK
    <2>5. PollsCounted' /\ QueuedIsCaptured' /\ InOnePlace' /\ MatchedHaveUser'
      <3>1. \A g, h \in sent' : g = h
        BY <2>1
      <3> QED BY <2>1, <3>1, QueuesShrink
    <2>6. SentIsPublished'
      BY <2>1, <2>3 DEF SentIsPublished
    <2>7. CapturesAccountedFor'
      <3>1. \A g \in captured : Queued(g) => Kept(g)'
        BY <2>1 DEF Queued, Kept
      <3> QED BY <2>1, <2>3, <3>1, KeptStays
    <2> QED BY <2>1, <2>4, <2>5, <2>6, <2>7
  <1>6. ASSUME NEW f \in connection["matched"], I!PublishDone(f) PROVE FileInv'
    <2>1. /\ connection' = [connection EXCEPT !["matched"] = @ \ {f}] /\ sent' = {}
          /\ UNCHANGED <<last, open, users, txns, qdt, topic, errorLog, captured, failed, crashes>>
      BY <1>6 DEF I!PublishDone, I!Take
    <2>2. Kept(f)'
      BY <1>6, <2>1 DEF I!PublishDone, SentIsPublished, Published, Kept
    <2> QED BY <1>q, <1>p, <2>1, <2>2, Leaves DEF Rest
  <1> QED BY <1>1, <1>2, <1>3, <1>4, <1>5, <1>6 DEF I!Work

LEMMA FaultKeepsFiles ==
    ASSUME FileInv, UNCHANGED <<last, open>>, I!Fault
    PROVE  FileInv'
  <1> USE DEF FileInv
  <1>q. /\ errorLog \subseteq I!Splits /\ failed \subseteq I!Splits /\ topic \in Seq(I!Messages)
        /\ sent \subseteq connection["matched"] /\ QdtOK /\ crashes \in 0 .. MaxCrashes
        /\ \A q \in Rest : connection[q] \subseteq I!Splits
    BY FlowTyped
  <1>1. ASSUME NEW f \in connection["failure"], I!PutFileFails(f) PROVE FileInv'
    <2>1. /\ connection' = [connection EXCEPT !["failure"] = @ \ {f}]
          /\ failed' = failed \cup {f}
          /\ UNCHANGED <<last, open, users, txns, qdt, sent, topic, errorLog, captured, crashes>>
      BY <1>1 DEF I!PutFileFails, I!Take
    <2>2. f \in I!Splits /\ connection'["matched"] = connection["matched"]
      BY <1>q, <2>1 DEF Rest
    <2>3. Kept(f)' /\ \A g : Published(g) => Published(g)'
      BY <2>1 DEF Kept, Published
    <2> QED BY <1>q, <2>1, <2>2, <2>3, Leaves DEF Rest
  <1>2. ASSUME NEW f \in connection["matched"], I!PublishFails(f) PROVE FileInv'
    <2>1. /\ connection' = [connection EXCEPT !["matched"] = @ \ {f}]
          /\ failed' = failed \cup {f} /\ sent = {}
          /\ UNCHANGED <<last, open, users, txns, qdt, sent, errorLog, captured, crashes>>
      BY <1>2 DEF I!PublishFails, I!Take
    <2>2. topic' \in Seq(I!Messages) /\ \A g : Published(g) => Published(g)'
      <3>1. PICK ok \in BOOLEAN : topic' \in {topic, Append(topic, I!Message(f, ok))}
        BY <1>2 DEF I!PublishFails
      <3>2. I!Message(f, ok) \in I!Messages
        BY <1>q, MessageTyped DEF MatchedHaveUser, Rest
      <3> QED BY <1>q, <3>1, <3>2, LogGrows
    <2>3. f \in I!Splits
      BY <1>q DEF Rest
    <2>4. Kept(f)'
      BY <2>1 DEF Kept
    <2> QED BY <1>q, <2>1, <2>2, <2>3, <2>4, Leaves DEF Rest
  <1>3. CASE I!Crash
    <2>1. QdtOK' /\ qdt'.polls = qdt.polls
      BY <1>q, <1>3 DEF I!Crash, QdtOK
    <2>2. crashes' \in 0 .. MaxCrashes
      BY <1>q, <1>3, BoundsAssumption DEF I!Crash
    <2> QED BY <1>3, <2>1, <2>2, OnlyTask DEF I!Crash
  <1>4. ASSUME NEW g \in connection["success"], I!SplitFails(g) PROVE FileInv'
    BY <1>4, Dropping DEF I!SplitFails, I!Take
  <1> QED BY <1>1, <1>2, <1>3, <1>4 DEF I!Fault

\* The store and the users only grow, which the flow's types allow for.
LEMMA FilesStay ==
    ASSUME FileInv, UNCHANGED flowVars, txns \subseteq txns', IsFiniteSet(txns'),
           users \subseteq users', users' \subseteq SeedUsers \cup NewUsers,
           last' \in Nat, \A r \in txns' \cup open' : r.transaction_id \in 1 .. last'
    PROVE  FileInv'
  <1> USE DEF FileInv
  <1>1. I!TypeOK'
    <2>1. I!Splits \subseteq I!Splits' /\ I!Messages \subseteq I!Messages'
      BY FilesGrow
    <2>2. topic' \in Seq(I!Messages')
      BY <2>1, FlowTyped DEF flowVars
    <2>3. I!TypeOK
      BY DEF TypeOK
    <2> QED BY <2>1, <2>2, <2>3 DEF I!TypeOK, I!Queues, flowVars
  <1>2. TypeOK'
    BY <1>1 DEF TypeOK
  <1>3. PollsCounted' /\ QueuedIsCaptured' /\ InOnePlace' /\ MatchedHaveUser'
    BY DEF flowVars, PollsCounted, QueuedIsCaptured, InOnePlace, MatchedHaveUser, I!UserOf
  <1>4. SentIsPublished' /\ CapturesAccountedFor'
    BY DEF flowVars, SentIsPublished, CapturesAccountedFor, Queued, Published
  <1> QED BY <1>2, <1>3, <1>4

LEMMA FileInvStep == FileInv /\ [Next]_vars => FileInv'
  <1> SUFFICES ASSUME FileInv, [Next]_vars PROVE FileInv'
    OBVIOUS
  <1>n. /\ IsFiniteSet(txns) /\ last \in Nat /\ users \subseteq SeedUsers \cup NewUsers
        /\ \A r \in txns \cup open : r.transaction_id \in 1 .. last
    BY DEF FileInv, TypeOK
  <1>1. CASE Insert
    <2>1. PICK b \in Bodies : /\ last' = last + 1
                              /\ open' = open \cup {S!Row(last + 1, b)}
                              /\ txns' = txns
      BY <1>1 DEF Insert, S!Draw
    <2>2. S!Row(last + 1, b).transaction_id = last + 1
      BY DEF S!Row
    <2> QED BY <1>n, <1>1, <2>1, <2>2, FilesStay DEF Insert
  <1>2. CASE EndInsert
    <2>1. UNCHANGED <<users, flowVars>>
      BY <1>2 DEF EndInsert
    <2>2. CASE \E r \in open : S!Commit(r)
      <3>1. PICK r \in open : txns' = txns \cup {r} /\ open' = open \ {r} /\ last' = last
        BY <2>2 DEF S!Commit
      <3>2. IsFiniteSet(txns')
        BY <1>n, <3>1, FS_AddElement
      <3> QED BY <1>n, <2>1, <3>1, <3>2, FilesStay
    <2>3. CASE \E rows \in SUBSET open : S!Abort(rows)
      <3>1. open' \subseteq open /\ UNCHANGED <<txns, last>>
        BY <2>3 DEF S!Abort
      <3> QED BY <1>n, <2>1, <3>1, FilesStay
    <2> QED BY <1>2, <2>2, <2>3 DEF EndInsert
  <1>3. CASE SignUp
    <2>1. users \subseteq users' /\ users' \subseteq SeedUsers \cup NewUsers
          /\ UNCHANGED <<storeVars, flowVars>>
      BY <1>n, <1>3 DEF SignUp
    <2> QED BY <1>n, <2>1, FilesStay DEF storeVars
  <1>4. CASE Flow
    BY <1>4, CaptureKeepsFiles, WorkKeepsFiles, FaultKeepsFiles DEF Flow, Beside, I!Next
  <1>5. CASE UNCHANGED vars
    BY <1>n, <1>5, FilesStay DEF vars, storeVars
  <1> QED BY <1>1, <1>2, <1>3, <1>4, <1>5 DEF Next

\* The types of Intake hold: a flow file is a stored row of some poll.
THEOREM TypesHold == Spec => []TypeOK
  <1>1. FileInv => TypeOK
    BY DEF FileInv
  <1> QED BY FileInvInit, FileInvStep, <1>1, PTL DEF Spec

\* Nothing that was read gets lost on its way through the flow, for any rows,
\* users, restarts and back pressure: it is queued, published, in the error
\* directory, given up after an error, or its poll has another error file.
THEOREM NothingIsLost == Spec => []CapturesAccountedFor
  <1>1. FileInv => CapturesAccountedFor
    BY DEF FileInv
  <1> QED BY FileInvInit, FileInvStep, <1>1, PTL DEF Spec

-----------------------------------------------------------------------------
(* Copies: a row is read at most once for each start of the cursor below its *)
(* id, and the cursor falls back only when NiFi restarts.                    *)

CursorAtRest == qdt.task = "idle" => qdt.cursor = qdt.state

CopiesCounted ==
    \A r \in txns :
        /\ IsFiniteSet(Copies(r))
        /\ Cardinality(Copies(r)) <= crashes + 1
        /\ qdt.cursor < r.transaction_id => Cardinality(Copies(r)) <= crashes

CopiesInv == CursorAtRest /\ CopiesCounted

\* The cursor does not fall and nothing is read.
LEMMA CopiesStay ==
    ASSUME FileInv, CopiesCounted, txns' = txns, captured' = captured, crashes' = crashes,
           qdt'.cursor \in Nat, qdt.cursor <= qdt'.cursor
    PROVE  CopiesCounted'
  <1>1. \A r \in txns : r.transaction_id \in Nat /\ qdt.cursor \in Nat
    BY FlowTyped DEF FileInv, TypeOK, QdtOK
  <1>2. \A r \in txns : Copies(r)' = Copies(r)
    BY DEF Copies
  <1> QED BY <1>1, <1>2 DEF CopiesCounted

LEMMA CopiesInvInit == Init => CopiesInv
  <1> SUFFICES ASSUME Init PROVE CopiesInv
    OBVIOUS
  <1>1. \A r : Copies(r) = {}
    BY DEF Init, I!Init, Copies
  <1>2. crashes = 0 /\ qdt.cursor = qdt.state
    BY DEF Init, I!Init
  <1> QED BY <1>1, <1>2, FS_EmptySet DEF CopiesInv, CursorAtRest, CopiesCounted

LEMMA CopiesInvStep == FileInv /\ CopiesInv /\ [Next]_vars => CopiesInv'
  <1> SUFFICES ASSUME FileInv, CopiesInv, [Next]_vars PROVE CopiesInv'
    OBVIOUS
  <1>t. /\ QdtOK /\ qdt.cursor \in Nat /\ qdt.state \in Nat /\ qdt.polls \in Nat
        /\ crashes \in Nat /\ captured \subseteq I!Splits
        /\ \A r \in txns : r.transaction_id \in Nat /\ r.transaction_id > 0
    BY FlowTyped, BoundsAssumption DEF FileInv, TypeOK, QdtOK
  <1>i. \A m \in I!Ids(txns) : m \in Nat
    BY <1>t DEF I!Ids
  <1>c. CursorAtRest /\ CopiesCounted
    BY DEF CopiesInv
  <1>1. CASE UNCHANGED flowVars /\ txns \subseteq txns'
    <2>1. \A r : Copies(r)' = Copies(r)
      BY <1>1 DEF flowVars, Copies
    <2>2. \A r : r \notin txns => Copies(r) = {}
      BY <1>t DEF Copies, I!Splits
    <2>3. CopiesCounted'
      <3>1. ASSUME NEW r \in txns
            PROVE  /\ IsFiniteSet(Copies(r)')
                   /\ Cardinality(Copies(r)') <= crashes' + 1
                   /\ qdt'.cursor < r.transaction_id => Cardinality(Copies(r)') <= crashes'
        BY <1>1, <1>c, <2>1 DEF flowVars, CopiesCounted
      <3>2. ASSUME NEW r \in txns' \ txns
            PROVE  /\ IsFiniteSet(Copies(r)')
                   /\ Cardinality(Copies(r)') <= crashes' + 1
                   /\ Cardinality(Copies(r)') <= crashes'
        BY <1>1, <1>t, <2>1, <2>2, FS_EmptySet DEF flowVars
      <3> QED BY <3>1, <3>2 DEF CopiesCounted
    <2>4. CursorAtRest'
      BY <1>1, <1>c DEF flowVars, CursorAtRest
    <2> QED BY <2>3, <2>4 DEF CopiesInv
  <1>2. CASE I!Poll
    <2> DEFINE new == {r \in txns : r.transaction_id > qdt.cursor}
    <2>1. PICK max \in I!Ids(new) :
             /\ I!Highest(max, I!Ids(new))
             /\ qdt' = [qdt EXCEPT !.task = "polled", !.cursor = max, !.polls = qdt.polls + 1]
             /\ captured' = captured \cup [poll : {qdt.polls + 1}, row : new]
      BY <1>2 DEF I!Poll
    <2>2. max \in Nat /\ qdt.cursor < max
      BY <1>t DEF I!Ids
    <2>3. qdt'.cursor = max /\ qdt'.task = "polled"
      BY <1>t, <2>1 DEF QdtOK
    <2>4. \A r \in new : r.transaction_id <= max
      BY <2>1 DEF I!Highest, I!Ids
    <2>5. crashes' = crashes /\ txns' = txns
      BY <1>2 DEF I!Poll
    \* A row above the cursor gains one copy and is below the cursor then.
    <2>6. ASSUME NEW r \in txns, r.transaction_id > qdt.cursor
          PROVE  /\ IsFiniteSet(Copies(r)')
                 /\ Cardinality(Copies(r)') <= crashes + 1
                 /\ r.transaction_id <= max
      <3>1. Copies(r)' = Copies(r) \cup {[poll |-> qdt.polls + 1, row |-> r]}
        BY <2>1, <2>6 DEF Copies
      <3>2. IsFiniteSet(Copies(r)) /\ Cardinality(Copies(r)) <= crashes
            /\ Cardinality(Copies(r)) \in Nat
        BY <1>c, <2>6, FS_CardinalityType DEF CopiesCounted
      <3>3. \A A, c : IsFiniteSet(A) =>
               /\ IsFiniteSet(A \cup {c})
               /\ Cardinality(A \cup {c}) \in {Cardinality(A), Cardinality(A) + 1}
        BY FS_AddElement
      <3>4. /\ IsFiniteSet(Copies(r)')
            /\ Cardinality(Copies(r)') \in {Cardinality(Copies(r)), Cardinality(Copies(r)) + 1}
        BY <3>1, <3>2, <3>3
      <3> QED BY <1>t, <2>4, <2>6, <3>2, <3>4
    <2>7. ASSUME NEW r \in txns, ~(r.transaction_id > qdt.cursor)
          PROVE  Copies(r)' = Copies(r) /\ ~(max < r.transaction_id)
      <3>1. Copies(r)' = Copies(r)
        BY <2>1, <2>7 DEF Copies
      <3> QED BY <1>t, <2>2, <2>7, <3>1
    <2>8. CopiesCounted'
      <3>1. ASSUME NEW r \in txns
            PROVE  /\ IsFiniteSet(Copies(r)')
                   /\ Cardinality(Copies(r)') <= crashes + 1
                   /\ ~(max < r.transaction_id)
        <4>1. CASE r.transaction_id > qdt.cursor
          BY <1>t, <2>2, <2>6, <4>1
        <4>2. CASE ~(r.transaction_id > qdt.cursor)
          BY <1>c, <2>7, <4>2 DEF CopiesCounted
        <4> QED BY <4>1, <4>2
      <3> QED BY <2>3, <2>5, <3>1 DEF CopiesCounted
    <2> QED BY <2>3, <2>8 DEF CopiesInv, CursorAtRest
  <1>3. CASE I!SaveState
    <2>1. qdt' = [task |-> "idle", state |-> qdt.cursor, cursor |-> qdt.cursor, polls |-> qdt.polls]
      BY <1>3, <1>t DEF I!SaveState, QdtOK
    <2>2. CopiesCounted'
      BY <1>3, <1>t, <1>c, <2>1, CopiesStay DEF I!SaveState
    <2> QED BY <2>1, <2>2 DEF CopiesInv, CursorAtRest
  <1>4. CASE I!Crash
    <2>1. qdt' = [task |-> "idle", state |-> qdt.state, cursor |-> qdt.state, polls |-> qdt.polls]
      BY <1>4, <1>t DEF I!Crash, QdtOK
    <2>2. crashes' = crashes + 1 /\ captured' = captured /\ txns' = txns
      BY <1>4 DEF I!Crash
    <2>3. ASSUME NEW r \in txns
          PROVE  /\ IsFiniteSet(Copies(r)')
                 /\ Cardinality(Copies(r)') <= crashes' + 1
                 /\ Cardinality(Copies(r)') <= crashes'
      <3>1. Copies(r)' = Copies(r)
        BY <2>2 DEF Copies
      <3>2. Cardinality(Copies(r)) \in Nat
        BY <1>c, FS_CardinalityType DEF CopiesCounted
      <3> QED BY <1>t, <1>c, <2>2, <3>1, <3>2 DEF CopiesCounted
    <2> QED BY <2>1, <2>2, <2>3 DEF CopiesInv, CursorAtRest, CopiesCounted
  <1>5. CASE UNCHANGED <<qdt, txns, captured, crashes>>
    BY <1>5, <1>t, <1>c, CopiesStay DEF CopiesInv, CursorAtRest
  <1> QED
    <2>1. CASE Insert \/ EndInsert \/ SignUp \/ UNCHANGED vars
      <3>1. UNCHANGED flowVars /\ txns \subseteq txns'
        BY <2>1 DEF Insert, EndInsert, SignUp, S!Draw, S!Commit, S!Abort, vars, storeVars
      <3> QED BY <1>1, <3>1
    <2>2. CASE Flow
      BY <1>2, <1>3, <1>4, <1>5, <2>2
         DEF Flow, I!Next, I!Capture, I!Work, I!Fault, I!Split, I!SplitFails, I!LookupMatched,
             I!LookupUnmatched, I!PutFile, I!PutFileFails, I!Publish, I!PublishDone,
             I!PublishFails
    <2> QED BY <2>1, <2>2 DEF Next

\* A row is read once, and once more at most for every restart.
THEOREM ReadOncePerStart == Spec => []CapturedOnce
  <1>1. Init => FileInv /\ CopiesInv
    BY FileInvInit, CopiesInvInit
  <1>2. FileInv /\ CopiesInv /\ [Next]_vars => (FileInv /\ CopiesInv)'
    BY FileInvStep, CopiesInvStep
  <1>3. FileInv /\ CopiesInv => CapturedOnce
    <2>1. FileInv => crashes \in Nat
      BY FlowTyped, BoundsAssumption DEF FileInv
    <2>2. CopiesInv => \A r \in txns : Cardinality(Copies(r)) \in Nat
      BY FS_CardinalityType DEF CopiesInv, CopiesCounted
    <2> QED BY <2>1, <2>2 DEF CopiesInv, CopiesCounted, CapturedOnce
  <1> QED BY <1>1, <1>2, <1>3, PTL DEF Spec

-----------------------------------------------------------------------------
(* Publications: each needs a copy of its row that is past the publisher, or *)
(* a restart that put such a copy back.                                      *)

Waiting(f) ==
    \/ \E g \in connection["success"] : g.poll = f.poll /\ f.row \in g.rows
    \/ f \in connection["split"] \/ f \in connection["failure"]
    \/ f \in connection["matched"] \ sent

Done(r) == {f \in Copies(r) : ~Waiting(f)}
Publications(r) == {i \in 1 .. Len(topic) : topic[i].split.row = r /\ topic[i].committed}

PublicationsCounted ==
    \A r \in txns : Cardinality(Publications(r)) <= Cardinality(Done(r)) + crashes

LEMMA PublicationsFinite ==
    ASSUME FileInv, NEW r
    PROVE  IsFiniteSet(Publications(r)) /\ Cardinality(Publications(r)) \in Nat
  <1>1. Len(topic) \in Nat
    BY FlowTyped DEF FileInv
  <1>2. IsFiniteSet(1 .. Len(topic))
    BY <1>1, FS_Interval
  <1>3. IsFiniteSet(Publications(r))
    BY <1>2, FS_Subset DEF Publications
  <1> QED BY <1>3, FS_CardinalityType

LEMMA DoneFinite ==
    ASSUME CopiesCounted, NEW r \in txns
    PROVE  IsFiniteSet(Done(r)) /\ Cardinality(Done(r)) \in Nat
  <1>1. IsFiniteSet(Done(r))
    BY FS_Subset DEF CopiesCounted, Done
  <1> QED BY <1>1, FS_CardinalityType

\* Nothing is published, and no copy gets in front of the publisher again.
LEMMA DoneStays ==
    ASSUME FileInv, CopiesCounted, CopiesCounted', PublicationsCounted,
           UNCHANGED <<txns, topic, crashes>>, captured \subseteq captured',
           \A f \in captured : Waiting(f)' => Waiting(f)
    PROVE  PublicationsCounted'
  <1> SUFFICES ASSUME NEW r \in txns
               PROVE  Cardinality(Publications(r)') <= Cardinality(Done(r)') + crashes
    BY DEF PublicationsCounted
  <1>1. Publications(r)' = Publications(r)
    BY DEF Publications
  <1>2. Done(r) \subseteq Done(r)'
    BY DEF Done, Copies
  <1>3. IsFiniteSet(Done(r)') /\ Cardinality(Done(r)') \in Nat
    <2>1. IsFiniteSet(Copies(r)') /\ Done(r)' \subseteq Copies(r)'
      BY DEF CopiesCounted, Done
    <2> QED BY <2>1, FS_Subset, FS_CardinalityType
  <1>4. Cardinality(Done(r)) \in Nat /\ Cardinality(Done(r)) <= Cardinality(Done(r)')
    BY <1>2, <1>3, DoneFinite, FS_Subset
  <1>5. Cardinality(Publications(r)) <= Cardinality(Done(r)) + crashes
    BY DEF PublicationsCounted
  <1>6. Cardinality(Publications(r)) \in Nat /\ crashes \in Nat
    BY PublicationsFinite, FlowTyped, BoundsAssumption DEF FileInv
  <1> QED BY <1>1, <1>3, <1>4, <1>5, <1>6

\* A flow file goes past the publisher, with a record or without one.
LEMMA OnePublished ==
    ASSUME FileInv, CopiesCounted, PublicationsCounted,
           UNCHANGED <<txns, captured, crashes>>,
           NEW f \in captured, Waiting(f), ~Waiting(f)',
           \A g \in captured : Waiting(g)' => Waiting(g),
           NEW ok \in BOOLEAN, topic' \in {topic, Append(topic, I!Message(f, ok))}
    PROVE  PublicationsCounted'
  <1> SUFFICES ASSUME NEW r \in txns
               PROVE  Cardinality(Publications(r)') <= Cardinality(Done(r)') + crashes
    BY DEF PublicationsCounted
  <1> DEFINE new == Len(topic) + 1
  <1>t. topic \in Seq(I!Messages) /\ Len(topic) \in Nat /\ crashes \in Nat
    BY FlowTyped, BoundsAssumption DEF FileInv
  <1>n. /\ IsFiniteSet(Publications(r)) /\ Cardinality(Publications(r)) \in Nat
        /\ IsFiniteSet(Done(r)) /\ Cardinality(Done(r)) \in Nat
        /\ Cardinality(Publications(r)) <= Cardinality(Done(r)) + crashes
    BY PublicationsFinite, DoneFinite DEF PublicationsCounted
  <1>m. /\ \A A, x : IsFiniteSet(A) => /\ IsFiniteSet(A \cup {x})
                                       /\ x \notin A => Cardinality(A \cup {x}) = Cardinality(A) + 1
                                       /\ x \in A => Cardinality(A \cup {x}) = Cardinality(A)
        /\ \A A, B : IsFiniteSet(B) /\ A \subseteq B => Cardinality(A) <= Cardinality(B)
    BY FS_AddElement, FS_Subset
  <1>g. Len(topic') \in {Len(topic), new}
        /\ \A i \in 1 .. Len(topic) : topic'[i] = topic[i]
        /\ Len(topic') = new => topic'[new] = I!Message(f, ok)
    <2> HIDE DEF I!Message
    <2>1. CASE topic' = topic
      BY <1>t, <2>1
    <2>2. CASE topic' = Append(topic, I!Message(f, ok))
      BY <1>t, <2>2
    <2> QED BY <2>1, <2>2
  <1>d. /\ Done(r) \subseteq Done(r)' /\ Done(r)' \subseteq Copies(r) /\ IsFiniteSet(Copies(r))
    BY DEF Done, Copies, CopiesCounted
  <1>e. IsFiniteSet(Done(r)') /\ Cardinality(Done(r)') \in Nat
    BY <1>d, FS_Subset, FS_CardinalityType
  <1>1. CASE f.row = r
    <2>1. Done(r) \cup {f} \subseteq Done(r)' /\ f \notin Done(r)
      BY <1>1, <1>d DEF Done, Copies
    <2>2. Cardinality(Done(r)) + 1 <= Cardinality(Done(r)')
      <3>1. Cardinality(Done(r) \cup {f}) = Cardinality(Done(r)) + 1
        BY <1>m, <1>n, <2>1
      <3>2. Cardinality(Done(r) \cup {f}) <= Cardinality(Done(r)')
        BY <1>m, <1>e, <2>1
      <3> QED BY <3>1, <3>2
    <2>3. Publications(r)' \subseteq Publications(r) \cup {new}
      BY <1>t, <1>g DEF Publications
    <2>4. /\ IsFiniteSet(Publications(r) \cup {new})
          /\ Cardinality(Publications(r) \cup {new}) <= Cardinality(Publications(r)) + 1
          /\ Cardinality(Publications(r) \cup {new}) \in Nat
      <3> HIDE DEF new
      <3>1. IsFiniteSet(Publications(r) \cup {new})
        BY <1>m, <1>n
      <3>2. Cardinality(Publications(r) \cup {new}) \in Nat
        BY <3>1, FS_CardinalityType
      <3>3. Cardinality(Publications(r) \cup {new}) \in
               {Cardinality(Publications(r)), Cardinality(Publications(r)) + 1}
        BY <1>m, <1>n
      <3> QED BY <1>n, <3>1, <3>2, <3>3
    <2>5. IsFiniteSet(Publications(r)') /\ Cardinality(Publications(r)') \in Nat
      BY <2>3, <2>4, FS_Subset, FS_CardinalityType
    <2>6. Cardinality(Publications(r)') <= Cardinality(Publications(r) \cup {new})
      BY <1>m, <2>3, <2>4
    <2> HIDE DEF new
    <2> QED BY <1>t, <1>n, <1>e, <2>2, <2>4, <2>5, <2>6
  <1>2. CASE f.row # r
    <2>1. Publications(r)' = Publications(r)
      <3>1. I!Message(f, ok).split.row # r
        BY <1>2 DEF I!Message
      <3> QED BY <1>t, <1>g, <3>1 DEF Publications
    <2>2. Cardinality(Done(r)) <= Cardinality(Done(r)')
      BY <1>d, <1>e, <1>m
    <2> QED BY <1>t, <1>n, <1>e, <2>1, <2>2
  <1> QED BY <1>1, <1>2

\* A restart puts at most one published flow file back.
LEMMA OnePutBack ==
    ASSUME FileInv, CopiesCounted, PublicationsCounted, I!Crash
    PROVE  PublicationsCounted'
  <1> SUFFICES ASSUME NEW r \in txns
               PROVE  Cardinality(Publications(r)') <= Cardinality(Done(r)') + crashes'
    BY DEF PublicationsCounted, I!Crash
  <1>1. /\ UNCHANGED <<txns, topic, connection, captured>>
        /\ crashes' = crashes + 1 /\ sent' = {} /\ crashes \in Nat
    BY FlowTyped, BoundsAssumption DEF I!Crash, FileInv
  <1>2. Publications(r)' = Publications(r)
    BY <1>1 DEF Publications
  <1>3. \E f : Done(r) \ {f} \subseteq Done(r)'
    <2>1. \E f : sent \subseteq {f}
      BY DEF FileInv, InOnePlace
    <2> QED BY <1>1, <2>1 DEF Done, Copies, Waiting
  <1>4. PICK f : Done(r) \ {f} \subseteq Done(r)'
    BY <1>3
  <1>n. /\ Cardinality(Publications(r)) \in Nat
        /\ IsFiniteSet(Done(r)) /\ Cardinality(Done(r)) \in Nat
        /\ Cardinality(Publications(r)) <= Cardinality(Done(r)) + crashes
    BY PublicationsFinite, DoneFinite DEF PublicationsCounted
  <1>5. IsFiniteSet(Done(r) \ {f}) /\ Cardinality(Done(r) \ {f}) \in Nat
        /\ Cardinality(Done(r)) <= Cardinality(Done(r) \ {f}) + 1
    <2>1. IsFiniteSet(Done(r) \ {f})
      BY <1>n, FS_RemoveElement
    <2>2. Cardinality(Done(r) \ {f}) \in {Cardinality(Done(r)), Cardinality(Done(r)) - 1}
      BY <1>n, FS_RemoveElement
    <2>3. Cardinality(Done(r) \ {f}) \in Nat
      BY <2>1, FS_CardinalityType
    <2> QED BY <1>n, <2>1, <2>2, <2>3
  <1>6. Done(r)' \subseteq Copies(r) /\ IsFiniteSet(Copies(r))
    BY <1>1 DEF Done, Copies, CopiesCounted
  <1>7. IsFiniteSet(Done(r)') /\ Cardinality(Done(r)') \in Nat
    BY <1>6, FS_Subset, FS_CardinalityType
  <1>8. Cardinality(Done(r) \ {f}) <= Cardinality(Done(r)')
    BY <1>4, <1>7, FS_Subset
  <1> QED BY <1>1, <1>2, <1>n, <1>5, <1>7, <1>8

LEMMA PublicationsInit == Init => PublicationsCounted
  <1> SUFFICES ASSUME Init, NEW r \in txns
               PROVE  Cardinality(Publications(r)) <= Cardinality(Done(r)) + crashes
    BY DEF PublicationsCounted
  <1>1. Publications(r) = {} /\ Done(r) = {} /\ crashes = 0
    BY DEF Init, I!Init, Publications, Done, Copies
  <1> QED BY <1>1, FS_EmptySet

LEMMA PublicationsStep ==
    FileInv /\ CopiesInv /\ CopiesInv' /\ PublicationsCounted /\ [Next]_vars => PublicationsCounted'
  <1> SUFFICES ASSUME FileInv, CopiesInv, CopiesInv', PublicationsCounted, [Next]_vars
               PROVE  PublicationsCounted'
    OBVIOUS
  <1>c. CopiesCounted /\ CopiesCounted'
    BY DEF CopiesInv
  <1>t. /\ DOMAIN connection = Rest \cup {"success"} /\ topic \in Seq(I!Messages)
        /\ sent \subseteq connection["matched"] /\ captured \subseteq I!Splits /\ crashes \in Nat
        /\ \A q \in Rest : connection[q] \subseteq captured
    BY FlowTyped, BoundsAssumption DEF FileInv, QueuedIsCaptured
  <1>p. /\ \A f, g \in sent : f = g
        /\ \A g \in connection["success"], q \in Rest : \A f \in connection[q] : f.poll # g.poll
        /\ \A p, q \in Rest : p # q => connection[p] \cap connection[q] = {}
        /\ \A f \in captured : f.poll \in 1 .. qdt.polls
    BY DEF FileInv, InOnePlace, PollsCounted
  <1>1. CASE UNCHANGED flowVars /\ txns \subseteq txns'
    <2>1. ASSUME NEW r \in txns
          PROVE  Cardinality(Publications(r)') <= Cardinality(Done(r)') + crashes'
      <3>1. Publications(r)' = Publications(r) /\ Done(r)' = Done(r) /\ crashes' = crashes
        BY <1>1 DEF flowVars, Publications, Done, Copies, Waiting
      <3> QED BY <3>1 DEF PublicationsCounted
    <2>2. ASSUME NEW r \in txns' \ txns
          PROVE  Cardinality(Publications(r)') <= Cardinality(Done(r)') + crashes'
      <3>1. \A i \in 1 .. Len(topic) : topic[i] \in I!Messages
        BY <1>t
      <3>2. \A i \in 1 .. Len(topic) : topic[i].split.row \in txns
        BY <3>1 DEF I!Messages, I!Splits
      <3>3. Publications(r)' = {} /\ crashes' = crashes
        BY <1>1, <2>2, <3>2 DEF Publications, flowVars
      <3>4. Done(r)' = {}
        BY <1>1, <1>t, <2>2 DEF Done, Copies, I!Splits, flowVars
      <3> QED BY <1>t, <3>3, <3>4, FS_EmptySet
    <2> QED BY <2>1, <2>2 DEF PublicationsCounted
  <1>2. CASE UNCHANGED <<connection, sent, captured, topic, crashes, txns>>
    <2>1. \A f \in captured : Waiting(f)' => Waiting(f)
      BY <1>2 DEF Waiting
    <2> QED BY <1>2, <1>c, <2>1, DoneStays
  <1>3. CASE I!Poll
    <2>1. /\ \A g \in connection'["success"] :
                g \in connection["success"] \/ g.poll = qdt.polls + 1
          /\ \A q \in Rest : connection'[q] = connection[q]
          /\ captured \subseteq captured'
          /\ UNCHANGED <<txns, topic, crashes, sent>>
      <3>1. PICK rows :
               /\ connection' = [connection EXCEPT !["success"] =
                                    @ \cup {[poll |-> qdt.polls + 1, rows |-> rows]}]
               /\ captured' = captured \cup [poll : {qdt.polls + 1}, row : rows]
        BY <1>3 DEF I!Poll
      <3>2. /\ connection'["success"] =
                  connection["success"] \cup {[poll |-> qdt.polls + 1, rows |-> rows]}
            /\ \A q \in Rest : connection'[q] = connection[q]
        BY <1>t, <3>1 DEF Rest
      <3>3. captured \subseteq captured' /\ UNCHANGED <<txns, topic, crashes, sent>>
        BY <1>3, <3>1 DEF I!Poll
      <3> QED BY <3>2, <3>3
    <2>2. qdt.polls \in Nat
      BY FlowTyped DEF FileInv, QdtOK
    <2>3. ASSUME NEW f \in captured, Waiting(f)' PROVE Waiting(f)
      <3>1. f.poll # qdt.polls + 1
        BY <1>p, <2>2
      <3> QED BY <2>1, <2>3, <3>1 DEF Waiting, Rest
    <2> QED BY <1>c, <2>1, <2>3, DoneStays
  <1>4. ASSUME NEW g \in connection["success"], I!Split(g) PROVE PublicationsCounted'
    <2>1. /\ connection'["success"] \subseteq connection["success"]
          /\ connection'["split"] = connection["split"] \cup [poll : {g.poll}, row : g.rows]
          /\ connection'["matched"] = connection["matched"]
          /\ connection'["failure"] = connection["failure"]
          /\ UNCHANGED <<txns, topic, crashes, sent, captured>>
      BY <1>4, <1>t DEF I!Split, Rest
    <2>2. \A f \in captured : Waiting(f)' => Waiting(f)
      BY <2>1 DEF Waiting
    <2> QED BY <1>c, <2>1, <2>2, DoneStays
  <1>5. ASSUME NEW g \in connection["success"], I!SplitFails(g) PROVE PublicationsCounted'
    <2>1. /\ \A q \in Rest \cup {"success"} : connection'[q] \subseteq connection[q]
          /\ UNCHANGED <<txns, topic, crashes, sent, captured>>
      BY <1>5, <1>t DEF I!SplitFails, I!Take
    <2>2. \A f \in captured : Waiting(f)' => Waiting(f)
      BY <2>1 DEF Waiting, Rest
    <2> QED BY <1>c, <2>1, <2>2, DoneStays
  <1>6. ASSUME NEW f \in connection["split"], I!LookupMatched(f) \/ I!LookupUnmatched(f)
        PROVE  PublicationsCounted'
    <2>1. PICK to \in {"matched", "failure"} :
             connection' = [connection EXCEPT !["split"] = @ \ {f}, ![to] = @ \cup {f}]
      BY <1>6 DEF I!LookupMatched, I!LookupUnmatched, I!Move
    <2>2. /\ connection'["success"] = connection["success"]
          /\ connection'["split"] \subseteq connection["split"]
          /\ connection'["matched"] \subseteq connection["matched"] \cup {f}
          /\ connection'["failure"] \subseteq connection["failure"] \cup {f}
      BY <1>t, <2>1 DEF Rest
    <2>3. UNCHANGED <<txns, topic, crashes, sent, captured>>
      BY <1>6 DEF I!LookupMatched, I!LookupUnmatched
    <2>4. \A h \in captured : Waiting(h)' => Waiting(h)
      BY <2>2, <2>3 DEF Waiting
    <2> QED BY <1>c, <2>3, <2>4, DoneStays
  <1>7. ASSUME NEW f \in connection["failure"], I!PutFile(f) \/ I!PutFileFails(f)
        PROVE  PublicationsCounted'
    <2>1. /\ \A q \in Rest \cup {"success"} : connection'[q] \subseteq connection[q]
          /\ UNCHANGED <<txns, topic, crashes, sent, captured>>
      BY <1>7, <1>t DEF I!PutFile, I!PutFileFails, I!Take
    <2>2. \A h \in captured : Waiting(h)' => Waiting(h)
      BY <2>1 DEF Waiting, Rest
    <2> QED BY <1>c, <2>1, <2>2, DoneStays
  <1>8. ASSUME NEW f \in connection["matched"], I!PublishDone(f) PROVE PublicationsCounted'
    <2>1. /\ \A q \in Rest \cup {"success"} : connection'[q] \subseteq connection[q]
          /\ connection'["matched"] = connection["matched"] \ {f} /\ f \in sent
          /\ UNCHANGED <<txns, topic, crashes, captured>>
      BY <1>8, <1>t DEF I!PublishDone, I!Take, Rest
    <2>2. sent = {f}
      BY <1>p, <2>1
    <2>3. \A h \in captured : Waiting(h)' => Waiting(h)
      BY <2>1, <2>2 DEF Waiting, Rest
    <2> QED BY <1>c, <2>1, <2>3, DoneStays
  \* From here on a flow file that waited in "matched" goes past the publisher.
  <1>9. ASSUME NEW f \in connection["matched"], sent = {},
               connection' \in {connection, [connection EXCEPT !["matched"] = @ \ {f}]},
               f \notin connection'["matched"] \ sent', sent' \subseteq {f},
               UNCHANGED <<txns, captured, crashes>>,
               NEW ok \in BOOLEAN, topic' \in {topic, Append(topic, I!Message(f, ok))}
        PROVE  PublicationsCounted'
    <2>1. \A q \in Rest \cup {"success"} : connection'[q] \subseteq connection[q]
      BY <1>9, <1>t
    <2>2. f \in captured /\ Waiting(f)
      BY <1>9, <1>t DEF Waiting, Rest
    <2>3. ~Waiting(f)'
      <3>1. /\ \A g \in connection["success"] : f.poll # g.poll
            /\ f \notin connection["split"] /\ f \notin connection["failure"]
        BY <1>p DEF Rest
      <3> QED BY <1>9, <2>1, <3>1 DEF Waiting, Rest
    <2>4. \A h \in captured : Waiting(h)' => Waiting(h)
      BY <1>9, <2>1 DEF Waiting, Rest
    <2> QED BY <1>9, <1>c, <2>2, <2>3, <2>4, OnePublished
  <1>10. ASSUME NEW f \in connection["matched"], I!Publish(f) PROVE PublicationsCounted'
    <2>1. /\ connection' = connection /\ sent = {} /\ sent' = {f}
          /\ UNCHANGED <<txns, captured, crashes>>
          /\ topic' = Append(topic, I!Message(f, TRUE))
      BY <1>10 DEF I!Publish
    <2> QED BY <1>9, <2>1
  <1>11. ASSUME NEW f \in connection["matched"], I!PublishFails(f) PROVE PublicationsCounted'
    <2>1. /\ connection' = [connection EXCEPT !["matched"] = @ \ {f}] /\ sent = {} /\ sent' = {}
          /\ UNCHANGED <<txns, captured, crashes>>
      BY <1>11 DEF I!PublishFails, I!Take
    <2>2. PICK ok \in BOOLEAN : topic' \in {topic, Append(topic, I!Message(f, ok))}
      BY <1>11 DEF I!PublishFails
    <2>3. f \notin connection'["matched"]
      BY <1>t, <2>1 DEF Rest
    <2> QED BY <1>9, <2>1, <2>2, <2>3
  <1>12. CASE I!Crash
    BY <1>12, <1>c, OnePutBack
  <1> QED
    <2>1. CASE Insert \/ EndInsert \/ SignUp \/ UNCHANGED vars
      <3>1. UNCHANGED flowVars /\ txns \subseteq txns'
        BY <2>1 DEF Insert, EndInsert, SignUp, S!Draw, S!Commit, S!Abort, vars, storeVars
      <3> QED BY <1>1, <3>1
    <2>2. CASE I!Capture
      BY <1>2, <1>3, <2>2 DEF I!Capture, I!SaveState
    <2>3. CASE I!Work
      BY <1>4, <1>6, <1>7, <1>8, <1>10, <2>3 DEF I!Work
    <2>4. CASE I!Fault
      BY <1>7, <1>11, <1>12, <1>5, <2>4 DEF I!Fault
    <2> QED BY <2>1, <2>2, <2>3, <2>4 DEF Next, Flow, I!Next

\* A row is published at most once, and at most twice more for every restart.
THEOREM PublishedAtMost == Spec => []PublishedOnce
  <1> DEFINE Inv == FileInv /\ CopiesInv /\ PublicationsCounted
  <1>1. Init => Inv
    BY FileInvInit, CopiesInvInit, PublicationsInit
  <1>2. Inv /\ [Next]_vars => Inv'
    BY FileInvStep, CopiesInvStep, PublicationsStep
  <1>3. Inv => PublishedOnce
    <2> SUFFICES ASSUME Inv, NEW r \in txns
                 PROVE  Cardinality(Publications(r)) <= 1 + 2 * crashes
      BY DEF PublishedOnce, Publications
    <2>1. crashes \in Nat
      BY FlowTyped, BoundsAssumption DEF FileInv
    <2>2. IsFiniteSet(Copies(r)) /\ Cardinality(Copies(r)) <= crashes + 1
          /\ Cardinality(Copies(r)) \in Nat
      BY FS_CardinalityType DEF CopiesInv, CopiesCounted
    <2>3. Cardinality(Done(r)) <= Cardinality(Copies(r))
      BY <2>2, FS_Subset DEF Done
    <2>4. Cardinality(Publications(r)) \in Nat /\ Cardinality(Done(r)) \in Nat
          /\ Cardinality(Publications(r)) <= Cardinality(Done(r)) + crashes
      BY PublicationsFinite, DoneFinite DEF CopiesInv, PublicationsCounted
    <2> QED BY <2>1, <2>2, <2>3, <2>4
  <1> QED BY <1>1, <1>2, <1>3, PTL DEF Spec

-----------------------------------------------------------------------------
(* Back pressure: SplitAvro looks at its queue before it adds a whole poll.  *)

SplitsBounded == IsFiniteSet(connection["split"]) /\ OvershootOfOnePoll

LEMMA SplitsBoundedStep == FileInv /\ SplitsBounded /\ [Next]_vars => SplitsBounded'
  <1> SUFFICES ASSUME FileInv, SplitsBounded, [Next]_vars PROVE SplitsBounded'
    OBVIOUS
  <1> DEFINE q == connection["split"]
             others(n) == {f \in q : f.poll # n}
  <1>t. /\ DOMAIN connection = Rest \cup {"success"} /\ qdt.polls \in Nat /\ IsFiniteSet(txns)
        /\ BackPressure \in Nat /\ IsFiniteSet(q)
        /\ \A g \in connection["success"] : g.poll \in 1 .. qdt.polls /\ g.rows \subseteq txns
    BY FlowTyped, BoundsAssumption DEF FileInv, SplitsBounded, QdtOK, PollsCounted
  <1>f. \A A, B : IsFiniteSet(B) /\ A \subseteq B =>
           /\ IsFiniteSet(A) /\ Cardinality(A) <= Cardinality(B)
           /\ Cardinality(A) \in Nat /\ Cardinality(B) \in Nat
    BY FS_Subset, FS_CardinalityType
  <1>1. CASE connection'["split"] \subseteq q /\ qdt'.polls \in {qdt.polls, qdt.polls + 1}
    <2>1. IsFiniteSet(connection'["split"])
      BY <1>1, <1>t, <1>f
    <2>2. CASE q = {}
      BY <1>1, <2>1, <2>2 DEF SplitsBounded, OvershootOfOnePoll
    <2>3. CASE q # {}
      <3>1. PICK n \in 1 .. qdt.polls : Cardinality(others(n)) < BackPressure
        BY <2>3 DEF SplitsBounded, OvershootOfOnePoll
      <3>2. n \in 1 .. qdt'.polls
        BY <1>1, <1>t
      <3>3. others(n)' \subseteq others(n) /\ others(n) \subseteq q
        BY <1>1
      <3>4. IsFiniteSet(others(n))
        BY <1>t, <1>f, <3>3
      <3> HIDE DEF others
      <3>5. Cardinality(others(n)') < BackPressure
        BY <1>t, <1>f, <3>1, <3>3, <3>4
      <3> QED BY <2>1, <3>2, <3>5 DEF SplitsBounded, OvershootOfOnePoll, others
    <2> QED BY <2>2, <2>3
  <1>2. ASSUME NEW g \in connection["success"], I!Split(g) PROVE SplitsBounded'
    <2> DEFINE parts == [poll : {g.poll}, row : g.rows]
    <2>1. /\ connection'["split"] = q \cup parts /\ qdt' = qdt
          /\ I!Room({"split"})
      BY <1>2, <1>t DEF I!Split, Rest
    <2>2. Cardinality(q) < BackPressure
      <3>1. \A A : I!Cardinality(A) = Cardinality(A)
        BY DEF Cardinality, I!Cardinality
      <3> QED BY <2>1, <3>1 DEF I!Room
    <2>3. IsFiniteSet(parts)
      <3> DEFINE part == [r \in g.rows |-> [poll |-> g.poll, row |-> r]]
      <3>1. IsFiniteSet(g.rows)
        BY <1>t, <1>f
      <3>2. part \in [g.rows -> parts] /\ \A r \in g.rows : part[r].row = r
        OBVIOUS
      <3>3. \A f \in parts : f.row \in g.rows /\ part[f.row] = f
        OBVIOUS
      <3> HIDE DEF parts, part
      <3>4. part \in Bijection(g.rows, parts)
        BY <3>2, <3>3 DEF Bijection, Injection, Surjection, IsInjective
      <3>5. ExistsBijection(g.rows, parts)
        BY <3>4 DEF ExistsBijection
      <3> QED BY <3>1, <3>5, FS_Bijection
    <2>4. IsFiniteSet(connection'["split"])
      <3> HIDE DEF parts
      <3> QED BY <1>t, <2>1, <2>3, FS_Union
    <2>5. {f \in connection'["split"] : f.poll # g.poll} \subseteq q
      BY <2>1
    <2>6. Cardinality({f \in connection'["split"] : f.poll # g.poll}) < BackPressure
      BY <1>t, <1>f, <2>2, <2>5
    <2> QED BY <1>t, <2>1, <2>4, <2>6 DEF SplitsBounded, OvershootOfOnePoll
  <1>3. CASE UNCHANGED flowVars
    BY <1>1, <1>3 DEF flowVars
  <1>4. CASE I!Capture
    <2>1. CASE I!SaveState
      BY <1>1, <1>t, <2>1, FlowTyped DEF FileInv, I!SaveState, QdtOK
    <2>2. CASE I!Poll
      <3>1. PICK m, rows :
               /\ qdt' = [qdt EXCEPT !.task = "polled", !.cursor = m, !.polls = qdt.polls + 1]
               /\ connection' = [connection EXCEPT !["success"] = @ \cup {rows}]
        BY <2>2 DEF I!Poll
      <3>2. connection'["split"] = q
        BY <1>t, <3>1 DEF Rest
      <3>3. qdt'.polls = qdt.polls + 1
        BY <3>1, FlowTyped DEF FileInv, QdtOK
      <3> QED BY <1>1, <3>2, <3>3
    <2> QED BY <1>4, <2>1, <2>2 DEF I!Capture
  <1>5. CASE I!Crash
    BY <1>1, <1>5, FlowTyped DEF FileInv, I!Crash, QdtOK
  <1>6. ASSUME NEW from \in Rest \cup {"success"}, NEW f, I!Take(f, from) \/ UNCHANGED connection, qdt' = qdt
        PROVE  SplitsBounded'
    BY <1>1, <1>6, <1>t DEF I!Take, Rest
  <1>7. ASSUME NEW f, NEW to \in {"matched", "failure"}, I!Move(f, "split", to), qdt' = qdt
        PROVE  SplitsBounded'
    BY <1>1, <1>7, <1>t DEF I!Move, Rest
  <1> QED
    <2>1. CASE Insert \/ EndInsert \/ SignUp \/ UNCHANGED vars
      BY <1>3, <2>1 DEF Insert, EndInsert, SignUp, vars
    <2>2. CASE I!Work \/ I!Fault
      BY <1>2, <1>5, <1>6, <1>7, <2>2
         DEF I!Work, I!Fault, I!SplitFails, I!LookupMatched, I!LookupUnmatched, I!PutFile,
             I!PutFileFails, I!Publish, I!PublishDone, I!PublishFails, Rest
    <2> QED BY <1>4, <2>1, <2>2 DEF Next, Flow, I!Next

\* The queue of splits exceeds its threshold by the rows of one poll at most,
\* however many rows a poll reads.
THEOREM OvershootIsOnePoll == Spec => []OvershootOfOnePoll
  <1>1. Init => SplitsBounded
    <2>1. Init => connection["split"] = {}
      BY DEF Init, I!Init, I!Queues
    <2> QED BY <2>1, FS_EmptySet DEF SplitsBounded, OvershootOfOnePoll
  <1>2. FileInv /\ SplitsBounded /\ [Next]_vars => (FileInv /\ SplitsBounded)'
    BY FileInvStep, SplitsBoundedStep
  <1>3. SplitsBounded => OvershootOfOnePoll
    BY DEF SplitsBounded
  <1> QED BY FileInvInit, <1>1, <1>2, <1>3, PTL DEF Spec

=============================================================================
