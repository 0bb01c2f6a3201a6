--------------------------- MODULE DetectorProofs ---------------------------
(***************************************************************************)
(* Proofs about Detector, for every number of rows and of runs.            *)
(***************************************************************************)
EXTENDS Detector, FiniteSetTheorems, TLAPS

\* The part of TypeOK the argument needs.
TypeInv ==
    /\ input \in Seq(BOOLEAN)
    /\ query \in [Queries -> [phase : {"off", "starting", "idle", "batch", "stopped", "failed"},
                              todo : SUBSET Nat]]
    /\ checkpoint \in [Directories -> [known : BOOLEAN, start : Nat, done : Nat, to : Nat]]
    /\ out \in [Queries -> Seq(Nat)]

\* Who may be active, by where main is.
MainInv ==
    /\ main = "down" => \A q \in Queries : ~Active(q)
    /\ main = "first" => ~Active("flagging") /\ ~Active("cassandra")
    /\ main = "second" => ~Active("cassandra")
    /\ main \notin {"down", "first"} => ~Active("fraud_detection")

\* No batch ends beyond the topic.
OffsetInv == \A d \in Directories : /\ checkpoint[d].to <= Len(input)
                                   /\ checkpoint[d].done <= Len(input)

\* What query q has left of its batch is all that it has not written of it.
BatchOf(q) ==
    LET c == checkpoint[Directory(q)] IN
    query[q].phase = "batch" =>
        \A r \in c.done + 1 .. c.to : r \in query[q].todo \/ (Selects(q, r) => Wrote(q, r))

BatchInv == \A q \in Queries : BatchOf(q)

IInv == TypeInv /\ MainInv /\ OffsetInv /\ BatchInv /\ CommittedIsWritten

-----------------------------------------------------------------------------
LEMMA InvInit == Init => IInv
  BY DEF Init, IInv, TypeInv, MainInv, OffsetInv, BatchInv, BatchOf, CommittedIsWritten,
     Passed, NoCheckpoint, Off, Active, Directories, Queries, KafkaQueries, Directory

LEMMA TypeStep == TypeInv /\ [Next]_vars => TypeInv'
  <1> SUFFICES ASSUME TypeInv, [Next]_vars PROVE TypeInv'
    OBVIOUS
  <1> USE DEF TypeInv
  <1>1. CASE Produce
    BY <1>1 DEF Produce
  <1>2. CASE StartFirst
    BY <1>2 DEF StartFirst, NoCheckpoint, Queries, KafkaQueries, Directories
  <1>3. CASE StartSecond
    BY <1>3 DEF StartSecond, Queries, KafkaQueries
  <1>4. CASE StartThird
    BY <1>4 DEF StartThird, Queries
  <1>5. CASE Await \/ UNCHANGED vars
    BY <1>5 DEF Await, vars
  <1>6. CASE Exit \/ Kill
    BY <1>6 DEF Exit, Kill, EndRun, Off
  <1>7. ASSUME NEW q \in Queries, Recover(q) PROVE TypeInv'
    <2>1. Directory(q) \in Directories
      BY DEF Directory, Directories
    <2>2. Len(input) \in Nat
      OBVIOUS
    <2> QED BY <1>7, <2>1, <2>2 DEF Recover
  <1>8. ASSUME NEW q \in Queries, Plan(q) PROVE TypeInv'
    <2>1. Directory(q) \in Directories
      BY DEF Directory, Directories
    <2>2. Len(input) \in Nat
      OBVIOUS
    <2> QED BY <1>8, <2>1, <2>2 DEF Plan
  <1>9. ASSUME NEW q \in Queries, Write(q) PROVE TypeInv'
    <2>1. PICK r \in query[q].todo :
             /\ query' = [query EXCEPT ![q] = [phase |-> "batch", todo |-> @.todo \ {r}]]
             /\ out' = [out EXCEPT ![q] = IF Selects(q, r) THEN Append(@, r) ELSE @]
      BY <1>9 DEF Write
    <2>2. r \in Nat
      BY <2>1
    <2>3. UNCHANGED <<input, checkpoint>>
      BY <1>9 DEF Write
    <2> QED BY <2>1, <2>2, <2>3
  <1>10. ASSUME NEW q \in Queries, Commit(q) PROVE TypeInv'
    <2>1. Directory(q) \in Directories
      BY DEF Directory, Directories
    <2> QED BY <1>10, <2>1 DEF Commit
  <1>11. ASSUME NEW q \in Queries, Fail(q) PROVE TypeInv'
    BY <1>11 DEF Fail
  <1> QED BY <1>1, <1>2, <1>3, <1>4, <1>5, <1>6, <1>7, <1>8, <1>9, <1>10, <1>11
       DEF Next, Main, Run

\* At most one query of each checkpoint directory is ever active.
LEMMA MainStep == TypeInv /\ MainInv /\ [Next]_vars => MainInv'
  <1> SUFFICES ASSUME TypeInv, MainInv, [Next]_vars PROVE MainInv'
    OBVIOUS
  <1>t. query \in [Queries -> [phase : {"off", "starting", "idle", "batch", "stopped", "failed"},
                               todo : SUBSET Nat]]
    BY DEF TypeInv
  <1> USE DEF MainInv, Active
  <1>1. CASE Produce \/ Await \/ UNCHANGED vars
    BY <1>1 DEF Produce, Await, vars, Queries, KafkaQueries
  <1>2. CASE StartFirst
    BY <1>2, <1>t DEF StartFirst, Queries, KafkaQueries
  <1>3. CASE StartSecond
    BY <1>3, <1>t DEF StartSecond, Queries, KafkaQueries
  <1>4. CASE StartThird
    BY <1>4, <1>t DEF StartThird, Queries, KafkaQueries
  <1>5. CASE Exit \/ Kill
    <2>1. main' = "down" /\ \A q \in Queries : query'[q].phase = "off"
      BY <1>5 DEF Exit, Kill, EndRun, Off
    <2> QED BY <2>1 DEF Queries, KafkaQueries
  <1>6. ASSUME NEW q \in Queries, Run(q) \/ Fail(q) PROVE MainInv'
    <2>1. main' = main /\ Active(q)
      BY <1>6 DEF Run, Recover, Plan, Write, Commit, Fail
    <2>2. \A p \in Queries \ {q} : query'[p] = query[p]
      BY <1>6, <1>t DEF Run, Recover, Plan, Write, Commit, Fail
    <2> QED BY <2>1, <2>2 DEF Queries, KafkaQueries
  <1> QED BY <1>1, <1>2, <1>3, <1>4, <1>5, <1>6 DEF Next, Main

\* What has been written stays written, and rows keep their offsets.
LEMMA LogsGrow ==
    ASSUME TypeInv, [Next]_vars
    PROVE  /\ \A q \in Queries : \A r \in Nat : Wrote(q, r) => Wrote(q, r)'
           /\ Len(input) <= Len(input)'
           /\ \A q \in Queries : \A r \in 1 .. Len(input) : Selects(q, r)' = Selects(q, r)
  <1>t. input \in Seq(BOOLEAN) /\ out \in [Queries -> Seq(Nat)]
    BY DEF TypeInv
  <1>n. Len(input) \in Nat
    BY <1>t
  <1>1. CASE Produce
    <2>1. PICK b \in BOOLEAN : input' = Append(input, b) /\ out' = out
      BY <1>1 DEF Produce
    <2>2. Len(input') = Len(input) + 1 /\ \A r \in 1 .. Len(input) : input'[r] = input[r]
      BY <2>1, <1>t
    <2> QED BY <2>1, <2>2, <1>n DEF Selects, Wrote
  <1>2. ASSUME NEW q \in Queries, Write(q)
        PROVE  /\ \A p \in Queries : \A r \in Nat : Wrote(p, r) => Wrote(p, r)'
               /\ input' = input
    <2>1. PICK s \in query[q].todo :
             /\ out' = [out EXCEPT ![q] = IF Selects(q, s) THEN Append(@, s) ELSE @]
             /\ input' = input
      BY <1>2 DEF Write
    <2>2. s \in Nat
      BY <2>1 DEF TypeInv
    <2>3. \A p \in Queries : Len(out[p]) \in Nat /\ Len(out'[p]) \in Nat
                               /\ Len(out[p]) <= Len(out'[p])
                               /\ \A i \in 1 .. Len(out[p]) : out'[p][i] = out[p][i]
      BY <2>1, <2>2, <1>t
    <2> QED BY <2>1, <2>3 DEF Wrote
  <1>3. CASE Main \/ Kill \/ UNCHANGED vars
    BY <1>3, <1>n DEF Main, Kill, StartFirst, StartSecond, StartThird, Await, Exit, vars,
       Selects, Wrote
  <1>4. ASSUME NEW q \in Queries, Recover(q) \/ Plan(q) \/ Commit(q) \/ Fail(q)
        PROVE  out' = out /\ input' = input
    BY <1>4 DEF Recover, Plan, Commit, Fail
  <1>5. CASE UNCHANGED <<out, input>>
    BY <1>5, <1>n DEF Selects, Wrote
  <1>6. ASSUME NEW q \in Queries, Run(q) \/ Fail(q)
        PROVE  /\ \A p \in Queries : \A r \in Nat : Wrote(p, r) => Wrote(p, r)'
               /\ input' = input
    BY <1>6, <1>2, <1>4 DEF Run, Wrote
  <1>7. ASSUME NEW q \in Queries, Run(q) \/ Fail(q)
        PROVE  /\ \A p \in Queries : \A r \in Nat : Wrote(p, r) => Wrote(p, r)'
               /\ Len(input) <= Len(input)'
               /\ \A p \in Queries : \A r \in 1 .. Len(input) : Selects(p, r)' = Selects(p, r)
    BY <1>6, <1>7, <1>n DEF Selects
  <1>8. Produce \/ (Main \/ Kill \/ UNCHANGED vars) \/ \E q \in Queries : Run(q) \/ Fail(q)
    BY DEF Next
  <1> QED BY <1>1, <1>3, <1>7, <1>8

\* What the steps of a query do to its checkpoint directory.
LEMMA DirectorySteps ==
    ASSUME TypeInv, NEW q \in Queries, NEW d \in Directories, d = Directory(q)
    PROVE  /\ Recover(q) \/ Plan(q) \/ Commit(q) =>
                 \A e \in Directories \ {d} : checkpoint'[e] = checkpoint[e]
           /\ Recover(q) => \/ checkpoint' = checkpoint
                            \/ /\ checkpoint'[d].start = Len(input)
                               /\ checkpoint'[d].done = Len(input)
                               /\ checkpoint'[d].to = Len(input)
           /\ Plan(q) => /\ checkpoint'[d].start = checkpoint[d].start
                         /\ checkpoint'[d].done = checkpoint[d].done
                         /\ checkpoint'[d].to = Len(input)
           /\ Commit(q) => /\ checkpoint'[d].start = checkpoint[d].start
                           /\ checkpoint'[d].done = checkpoint[d].to
                           /\ checkpoint'[d].to = checkpoint[d].to
  <1>1. checkpoint \in [Directories -> [known : BOOLEAN, start : Nat, done : Nat, to : Nat]]
    BY DEF TypeInv
  <1>2. Recover(q) => checkpoint' = [checkpoint EXCEPT ![d] =
              IF checkpoint[d].known THEN checkpoint[d]
              ELSE [known |-> TRUE, start |-> Len(input), done |-> Len(input), to |-> Len(input)]]
    BY DEF Recover
  <1>3. Plan(q) => checkpoint' = [checkpoint EXCEPT ![d] =
              [known |-> TRUE, start |-> checkpoint[d].start, done |-> checkpoint[d].done,
               to |-> Len(input)]]
    BY DEF Plan
  <1>4. Commit(q) => checkpoint' = [checkpoint EXCEPT ![d] =
              [known |-> TRUE, start |-> checkpoint[d].start, done |-> checkpoint[d].to,
               to |-> checkpoint[d].to]]
    BY DEF Commit
  <1> QED BY <1>1, <1>2, <1>3, <1>4

\* Every checkpoint stays within the topic.
LEMMA OffsetStep == TypeInv /\ OffsetInv /\ [Next]_vars => OffsetInv'
  <1> SUFFICES ASSUME TypeInv, OffsetInv, [Next]_vars PROVE OffsetInv'
    OBVIOUS
  <1>1. Len(input) <= Len(input)' /\ Len(input) \in Nat /\ Len(input)' \in Nat
    <2>1. TypeInv'
      BY TypeStep
    <2>2. Len(input) <= Len(input)'
      <3> HIDE DEF TypeInv, Next
      <3> QED BY LogsGrow
    <2>3. input \in Seq(BOOLEAN) /\ input' \in Seq(BOOLEAN)
      BY <2>1 DEF TypeInv
    <2> QED BY <2>2, <2>3
  <1>2. checkpoint \in [Directories -> [known : BOOLEAN, start : Nat, done : Nat, to : Nat]]
    BY DEF TypeInv
  <1>3. CASE UNCHANGED checkpoint
    BY <1>1, <1>2, <1>3 DEF OffsetInv
  <1>4. CASE StartFirst
    BY <1>1, <1>2, <1>4 DEF OffsetInv, StartFirst, NoCheckpoint
  <1>5. ASSUME NEW q \in Queries, Recover(q) \/ Plan(q) \/ Commit(q) PROVE OffsetInv'
    <2>1. PICK d \in Directories : d = Directory(q)
      BY DEF Directory, Directories
    <2>2. /\ \A e \in Directories \ {d} : checkpoint'[e] = checkpoint[e]
          /\ checkpoint'[d].to \in {checkpoint[d].to, Len(input)}
          /\ checkpoint'[d].done \in {checkpoint[d].done, checkpoint[d].to, Len(input)}
      BY <1>5, <2>1, DirectorySteps
    <2> QED BY <1>1, <1>2, <1>5, <2>2 DEF OffsetInv
  <1>6. Produce \/ StartSecond \/ StartThird \/ Await \/ Exit \/ Kill \/ UNCHANGED vars
        \/ (\E q \in Queries : Write(q) \/ Fail(q)) => UNCHANGED checkpoint
    BY DEF Produce, StartSecond, StartThird, Await, Exit, Kill, vars, Write, Fail
  <1> QED BY <1>3, <1>4, <1>5, <1>6 DEF Next, Main, Run

\* What is left of a batch is what has not been written.
LEMMA BatchStep ==
    TypeInv /\ MainInv /\ OffsetInv /\ BatchInv /\ [Next]_vars => BatchInv'
  <1> SUFFICES ASSUME TypeInv, MainInv, OffsetInv, BatchInv, [Next]_vars,
                      NEW p \in Queries
               PROVE  BatchOf(p)'
    BY DEF BatchInv
  <1>t. /\ query \in [Queries -> [phase : {"off", "starting", "idle", "batch", "stopped",
                                           "failed"}, todo : SUBSET Nat]]
        /\ checkpoint \in [Directories -> [known : BOOLEAN, start : Nat, done : Nat, to : Nat]]
        /\ out \in [Queries -> Seq(Nat)] /\ Len(input) \in Nat
    BY DEF TypeInv
  <1>d. Directory(p) \in Directories
    BY DEF Directory, Directories
  <1>g. /\ \A q \in Queries : \A r \in Nat : Wrote(q, r) => Wrote(q, r)'
        /\ \A q \in Queries : \A r \in 1 .. Len(input) : Selects(q, r)' = Selects(q, r)
    BY LogsGrow
  <1>b. BatchOf(p)
    BY DEF BatchInv
  \* A batch nobody touches keeps the invariant, and so does its end.
  <1>k. ASSUME query'[p] = query[p], checkpoint'[Directory(p)] = checkpoint[Directory(p)]
        PROVE  BatchOf(p)'
    <2> DEFINE c == checkpoint[Directory(p)]
    <2>1. c.done \in Nat /\ c.to \in Nat /\ c.to <= Len(input)
      BY <1>t, <1>d DEF OffsetInv
    <2>2. \A r \in c.done + 1 .. c.to : r \in 1 .. Len(input)
      BY <2>1, <1>t
    <2> QED BY <1>k, <1>b, <1>g, <2>1, <2>2 DEF BatchOf
  <1>e. ASSUME query'[p].phase # "batch" PROVE BatchOf(p)'
    BY <1>e DEF BatchOf
  <1>1. CASE Produce \/ Await \/ UNCHANGED vars
    BY <1>1, <1>k DEF Produce, Await, vars
  <1>2. CASE StartFirst
    <2>1. query'[p].phase # "batch"
      BY <1>2, <1>t DEF StartFirst, MainInv, Active
    <2> QED BY <2>1, <1>e
  <1>3. CASE StartSecond
    <2>1. query'[p].phase # "batch"
      BY <1>3, <1>t DEF StartSecond, MainInv, Active, Queries, KafkaQueries
    <2> QED BY <2>1, <1>e
  <1>4. CASE StartThird
    <2>1. query'[p].phase = "starting" \/ query'[p] = query[p]
      BY <1>4, <1>t DEF StartThird
    <2> QED BY <1>4, <2>1, <1>e, <1>k DEF StartThird
  <1>5. CASE Exit \/ Kill
    BY <1>5, <1>e DEF Exit, Kill, EndRun, Off
  <1>6. ASSUME NEW q \in Queries, Run(q) \/ Fail(q) PROVE BatchOf(p)'
    <2>1. Active(q)
      BY <1>6 DEF Run, Recover, Plan, Write, Commit, Fail, Active
    <2>2. CASE p # q
      <3>1. query'[p] = query[p]
        BY <1>6, <2>2, <1>t DEF Run, Recover, Plan, Write, Commit, Fail
      <3>2. CASE Directory(p) = Directory(q)
        <4>1. ~Active(p)
          BY <2>1, <2>2, <3>2 DEF MainInv, Directory, Queries, KafkaQueries
        <4> QED BY <3>1, <4>1, <1>e DEF Active
      <3>3. CASE Directory(p) # Directory(q)
        <4>1. PICK d \in Directories : d = Directory(q)
          BY DEF Directory, Directories
        <4>2. Recover(q) \/ Plan(q) \/ Commit(q) =>
                checkpoint'[Directory(p)] = checkpoint[Directory(p)]
          BY <3>3, <4>1, <1>d, DirectorySteps
        <4>3. Write(q) \/ Fail(q) => checkpoint' = checkpoint
          BY DEF Write, Fail
        <4> QED BY <1>6, <3>1, <4>2, <4>3, <1>k DEF Run
      <3> QED BY <3>2, <3>3
    <2>3. CASE p = q
      <3> DEFINE c == checkpoint[Directory(p)]
      <3>1. CASE Recover(p)
        <4>1. CASE c.known /\ c.done < c.to
          <5>1. query'[p].todo = c.done + 1 .. c.to /\ checkpoint' = checkpoint
            BY <3>1, <4>1, <1>t, <1>d DEF Recover
          <5> QED BY <5>1 DEF BatchOf
        <4>2. CASE ~(c.known /\ c.done < c.to)
          <5>1. query'[p].phase = "idle"
            BY <3>1, <4>2, <1>t DEF Recover
          <5> QED BY <5>1, <1>e
        <4> QED BY <4>1, <4>2
      <3>2. CASE Plan(p)
        <4>1. query'[p].todo = c.done + 1 .. Len(input)
          BY <3>2, <1>t DEF Plan
        <4>2. checkpoint'[Directory(p)].done = c.done /\ checkpoint'[Directory(p)].to = Len(input)
          BY <3>2, <1>d, DirectorySteps
        <4> QED BY <4>1, <4>2 DEF BatchOf
      <3>3. CASE Write(p)
        <4>1. PICK s \in query[p].todo :
                /\ query' = [query EXCEPT ![p] = [phase |-> "batch", todo |-> @.todo \ {s}]]
                /\ out' = [out EXCEPT ![p] = IF Selects(p, s) THEN Append(@, s) ELSE @]
          BY <3>3 DEF Write
        <4>2. s \in Nat /\ checkpoint' = checkpoint /\ query[p].phase = "batch" /\ input' = input
          BY <3>3, <4>1, <1>t DEF Write
        <4>3. query'[p].todo = query[p].todo \ {s}
          BY <4>1, <1>t
        <4>4. Selects(p, s) => Wrote(p, s)'
          <5>1. Selects(p, s) => /\ Len(out'[p]) \in Nat /\ Len(out'[p]) > 0
                                 /\ out'[p][Len(out'[p])] = s
            BY <4>1, <4>2, <1>t
          <5> QED BY <5>1 DEF Wrote
        <4>5. \A r : Selects(p, r)' = Selects(p, r)
          BY <4>2 DEF Selects
        <4>6. \A r \in c.done + 1 .. c.to : r \in Nat
          BY <1>t, <1>d
        <4> QED BY <4>2, <4>3, <4>4, <4>5, <4>6, <1>b, <1>g DEF BatchOf
      <3>4. CASE Commit(p) \/ Fail(p)
        <4>1. query'[p].phase # "batch"
          BY <3>4, <1>t DEF Commit, Fail
        <4> QED BY <4>1, <1>e
      <3> QED BY <1>6, <2>3, <3>1, <3>2, <3>3, <3>4 DEF Run
    <2> QED BY <2>2, <2>3
  <1> QED BY <1>1, <1>2, <1>3, <1>4, <1>5, <1>6 DEF Next, Main

\* Only the commit of a batch lets rows pass, and the batch is written by then.
LEMMA CommittedStep == IInv /\ [Next]_vars => CommittedIsWritten'
  <1> SUFFICES ASSUME IInv, [Next]_vars PROVE CommittedIsWritten'
    OBVIOUS
  <1>t. /\ checkpoint \in [Directories -> [known : BOOLEAN, start : Nat, done : Nat, to : Nat]]
        /\ Len(input) \in Nat
    BY DEF IInv, TypeInv
  <1>g. /\ \A q \in Queries : \A r \in Nat : Wrote(q, r) => Wrote(q, r)'
        /\ \A q \in Queries : \A r \in 1 .. Len(input) : Selects(q, r)' = Selects(q, r)
    BY LogsGrow DEF IInv
  \* Rows a row passes stay passed in the same way.
  <1>w. ASSUME NEW q \in Queries, NEW r \in 1 .. Len(input), Selects(q, r) => Wrote(q, r)
        PROVE  (Selects(q, r) => Wrote(q, r))'
    BY <1>w, <1>g
  <1>old. ASSUME NEW d \in Directories, NEW r \in Passed(d)
          PROVE  IF d = "shared"
                 THEN \E q \in KafkaQueries : (Selects(q, r) => Wrote(q, r))'
                 ELSE Wrote("cassandra", r)'
    <2>1. r \in Nat /\ r \in 1 .. Len(input)
      BY <1>t DEF Passed, IInv, OffsetInv
    <2>2. CASE d = "shared"
      <3>1. PICK q \in KafkaQueries : Selects(q, r) => Wrote(q, r)
        BY <2>2 DEF IInv, CommittedIsWritten
      <3>2. q \in Queries
        BY DEF Queries
      <3>3. (Selects(q, r) => Wrote(q, r))'
        BY <2>1, <3>1, <3>2, <1>w
      <3> QED BY <2>2, <3>3
    <2>3. CASE d # "shared"
      BY <2>1, <2>3, <1>g DEF IInv, CommittedIsWritten, Directories, Queries
    <2> QED BY <2>2, <2>3
  \* It is enough to look at the rows that were not passed before.
  <1>new. ASSUME \A d \in Directories : \A r \in Passed(d)' :
                    r \in Passed(d) \/
                    (IF d = "shared"
                     THEN \E q \in KafkaQueries : (Selects(q, r) => Wrote(q, r))'
                     ELSE Wrote("cassandra", r)')
          PROVE  CommittedIsWritten'
    <2>1. "shared" \in Directories /\ "temporary" \in Directories /\ "temporary" # "shared"
      BY DEF Directories
    <2>2. ASSUME NEW r \in Passed("shared")'
          PROVE  \E q \in KafkaQueries : (Selects(q, r) => Wrote(q, r))'
      BY <1>new, <1>old, <2>1, <2>2
    <2>3. ASSUME NEW r \in Passed("temporary")' PROVE Wrote("cassandra", r)'
      BY <1>new, <1>old, <2>1, <2>3
    <2> QED BY <2>2, <2>3 DEF CommittedIsWritten
  <1>1. CASE UNCHANGED checkpoint
    BY <1>1, <1>new DEF Passed
  <1>2. CASE StartFirst
    <2>1. /\ checkpoint'["shared"] = checkpoint["shared"]
          /\ checkpoint'["temporary"].start = 0 /\ checkpoint'["temporary"].done = 0
      BY <1>2, <1>t DEF StartFirst, NoCheckpoint, Directories
    <2> QED BY <2>1, <1>new DEF Passed, Directories
  <1>3. ASSUME NEW q \in Queries, Recover(q) \/ Plan(q) \/ Commit(q) PROVE CommittedIsWritten'
    <2>1. PICK d \in Directories : d = Directory(q)
      BY DEF Directory, Directories
    <2>2. \A e \in Directories \ {d} : checkpoint'[e] = checkpoint[e]
      BY <1>3, <2>1, DirectorySteps DEF IInv
    <2>3. CASE Recover(q) \/ Plan(q)
      <3>1. \/ checkpoint'[d].start = checkpoint[d].start /\ checkpoint'[d].done = checkpoint[d].done
            \/ checkpoint'[d].start = Len(input) /\ checkpoint'[d].done = Len(input)
        BY <2>1, <2>3, DirectorySteps DEF IInv
      <3>2. \A r \in Passed(d)' : r \in Passed(d)
        <4>1. Len(input) + 1 .. Len(input) = {}
          BY <1>t
        <4> QED BY <3>1, <4>1 DEF Passed
      <3>3. \A e \in Directories \ {d} : Passed(e)' = Passed(e)
        BY <2>2 DEF Passed
      <3>4. \A e \in Directories : \A r \in Passed(e)' : r \in Passed(e)
        BY <3>2, <3>3
      <3> QED BY <3>4, <1>new
    <2>4. CASE Commit(q)
      <3>1. checkpoint'[d].start = checkpoint[d].start /\ checkpoint'[d].done = checkpoint[d].to
        BY <2>1, <2>4, DirectorySteps DEF IInv
      <3>2. query[q].phase = "batch" /\ query[q].todo = {} /\ UNCHANGED <<out, input>>
        BY <2>4 DEF Commit
      <3>3. \A r \in checkpoint[d].done + 1 .. checkpoint[d].to : Selects(q, r) => Wrote(q, r)
        BY <2>1, <3>2 DEF IInv, BatchInv, BatchOf
      <3>4. ASSUME NEW r \in Passed(d)', r \notin Passed(d)
            PROVE  (Selects(q, r) => Wrote(q, r))'
        <4>1. r \in checkpoint[d].done + 1 .. checkpoint[d].to
          BY <3>1, <3>4, <1>t DEF Passed
        <4> QED BY <3>2, <3>3, <4>1 DEF Selects, Wrote
      <3>5. CASE d = "shared"
        <4>1. q \in KafkaQueries
          BY <2>1, <3>5 DEF Directory
        <4> QED BY <2>2, <3>4, <3>5, <4>1, <1>new DEF Passed
      <3>6. CASE d # "shared"
        <4>1. q = "cassandra" /\ \A r : Selects(q, r)'
          BY <2>1, <3>6 DEF Directory, Queries, Selects
        <4> QED BY <2>2, <3>4, <3>6, <4>1, <1>new DEF Passed
      <3> QED BY <3>5, <3>6
    <2> QED BY <1>3, <2>3, <2>4
  <1>4. Produce \/ StartSecond \/ StartThird \/ Await \/ Exit \/ Kill \/ UNCHANGED vars
        \/ (\E q \in Queries : Write(q) \/ Fail(q)) => UNCHANGED checkpoint
    BY DEF Produce, StartSecond, StartThird, Await, Exit, Kill, vars, Write, Fail
  <1> QED BY <1>1, <1>2, <1>3, <1>4 DEF Next, Main, Run

LEMMA InvStep == IInv /\ [Next]_vars => IInv'
  BY TypeStep, MainStep, OffsetStep, BatchStep, CommittedStep DEF IInv

-----------------------------------------------------------------------------
\* No failure, stop or restart makes a checkpoint count a row as done that the
\* query at work has not written, whatever the number of rows and of runs.
THEOREM NothingPassesUnwritten == Spec => []CommittedIsWritten
  <1>1. IInv => CommittedIsWritten
    BY DEF IInv
  <1> QED BY InvInit, InvStep, <1>1, PTL DEF Spec

\* The two Kafka queries, which share their checkpoint, are never both active.
THEOREM QueriesTakeTurns == Spec => []OneQueryPerCheckpoint
  <1>1. Init => TypeInv /\ MainInv
    BY InvInit DEF IInv
  <1>2. TypeInv /\ MainInv /\ [Next]_vars => (TypeInv /\ MainInv)'
    BY TypeStep, MainStep
  <1>3. MainInv => OneQueryPerCheckpoint
    BY DEF MainInv, OneQueryPerCheckpoint, Queries, KafkaQueries
  <1> QED BY <1>1, <1>2, <1>3, PTL DEF Spec

-----------------------------------------------------------------------------
(* Types, in full: what is read and written lies within the topic.          *)

\* What a query has left lies within the batch its checkpoint has planned.
TodoInv ==
    \A q \in Queries : \A r \in query[q].todo :
        /\ query[q].phase = "batch"
        /\ checkpoint[Directory(q)].done < r /\ r <= checkpoint[Directory(q)].to

RangeInv ==
    /\ main \in {"down", "first", "second", "third"} \cup Queries
    /\ out \in [Queries -> Seq(1 .. Len(input))]
    /\ runs \in 0 .. MaxRuns
    /\ main # "down" => runs > 0

FullInv == IInv /\ TodoInv /\ RangeInv

LEMMA FullInit == Init => FullInv
  <1> SUFFICES ASSUME Init PROVE FullInv
    OBVIOUS
  <1>1. TodoInv
    BY DEF Init, TodoInv, Off
  <1>2. RangeInv
    BY BoundsAssumption DEF Init, RangeInv
  <1> QED BY <1>1, <1>2, InvInit DEF FullInv

\* Only the query whose turn it is moves its checkpoint.
LEMMA OthersKeepDirectory ==
    ASSUME IInv, NEW p \in Queries, NEW q \in Queries \ {p}, Run(q) \/ Fail(q)
    PROVE  /\ query'[p] = query[p]
           /\ \/ ~Active(p)
              \/ checkpoint'[Directory(p)] = checkpoint[Directory(p)]
  <1>t. query \in [Queries -> [phase : {"off", "starting", "idle", "batch", "stopped", "failed"},
                               todo : SUBSET Nat]]
    BY DEF IInv, TypeInv
  <1>1. Active(q) /\ query'[p] = query[p]
    BY <1>t DEF Run, Recover, Plan, Write, Commit, Fail, Active
  <1>2. CASE Directory(p) = Directory(q)
    BY <1>1, <1>2 DEF IInv, MainInv, Directory, Queries, KafkaQueries
  <1>3. CASE Directory(p) # Directory(q)
    <2>1. PICK d \in Directories : d = Directory(q)
      BY DEF Directory, Directories
    <2>2. Directory(p) \in Directories
      BY DEF Directory, Directories
    <2>3. Recover(q) \/ Plan(q) \/ Commit(q) =>
             checkpoint'[Directory(p)] = checkpoint[Directory(p)]
      BY <1>3, <2>1, <2>2, DirectorySteps DEF IInv
    <2>4. Write(q) \/ Fail(q) => checkpoint' = checkpoint
      BY DEF Write, Fail
    <2> QED BY <1>1, <2>3, <2>4 DEF Run
  <1> QED BY <1>1, <1>2, <1>3

\* How the steps of main and the end of a run change the queries.
LEMMA MainSteps ==
    ASSUME TypeInv
    PROVE  /\ StartFirst \/ StartSecond \/ StartThird => \A q \in Queries :
                 \/ query'[q] = query[q]
                 \/ query'[q] = [phase |-> "starting", todo |-> {}]
                 \/ query'[q] = [phase |-> "stopped", todo |-> {}]
           /\ Exit \/ Kill => main' = "down" /\ \A q \in Queries : query'[q] = Off
           /\ StartSecond \/ StartThird \/ Await \/ Exit \/ Kill \/ Produce => checkpoint' = checkpoint
           /\ StartFirst => checkpoint'["shared"] = checkpoint["shared"]
  <1>t. /\ query \in [Queries -> [phase : {"off", "starting", "idle", "batch", "stopped",
                                           "failed"}, todo : SUBSET Nat]]
        /\ checkpoint \in [Directories -> [known : BOOLEAN, start : Nat, done : Nat, to : Nat]]
    BY DEF TypeInv
  <1>1. StartFirst \/ StartThird => \A q \in Queries :
           query'[q] = query[q] \/ query'[q] = [phase |-> "starting", todo |-> {}]
    BY <1>t DEF StartFirst, StartThird, Queries
  <1>2. StartSecond => \A q \in Queries :
           \/ query'[q] = query[q] \/ query'[q] = [phase |-> "starting", todo |-> {}]
           \/ query'[q] = [phase |-> "stopped", todo |-> {}]
    BY <1>t DEF StartSecond, Queries, KafkaQueries
  <1>3. Exit \/ Kill => main' = "down" /\ \A q \in Queries : query'[q] = Off
    BY DEF Exit, Kill, EndRun
  <1>4. StartSecond \/ StartThird \/ Await \/ Exit \/ Kill \/ Produce => checkpoint' = checkpoint
    BY DEF StartSecond, StartThird, Await, Exit, Kill, Produce
  <1>5. StartFirst => checkpoint'["shared"] = checkpoint["shared"]
    BY <1>t DEF StartFirst, Directories
  <1> QED BY <1>1, <1>2, <1>3, <1>4, <1>5

LEMMA TodoStep == FullInv /\ [Next]_vars => TodoInv'
  <1> SUFFICES ASSUME FullInv, [Next]_vars, NEW p \in Queries, NEW r \in query'[p].todo
               PROVE  /\ query'[p].phase = "batch"
                      /\ checkpoint'[Directory(p)].done < r /\ r <= checkpoint'[Directory(p)].to
    BY DEF TodoInv
  <1>i. IInv /\ TypeInv /\ TodoInv
    BY DEF FullInv, IInv
  <1>t. /\ query \in [Queries -> [phase : {"off", "starting", "idle", "batch", "stopped",
                                           "failed"}, todo : SUBSET Nat]]
        /\ checkpoint \in [Directories -> [known : BOOLEAN, start : Nat, done : Nat, to : Nat]]
        /\ Len(input) \in Nat /\ Directory(p) \in Directories
    BY <1>i DEF TypeInv, Directory, Directories
  <1>k. ASSUME query'[p].phase = query[p].phase, query'[p].todo \subseteq query[p].todo,
               checkpoint'[Directory(p)] = checkpoint[Directory(p)]
        PROVE  /\ query'[p].phase = "batch"
               /\ checkpoint'[Directory(p)].done < r /\ r <= checkpoint'[Directory(p)].to
    BY <1>i, <1>k DEF TodoInv
  <1>1. CASE Produce \/ Await \/ UNCHANGED vars
    BY <1>1, <1>k DEF Produce, Await, vars
  <1>2. CASE StartFirst
    <2>1. query[p].todo = {}
      BY <1>2, <1>i DEF StartFirst, IInv, MainInv, TodoInv, Active
    <2> QED BY <1>2, <1>i, <2>1, MainSteps
  <1>3. CASE StartSecond \/ StartThird \/ Exit \/ Kill
    BY <1>3, <1>i, <1>k, MainSteps DEF Off
  <1>4. ASSUME NEW q \in Queries \ {p}, Run(q) \/ Fail(q)
        PROVE  /\ query'[p].phase = "batch"
               /\ checkpoint'[Directory(p)].done < r /\ r <= checkpoint'[Directory(p)].to
    <2>1. Active(p)
      BY <1>4, <1>i, OthersKeepDirectory DEF TodoInv, Active
    <2> QED BY <1>4, <1>i, <1>k, <2>1, OthersKeepDirectory
  <1>5. CASE Recover(p)
    <2> DEFINE c == checkpoint[Directory(p)]
    <2>1. CASE c.known /\ c.done < c.to
      <3>1. query'[p] = [phase |-> "batch", todo |-> c.done + 1 .. c.to] /\ checkpoint' = checkpoint
        BY <1>5, <1>t, <2>1 DEF Recover
      <3>2. c.done \in Nat /\ c.to \in Nat
        BY <1>t
      <3> QED BY <3>1, <3>2
    <2>2. CASE ~(c.known /\ c.done < c.to)
      BY <1>5, <1>t, <2>2 DEF Recover
    <2> QED BY <2>1, <2>2
  <1>6. CASE Plan(p)
    <2>1. query'[p] = [phase |-> "batch",
                       todo |-> checkpoint[Directory(p)].done + 1 .. Len(input)]
      BY <1>6, <1>t DEF Plan
    <2>2. checkpoint'[Directory(p)].done = checkpoint[Directory(p)].done
          /\ checkpoint'[Directory(p)].to = Len(input)
      BY <1>6, <1>i, <1>t, DirectorySteps
    <2>3. checkpoint[Directory(p)].done \in Nat
      BY <1>t
    <2> QED BY <1>t, <2>1, <2>2, <2>3
  <1>7. CASE Write(p)
    <2>1. query'[p].phase = "batch" /\ query'[p].todo \subseteq query[p].todo
          /\ query[p].phase = "batch" /\ checkpoint' = checkpoint
      BY <1>7, <1>t DEF Write
    <2> QED BY <1>k, <2>1
  <1>8. CASE Commit(p) \/ Fail(p)
    BY <1>8, <1>t DEF Commit, Fail
  <1> QED BY <1>1, <1>2, <1>3, <1>4, <1>5, <1>6, <1>7, <1>8 DEF Next, Main, Run

LEMMA RangeStep == FullInv /\ [Next]_vars => RangeInv'
  <1> SUFFICES ASSUME FullInv, [Next]_vars PROVE RangeInv'
    OBVIOUS
  <1>t. /\ out \in [Queries -> Seq(1 .. Len(input))] /\ Len(input) \in Nat
        /\ main \in {"down", "first", "second", "third"} \cup Queries
        /\ runs \in 0 .. MaxRuns /\ MaxRuns \in Nat /\ (main # "down" => runs > 0)
    BY BoundsAssumption DEF FullInv, IInv, TypeInv, RangeInv
  <1>1. main' \in {"down", "first", "second", "third"} \cup Queries
    <2>1. (\E q \in Queries : Run(q) \/ Fail(q)) => main' = main
      BY DEF Run, Recover, Plan, Write, Commit, Fail
    <2> QED BY <1>t, <2>1
            DEF Next, Main, Produce, StartFirst, StartSecond, StartThird, Await, Exit, Kill,
                EndRun, vars
  <1>2. runs' \in 0 .. MaxRuns /\ (main' # "down" => runs' > 0)
    <2>1. (\E q \in Queries : Run(q) \/ Fail(q)) => main' = main /\ runs' = runs
      BY DEF Run, Recover, Plan, Write, Commit, Fail
    <2>2. CASE StartFirst
      BY <1>t, <2>2 DEF StartFirst
    <2>3. CASE StartSecond \/ StartThird \/ Await \/ Exit \/ Kill \/ Produce \/ UNCHANGED vars
      BY <1>t, <2>3 DEF StartSecond, StartThird, Await, Exit, Kill, EndRun, Produce, vars
    <2> QED BY <1>t, <2>1, <2>2, <2>3 DEF Next, Main
  <1>3. out' \in [Queries -> Seq(1 .. Len(input'))]
    <2>1. CASE Produce
      <3>1. PICK b \in BOOLEAN : input' = Append(input, b) /\ out' = out
        BY <2>1 DEF Produce
      <3>2. Len(input') = Len(input) + 1
        BY <3>1 DEF FullInv, IInv, TypeInv
      <3>3. 1 .. Len(input) \subseteq 1 .. Len(input')
        BY <1>t, <3>2
      <3>4. Seq(1 .. Len(input)) \subseteq Seq(1 .. Len(input'))
        <4>1. \A S, T : S \subseteq T => \A s \in Seq(S) : s \in Seq(T)
          OBVIOUS
        <4> QED BY <3>3, <4>1
      <3> DEFINE old == Seq(1 .. Len(input))
                 new == Seq(1 .. Len(input'))
      <3>5. old \subseteq new /\ out \in [Queries -> old]
        BY <1>t, <3>4
      <3> HIDE DEF old, new
      <3>6. out' \in [Queries -> new]
        BY <3>1, <3>5
      <3> QED BY <3>6 DEF new
    <2>2. ASSUME NEW q \in Queries, Write(q) PROVE out' \in [Queries -> Seq(1 .. Len(input'))]
      <3>1. PICK s \in query[q].todo :
               out' = [out EXCEPT ![q] = IF Selects(q, s) THEN Append(@, s) ELSE @]
        BY <2>2 DEF Write
      <3>2. s \in 1 .. Len(input)
        <4>1. PICK d \in Directories : d = Directory(q)
          BY DEF Directory, Directories
        <4>2. /\ checkpoint[d].done \in Nat /\ checkpoint[d].to \in Nat
              /\ checkpoint[d].to <= Len(input) /\ s \in Nat
          BY DEF FullInv, IInv, TypeInv, OffsetInv
        <4>3. checkpoint[d].done < s /\ s <= checkpoint[d].to
          BY <4>1 DEF FullInv, TodoInv
        <4> QED BY <1>t, <4>2, <4>3
      <3>3. Append(out[q], s) \in Seq(1 .. Len(input))
        BY <1>t, <3>2
      <3>4. input' = input
        BY <2>2 DEF Write
      <3> QED BY <1>t, <3>1, <3>3, <3>4
    <2>3. CASE UNCHANGED <<out, input>>
      BY <1>t, <2>3
    <2>4. Main \/ Kill \/ UNCHANGED vars
          \/ (\E q \in Queries : Recover(q) \/ Plan(q) \/ Commit(q) \/ Fail(q))
          => UNCHANGED <<out, input>>
      BY DEF Main, StartFirst, StartSecond, StartThird, Await, Exit, Kill, vars, Recover, Plan,
             Commit, Fail
    <2> QED BY <2>1, <2>2, <2>3, <2>4 DEF Next, Run
  <1> QED BY <1>1, <1>2, <1>3 DEF RangeInv

LEMMA FullStep == FullInv /\ [Next]_vars => FullInv'
  BY InvStep, TodoStep, RangeStep DEF FullInv

\* Every variable keeps its type: no query reads or writes a row the topic
\* does not hold, whatever the checkpoints of earlier runs say.
THEOREM TypesHold == Spec => []TypeOK
  <1>1. FullInv => TypeOK
    <2> SUFFICES ASSUME FullInv PROVE TypeOK
      OBVIOUS
    <2>1. query \in [Queries -> [phase : {"off", "starting", "idle", "batch", "stopped", "failed"},
                                 todo : SUBSET (1 .. Len(input))]]
      <3>1. ASSUME NEW q \in Queries PROVE query[q].todo \subseteq 1 .. Len(input)
        <4>1. PICK d \in Directories : d = Directory(q)
          BY DEF Directory, Directories
        <4>2. /\ checkpoint[d].done \in Nat /\ checkpoint[d].to \in Nat /\ Len(input) \in Nat
              /\ checkpoint[d].to <= Len(input) /\ query[q].todo \subseteq Nat
          BY DEF FullInv, IInv, TypeInv, OffsetInv
        <4>3. \A r \in query[q].todo : checkpoint[d].done < r /\ r <= checkpoint[d].to
          BY <4>1 DEF FullInv, TodoInv
        <4> QED BY <4>2, <4>3
      <3> QED BY <3>1 DEF FullInv, IInv, TypeInv
    <2> QED BY <2>1 DEF FullInv, IInv, TypeInv, RangeInv, TypeOK
  <1> QED BY FullInit, FullStep, <1>1, PTL DEF Spec

-----------------------------------------------------------------------------
(* Writes: within a run a query goes over each row once.                    *)

Writes(q, r) == {i \in 1 .. Len(out[q]) : out[q][i] = r}

\* Query q has not been started in this run.
Pending(q) ==
    \/ q = "flagging" /\ main = "first"
    \/ q = "cassandra" /\ main \in {"first", "second"}

\* Query q may still write row r in this run.
May(q, r) ==
    \/ Pending(q) \/ query[q].phase = "starting"
    \/ query[q].phase = "idle" /\ checkpoint[Directory(q)].done < r
    \/ query[q].phase = "batch" /\ (r \in query[q].todo \/ checkpoint[Directory(q)].to < r)

WritesCounted ==
    \A q \in Queries : \A r \in 1 .. Len(input) :
        /\ Cardinality(Writes(q, r)) <= runs
        /\ May(q, r) => Cardinality(Writes(q, r)) < runs

LEMMA WritesFinite ==
    ASSUME RangeInv, NEW q \in Queries, NEW r
    PROVE  IsFiniteSet(Writes(q, r)) /\ Cardinality(Writes(q, r)) \in Nat
  <1>1. out[q] \in Seq(1 .. Len(input))
    BY DEF RangeInv
  <1>2. Len(out[q]) \in Nat
    BY <1>1
  <1>3. IsFiniteSet(1 .. Len(out[q]))
    BY <1>2, FS_Interval
  <1>4. IsFiniteSet(Writes(q, r))
    BY <1>3, FS_Subset DEF Writes
  <1> QED BY <1>4, FS_CardinalityType

\* A step that writes nothing and lets no query write more than it could.
LEMMA WritesStay ==
    ASSUME FullInv, WritesCounted, UNCHANGED <<input, out, runs>>,
           \A q \in Queries : \A r \in 1 .. Len(input) : May(q, r)' => May(q, r)
    PROVE  WritesCounted'
  BY DEF WritesCounted, Writes

\* What main does next is to start what has not been started.
LEMMA PendingStarts ==
    ASSUME FullInv, StartSecond \/ StartThird \/ Await \/ Exit \/ Kill, NEW q \in Queries,
           NEW r \in 1 .. Len(input), May(q, r)'
    PROVE  May(q, r)
  <1>t. /\ query \in [Queries -> [phase : {"off", "starting", "idle", "batch", "stopped",
                                           "failed"}, todo : SUBSET Nat]]
        /\ main \in {"down", "first", "second", "third"} \cup Queries
    BY DEF FullInv, IInv, TypeInv, RangeInv
  <1>n. "down" \notin Queries /\ "first" \notin Queries /\ "second" \notin Queries
        /\ "third" \notin Queries
    BY DEF Queries, KafkaQueries
  <1>1. CASE StartSecond
    <2>1. /\ query'["flagging"] = [phase |-> "starting", todo |-> {}]
          /\ query'["cassandra"] = query["cassandra"]
          /\ query'["fraud_detection"] \in {query["fraud_detection"],
                                            [phase |-> "stopped", todo |-> {}]}
      BY <1>1, <1>t DEF StartSecond, Queries, KafkaQueries
    <2>2. main = "first" /\ main' = "second" /\ checkpoint' = checkpoint
      BY <1>1 DEF StartSecond
    <2> QED BY <2>1, <2>2 DEF May, Pending, Queries, KafkaQueries
  <1>2. CASE StartThird
    <2>1. /\ query'["cassandra"] = [phase |-> "starting", todo |-> {}]
          /\ \A p \in KafkaQueries : query'[p] = query[p]
      BY <1>2, <1>t DEF StartThird, Queries, KafkaQueries
    <2>2. main = "second" /\ main' = "third" /\ checkpoint' = checkpoint
      BY <1>2 DEF StartThird
    <2> QED BY <2>1, <2>2 DEF May, Pending, Queries, KafkaQueries
  <1>3. CASE Await
    BY <1>3, <1>n DEF Await, May, Pending
  <1>4. CASE Exit \/ Kill
    BY <1>4 DEF Exit, Kill, EndRun, Off, May, Pending
  <1> QED BY <1>1, <1>2, <1>3, <1>4

\* A query goes forward through the rows: what it may write after a step of its
\* own or of another it could write before.
LEMMA RunsForward ==
    ASSUME FullInv, NEW p \in Queries, NEW q \in Queries, Run(q) \/ Fail(q),
           NEW r \in 1 .. Len(input), May(p, r)'
    PROVE  May(p, r)
  <1>t. /\ query \in [Queries -> [phase : {"off", "starting", "idle", "batch", "stopped",
                                           "failed"}, todo : SUBSET Nat]]
        /\ checkpoint \in [Directories -> [known : BOOLEAN, start : Nat, done : Nat, to : Nat]]
        /\ Len(input) \in Nat /\ r \in Nat
    BY DEF FullInv, IInv, TypeInv
  <1>m. main' = main /\ (Pending(p)' <=> Pending(p))
    BY DEF Run, Recover, Plan, Write, Commit, Fail, Pending
  <1>1. CASE p # q
    <2>1. query'[p] = query[p]
          /\ (~Active(p) \/ checkpoint'[Directory(p)] = checkpoint[Directory(p)])
      BY <1>1, OthersKeepDirectory DEF FullInv
    <2> QED BY <1>m, <2>1 DEF May, Active
  <1>2. CASE p = q
    <2>1. CASE Recover(p)
      BY <2>1 DEF Recover, May
    <2>2. CASE Plan(p)
      <3>1. PICK d \in Directories : d = Directory(p)
        BY DEF Directory, Directories
      <3>2. query[p].phase = "idle" /\ query'[p].phase = "batch"
            /\ query'[p].todo = checkpoint[d].done + 1 .. Len(input)
            /\ checkpoint[d].done < Len(input)
        BY <1>t, <2>2, <3>1 DEF Plan
      <3>3. checkpoint'[d].to = Len(input)
        BY <2>2, <3>1, DirectorySteps DEF FullInv, IInv
      <3>4. Pending(p) \/ checkpoint[d].done < r
        <4>1. checkpoint[d].done \in Nat
          BY <1>t
        <4> QED BY <1>t, <1>m, <3>1, <3>2, <3>3, <4>1 DEF May
      <3> QED BY <3>1, <3>2, <3>4 DEF May
    <2>3. CASE Write(p)
      <3>1. query[p].phase = "batch" /\ query'[p].phase = "batch" /\ checkpoint' = checkpoint
            /\ query'[p].todo \subseteq query[p].todo
        BY <1>t, <2>3 DEF Write
      <3> QED BY <1>m, <3>1 DEF May
    <2>4. CASE Commit(p)
      <3>1. PICK d \in Directories : d = Directory(p)
        BY DEF Directory, Directories
      <3>2. query[p].phase = "batch" /\ query'[p].phase = "idle"
        BY <1>t, <2>4 DEF Commit
      <3>3. checkpoint'[d].done = checkpoint[d].to
        BY <2>4, <3>1, DirectorySteps DEF FullInv, IInv
      <3> QED BY <1>m, <3>1, <3>2, <3>3 DEF May
    <2>5. CASE Fail(p)
      <3>1. query'[p].phase = "failed"
        BY <1>t, <2>5 DEF Fail
      <3> QED BY <1>m, <3>1 DEF May
    <2> QED BY <1>2, <2>1, <2>2, <2>3, <2>4, <2>5 DEF Run
  <1> QED BY <1>1, <1>2

LEMMA WritesStep == FullInv /\ FullInv' /\ WritesCounted /\ [Next]_vars => WritesCounted'
  <1> SUFFICES ASSUME FullInv, FullInv', WritesCounted, [Next]_vars PROVE WritesCounted'
    OBVIOUS
  <1>t. /\ Len(input) \in Nat /\ runs \in Nat /\ out \in [Queries -> Seq(1 .. Len(input))]
        /\ query \in [Queries -> [phase : {"off", "starting", "idle", "batch", "stopped",
                                           "failed"}, todo : SUBSET Nat]]
    BY DEF FullInv, IInv, TypeInv, RangeInv
  <1>c. \A q \in Queries : \A r : Cardinality(Writes(q, r)) \in Nat
    BY WritesFinite DEF FullInv
  <1>1. CASE Produce
    <2>1. PICK b \in BOOLEAN : input' = Append(input, b)
                               /\ UNCHANGED <<main, query, checkpoint, out, runs>>
      BY <1>1 DEF Produce
    <2>2. Len(input') = Len(input) + 1
      BY <2>1 DEF FullInv, IInv, TypeInv
    <2>3. \A q \in Queries : Writes(q, Len(input) + 1) = {}
      <3>1. ASSUME NEW q \in Queries, NEW i \in 1 .. Len(out[q])
            PROVE  out[q][i] # Len(input) + 1
        <4>1. out[q] \in Seq(1 .. Len(input))
          BY <1>t
        <4>2. out[q][i] \in 1 .. Len(input)
          BY <4>1
        <4> QED BY <1>t, <4>2
      <3> QED BY <3>1 DEF Writes
    <2>4. ASSUME NEW q \in Queries, May(q, Len(input) + 1) PROVE 0 < runs
      <3>1. main # "down"
        BY <2>4 DEF FullInv, IInv, MainInv, May, Pending, Active
      <3> QED BY <1>t, <3>1 DEF FullInv, RangeInv
    <2>5. \A q \in Queries : \A r : Writes(q, r)' = Writes(q, r) /\ (May(q, r)' <=> May(q, r))
      BY <2>1 DEF Writes, May, Pending
    <2>6. ASSUME NEW q \in Queries, NEW r \in 1 .. Len(input')
          PROVE  /\ Cardinality(Writes(q, r)) <= runs
                 /\ May(q, r) => Cardinality(Writes(q, r)) < runs
      <3>1. CASE r \in 1 .. Len(input)
        BY <3>1 DEF WritesCounted
      <3>2. CASE r = Len(input) + 1
        <4>1. Cardinality(Writes(q, r)) = 0
          BY <2>3, <3>2, FS_EmptySet
        <4>2. May(q, r) => 0 < runs
          BY <2>4, <3>2
        <4> QED BY <1>t, <4>1, <4>2
      <3> QED BY <1>t, <2>2, <3>1, <3>2
    <2> QED BY <2>1, <2>5, <2>6 DEF WritesCounted
  <1>2. CASE StartFirst
    <2>1. UNCHANGED <<input, out>> /\ runs' = runs + 1
      BY <1>2 DEF StartFirst
    <2>2. \A q \in Queries : \A r \in 1 .. Len(input) : Cardinality(Writes(q, r)) < runs'
      BY <1>t, <1>c, <2>1 DEF WritesCounted
    <2>3. \A q \in Queries : \A r : Writes(q, r)' = Writes(q, r)
      BY <2>1 DEF Writes
    <2>4. \A q \in Queries : \A r \in 1 .. Len(input) :
             Cardinality(Writes(q, r)) <= runs'
      BY <1>t, <1>c, <2>1 DEF WritesCounted
    <2> QED BY <2>1, <2>2, <2>3, <2>4 DEF WritesCounted
  <1>3. CASE StartSecond \/ StartThird \/ Await \/ Exit \/ Kill
    <2>1. UNCHANGED <<input, out, runs>>
      BY <1>3 DEF StartSecond, StartThird, Await, Exit, Kill
    <2> QED BY <1>3, <2>1, PendingStarts, WritesStay
  <1>4. ASSUME NEW q \in Queries, Write(q) PROVE WritesCounted'
    <2>1. PICK s \in query[q].todo :
             /\ query' = [query EXCEPT ![q] = [phase |-> "batch", todo |-> @.todo \ {s}]]
             /\ out' = [out EXCEPT ![q] = IF Selects(q, s) THEN Append(@, s) ELSE @]
      BY <1>4 DEF Write
    <2>2. UNCHANGED <<input, main, checkpoint, runs>> /\ query[q].phase = "batch"
      BY <1>4 DEF Write
    <2>3. PICK d \in Directories : d = Directory(q)
      BY DEF Directory, Directories
    <2>4. /\ s \in Nat /\ checkpoint[d].to \in Nat /\ s <= checkpoint[d].to
      BY <2>3 DEF FullInv, IInv, TypeInv, TodoInv
    \* The row is not in the batch any more, and the batch ends behind it.
    <2>5. ~May(q, s)'
      <3>1. query'[q].todo = query[q].todo \ {s} /\ query'[q].phase = "batch"
        BY <1>t, <2>1
      <3>2. ~Pending(q)
        BY <2>2 DEF FullInv, IInv, MainInv, Active, Pending
      <3>3. ~Pending(q)'
        BY <2>2, <3>2 DEF Pending
      <3> QED BY <2>2, <2>3, <2>4, <3>1, <3>3 DEF May
    <2>6. May(q, s)
      BY <2>2 DEF May
    <2>7. ASSUME NEW p \in Queries, NEW r \in 1 .. Len(input)
          PROVE  /\ IsFiniteSet(Writes(p, r)') /\ Cardinality(Writes(p, r)') \in Nat
                 /\ Writes(p, r)' = Writes(p, r) \/
                       /\ p = q /\ r = s
                       /\ Writes(p, r)' \subseteq Writes(p, r) \cup {Len(out[p]) + 1}
      <3>1. CASE p = q /\ out'[p] = Append(out[p], s)
        <4>1. out[p] \in Seq(Nat) /\ Len(out[p]) \in Nat
          BY DEF FullInv, IInv, TypeInv
        <4>2. /\ Len(out'[p]) = Len(out[p]) + 1 /\ out'[p][Len(out[p]) + 1] = s
              /\ \A i \in 1 .. Len(out[p]) : out'[p][i] = out[p][i]
          BY <2>4, <3>1, <4>1
        <4>3. Writes(p, r)' \subseteq Writes(p, r) \cup {Len(out[p]) + 1}
          BY <4>1, <4>2 DEF Writes
        <4>4. r # s => Writes(p, r)' = Writes(p, r)
          <5>1. 1 .. Len(out'[p]) = 1 .. Len(out[p]) \cup {Len(out[p]) + 1}
            BY <4>1, <4>2
          <5> QED BY <4>2, <5>1 DEF Writes
        <4>5. IsFiniteSet(Writes(p, r) \cup {Len(out[p]) + 1})
          BY WritesFinite, FS_AddElement DEF FullInv
        <4>6. IsFiniteSet(Writes(p, r)')
          BY <4>3, <4>5, FS_Subset
        <4> QED BY <3>1, <4>3, <4>4, <4>6, FS_CardinalityType
      <3>2. CASE out'[p] = out[p]
        <4>1. Writes(p, r)' = Writes(p, r)
          BY <3>2 DEF Writes
        <4> QED BY <4>1, WritesFinite DEF FullInv
      <3> QED BY <1>t, <2>1, <3>1, <3>2
    <2>8. ASSUME NEW p \in Queries, NEW r \in 1 .. Len(input)
          PROVE  /\ Cardinality(Writes(p, r)') <= runs
                 /\ May(p, r)' => Cardinality(Writes(p, r)') < runs
      <3>1. May(p, r)' => May(p, r)
        BY <1>4, RunsForward DEF Run
      <3>2. CASE Writes(p, r)' = Writes(p, r)
        BY <3>1, <3>2 DEF WritesCounted
      <3>3. CASE /\ p = q /\ r = s
                 /\ Writes(p, r)' \subseteq Writes(p, r) \cup {Len(out[p]) + 1}
        <4> DEFINE more == Writes(p, r) \cup {Len(out[p]) + 1}
        <4>1. Cardinality(Writes(p, r)) < runs /\ ~May(p, r)'
          BY <2>5, <2>6, <3>3 DEF WritesCounted
        <4>2. /\ IsFiniteSet(more)
              /\ Cardinality(more) \in {Cardinality(Writes(p, r)), Cardinality(Writes(p, r)) + 1}
          BY WritesFinite, FS_AddElement DEF FullInv
        <4>3. Cardinality(Writes(p, r)') <= Cardinality(more)
          BY <3>3, <4>2, FS_Subset
        <4>4. Cardinality(more) \in Nat
          BY <4>2, FS_CardinalityType
        <4> HIDE DEF more
        <4> QED BY <1>t, <1>c, <2>7, <4>1, <4>2, <4>3, <4>4
      <3> QED BY <2>7, <3>2, <3>3
    <2> QED BY <2>2, <2>8 DEF WritesCounted
  <1>5. ASSUME NEW q \in Queries, Recover(q) \/ Plan(q) \/ Commit(q) \/ Fail(q)
        PROVE  WritesCounted'
    <2>1. UNCHANGED <<input, out, runs>>
      BY <1>5 DEF Recover, Plan, Commit, Fail
    <2>2. \A p \in Queries : \A r \in 1 .. Len(input) : May(p, r)' => May(p, r)
      BY <1>5, RunsForward DEF Run
    <2> QED BY <2>1, <2>2, WritesStay
  <1>6. CASE UNCHANGED vars
    BY <1>6 DEF vars, WritesCounted, Writes, May, Pending
  <1> QED BY <1>1, <1>2, <1>3, <1>4, <1>5, <1>6 DEF Next, Main, Run

\* A run of the job writes a row to one sink at most once: a row is written
\* again only after the job has been submitted again.
THEOREM WrittenOncePerRun == Spec => []OncePerRun
  <1>1. Init => WritesCounted
    BY DEF Init, WritesCounted
  <1>2. FullInv /\ WritesCounted /\ [Next]_vars => (FullInv /\ WritesCounted)'
    BY FullStep, WritesStep
  <1>3. WritesCounted => OncePerRun
    BY DEF WritesCounted, OncePerRun, Writes
  <1> QED BY FullInit, <1>1, <1>2, <1>3, PTL DEF Spec

=============================================================================
