--------------------------- MODULE CopyFromProofs ----------------------------
(***************************************************************************)
(* Proofs about CopyFrom, for every input, every number of workers, any    *)
(* number of children that die or time-outs and however often threads that *)
(* race report a chunk (ImportWorkerProofs bounds how often).              *)
(* Then about its parts: what the feeder sends of any input and at any     *)
(* rate (Feeder), how a worker divides any chunk over the hosts of any     *)
(* ring, whichever go down and come back (Batches), the order in which     *)
(* hosts are asked, however busy they are (QueryPlan), and what of any     *)
(* rows reaches the table (ImportRows).                                    *)
(***************************************************************************)
EXTENDS CopyFrom, FiniteSetTheorems, WellFoundedInduction, TLAPS

\* The messages of each child on their way to the parent, in order.
Wires == [p \in Children |-> results[p] \o outbox[p]]

\* Rows that were given up and are not in the error file yet.
Unfiled == failed \ errFile

\* A sending thread of the feeder that holds a lock has a chunk to write.
LockInv == \A w \in Workers : wlock[w] = "feeder" => pending[w] # << >>

\* Rows of reported chunks are settled; rows given up belong to a chunk that
\* a worker holds.
ChunkInv ==
    /\ \A c \in Chunks : reports[c] > 0 => RowsOf(c) \subseteq settled
    /\ \A r \in failed : \E w \in Workers : ChunkOf[r] \in hand[w]

\* A chunk goes to one worker.
Has(w) == Range(pending[w]) \cup Range(pipe[w]) \cup hand[w]
OwnerInv ==
    /\ \A w \in Workers : \A c \in Has(w) \ {Pill} : c < feeder.next
    /\ \A w, v \in Workers : \A c \in (Has(w) \cap Has(v)) \ {Pill} : w = v

\* What the feeder has counted is what it has sent, and what it tells the
\* parent is the number of all rows.
Before(n) == {r \in Rows : ChunkOf[r] < n}
TellsAll(m) == m.type = "fed" => m.sent = Cardinality(Rows)
SentInv ==
    /\ feeder.sent = Cardinality(Before(feeder.next))
    /\ \A p \in Children : \A i \in 1 .. Len(Wires[p]) : TellsAll(Wires[p][i])
    /\ parent.sent \in {NoResult, Cardinality(Rows)}

\* Row r is reported as failed in message m.
ErrorFor(m, r) == m.type = "error" /\ r \in m.rows

\* A row that was given up is in the error file or on the wire of the worker
\* that has its chunk, while that lives.
Carried(W, unfiled, holds, living) ==
    \A r \in unfiled : \A w \in Workers \cap living :
        ChunkOf[r] \in holds[w] => \E j \in 1 .. Len(W[w]) : ErrorFor(W[w][j], r)
ErrorInv ==
    /\ \A p \in Children : \A i \in 1 .. Len(Wires[p]) : Wires[p][i].type = "error" => Wires[p][i].rows \subseteq failed
    /\ Carried(Wires, Unfiled, hand, alive)

RowsIn(C) == {r \in Rows : ChunkOf[r] \in C}

\* A result says how many rows were imported, not for which chunk, nor whether
\* the chunk was reported before.  But there is always a way to name them: a
\* mark <<c, n>> is the n-th report of chunk c, label[p][i] the mark of message
\* i of wire p, NoMark for other messages, and Got are the marks received.  The
\* total has a row once for each mark of its chunk.
Marks == Chunks \X (1 .. MaxReports)
NoMark == <<0, 0>>
Counted(M) == {q \in Rows \X (1 .. MaxReports) : <<ChunkOf[q[1]], q[2]>> \in M}
Names(W, label, Got, unfiled, reported, p, i) ==
    /\ label[p][i] # NoMark <=> W[p][i].type = "imported"
    /\ label[p][i] # NoMark =>
        /\ label[p][i] \in Marks \ Got /\ label[p][i][2] <= reported[label[p][i][1]]
        /\ W[p][i].n = Size(label[p][i][1])
        /\ \A r \in unfiled : ChunkOf[r] = label[p][i][1] => \E j \in 1 .. i - 1 : ErrorFor(W[p][j], r)
Labelled(W, label, Got, unfiled, reported, total) ==
    /\ \A p \in Children : Len(label[p]) = Len(W[p])
    /\ \A p \in Children : \A i \in 1 .. Len(W[p]) : Names(W, label, Got, unfiled, reported, p, i)
    /\ \A p, q \in Children : \A i \in 1 .. Len(W[p]), j \in 1 .. Len(W[q]) :
        label[p][i] = label[q][j] /\ label[p][i] # NoMark => p = q /\ i = j
    /\ \A g \in Got : g[2] <= reported[g[1]]
    /\ \A r \in unfiled : \A g \in Got : ChunkOf[r] # g[1]
    /\ total = Cardinality(Counted(Got))
Labels == [Children -> Seq(Marks \cup {NoMark})]
Nameable(W, unfiled, reported, total) ==
    \E label \in Labels, Got \in SUBSET Marks : Labelled(W, label, Got, unfiled, reported, total)
LabelInv == Nameable(Wires, Unfiled, reports, parent.total)

\* Message m, added to the wire of p, is the report with mark l, whose given-up
\* rows are filed or on that wire; or l is NoMark.
Announces(W, unfiled, reported, reported2, p, m, l) ==
    /\ l # NoMark <=> m.type = "imported"
    /\ l # NoMark =>
        /\ reported[l[1]] < l[2] /\ l[2] <= reported2[l[1]] /\ m.n = Size(l[1])
        /\ \A r \in unfiled : ChunkOf[r] = l[1] => \E j \in 1 .. Len(W[p]) : ErrorFor(W[p][j], r)
Count(total, m) == IF m.type = "imported" THEN total + m.n ELSE total

\* The promise itself.
DoneInv == MissingIsCountedAgain

IInv == TypeOK /\ LockInv /\ ChunkInv /\ OwnerInv /\ SentInv /\ ErrorInv /\ LabelInv /\ DoneInv

-----------------------------------------------------------------------------
(* The data                                                                *)

LEMMA Numbers ==
    ASSUME ChunksAssumption
    PROVE  /\ \A c \in Chunks : c \in Nat \ {0} /\ RowsOf(c) \subseteq Rows /\ IsFiniteSet(RowsOf(c)) /\ Size(c) \in Nat
           /\ \A R \in SUBSET Rows : IsFiniteSet(R) /\ Cardinality(R) \in Nat
           /\ Cardinality(Chunks) \in Nat
           /\ \A r \in Rows : ChunkOf[r] \in Chunks /\ r \in RowsOf(ChunkOf[r])
           /\ Pill \notin Chunks
  <1>1. \A R \in SUBSET Rows : IsFiniteSet(R) /\ Cardinality(R) \in Nat
    BY FS_Subset, FS_CardinalityType DEF ChunksAssumption
  <1>2. \A r \in Rows : ChunkOf[r] \in Chunks /\ r \in RowsOf(ChunkOf[r])
    BY DEF Chunks, RowsOf, Work!Chunks, Work!RowsOf
  <1>3. \A c : RowsOf(c) \subseteq Rows
    BY DEF RowsOf, Work!RowsOf
  <1>4. \A c \in Chunks : IsFiniteSet(RowsOf(c)) /\ Size(c) \in Nat
    BY <1>1, <1>3 DEF Size
  <1>5. PICK n : n = Cardinality(Chunks) /\ Chunks = 1 .. n
    BY DEF ChunksAssumption
  <1>6. n \in Nat
    <2>1. CASE Rows = {}
      <3>1. Chunks = {}
        BY <2>1 DEF Chunks, Work!Chunks
      <3>2. Cardinality({}) = 0
        BY FS_EmptySet
      <3>3. n = Cardinality({})
        BY <1>5, <3>1
      <3> QED BY <3>2, <3>3
    <2>2. CASE Rows # {}
      <3> DEFINE f == [r \in Rows |-> ChunkOf[r]]
      <3>2. f \in Surjection(Rows, Chunks)
        BY DEF Surjection, Chunks, Work!Chunks
      <3>3. IsFiniteSet(Chunks)
        BY <3>2, FS_Surjection DEF ChunksAssumption
      <3> QED BY <1>5, <3>3, FS_CardinalityType
    <2> QED BY <2>1, <2>2
  <1>7. \A c \in Chunks : c \in Nat \ {0}
    BY <1>5, <1>6
  <1> QED BY <1>1, <1>2, <1>3, <1>4, <1>5, <1>6, <1>7 DEF Pill

LEMMA MessageTypes ==
    ASSUME ChunksAssumption
    PROVE  /\ \A n \in Nat : [type |-> "imported", n |-> n] \in Results /\ [type |-> "fed", sent |-> n] \in Results
           /\ \A k \in ErrorKinds, R \in SUBSET Rows : [type |-> "error", kind |-> k, rows |-> R] \in Results
           /\ \A m \in Results :
                /\ m.type \in {"imported", "fed", "error"}
                /\ m.type = "imported" => m.n \in Nat
                /\ m.type = "fed" => m.sent \in Nat
                /\ m.type = "error" => m.kind \in ErrorKinds /\ m.rows \in SUBSET Rows
  BY DEF Results

\* Rows of two disjoint sets of chunks.
LEMMA RowsAdd ==
    ASSUME ChunksAssumption, NEW Got \in SUBSET Chunks, NEW c \in Chunks \ Got
    PROVE  Cardinality(RowsIn(Got \cup {c})) = Cardinality(RowsIn(Got)) + Size(c)
  <1>1. IsFiniteSet(RowsIn(Got)) /\ IsFiniteSet(RowsOf(c)) /\ Cardinality(RowsIn(Got)) \in Nat /\ Cardinality(RowsOf(c)) \in Nat
    BY Numbers DEF RowsIn
  <1>2. RowsIn(Got) \cup RowsOf(c) = RowsIn(Got \cup {c})
    BY DEF RowsIn, RowsOf, Work!RowsOf
  <1>3. RowsIn(Got) \cap RowsOf(c) = {}
    BY DEF RowsIn, RowsOf, Work!RowsOf
  <1>4. Cardinality({}) = 0
    BY FS_EmptySet
  <1>5. Cardinality(RowsIn(Got) \cup RowsOf(c)) = Cardinality(RowsIn(Got)) + Cardinality(RowsOf(c)) - Cardinality({})
    BY <1>1, <1>3, FS_Union
  <1>6. Cardinality(RowsIn(Got) \cup RowsOf(c)) = Cardinality(RowsIn(Got)) + Cardinality(RowsOf(c))
    BY <1>1, <1>4, <1>5
  <1> QED BY <1>2, <1>6 DEF Size

LEMMA MarkParts ==
    ASSUME ChunksAssumption
    PROVE  \A l \in Marks : /\ l[1] \in Chunks /\ l[2] \in 1 .. MaxReports /\ l[2] \in Nat \ {0}
                           /\ l = <<l[1], l[2]>> /\ l # NoMark
  <1>1. MaxReports \in Nat
    BY DEF ChunksAssumption
  <1>2. \A n \in 1 .. MaxReports : n \in Nat \ {0}
    BY <1>1
  <1> QED BY <1>2 DEF Marks, NoMark

\* A row and how often it was counted: finitely many pairs.
LEMMA CountsFinite ==
    ASSUME ChunksAssumption
    PROVE  /\ \A T : T \subseteq Rows \X (1 .. MaxReports) => IsFiniteSet(T) /\ Cardinality(T) \in Nat
           /\ CountedAgain \subseteq Rows \X (1 .. MaxReports)
  <1>1. IsFiniteSet(Rows) /\ MaxReports \in Nat
    BY DEF ChunksAssumption
  <1>2. IsFiniteSet(1 .. MaxReports)
    BY <1>1, FS_Interval
  <1>3. IsFiniteSet(Rows \X (1 .. MaxReports))
    BY <1>1, <1>2, FS_Product
  <1>4. \A T : T \subseteq Rows \X (1 .. MaxReports) => IsFiniteSet(T) /\ Cardinality(T) \in Nat
    BY <1>3, FS_Subset, FS_CardinalityType
  <1>5. 2 .. MaxReports \subseteq 1 .. MaxReports
    BY <1>1
  <1> QED BY <1>4, <1>5 DEF CountedAgain

\* One more report counts the rows of its chunk once more.
LEMMA CountedAdd ==
    ASSUME ChunksAssumption, NEW Got \in SUBSET Marks, NEW l \in Marks \ Got
    PROVE  Cardinality(Counted(Got \cup {l})) = Cardinality(Counted(Got)) + Size(l[1])
  <1> DEFINE c == l[1]
             n == l[2]
             New == {q \in Rows \X (1 .. MaxReports) : <<ChunkOf[q[1]], q[2]>> = l}
             f == [r \in RowsOf(c) |-> <<r, n>>]
  <1>1. c \in Chunks /\ n \in 1 .. MaxReports /\ l = <<c, n>>
    BY MarkParts
  <1>2. IsFiniteSet(RowsOf(c)) /\ RowsOf(c) \subseteq Rows
    BY <1>1, Numbers
  <1>3. IsFiniteSet(New) /\ IsFiniteSet(Counted(Got)) /\ Cardinality(New) \in Nat /\ Cardinality(Counted(Got)) \in Nat
    BY CountsFinite DEF Counted
  <1>4. New = {<<r, n>> : r \in RowsOf(c)}
    <2>1. ASSUME NEW q \in New PROVE \E r \in RowsOf(c) : q = <<r, n>>
      <3>1. q = <<q[1], q[2]>> /\ q[1] \in Rows /\ <<ChunkOf[q[1]], q[2]>> = <<c, n>>
        BY <1>1
      <3>2. ChunkOf[q[1]] = c /\ q[2] = n
        BY <3>1
      <3> QED BY <3>1, <3>2 DEF RowsOf, Work!RowsOf
    <2>2. ASSUME NEW r \in RowsOf(c) PROVE <<r, n>> \in New
      <3>1. r \in Rows /\ ChunkOf[r] = c
        BY DEF RowsOf, Work!RowsOf
      <3> QED BY <1>1, <3>1
    <2> QED BY <2>1, <2>2
  <1>5. ExistsBijection(RowsOf(c), New)
    <2>1. f \in [RowsOf(c) -> New]
      BY <1>4
    <2>2. \A a, b \in RowsOf(c) : f[a] = f[b] => a = b
      OBVIOUS
    <2>3. \A q \in New : \E r \in RowsOf(c) : f[r] = q
      BY <1>4
    <2> QED BY <2>1, <2>2, <2>3 DEF ExistsBijection, Bijection, Injection, Surjection, IsInjective
  <1>6. Cardinality(New) = Size(c)
    BY <1>2, <1>5, FS_Bijection DEF Size
  <1>7. Counted(Got) \cup New = Counted(Got \cup {l})
    BY DEF Counted
  <1>8. Counted(Got) \cap New = {}
    BY DEF Counted
  <1>9. Cardinality({}) = 0
    BY FS_EmptySet
  <1> HIDE DEF New
  <1>10. Cardinality(Counted(Got) \cup New) = Cardinality(Counted(Got)) + Cardinality(New) - 0
    BY <1>3, <1>8, <1>9, FS_Union
  <1>11. Cardinality(Counted(Got) \cup New) = Cardinality(Counted(Got)) + Cardinality(New)
    BY <1>3, <1>10
  <1>12. Cardinality(Counted(Got \cup {l})) = Cardinality(Counted(Got)) + Cardinality(New)
    BY <1>7, <1>11
  <1> QED BY <1>6, <1>12

\* The feeder sends the chunks in order.
LEMMA BeforeAdd ==
    ASSUME ChunksAssumption, NEW n \in Chunks
    PROVE  Cardinality(Before(n + 1)) = Cardinality(Before(n)) + Size(n)
  <1> DEFINE C == {c \in Chunks : c < n}
  <1>1. n \in Chunks \ C
    BY Numbers
  <1>2. Before(n) = RowsIn(C)
    BY Numbers DEF Before, RowsIn
  <1>3. \A c \in Chunks : c < n + 1 <=> c \in C \cup {n}
    BY Numbers
  <1>4. Before(n + 1) = RowsIn(C \cup {n})
    BY <1>3, Numbers DEF Before, RowsIn
  <1> QED BY <1>1, <1>2, <1>4, RowsAdd

LEMMA BeforeAll ==
    ASSUME ChunksAssumption
    PROVE  /\ Before(1) = {} /\ Cardinality(Before(1)) = 0
           /\ \A n \in 1 .. Cardinality(Chunks) + 1 : n \notin Chunks => Before(n) = Rows
  <1>1. Before(1) = {}
    BY Numbers DEF Before
  <1>2. Cardinality({}) = 0
    BY FS_EmptySet
  <1>3. ASSUME NEW n \in 1 .. Cardinality(Chunks) + 1, n \notin Chunks
        PROVE  Before(n) = Rows
    <2>1. PICK k \in Nat : k = Cardinality(Chunks)
      BY Numbers
    <2>2. \A c : c \in Chunks <=> c \in 1 .. k
      BY <2>1 DEF ChunksAssumption
    <2>3. n \in Int /\ 1 <= n /\ n <= k + 1
      BY <2>1
    <2>4. n \notin 1 .. k
      BY <1>3, <2>2
    <2>5. \A c \in 1 .. k : c < n
      BY <2>3, <2>4
    <2>6. \A c \in Chunks : c < n
      BY <2>2, <2>5
    <2> QED BY <2>6, Numbers DEF Before
  <1> QED BY <1>1, <1>2, <1>3

-----------------------------------------------------------------------------
(* Naming the chunks of the results on the wire                            *)

\* A sequence of one child gets a new last element, or loses its first.
LEMMA AppendAt ==
    ASSUME NEW S, NEW W \in [Children -> Seq(S)], NEW p \in Children, NEW m \in S,
           NEW W2, W2 = [W EXCEPT ![p] = Append(@, m)]
    PROVE  /\ W2 \in [Children -> Seq(S)]
           /\ \A q \in Children : Len(W[q]) \in Nat /\ (q # p => W2[q] = W[q])
           /\ Len(W2[p]) = Len(W[p]) + 1
           /\ \A i \in 1 .. Len(W[p]) : W2[p][i] = W[p][i]
           /\ W2[p][Len(W[p]) + 1] = m
  <1>1. W[p] \in Seq(S) /\ Append(W[p], m) \in Seq(S)
    OBVIOUS
  <1>2. W2[p] = Append(W[p], m)
    OBVIOUS
  <1>3. \A q \in Children : Len(W[q]) \in Nat /\ (q # p => W2[q] = W[q])
    OBVIOUS
  <1>4. W2 \in [Children -> Seq(S)]
    BY <1>1
  <1>5. /\ Len(Append(W[p], m)) = Len(W[p]) + 1
        /\ \A i \in 1 .. Len(W[p]) : Append(W[p], m)[i] = W[p][i]
        /\ Append(W[p], m)[Len(W[p]) + 1] = m
    BY <1>1
  <1> QED BY <1>2, <1>3, <1>4, <1>5

LEMMA TailAt ==
    ASSUME NEW S, NEW W \in [Children -> Seq(S)], NEW p \in Children, W[p] # << >>,
           NEW W2, W2 = [W EXCEPT ![p] = Tail(@)]
    PROVE  /\ W2 \in [Children -> Seq(S)]
           /\ \A q \in Children : Len(W[q]) \in Nat /\ (q # p => W2[q] = W[q])
           /\ Len(W[p]) >= 1 /\ Len(W2[p]) = Len(W[p]) - 1
           /\ \A i \in 1 .. Len(W2[p]) : W2[p][i] = W[p][i + 1]
           /\ W[p][1] = Head(W[p])
  <1>1. W[p] \in Seq(S) /\ Tail(W[p]) \in Seq(S)
    OBVIOUS
  <1>2. W2[p] = Tail(W[p])
    OBVIOUS
  <1>3. \A q \in Children : Len(W[q]) \in Nat /\ (q # p => W2[q] = W[q])
    OBVIOUS
  <1>4. W2 \in [Children -> Seq(S)]
    BY <1>1
  <1>5. Len(W[p]) \in Nat /\ Len(W[p]) >= 1 /\ Len(Tail(W[p])) = Len(W[p]) - 1 /\ W[p][1] = Head(W[p])
    BY <1>1
  <1>6. \A i \in 1 .. Len(Tail(W[p])) : Tail(W[p])[i] = W[p][i + 1]
    BY <1>1
  <1> QED BY <1>2, <1>3, <1>4, <1>5, <1>6

\* A message is added: l is its mark, or NoMark.  Rows in R are given up
\* with it, of chunks that are not reported.
LEMMA LabelAppend ==
    ASSUME ChunksAssumption,
           NEW W \in [Children -> Seq(Results)], NEW unfiled, NEW reported \in [Chunks -> Nat], NEW total,
           Nameable(W, unfiled, reported, total),
           NEW p \in Children, NEW m \in Results, NEW W2, W2 = [W EXCEPT ![p] = Append(@, m)],
           NEW R, \A r \in R : ChunkOf[r] \in Chunks /\ reported[ChunkOf[r]] = 0,
           NEW reported2 \in [Chunks -> Nat], \A c \in Chunks : reported2[c] >= reported[c],
           NEW l \in Marks \cup {NoMark}, Announces(W, unfiled, reported, reported2, p, m, l), l = NoMark \/ R = {}
    PROVE  Nameable(W2, unfiled \cup R, reported2, total)
  <1> PICK label \in Labels, Got \in SUBSET Marks : Labelled(W, label, Got, unfiled, reported, total)
    BY DEF Nameable
  <1> DEFINE label2 == [label EXCEPT ![p] = Append(@, l)]
             n == Len(W[p])
  <1>1. /\ \A q \in Children : Len(W[q]) \in Nat /\ (q # p => W2[q] = W[q])
        /\ Len(W2[p]) = n + 1 /\ W2[p][n + 1] = m
        /\ \A i \in 1 .. n : W2[p][i] = W[p][i]
    BY AppendAt
  <1>2. \A q \in Children : Len(label[q]) = Len(W[q])
    BY DEF Labelled
  <1>3. /\ label2 \in Labels
        /\ \A q \in Children : q # p => label2[q] = label[q]
        /\ Len(label2[p]) = n + 1 /\ label2[p][n + 1] = l
        /\ \A i \in 1 .. n : label2[p][i] = label[p][i]
    <2>1. label \in [Children -> Seq(Marks \cup {NoMark})] /\ label2 = [label EXCEPT ![p] = Append(@, l)]
      BY DEF Labels
    <2> HIDE DEF label2
    <2>2. /\ label2 \in [Children -> Seq(Marks \cup {NoMark})]
          /\ \A q \in Children : q # p => label2[q] = label[q]
          /\ Len(label2[p]) = Len(label[p]) + 1
          /\ \A i \in 1 .. Len(label[p]) : label2[p][i] = label[p][i]
          /\ label2[p][Len(label[p]) + 1] = l
      BY <2>1, AppendAt
    <2> QED BY <1>2, <2>2 DEF Labels
  <1> HIDE DEF label2
  <1>4. n \in Nat
    BY <1>1
  <1>0. /\ l # NoMark <=> m.type = "imported"
        /\ l # NoMark => /\ reported[l[1]] < l[2] /\ l[2] <= reported2[l[1]] /\ m.n = Size(l[1]) /\ R = {}
                    /\ \A r \in unfiled : ChunkOf[r] = l[1] => \E j \in 1 .. n : ErrorFor(W[p][j], r)
    BY DEF Announces
  <1>5. \A q \in Children : \A i \in 1 .. Len(W[q]) : W2[q][i] = W[q][i] /\ label2[q][i] = label[q][i] /\ Len(W2[q]) >= Len(W[q])
    BY <1>1, <1>3, <1>4
  <1>6. \A q \in Children : \A i \in 1 .. Len(W2[q]) : i \in 1 .. Len(W[q]) \/ (q = p /\ i = n + 1)
    BY <1>1, <1>4
  <1>7. \A q \in Children : \A i \in 1 .. Len(W[q]) : Names(W, label, Got, unfiled, reported, q, i)
    BY DEF Labelled
  <1>8. \A q \in Children : \A i \in 1 .. Len(W[q]) : label[q][i] # NoMark => /\ label[q][i] \in Marks /\ label[q][i][1] \in Chunks /\ label[q][i][2] \in Nat \ {0}
                             /\ label[q][i][2] <= reported[label[q][i][1]]
    BY <1>7, MarkParts DEF Names
  <1>9. \A q \in Children : \A i \in 1 .. Len(W[q]) : label[q][i] # NoMark => label[q][i] # l
    <2> SUFFICES ASSUME NEW q \in Children, NEW i \in 1 .. Len(W[q]), label[q][i] # NoMark, label[q][i] = l PROVE FALSE
      OBVIOUS
    <2>1. l[1] \in Chunks /\ l[2] \in Nat /\ l[2] <= reported[l[1]] /\ reported[l[1]] < l[2]
      BY <1>0, <1>8
    <2>2. reported[l[1]] \in Nat
      BY <2>1
    <2> QED BY <2>1, <2>2
  <1>10. \A q \in Children : \A i \in 1 .. Len(W[q]) : Names(W2, label2, Got, unfiled \cup R, reported2, q, i)
    <2> SUFFICES ASSUME NEW q \in Children, NEW i \in 1 .. Len(W[q])
                 PROVE  Names(W2, label2, Got, unfiled \cup R, reported2, q, i)
      OBVIOUS
    <2>1. W2[q][i] = W[q][i] /\ label2[q][i] = label[q][i]
      BY <1>5
    <2>2. Names(W, label, Got, unfiled, reported, q, i)
      BY <1>7
    <2>3. label[q][i] # NoMark => label[q][i][2] <= reported2[label[q][i][1]]
      <3>1. \A c \in Chunks : reported[c] \in Nat /\ reported2[c] \in Nat /\ reported2[c] >= reported[c]
        OBVIOUS
      <3> QED BY <1>8, <3>1
    <2>4. \A j \in 1 .. i - 1 : W2[q][j] = W[q][j]
      BY <1>5, <1>1
    <2>5. \A r \in R : label[q][i] # NoMark => ChunkOf[r] # label[q][i][1]
      <3> SUFFICES ASSUME label[q][i] # NoMark, NEW r \in R, ChunkOf[r] = label[q][i][1] PROVE FALSE
        OBVIOUS
      <3>1. label[q][i][2] \in Nat \ {0} /\ label[q][i][2] <= reported[label[q][i][1]]
        BY <1>8
      <3>2. reported[ChunkOf[r]] = 0
        OBVIOUS
      <3>3. label[q][i][2] <= 0
        BY <3>1, <3>2
      <3> QED BY <3>1, <3>3
    <2> QED BY <2>1, <2>2, <2>3, <2>4, <2>5 DEF Names
  <1>11. l # NoMark => l \in Marks \ Got /\ l[2] <= reported2[l[1]]
    <2> SUFFICES ASSUME l # NoMark PROVE l \in Marks \ Got
      BY <1>0
    <2>1. l \in Marks /\ l[1] \in Chunks /\ l[2] \in Nat /\ reported[l[1]] \in Nat /\ reported[l[1]] < l[2]
      BY <1>0, MarkParts
    <2>2. \A g \in Got : g[2] <= reported[g[1]]
      BY DEF Labelled
    <2>3. ~ l[2] <= reported[l[1]]
      BY <2>1
    <2> QED BY <2>1, <2>2, <2>3
  <1>12. Names(W2, label2, Got, unfiled \cup R, reported2, p, n + 1)
    <2>1. label2[p][n + 1] = l /\ W2[p][n + 1] = m
      BY <1>1, <1>3
    <2>2. 1 .. (n + 1) - 1 = 1 .. n
      BY <1>4
    <2>3. ASSUME l # NoMark, NEW r \in unfiled \cup R, ChunkOf[r] = l[1]
          PROVE  \E j \in 1 .. (n + 1) - 1 : ErrorFor(W2[p][j], r)
      <3>1. PICK j \in 1 .. n : ErrorFor(W[p][j], r)
        BY <1>0, <2>3
      <3>2. W2[p][j] = W[p][j]
        BY <1>1
      <3> QED BY <2>2, <3>1, <3>2
    <2> QED BY <2>1, <2>3, <1>0, <1>11 DEF Names
  <1>13. ASSUME NEW q \in Children, NEW q2 \in Children, NEW i \in 1 .. Len(W2[q]), NEW j \in 1 .. Len(W2[q2]),
                label2[q][i] = label2[q2][j], label2[q][i] # NoMark
         PROVE  q = q2 /\ i = j
    <2>1. CASE i \in 1 .. Len(W[q]) /\ j \in 1 .. Len(W[q2])
      <3>1. label[q][i] = label[q2][j] /\ label[q][i] # NoMark
        BY <2>1, <1>5, <1>13
      <3>2. \A u, v \in Children : \A a \in 1 .. Len(W[u]), b \in 1 .. Len(W[v]) :
                label[u][a] = label[v][b] /\ label[u][a] # NoMark => u = v /\ a = b
        BY DEF Labelled
      <3> QED BY <2>1, <3>1, <3>2
    <2>2. CASE i \in 1 .. Len(W[q]) /\ j \notin 1 .. Len(W[q2])
      <3>1. q2 = p /\ j = n + 1 /\ label2[q2][j] = l
        BY <2>2, <1>3, <1>6
      <3>2. label2[q][i] = label[q][i]
        BY <2>2, <1>5
      <3> QED BY <2>2, <3>1, <3>2, <1>9, <1>13
    <2>3. CASE i \notin 1 .. Len(W[q]) /\ j \in 1 .. Len(W[q2])
      <3>1. q = p /\ i = n + 1 /\ label2[q][i] = l
        BY <2>3, <1>3, <1>6
      <3>2. label2[q2][j] = label[q2][j]
        BY <2>3, <1>5
      <3> QED BY <2>3, <3>1, <3>2, <1>9, <1>13
    <2>4. CASE i \notin 1 .. Len(W[q]) /\ j \notin 1 .. Len(W[q2])
      BY <2>4, <1>6
    <2> QED BY <2>1, <2>2, <2>3, <2>4
  <1>14. \A q \in Children : Len(label2[q]) = Len(W2[q])
    BY <1>1, <1>2, <1>3
  <1>15. \A g \in Got : g[2] <= reported2[g[1]]
    <2>1. \A g \in Got : g[2] <= reported[g[1]] /\ g[1] \in Chunks /\ g[2] \in Nat \ {0}
      BY MarkParts DEF Labelled
    <2>2. \A c \in Chunks : reported[c] \in Nat /\ reported2[c] \in Nat /\ reported2[c] >= reported[c]
      OBVIOUS
    <2> QED BY <2>1, <2>2
  <1>16. \A r \in unfiled \cup R : \A g \in Got : ChunkOf[r] # g[1]
    <2>1. \A g \in Got : g[2] <= reported[g[1]] /\ g[2] \in Nat \ {0}
      BY MarkParts DEF Labelled
    <2>2. \A g \in Got : reported[g[1]] # 0
      BY <2>1
    <2>3. \A r \in R : \A g \in Got : ChunkOf[r] # g[1]
      BY <2>2
    <2> QED BY <2>3 DEF Labelled
  <1>17. total = Cardinality(Counted(Got))
    BY DEF Labelled
  <1>18. \A q \in Children : \A i \in 1 .. Len(W2[q]) : Names(W2, label2, Got, unfiled \cup R, reported2, q, i)
    BY <1>6, <1>10, <1>12
  <1>19. \A q, q2 \in Children : \A i \in 1 .. Len(W2[q]), j \in 1 .. Len(W2[q2]) :
            label2[q][i] = label2[q2][j] /\ label2[q][i] # NoMark => q = q2 /\ i = j
    BY <1>13
  <1>20. Labelled(W2, label2, Got, unfiled \cup R, reported2, total)
    BY ONLY <1>14, <1>15, <1>16, <1>17, <1>18, <1>19 DEF Labelled
  <1> QED BY <1>3, <1>20 DEF Nameable

\* What a child had queued is cut off.
LEMMA LabelCut ==
    ASSUME NEW W \in [Children -> Seq(Results)], NEW unfiled, NEW reported, NEW total,
           Nameable(W, unfiled, reported, total),
           NEW W2 \in [Children -> Seq(Results)],
           \A q \in Children : Len(W2[q]) <= Len(W[q]) /\ \A i \in 1 .. Len(W2[q]) : W2[q][i] = W[q][i]
    PROVE  Nameable(W2, unfiled, reported, total)
  <1> PICK label \in Labels, Got \in SUBSET Marks : Labelled(W, label, Got, unfiled, reported, total)
    BY DEF Nameable
  <1> DEFINE label2 == [q \in Children |-> SubSeq(label[q], 1, Len(W2[q]))]
  <1>1. \A q \in Children : Len(W[q]) \in Nat /\ Len(W2[q]) \in Nat
    OBVIOUS
  <1>2. \A q \in Children : Len(label[q]) = Len(W[q])
    BY DEF Labelled
  <1>3. ASSUME NEW q \in Children
        PROVE  /\ SubSeq(label[q], 1, Len(W2[q])) \in Seq(Marks \cup {NoMark})
               /\ Len(SubSeq(label[q], 1, Len(W2[q]))) = Len(W2[q])
               /\ \A i \in 1 .. Len(W2[q]) : SubSeq(label[q], 1, Len(W2[q]))[i] = label[q][i]
    <2>1. label[q] \in Seq(Marks \cup {NoMark})
      BY DEF Labels
    <2>2. PICK n \in Nat : n = Len(W2[q]) /\ n <= Len(label[q])
      BY <1>1, <1>2
    <2>3. \A i \in 1 .. n : label[q][i] \in Marks \cup {NoMark}
      BY <2>1, <2>2
    <2>4. SubSeq(label[q], 1, n) = [i \in 1 .. n |-> label[q][i]]
      BY <2>1, <2>2
    <2>5. SubSeq(label[q], 1, n) \in Seq(Marks \cup {NoMark}) /\ Len(SubSeq(label[q], 1, n)) = n
      BY <2>3, <2>4
    <2> QED BY <2>2, <2>4, <2>5
  <1>4. label2 \in Labels
    BY <1>3 DEF Labels
  <1>5. \A q \in Children : Len(label2[q]) = Len(W2[q]) /\ \A i \in 1 .. Len(W2[q]) : label2[q][i] = label[q][i]
    BY <1>3
  <1> HIDE DEF label2
  <1>6. \A q \in Children : \A i \in 1 .. Len(W2[q]) : i \in 1 .. Len(W[q])
    BY <1>1
  <1>7. ASSUME NEW q \in Children, NEW i \in 1 .. Len(W2[q])
        PROVE  Names(W2, label2, Got, unfiled, reported, q, i)
    <2>1. Names(W, label, Got, unfiled, reported, q, i)
      BY <1>6 DEF Labelled
    <2>2. W2[q][i] = W[q][i] /\ label2[q][i] = label[q][i]
      BY <1>5
    <2>3. \A j \in 1 .. i - 1 : W2[q][j] = W[q][j]
      BY <1>1
    <2> QED BY <2>1, <2>2, <2>3 DEF Names
  <1>8. \A q, q2 \in Children : \A i \in 1 .. Len(W2[q]), j \in 1 .. Len(W2[q2]) :
            label2[q][i] = label2[q2][j] /\ label2[q][i] # NoMark => q = q2 /\ i = j
    BY <1>5, <1>6 DEF Labelled
  <1>9. /\ \A g \in Got : g[2] <= reported[g[1]]
        /\ \A r \in unfiled : \A g \in Got : ChunkOf[r] # g[1]
        /\ total = Cardinality(Counted(Got))
    BY DEF Labelled
  <1>10. Labelled(W2, label2, Got, unfiled, reported, total)
    BY ONLY <1>5, <1>7, <1>8, <1>9 DEF Labelled
  <1> QED BY <1>4, <1>10 DEF Nameable

\* The parent receives a message: rows it names are filed, and if it is a
\* result then its chunk is received and none of its rows is left to file.
LEMMA LabelTail ==
    ASSUME ChunksAssumption,
           NEW W \in [Children -> Seq(Results)], NEW unfiled, NEW reported, NEW total,
           Nameable(W, unfiled, reported, total),
           NEW p \in Children, W[p] # << >>, NEW W2, W2 = [W EXCEPT ![p] = Tail(@)],
           NEW unfiled2 \in SUBSET unfiled, \A r \in unfiled2 : ~ ErrorFor(Head(W[p]), r),
           NEW total2, total2 = Count(total, Head(W[p]))
    PROVE  Nameable(W2, unfiled2, reported, total2)
  <1> PICK label \in Labels, Got \in SUBSET Marks : Labelled(W, label, Got, unfiled, reported, total)
    BY DEF Nameable
  <1> DEFINE label2 == [label EXCEPT ![p] = Tail(@)]
             l == label[p][1]
             Got2 == IF l = NoMark THEN Got ELSE Got \cup {l}
             d(q) == IF q = p THEN 1 ELSE 0
  <1>1. /\ \A q \in Children : Len(W[q]) \in Nat /\ (q # p => W2[q] = W[q])
        /\ Len(W[p]) >= 1 /\ Len(W2[p]) = Len(W[p]) - 1 /\ W[p][1] = Head(W[p])
        /\ \A i \in 1 .. Len(W2[p]) : W2[p][i] = W[p][i + 1]
    BY TailAt
  <1>2. \A q \in Children : Len(label[q]) = Len(W[q])
    BY DEF Labelled
  <1>3. /\ label2 \in Labels
        /\ \A q \in Children : (q # p => label2[q] = label[q])
        /\ Len(label2[p]) = Len(label[p]) - 1
        /\ \A i \in 1 .. Len(label2[p]) : label2[p][i] = label[p][i + 1]
    <2>1. label \in [Children -> Seq(Marks \cup {NoMark})] /\ label2 = [label EXCEPT ![p] = Tail(@)]
      BY DEF Labels
    <2> HIDE DEF label2
    <2>2. label[p] # << >>
      BY <1>1, <1>2, <2>1
    <2>3. /\ label2 \in [Children -> Seq(Marks \cup {NoMark})]
          /\ \A q \in Children : (q # p => label2[q] = label[q])
          /\ Len(label2[p]) = Len(label[p]) - 1
          /\ \A i \in 1 .. Len(label2[p]) : label2[p][i] = label[p][i + 1]
      BY <2>1, <2>2, TailAt
    <2> QED BY <2>3 DEF Labels
  <1> HIDE DEF label2
  <1>4. \A q \in Children : Len(label2[q]) = Len(W2[q])
    BY <1>1, <1>2, <1>3
  <1>5. ASSUME NEW q \in Children, NEW i \in 1 .. Len(W2[q])
        PROVE  /\ i + d(q) \in 1 .. Len(W[q]) /\ W2[q][i] = W[q][i + d(q)] /\ label2[q][i] = label[q][i + d(q)]
               /\ \A j \in 1 .. i - 1 : W2[q][j] = W[q][j + d(q)]
    <2>1. CASE q = p
      <3>1. i + 1 \in 1 .. Len(W[p]) /\ i \in 1 .. Len(label2[p])
        BY <2>1, <1>1, <1>4
      <3>2. \A j \in 1 .. i - 1 : j \in 1 .. Len(W2[p])
        BY <2>1, <1>1
      <3> QED BY <2>1, <3>1, <3>2, <1>1, <1>3
    <2>2. CASE q # p
      <3>1. i + 0 = i /\ \A j \in 1 .. i - 1 : j + 0 = j
        OBVIOUS
      <3>2. W2[q] = W[q] /\ label2[q] = label[q]
        BY <2>2, <1>1, <1>3
      <3> QED BY <2>2, <3>1, <3>2
    <2> QED BY <2>1, <2>2
  <1>6. \A q \in Children : \A i \in 1 .. Len(W[q]) : Names(W, label, Got, unfiled, reported, q, i)
    BY DEF Labelled
  <1>7. 1 \in 1 .. Len(W[p]) /\ Names(W, label, Got, unfiled, reported, p, 1)
    BY <1>1, <1>6
  <1>8. /\ l # NoMark <=> Head(W[p]).type = "imported"
        /\ l # NoMark => /\ l \in Marks \ Got /\ l[2] <= reported[l[1]] /\ Head(W[p]).n = Size(l[1])
                         /\ \A r \in unfiled : ChunkOf[r] # l[1]
    <2>1. \A j : j \notin 1 .. 1 - 1
      OBVIOUS
    <2> QED BY <1>1, <1>7, <2>1 DEF Names
  <1>9. \A q \in Children : \A i \in 1 .. Len(W2[q]) : label2[q][i] # NoMark => label2[q][i] # l
    <2> SUFFICES ASSUME NEW q \in Children, NEW i \in 1 .. Len(W2[q]), label2[q][i] # NoMark, label2[q][i] = l
                 PROVE  FALSE
      OBVIOUS
    <2>1. label[q][i + d(q)] = label[p][1] /\ label[q][i + d(q)] # NoMark /\ i + d(q) \in 1 .. Len(W[q])
      BY <1>5
    <2>2. q = p /\ i + d(q) = 1
      BY <2>1, <1>7 DEF Labelled
    <2> QED BY <2>2
  <1>10. ASSUME NEW q \in Children, NEW i \in 1 .. Len(W2[q])
         PROVE  Names(W2, label2, Got2, unfiled2, reported, q, i)
    <2> DEFINE k == i + d(q)
    <2>1. k \in 1 .. Len(W[q]) /\ W2[q][i] = W[q][k] /\ label2[q][i] = label[q][k]
      BY <1>5
    <2>2. Names(W, label, Got, unfiled, reported, q, k)
      BY <1>6, <2>1
    <2>3. ASSUME NEW r \in unfiled2, NEW j \in 1 .. k - 1, ErrorFor(W[q][j], r)
          PROVE  \E j2 \in 1 .. i - 1 : ErrorFor(W2[q][j2], r)
      <3>1. CASE q = p
        <4>1. j # 1
          BY <1>1, <2>3, <3>1
        <4>2. j - 1 \in 1 .. i - 1 /\ (j - 1) + 1 = j
          BY <3>1, <4>1
        <4>3. W2[q][j - 1] = W[q][j]
          BY <1>5, <3>1, <4>2
        <4> QED BY <2>3, <4>2, <4>3
      <3>2. CASE q # p
        <4>1. k = i /\ W2[q] = W[q]
          BY <3>2, <1>1
        <4> QED BY <2>3, <4>1
      <3> QED BY <3>1, <3>2
    <2> HIDE DEF k, d
    <2>4. label2[q][i] # NoMark => label2[q][i] \in Marks \ Got2
      BY <2>1, <2>2, <1>9 DEF Names
    <2> HIDE DEF Got2
    <2>5. label2[q][i] # NoMark => \A r \in unfiled2 : ChunkOf[r] = label2[q][i][1] => \E j2 \in 1 .. i - 1 : ErrorFor(W2[q][j2], r)
      BY <2>1, <2>2, <2>3 DEF Names
    <2>6. /\ label2[q][i] # NoMark <=> W2[q][i].type = "imported"
          /\ label2[q][i] # NoMark => label2[q][i][2] <= reported[label2[q][i][1]] /\ W2[q][i].n = Size(label2[q][i][1])
      BY <2>1, <2>2 DEF Names
    <2> QED BY ONLY <2>4, <2>5, <2>6 DEF Names
  <1>11. \A q, q2 \in Children : \A i \in 1 .. Len(W2[q]), j \in 1 .. Len(W2[q2]) :
            label2[q][i] = label2[q2][j] /\ label2[q][i] # NoMark => q = q2 /\ i = j
    <2> SUFFICES ASSUME NEW q \in Children, NEW q2 \in Children, NEW i \in 1 .. Len(W2[q]), NEW j \in 1 .. Len(W2[q2]),
                        label2[q][i] = label2[q2][j], label2[q][i] # NoMark
                 PROVE  q = q2 /\ i = j
      OBVIOUS
    <2>1. /\ label[q][i + d(q)] = label[q2][j + d(q2)] /\ label[q][i + d(q)] # NoMark
          /\ i + d(q) \in 1 .. Len(W[q]) /\ j + d(q2) \in 1 .. Len(W[q2])
      BY <1>5
    <2>2. q = q2 /\ i + d(q) = j + d(q2)
      BY <2>1 DEF Labelled
    <2> QED BY <2>2
  <1>12. /\ \A g \in Got : g[2] <= reported[g[1]]
         /\ \A r \in unfiled : \A g \in Got : ChunkOf[r] # g[1]
         /\ total = Cardinality(Counted(Got))
    BY DEF Labelled
  <1>13. Got2 \in SUBSET Marks /\ \A g \in Got2 : g[2] <= reported[g[1]]
    BY <1>8, <1>12
  <1>14. \A r \in unfiled2 : \A g \in Got2 : ChunkOf[r] # g[1]
    BY <1>8, <1>12
  <1>15. total2 = Cardinality(Counted(Got2))
    <2>1. CASE l = NoMark
      BY <2>1, <1>8, <1>12 DEF Count
    <2>2. CASE l # NoMark
      <3>1. total2 = total + Size(l[1]) /\ l \in Marks \ Got
        BY <2>2, <1>8 DEF Count
      <3>2. Cardinality(Counted(Got \cup {l})) = Cardinality(Counted(Got)) + Size(l[1])
        BY <3>1, CountedAdd
      <3> QED BY <2>2, <3>1, <3>2, <1>12
    <2> QED BY <2>1, <2>2
  <1> HIDE DEF Got2
  <1>16. Labelled(W2, label2, Got2, unfiled2, reported, total2)
    BY ONLY <1>4, <1>10, <1>11, <1>13, <1>14, <1>15 DEF Labelled
  <1> QED BY <1>3, <1>13, <1>16 DEF Nameable

(* Errors on the wire                                                      *)

\* A message is added by p, which alone holds the chunks of the rows in R.
LEMMA CarriedAppend ==
    ASSUME NEW W \in [Children -> Seq(Results)], NEW unfiled \in SUBSET Rows, NEW holds, NEW living,
           Carried(W, unfiled, holds, living),
           NEW p \in Children, NEW m \in Results, NEW W2, W2 = [W EXCEPT ![p] = Append(@, m)],
           NEW R, \A r \in R : ErrorFor(m, r) /\ \A w \in Workers : ChunkOf[r] \in holds[w] => w = p
    PROVE  Carried(W2, unfiled \cup R, holds, living)
  <1>1. /\ \A q \in Children : Len(W[q]) \in Nat /\ (q # p => W2[q] = W[q])
        /\ Len(W2[p]) = Len(W[p]) + 1 /\ W2[p][Len(W[p]) + 1] = m
        /\ \A i \in 1 .. Len(W[p]) : W2[p][i] = W[p][i]
    BY AppendAt
  <1> SUFFICES ASSUME NEW r \in unfiled \cup R, NEW w \in Workers \cap living,
                      ChunkOf[r] \in holds[w]
               PROVE  \E j \in 1 .. Len(W2[w]) : ErrorFor(W2[w][j], r)
    BY DEF Carried
  <1>2. CASE r \in R
    <2>1. w = p /\ ErrorFor(W2[p][Len(W[p]) + 1], r)
      BY <1>1, <1>2
    <2>2. Len(W[p]) + 1 \in 1 .. Len(W2[p])
      BY <1>1
    <2> QED BY <2>1, <2>2
  <1>3. CASE r \in unfiled
    <2>3. PICK j \in 1 .. Len(W[w]) : ErrorFor(W[w][j], r)
      BY <1>3 DEF Carried
    <2>4. w \in Children
      BY DEF Children
    <2>5. j \in 1 .. Len(W2[w]) /\ W2[w][j] = W[w][j]
      BY <1>1, <2>4
    <2> QED BY <2>3, <2>5
  <1> QED BY <1>2, <1>3

\* The parent files the rows of the message it receives.
LEMMA CarriedTail ==
    ASSUME NEW W \in [Children -> Seq(Results)], NEW unfiled, NEW holds, NEW living,
           Carried(W, unfiled, holds, living),
           NEW p \in Children, W[p] # << >>, NEW W2, W2 = [W EXCEPT ![p] = Tail(@)],
           NEW unfiled2 \in SUBSET unfiled, \A r \in unfiled2 : ~ ErrorFor(Head(W[p]), r)
    PROVE  Carried(W2, unfiled2, holds, living)
  <1>1. /\ \A q \in Children : Len(W[q]) \in Nat /\ (q # p => W2[q] = W[q])
        /\ Len(W[p]) >= 1 /\ Len(W2[p]) = Len(W[p]) - 1 /\ W[p][1] = Head(W[p])
        /\ \A i \in 1 .. Len(W2[p]) : W2[p][i] = W[p][i + 1]
    BY TailAt
  <1> SUFFICES ASSUME NEW r \in unfiled2, NEW w \in Workers \cap living,
                      ChunkOf[r] \in holds[w]
               PROVE  \E j \in 1 .. Len(W2[w]) : ErrorFor(W2[w][j], r)
    BY DEF Carried
  <1>2. PICK j \in 1 .. Len(W[w]) : ErrorFor(W[w][j], r)
    BY DEF Carried
  <1>3. w \in Children
    BY DEF Children
  <1>4. CASE w = p
    <2>1. j # 1
      BY <1>1, <1>2, <1>4
    <2>2. j - 1 \in 1 .. Len(W2[p]) /\ (j - 1) + 1 = j
      BY <1>1, <1>4, <2>1
    <2>3. W2[p][j - 1] = W[p][j]
      BY <1>1, <2>2
    <2> QED BY <1>2, <1>4, <2>2, <2>3
  <1>5. CASE w # p
    BY <1>1, <1>2, <1>3, <1>5
  <1> QED BY <1>4, <1>5

LEMMA CarriedLess ==
    ASSUME NEW W, NEW unfiled, NEW holds, NEW living,
           Carried(W, unfiled, holds, living),
           NEW W2, NEW living2 \in SUBSET living, \A w \in Workers \cap living2 : W2[w] = W[w],
           NEW holds2, \A r \in unfiled : \A w \in Workers : ChunkOf[r] \in holds2[w] => ChunkOf[r] \in holds[w]
    PROVE  Carried(W2, unfiled, holds2, living2)
  BY DEF Carried

-----------------------------------------------------------------------------
(* What the steps do to the wires                                          *)

LEMMA WireTypes ==
    ASSUME outbox \in [Children -> Seq(Results)], results \in [Children -> Seq(Results)]
    PROVE  Wires \in [Children -> Seq(Results)]
  <1>1. \A p \in Children : outbox[p] \in Seq(Results) /\ results[p] \in Seq(Results)
    OBVIOUS
  <1>2. \A s, t \in Seq(Results) : s \o t \in Seq(Results)
    OBVIOUS
  <1> QED BY <1>1, <1>2 DEF Wires

LEMMA WireWrite ==
    ASSUME outbox \in [Children -> Seq(Results)], results \in [Children -> Seq(Results)],
           NEW p \in Children, WriteResult(p)
    PROVE  /\ outbox' \in [Children -> Seq(Results)] /\ results' \in [Children -> Seq(Results)]
           /\ Wires' = Wires
  <1>1. outbox[p] \in Seq(Results) /\ results[p] \in Seq(Results) /\ outbox[p] # << >>
    BY DEF WriteResult
  <1>2. /\ results' = [results EXCEPT ![p] = Append(results[p], Head(outbox[p]))]
        /\ outbox' = [outbox EXCEPT ![p] = Tail(outbox[p])]
    BY DEF WriteResult
  <1>3. Append(results[p], Head(outbox[p])) \in Seq(Results) /\ Tail(outbox[p]) \in Seq(Results)
    BY <1>1
  <1>4. Append(results[p], Head(outbox[p])) \o Tail(outbox[p]) = results[p] \o outbox[p]
    BY <1>1
  <1>5. results'[p] \o outbox'[p] = results[p] \o outbox[p]
    BY <1>2, <1>4
  <1>6. \A q \in Children : q # p => results'[q] = results[q] /\ outbox'[q] = outbox[q]
    BY <1>2
  <1>7. \A q \in Children : results'[q] \o outbox'[q] = results[q] \o outbox[q]
    BY <1>5, <1>6
  <1> QED BY <1>2, <1>3, <1>7 DEF Wires

LEMMA WireQueue ==
    ASSUME outbox \in [Children -> Seq(Results)], results \in [Children -> Seq(Results)],
           NEW p \in Children, NEW m \in Results, Queue(p, <<m>>), results' = results
    PROVE  /\ outbox' \in [Children -> Seq(Results)]
           /\ Wires' = [Wires EXCEPT ![p] = Append(@, m)]
  <1>1. outbox[p] \in Seq(Results) /\ results[p] \in Seq(Results)
    OBVIOUS
  <1>2. outbox' = [outbox EXCEPT ![p] = outbox[p] \o <<m>>] /\ outbox[p] \o <<m>> \in Seq(Results)
    BY <1>1 DEF Queue
  <1>3. results[p] \o (outbox[p] \o <<m>>) = Append(results[p] \o outbox[p], m)
    BY <1>1
  <1>4. results'[p] \o outbox'[p] = Append(results[p] \o outbox[p], m)
    BY <1>2, <1>3
  <1>5. \A q \in Children : q # p => results'[q] \o outbox'[q] = results[q] \o outbox[q]
    BY <1>2
  <1>6. Wires' = [q \in Children |-> results'[q] \o outbox'[q]]
    BY DEF Wires
  <1>7. [Wires EXCEPT ![p] = Append(@, m)]
            = [q \in Children |-> IF q = p THEN Append(results[p] \o outbox[p], m) ELSE results[q] \o outbox[q]]
    BY DEF Wires
  <1> QED BY <1>2, <1>4, <1>5, <1>6, <1>7

\* The processes in D end: what they have not written is lost.
LEMMA WireCut ==
    ASSUME outbox \in [Children -> Seq(Results)], results \in [Children -> Seq(Results)], results' = results,
           NEW D, outbox' = [q \in Children |-> IF q \in D THEN << >> ELSE outbox[q]]
    PROVE  /\ outbox' \in [Children -> Seq(Results)]
           /\ Wires' \in [Children -> Seq(Results)]
           /\ \A q \in Children : q \notin D => Wires'[q] = Wires[q]
           /\ \A q \in Children : Len(Wires'[q]) <= Len(Wires[q]) /\ \A i \in 1 .. Len(Wires'[q]) : Wires'[q][i] = Wires[q][i]
  <1>1. \A p \in Children : outbox[p] \in Seq(Results) /\ results[p] \in Seq(Results)
    OBVIOUS
  <1>2. \A q \in Children : Wires[q] = results[q] \o outbox[q] /\ Wires'[q] = results[q] \o outbox'[q]
    BY DEF Wires
  <1>3. outbox' \in [Children -> Seq(Results)]
    BY <1>1
  <1>4. Wires' = [q \in Children |-> results[q] \o outbox'[q]]
    BY DEF Wires
  <1>5. \A s, t \in Seq(Results) : s \o t \in Seq(Results)
    OBVIOUS
  <1>6. Wires' \in [Children -> Seq(Results)]
    BY <1>1, <1>3, <1>4, <1>5
  <1>7. \A q \in Children : q \notin D => Wires'[q] = Wires[q]
    BY <1>2
  <1>8. ASSUME NEW q \in Children
        PROVE  Len(Wires'[q]) <= Len(Wires[q]) /\ \A i \in 1 .. Len(Wires'[q]) : Wires'[q][i] = Wires[q][i]
    <2>1. CASE q \notin D
      <3>1. Wires'[q] = Wires[q] /\ Wires[q] \in Seq(Results)
        BY <2>1, <1>1, <1>2, <1>5
      <3> QED BY <3>1
    <2>2. CASE q \in D
      <3>1. Wires'[q] = results[q] \o << >>
        BY <2>2, <1>2
      <3>2. results[q] \o << >> = results[q]
        BY <1>1
      <3>3. Len(results[q]) <= Len(results[q] \o outbox[q]) /\ \A i \in 1 .. Len(results[q]) : (results[q] \o outbox[q])[i] = results[q][i]
        BY <1>1
      <3> QED BY <3>1, <3>2, <3>3, <1>2
    <2> QED BY <2>1, <2>2
  <1> QED BY <1>3, <1>6, <1>7, <1>8

LEMMA WireReceive ==
    ASSUME outbox \in [Children -> Seq(Results)], results \in [Children -> Seq(Results)], outbox' = outbox,
           NEW p \in Children, results[p] # << >>, results' = [results EXCEPT ![p] = Tail(@)]
    PROVE  /\ results' \in [Children -> Seq(Results)]
           /\ Head(results[p]) \in Results
           /\ Wires[p] # << >> /\ Head(Wires[p]) = Head(results[p])
           /\ Wires' = [Wires EXCEPT ![p] = Tail(@)]
  <1>1. outbox[p] \in Seq(Results) /\ results[p] \in Seq(Results)
    OBVIOUS
  <1>2. results' = [results EXCEPT ![p] = Tail(results[p])] /\ Tail(results[p]) \in Seq(Results) /\ Head(results[p]) \in Results
    BY <1>1
  <1>3. /\ Tail(results[p]) \o outbox[p] = Tail(results[p] \o outbox[p])
        /\ results[p] \o outbox[p] # << >> /\ Head(results[p] \o outbox[p]) = Head(results[p])
    BY <1>1
  <1>4. results'[p] \o outbox'[p] = Tail(results[p] \o outbox[p])
    BY <1>2, <1>3
  <1>5. \A q \in Children : q # p => results'[q] \o outbox'[q] = results[q] \o outbox[q]
    BY <1>2
  <1>6. Wires' = [q \in Children |-> results'[q] \o outbox'[q]]
    BY DEF Wires
  <1>7. [Wires EXCEPT ![p] = Tail(@)]
            = [q \in Children |-> IF q = p THEN Tail(results[p] \o outbox[p]) ELSE results[q] \o outbox[q]]
    BY DEF Wires
  <1> QED BY <1>2, <1>3, <1>4, <1>5, <1>6, <1>7 DEF Wires

-----------------------------------------------------------------------------
(* Types                                                                   *)

\* The parts of TypeOK, as sets of functions and records.
ParentType == [at : {"loop", "report", "pill", "wait", "done"}, total : Nat, sent : Nat \cup {NoResult},
               errors : [ErrorKinds -> Nat], aborted : BOOLEAN]
FeederType == [next : 1 .. Cardinality(Chunks) + 1, sent : Nat, at : {"feed", "pill", "ended"}]

LEMMA ParentChange ==
    ASSUME parent \in ParentType
    PROVE  /\ \A a \in {"loop", "report", "pill", "wait", "done"} :
                LET new == [parent EXCEPT !.at = a] IN
                new \in ParentType /\ new.at = a /\ new.total = parent.total /\ new.sent = parent.sent
                    /\ new.errors = parent.errors /\ new.aborted = parent.aborted
           /\ \A b \in BOOLEAN : Leave(b) =>
                parent' \in ParentType /\ parent'.at = "report" /\ parent'.total = parent.total /\ parent'.sent = parent.sent
                    /\ parent'.aborted = b
           /\ \A n \in Nat :
                LET new == [parent EXCEPT !.total = @ + n] IN
                new \in ParentType /\ new.at = parent.at /\ new.total = parent.total + n /\ new.sent = parent.sent
           /\ \A n \in Nat :
                LET new == [parent EXCEPT !.sent = n] IN
                new \in ParentType /\ new.at = parent.at /\ new.total = parent.total /\ new.sent = n
           /\ \A k \in ErrorKinds, n \in Nat :
                LET new == [parent EXCEPT !.errors[k] = @ + n] IN
                new \in ParentType /\ new.at = parent.at /\ new.total = parent.total /\ new.sent = parent.sent
  <1>1. parent.total \in Nat /\ parent.sent \in Nat \cup {NoResult} /\ parent.errors \in [ErrorKinds -> Nat]
    BY DEF ParentType
  <1>2. \A n \in Nat : parent.total + n \in Nat
    BY <1>1
  <1>3. ASSUME NEW k \in ErrorKinds, NEW n \in Nat
        PROVE  LET new == [parent EXCEPT !.errors[k] = @ + n] IN
               new \in ParentType /\ new.at = parent.at /\ new.total = parent.total /\ new.sent = parent.sent
    <2> DEFINE e == [parent.errors EXCEPT ![k] = @ + n]
    <2>1. parent.errors[k] + n \in Nat
      BY <1>1
    <2>2. e \in [ErrorKinds -> Nat]
      BY <1>1, <2>1
    <2>3. [parent EXCEPT !.errors[k] = @ + n] = [parent EXCEPT !.errors = e]
      OBVIOUS
    <2> HIDE DEF e
    <2> QED BY <2>2, <2>3 DEF ParentType
  <1> QED BY <1>1, <1>2, <1>3 DEF ParentType, Leave

LEMMA MessageCount ==
    ASSUME ChunksAssumption, NEW m \in Results, m.type = "error"
    PROVE  m.kind \in ErrorKinds /\ m.rows \in SUBSET Rows /\ Cardinality(m.rows) \in Nat
  <1>1. m.kind \in ErrorKinds /\ m.rows \in SUBSET Rows
    BY MessageTypes
  <1> QED BY <1>1, Numbers

\* A queue or a pipe of one process gets a new last element, or loses its first.
LEMMA SeqAt ==
    ASSUME NEW T, NEW S, NEW f \in [T -> Seq(S)], NEW t \in T
    PROVE  /\ \A m \in S : [f EXCEPT ![t] = Append(@, m)] \in [T -> Seq(S)]
           /\ f[t] # << >> => Head(f[t]) \in S /\ [f EXCEPT ![t] = Tail(@)] \in [T -> Seq(S)]
           /\ [f EXCEPT ![t] = << >>] \in [T -> Seq(S)]
  <1>1. f[t] \in Seq(S) /\ << >> \in Seq(S)
    OBVIOUS
  <1>2. \A m \in S : Append(f[t], m) \in Seq(S)
    BY <1>1
  <1>3. f[t] # << >> => Head(f[t]) \in S /\ Tail(f[t]) \in Seq(S)
    BY <1>1
  <1> QED BY <1>1, <1>2, <1>3

LEMMA TypeInit == ASSUME ChunksAssumption, Init PROVE TypeOK
  <1>1. Cardinality(Chunks) \in Nat
    BY Numbers
  <1>2. reports \in [Chunks -> 0 .. MaxReports] /\ settled = {}
    BY DEF Init, Work!Init, Chunks, ChunksAssumption
  <1>3. parent \in ParentType
    BY DEF Init, ParentType, NoResult
  <1>4. feeder \in FeederType
    BY <1>1 DEF Init, FeederType
  <1>5. /\ pending \in [Workers -> Seq(Chunks)] /\ pipe \in [Children -> Seq(Chunks \cup {Pill})]
        /\ outbox \in [Children -> Seq(Results)] /\ results \in [Children -> Seq(Results)]
    BY DEF Init
  <1>6. /\ pill \in [Children -> {"none", "queued", "writing", "sent"}]
        /\ wlock \in [Workers -> {"free", "feeder", "parent"}]
        /\ hand \in [Workers -> SUBSET Chunks] /\ alive \subseteq Children
        /\ failed \subseteq settled /\ errFile \subseteq failed
    BY DEF Init
  <1>7. faults \in [deaths : 0 .. MaxDeaths, timeouts : 0 .. MaxTimeouts]
    BY DEF Init, ChunksAssumption
  <1> QED BY <1>2, <1>3, <1>4, <1>5, <1>6, <1>7 DEF TypeOK, ParentType, FeederType

\* What TypeOK says of the input of each kind of step.
LEMMA TypeParts ==
    ASSUME TypeOK
    PROVE  /\ settled \subseteq Rows /\ failed \subseteq settled /\ failed \subseteq Rows /\ errFile \subseteq failed
           /\ reports \in [Chunks -> Nat] /\ reports \in [Chunks -> 0 .. MaxReports]
           /\ feeder \in FeederType /\ parent \in ParentType
           /\ pending \in [Workers -> Seq(Chunks)] /\ pipe \in [Children -> Seq(Chunks \cup {Pill})]
           /\ pill \in [Children -> {"none", "queued", "writing", "sent"}]
           /\ wlock \in [Workers -> {"free", "feeder", "parent"}]
           /\ hand \in [Workers -> SUBSET Chunks]
           /\ outbox \in [Children -> Seq(Results)] /\ results \in [Children -> Seq(Results)]
           /\ alive \subseteq Children
           /\ faults \in [deaths : 0 .. MaxDeaths, timeouts : 0 .. MaxTimeouts]
  BY DEF TypeOK, ParentType, FeederType

\* The rows of an error that arrives were given up.
LEMMA HeadError ==
    ASSUME TypeOK, ErrorInv, NEW p \in Children, results[p] # << >>, Head(results[p]).type = "error"
    PROVE  Head(results[p]).rows \subseteq failed
  <1>1. results[p] \in Seq(Results) /\ outbox[p] \in Seq(Results) /\ Wires[p] = results[p] \o outbox[p]
    BY TypeParts DEF Wires
  <1>2. Len(results[p]) \in Nat /\ Len(results[p]) >= 1 /\ Len(outbox[p]) \in Nat /\ results[p][1] = Head(results[p])
    BY <1>1
  <1>3. \A s, t \in Seq(Results) : Len(s) >= 1 => 1 \in 1 .. Len(s \o t) /\ (s \o t)[1] = s[1]
    <2> TAKE s, t \in Seq(Results)
    <2> HAVE Len(s) >= 1
    <2>1. Len(s) \in Nat /\ Len(t) \in Nat /\ Len(s \o t) = Len(s) + Len(t)
      OBVIOUS
    <2>2. 1 \in 1 .. Len(s \o t) /\ 1 \in DOMAIN (s \o t)
      BY <2>1
    <2> QED BY <2>1, <2>2
  <1>4. 1 \in 1 .. Len(Wires[p]) /\ Wires[p][1] = results[p][1]
    BY <1>1, <1>2, <1>3
  <1> QED BY <1>2, <1>4 DEF ErrorInv

LEMMA FaultTypes ==
    ASSUME ChunksAssumption, TypeOK
    PROVE  /\ faults.deaths < MaxDeaths =>
                [faults EXCEPT !.deaths = @ + 1] \in [deaths : 0 .. MaxDeaths, timeouts : 0 .. MaxTimeouts]
           /\ faults.timeouts < MaxTimeouts =>
                [faults EXCEPT !.timeouts = @ + 1] \in [deaths : 0 .. MaxDeaths, timeouts : 0 .. MaxTimeouts]
  <1>1. MaxDeaths \in Nat /\ MaxTimeouts \in Nat
    BY DEF ChunksAssumption
  <1>2. faults \in [deaths : 0 .. MaxDeaths, timeouts : 0 .. MaxTimeouts]
    BY DEF TypeOK
  <1>3. faults.deaths \in 0 .. MaxDeaths /\ faults.timeouts \in 0 .. MaxTimeouts
    BY <1>2
  <1>4. \A m \in Nat : \A k \in 0 .. m : k < m => k + 1 \in 0 .. m
    OBVIOUS
  <1>5. faults.deaths < MaxDeaths => faults.deaths + 1 \in 0 .. MaxDeaths
    BY ONLY <1>1, <1>3, <1>4
  <1>6. faults.timeouts < MaxTimeouts => faults.timeouts + 1 \in 0 .. MaxTimeouts
    BY ONLY <1>1, <1>3, <1>4
  <1> QED BY <1>2, <1>5, <1>6

\* With the pill, at most the feeder is killed; without it, everybody is.
LEMMA PillCut ==
    ASSUME TypeOK, SendPoisonPill
    PROVE  /\ alive' \subseteq alive /\ results' = results
           /\ \E D : /\ outbox' = [q \in Children |-> IF q \in D THEN << >> ELSE outbox[q]]
                     /\ D \cap alive' = {}
  <1>1. outbox \in [Children -> Seq(Results)] /\ alive \subseteq Children
    BY TypeParts
  <1>2. results' = results
    BY DEF SendPoisonPill
  <1>3. CASE alive # Children
    <2>1. outbox' = outbox /\ alive' = {}
      BY <1>3 DEF SendPoisonPill
    <2>2. outbox' = [q \in Children |-> IF q \in {} THEN << >> ELSE outbox[q]]
      BY <1>1, <2>1
    <2> QED BY <1>2, <2>1, <2>2
  <1>4. CASE alive = Children
    <2>1. /\ outbox' = [q \in Children |-> IF q \in alive' THEN outbox[q] ELSE << >>]
          /\ alive' = alive \/ alive' = alive \ {Feeder}
      BY <1>4 DEF SendPoisonPill
    <2>2. outbox' = [q \in Children |-> IF q \in Children \ alive' THEN << >> ELSE outbox[q]]
      BY <2>1
    <2>3. (Children \ alive') \cap alive' = {} /\ alive' \subseteq alive
      BY <2>1
    <2> QED BY <1>2, <2>2, <2>3
  <1> QED BY <1>3, <1>4

LEMMA TypeStep ==
    ASSUME ChunksAssumption, TypeOK, LockInv, ErrorInv, [Next]_vars
    PROVE  TypeOK'
  <1> USE TypeParts DEF workVars, feederVars, parentVars
  <1> DEFINE Done == TypeOK'
  <1>1. ASSUME NEW p \in Children, WriteResult(p) PROVE Done
    <2>1. outbox' \in [Children -> Seq(Results)] /\ results' \in [Children -> Seq(Results)]
      BY <1>1, WireWrite
    <2> QED BY <1>1, <2>1 DEF WriteResult, TypeOK
  <1>2. ASSUME NEW w \in Workers, SendChunk(w) PROVE Done
    <2>1. feeder.next \in Chunks /\ feeder.next \in Nat /\ feeder.sent \in Nat /\ Size(feeder.next) \in Nat /\ Cardinality(Chunks) \in Nat
      BY <1>2, Numbers DEF SendChunk, FeederType
    <2>2. PICK k \in Nat : k = Cardinality(Chunks)
      BY <2>1
    <2>3. feeder.next \in 1 .. k
      BY <2>1, <2>2 DEF ChunksAssumption
    <2>4. feeder.next + 1 \in 1 .. k + 1 /\ feeder.sent + Size(feeder.next) \in Nat
      BY <2>1, <2>2, <2>3
    <2>5. feeder' \in FeederType
      BY <1>2, <2>2, <2>4 DEF SendChunk, FeederType
    <2>6. pending' \in [Workers -> Seq(Chunks)]
      BY <1>2, <2>1, SeqAt DEF SendChunk
    <2> QED BY <1>2, <2>5, <2>6 DEF SendChunk, TypeOK, FeederType
  <1>3. ASSUME Fed PROVE Done
    <2>1. feeder' \in FeederType /\ feeder.sent \in Nat
      BY <1>3 DEF Fed, FeederType
    <2>2. [type |-> "fed", sent |-> feeder.sent] \in Results
      BY <2>1, MessageTypes
    <2>3. outbox' \in [Children -> Seq(Results)]
      BY <1>3, <2>2, WireQueue DEF Fed, Children
    <2> QED BY <1>3, <2>1, <2>3 DEF Fed, TypeOK, FeederType
  <1>4. ASSUME NEW w \in Workers, Lock(w) PROVE Done
    BY <1>4 DEF Lock, TypeOK
  <1>5. ASSUME NEW w \in Workers, WriteChunk(w) PROVE Done
    <2>1. pending[w] # << >>
      BY <1>5 DEF LockInv, WriteChunk
    <2>2. Head(pending[w]) \in Chunks /\ pending' \in [Workers -> Seq(Chunks)]
      BY <1>5, <2>1, SeqAt DEF WriteChunk
    <2>3. w \in Children /\ Head(pending[w]) \in Chunks \cup {Pill}
      BY <2>2 DEF Children
    <2>4. pipe' \in [Children -> Seq(Chunks \cup {Pill})]
      BY <1>5, <2>3, SeqAt DEF WriteChunk
    <2> QED BY <1>5, <2>2, <2>4 DEF WriteChunk, TypeOK
  <1>6. ASSUME FeederEnds PROVE Done
    <2>1. Feeder \in Children
      BY DEF Children
    <2>2. pipe' \in [Children -> Seq(Chunks \cup {Pill})] /\ outbox' \in [Children -> Seq(Results)]
      BY <1>6, <2>1, SeqAt DEF FeederEnds
    <2>3. feeder' \in FeederType
      BY <1>6 DEF FeederEnds, FeederType
    <2> QED BY <1>6, <2>2, <2>3 DEF FeederEnds, TypeOK, FeederType
  <1>7. ASSUME NEW w \in Workers, Receive(w) PROVE Done
    <2>1. w \in Children
      BY DEF Children
    <2>2. Head(pipe[w]) \in Chunks /\ pipe' \in [Children -> Seq(Chunks \cup {Pill})]
      BY <1>7, <2>1, SeqAt DEF Receive
    <2>3. hand' \in [Workers -> SUBSET Chunks]
      BY <1>7, <2>2 DEF Receive
    <2> QED BY <1>7, <2>2, <2>3 DEF Receive, TypeOK
  <1>8. ASSUME NEW w \in Workers, NEW c \in hand[w], StoreRows(w, c) PROVE Done
    <2>1. settled' \subseteq Rows /\ settled \subseteq settled' /\ reports' = reports
      BY <1>8 DEF StoreRows, Work!Settle, RowsOf, Work!RowsOf
    <2> QED BY <1>8, <2>1 DEF StoreRows, TypeOK
  <1>9. ASSUME NEW w \in Workers, NEW c \in hand[w], GiveUpRows(w, c) PROVE Done
    <2>1. PICK R \in SUBSET (RowsOf(c) \ settled), k \in ErrorKinds :
            /\ settled' = settled \cup R /\ reports' = reports /\ failed' = failed \cup R
            /\ Queue(w, <<[type |-> "error", kind |-> k, rows |-> R]>>)
      BY <1>9 DEF GiveUpRows, Work!Settle
    <2>2. R \in SUBSET Rows
      BY DEF RowsOf, Work!RowsOf
    <2>3. [type |-> "error", kind |-> k, rows |-> R] \in Results /\ w \in Children
      BY <2>2, MessageTypes DEF Children
    <2>4. outbox' \in [Children -> Seq(Results)]
      BY <1>9, <2>1, <2>3, WireQueue DEF GiveUpRows
    <2> QED BY <1>9, <2>1, <2>2, <2>4 DEF GiveUpRows, TypeOK
  <1>10. ASSUME NEW w \in Workers, NEW c \in hand[w], ReportChunk(w, c) PROVE Done
    <2>1. c \in Chunks /\ w \in Children
      BY DEF Children
    <2>2. reports' = [reports EXCEPT ![c] = @ + 1] /\ settled' = settled
      BY <1>10 DEF ReportChunk, Work!Report
    <2>3. reports' \in [Chunks -> 0 .. MaxReports]
      <3>1. MaxReports \in Nat /\ reports[c] \in 0 .. MaxReports /\ reports[c] < MaxReports
        BY <1>10, <2>1 DEF ChunksAssumption, ReportChunk, Work!Report
      <3>2. reports[c] + 1 \in 0 .. MaxReports
        BY <3>1
      <3> QED BY <2>1, <2>2, <3>2
    <2>4. [type |-> "imported", n |-> Size(c)] \in Results
      BY <2>1, Numbers, MessageTypes
    <2>5. outbox' \in [Children -> Seq(Results)]
      BY <1>10, <2>1, <2>4, WireQueue DEF ReportChunk
    <2> QED BY <1>10, <2>2, <2>3, <2>5 DEF ReportChunk, TypeOK
  <1>11. ASSUME NEW w \in Workers, WorkerEnds(w) PROVE Done
    <2>1. w \in Children
      BY DEF Children
    <2>2. pipe' \in [Children -> Seq(Chunks \cup {Pill})] /\ outbox' \in [Children -> Seq(Results)]
      BY <1>11, <2>1, SeqAt DEF WorkerEnds
    <2> QED BY <1>11, <2>2 DEF WorkerEnds, TypeOK
  <1>12. ASSUME NEW p \in Children, ReceiveResult(p) PROVE Done
    <2> DEFINE msg == Head(results[p])
    <2>1. results' \in [Children -> Seq(Results)] /\ msg \in Results
      BY <1>12, SeqAt DEF ReceiveResult
    <2> HIDE DEF msg
    <2>2. CASE msg.type = "imported" /\ parent' = [parent EXCEPT !.total = @ + msg.n] /\ errFile' = errFile
      <3>1. parent' \in ParentType
        BY <2>1, <2>2, MessageTypes, ParentChange
      <3> QED BY <1>12, <2>1, <2>2, <3>1 DEF ReceiveResult, TypeOK, ParentType
    <2>3. CASE msg.type = "fed" /\ parent' = [parent EXCEPT !.sent = msg.sent] /\ errFile' = errFile
      <3>1. parent' \in ParentType
        BY <2>1, <2>3, MessageTypes, ParentChange
      <3> QED BY <1>12, <2>1, <2>3, <3>1 DEF ReceiveResult, TypeOK, ParentType
    <2>4. CASE /\ msg.type = "error" /\ parent' = [parent EXCEPT !.errors[msg.kind] = @ + Cardinality(msg.rows)]
               /\ errFile' = errFile \cup msg.rows
      <3>1. parent' \in ParentType
        BY <2>1, <2>4, MessageCount, ParentChange
      <3>2. errFile' \subseteq failed
        BY <1>12, <2>4, HeadError DEF ReceiveResult, msg
      <3> QED BY <1>12, <2>1, <2>4, <3>1, <3>2 DEF ReceiveResult, TypeOK, ParentType
    <2> QED BY <1>12, <2>2, <2>3, <2>4 DEF ReceiveResult, msg
  <1>13. ASSUME AllReceived \/ Abort PROVE Done
    <2>1. parent' \in ParentType
      BY <1>13, ParentChange DEF AllReceived, Abort
    <2> QED BY <1>13, <2>1 DEF AllReceived, Abort, TypeOK, ParentType
  <1>14. ASSUME ChildTimeout PROVE Done
    <2>1. parent' \in ParentType
      BY <1>14, ParentChange DEF ChildTimeout
    <2>2. faults' \in [deaths : 0 .. MaxDeaths, timeouts : 0 .. MaxTimeouts]
      BY <1>14, FaultTypes DEF ChildTimeout
    <2> QED BY <1>14, <2>1, <2>2 DEF ChildTimeout, TypeOK, ParentType
  <1>15. ASSUME SendPoisonPill PROVE Done
    <2>1. parent' \in ParentType
      BY <1>15, ParentChange DEF SendPoisonPill
    <2>2. alive' \subseteq Children /\ pill' \in [Children -> {"none", "queued", "writing", "sent"}]
      BY <1>15 DEF SendPoisonPill
    <2>3. outbox' \in [Children -> Seq(Results)]
      BY <1>15, PillCut, WireCut
    <2> QED BY <1>15, <2>1, <2>2, <2>3 DEF SendPoisonPill, TypeOK, ParentType
  <1>16. ASSUME NEW w \in Workers, LockPill(w) PROVE Done
    BY <1>16 DEF LockPill, TypeOK
  <1>17. ASSUME NEW w \in Workers, WritePill(w) PROVE Done
    <2>1. pipe' \in [Children -> Seq(Chunks \cup {Pill})]
      BY <1>17, SeqAt DEF WritePill, Children
    <2> QED BY <1>17, <2>1 DEF WritePill, TypeOK
  <1>18. ASSUME WriteFeederPill PROVE Done
    <2>1. pipe' \in [Children -> Seq(Chunks \cup {Pill})]
      BY <1>18, SeqAt DEF WriteFeederPill, Children
    <2> QED BY <1>18, <2>1 DEF WriteFeederPill, TypeOK
  <1>19. ASSUME Close PROVE Done
    <2>1. parent' \in ParentType
      BY <1>19, ParentChange DEF Close
    <2> QED BY <1>19, <2>1 DEF Close, TypeOK, ParentType
  <1>20. ASSUME NEW p \in Children, Die(p) PROVE Done
    <2>1. outbox' \in [Children -> Seq(Results)]
      BY <1>20, SeqAt DEF Die
    <2>2. faults' \in [deaths : 0 .. MaxDeaths, timeouts : 0 .. MaxTimeouts]
      BY <1>20, FaultTypes DEF Die
    <2> QED BY <1>20, <2>1, <2>2 DEF Die, TypeOK
  <1>21. ASSUME UNCHANGED vars PROVE Done
    BY <1>21 DEF vars, TypeOK
  <1> HIDE DEF Done
  <1>22. FeedStep => Done
    BY <1>2, <1>3, <1>4, <1>5, <1>6 DEF FeedStep
  <1>23. WorkStep => Done
    BY <1>7, <1>8, <1>10, <1>11 DEF WorkStep
  <1>24. PillStep => Done
    BY <1>16, <1>17, <1>18 DEF PillStep
  <1>25. ParentStep => Done
    BY <1>12, <1>13, <1>15, <1>19 DEF ParentStep
  <1>26. Fault => Done
    BY <1>9, <1>14, <1>20 DEF Fault
  <1>27. SendStep => Done
    BY <1>1 DEF SendStep
  <1>28. [Next]_vars
    OBVIOUS
  <1>29. Done
    BY ONLY <1>21, <1>22, <1>23, <1>24, <1>25, <1>26, <1>27, <1>28 DEF Next
  <1> QED BY <1>29 DEF Done

-----------------------------------------------------------------------------
(* Locks, chunks and counts                                                *)

LEMMA AppendSome == ASSUME NEW S, NEW t \in Seq(S), NEW c \in S PROVE Append(t, c) # << >>
  <1>1. Len(Append(t, c)) = Len(t) + 1 /\ Len(t) \in Nat
    OBVIOUS
  <1>2. Len(<< >>) = 0
    OBVIOUS
  <1> QED BY <1>1, <1>2

LEMMA LockStep ==
    ASSUME TypeOK, LockInv, [Next]_vars
    PROVE  LockInv'
  <1> USE TypeParts
  <1>1. ASSUME UNCHANGED <<pending, wlock>> PROVE LockInv'
    BY <1>1 DEF LockInv
  <1>2. ASSUME NEW w \in Workers, SendChunk(w) PROVE LockInv'
    <2>1. pending[w] \in Seq(Chunks) /\ feeder.next \in Chunks
      BY <1>2 DEF SendChunk
    <2>2. \A t \in Seq(Chunks), c \in Chunks : Append(t, c) # << >>
      BY AppendSome
    <2>3. pending' = [pending EXCEPT ![w] = Append(@, feeder.next)] /\ wlock' = wlock
      BY <1>2 DEF SendChunk
    <2>4. pending'[w] # << >> /\ \A v \in Workers : v # w => pending'[v] = pending[v]
      BY <2>1, <2>2, <2>3
    <2> QED BY <2>3, <2>4 DEF LockInv
  <1>3. ASSUME NEW w \in Workers, Lock(w) PROVE LockInv'
    BY <1>3 DEF Lock, feederVars, LockInv
  <1>4. ASSUME NEW w \in Workers, WriteChunk(w) PROVE LockInv'
    BY <1>4 DEF WriteChunk, LockInv
  <1>5. ASSUME NEW w \in Workers, LockPill(w) \/ WritePill(w) PROVE LockInv'
    BY <1>5 DEF LockPill, WritePill, feederVars, LockInv
  <1>6. FeedStep => LockInv'
    BY <1>1, <1>2, <1>3, <1>4 DEF FeedStep, Fed, FeederEnds
  <1>7. WorkStep \/ SendStep => LockInv'
    BY <1>1 DEF WorkStep, SendStep, Receive, WorkerEnds, StoreRows, ReportChunk, WriteResult, feederVars
  <1>8. PillStep => LockInv'
    BY <1>1, <1>5 DEF PillStep, WriteFeederPill, feederVars
  <1>9. ParentStep \/ Fault => LockInv'
    BY <1>1 DEF ParentStep, Fault, AllReceived, Abort, SendPoisonPill, Close, ReceiveResult, ChildTimeout, Die, GiveUpRows, feederVars
  <1>10. UNCHANGED vars => LockInv'
    BY <1>1 DEF vars
  <1>11. [Next]_vars
    OBVIOUS
  <1> QED BY ONLY <1>6, <1>7, <1>8, <1>9, <1>10, <1>11 DEF Next

\* Rows that are settled or given up stay so, and a report follows its rows.
LEMMA ChunkStep ==
    ASSUME ChunksAssumption, TypeOK, ChunkInv, [Next]_vars
    PROVE  ChunkInv'
  <1> USE TypeParts
  <1>1. ASSUME UNCHANGED <<settled, reports, failed, hand>> PROVE ChunkInv'
    BY <1>1 DEF ChunkInv
  <1>2. ASSUME NEW w \in Workers, Receive(w) PROVE ChunkInv'
    <2>1. \A v \in Workers : hand[v] \subseteq hand'[v]
      BY <1>2 DEF Receive
    <2>2. UNCHANGED <<settled, reports, failed>>
      BY <1>2 DEF Receive
    <2> QED BY <2>1, <2>2 DEF ChunkInv
  <1>3. ASSUME NEW w \in Workers, NEW c \in hand[w], StoreRows(w, c) PROVE ChunkInv'
    <2>1. settled \subseteq settled' /\ UNCHANGED <<reports, failed, hand>>
      BY <1>3 DEF StoreRows, Work!Settle
    <2> QED BY <2>1 DEF ChunkInv
  <1>4. ASSUME NEW w \in Workers, NEW c \in hand[w], GiveUpRows(w, c) PROVE ChunkInv'
    <2>1. PICK R \in SUBSET (RowsOf(c) \ settled) : settled' = settled \cup R /\ failed' = failed \cup R
      BY <1>4 DEF GiveUpRows, Work!Settle
    <2>2. UNCHANGED <<reports, hand>>
      BY <1>4 DEF GiveUpRows, Work!Settle
    <2>3. \A r \in R : ChunkOf[r] = c
      BY DEF RowsOf, Work!RowsOf
    <2>4. \A r \in failed' : \E v \in Workers : ChunkOf[r] \in hand'[v]
      <3>1. \A r \in failed : \E v \in Workers : ChunkOf[r] \in hand[v]
        BY DEF ChunkInv
      <3> QED BY <2>1, <2>2, <2>3, <3>1
    <2> QED BY <2>1, <2>2, <2>4 DEF ChunkInv
  <1>5. ASSUME NEW w \in Workers, NEW c \in hand[w], ReportChunk(w, c) PROVE ChunkInv'
    <2>1. /\ c \in Chunks /\ RowsOf(c) \subseteq settled
          /\ reports' = [reports EXCEPT ![c] = @ + 1] /\ UNCHANGED <<settled, failed, hand>>
      BY <1>5 DEF ReportChunk, Work!Report, RowsOf
    <2>2. \A b \in Chunks : b # c => reports'[b] = reports[b]
      BY <2>1
    <2> QED BY <2>1, <2>2 DEF ChunkInv
  <1>6. FeedStep \/ SendStep \/ PillStep => ChunkInv'
    BY <1>1 DEF FeedStep, Fed, FeederEnds, SendChunk, Lock, WriteChunk, SendStep, WriteResult,
                PillStep, WriteFeederPill, LockPill, WritePill, workVars
  <1>7. WorkStep => ChunkInv'
    BY <1>1, <1>2, <1>3, <1>5 DEF WorkStep, WorkerEnds, workVars
  <1>8. ParentStep => ChunkInv'
    BY <1>1 DEF ParentStep, AllReceived, Abort, SendPoisonPill, Close, ReceiveResult, workVars
  <1>9. Fault => ChunkInv'
    BY <1>1, <1>4 DEF Fault, ChildTimeout, Die, workVars
  <1>10. UNCHANGED vars => ChunkInv'
    BY <1>1 DEF vars
  <1>11. [Next]_vars
    OBVIOUS
  <1> QED BY ONLY <1>6, <1>7, <1>8, <1>9, <1>10, <1>11 DEF Next

\* A step that gives no worker a chunk it did not have.
LEMMA OwnerKeep ==
    ASSUME OwnerInv, feeder'.next = feeder.next,
           \A w \in Workers : \A c \in (Has(w) \ {Pill})' : c \in Has(w)
    PROVE  OwnerInv'
  BY DEF OwnerInv, Pill

\* The elements of a sequence that grows or shrinks.
LEMMA Elements ==
    ASSUME NEW S, NEW s \in Seq(S)
    PROVE  /\ \A m \in S : Range(Append(s, m)) = Range(s) \cup {m}
           /\ s # << >> => Range(s) = Range(Tail(s)) \cup {Head(s)}
           /\ Range(s) \subseteq S
  <1>0. DOMAIN s = 1 .. Len(s) /\ Len(s) \in Nat
    OBVIOUS
  <1>1. ASSUME NEW m \in S PROVE Range(Append(s, m)) = Range(s) \cup {m}
    <2> DEFINE n == Len(s)
               t == Append(s, m)
    <2>1. DOMAIN t = 1 .. n + 1 /\ t[n + 1] = m
      BY <1>0
    <2>2. \A i \in 1 .. n : t[i] = s[i]
      BY <1>0
    <2>3. (\A i \in 1 .. n : i \in 1 .. n + 1) /\ n + 1 \in 1 .. n + 1 /\ \A i \in 1 .. n + 1 : i \in 1 .. n \/ i = n + 1
      BY <1>0
    <2> HIDE DEF t
    <2> QED BY <1>0, <2>1, <2>2, <2>3 DEF Range
  <1>2. ASSUME s # << >> PROVE Range(s) = Range(Tail(s)) \cup {Head(s)}
    <2> DEFINE n == Len(s)
               t == Tail(s)
    <2>1. n >= 1 /\ Head(s) = s[1] /\ t \in Seq(S) /\ Len(t) = n - 1
      BY <1>2
    <2>2. DOMAIN t = 1 .. n - 1
      BY <2>1
    <2>3. \A i \in 1 .. n - 1 : t[i] = s[i + 1]
      BY <1>2, <2>1
    <2> HIDE DEF t
    <2>4. \A i \in 1 .. n : i = 1 \/ (i - 1 \in 1 .. n - 1 /\ t[i - 1] = s[i])
      <3> TAKE i \in 1 .. n
      <3>1. i # 1 => i - 1 \in 1 .. n - 1 /\ (i - 1) + 1 = i
        BY <1>0
      <3> QED BY <2>3, <3>1
    <2>5. (\A i \in 1 .. n - 1 : i + 1 \in 1 .. n) /\ 1 \in 1 .. n
      BY <1>0, <2>1
    <2>6. \A x \in Range(s) : x = s[1] \/ x \in Range(t)
      BY <1>0, <2>2, <2>4 DEF Range
    <2>7. \A x \in Range(t) : x \in Range(s)
      BY <1>0, <2>2, <2>3, <2>5 DEF Range
    <2>8. s[1] \in Range(s)
      BY <1>0, <2>5 DEF Range
    <2> QED BY <2>1, <2>6, <2>7, <2>8 DEF t
  <1>3. Range(s) \subseteq S
    BY <1>0 DEF Range
  <1> QED BY <1>1, <1>2, <1>3

LEMMA PipeElements ==
    ASSUME TypeOK, NEW w \in Workers, NEW m \in Chunks \cup {Pill}
    PROVE  Range(Append(pipe[w], m)) = Range(pipe[w]) \cup {m}
  <1> DEFINE S == Chunks \cup {Pill}
  <1>1. pipe[w] \in Seq(S) /\ m \in S
    BY TypeParts DEF Children
  <1> HIDE DEF S
  <1> QED BY <1>1, Elements

LEMMA OwnerStep ==
    ASSUME ChunksAssumption, TypeOK, LockInv, OwnerInv, [Next]_vars
    PROVE  OwnerInv'
  <1> USE TypeParts
  <1>0. \A w \in Workers : w \in Children /\ w # Feeder /\ pipe[w] \in Seq(Chunks \cup {Pill}) /\ pending[w] \in Seq(Chunks)
    BY DEF Children, ChunksAssumption
  <1>1. ASSUME feeder'.next = feeder.next, UNCHANGED pending,
               \A w \in Workers : hand'[w] = hand[w] /\ pipe'[w] = pipe[w]
        PROVE  OwnerInv'
    <2>1. \A w \in Workers : Has(w)' = Has(w)
      BY <1>1 DEF Has
    <2> QED BY <1>1, <2>1 DEF OwnerInv
  <1>2. ASSUME NEW w \in Workers, SendChunk(w) PROVE OwnerInv'
    <2> DEFINE c == feeder.next
    <2>1. c \in Chunks /\ c \in Nat /\ pending' = [pending EXCEPT ![w] = Append(@, c)] /\ feeder'.next = c + 1
      BY <1>2, Numbers DEF SendChunk, FeederType
    <2>2. pipe' = pipe /\ hand' = hand
      BY <1>2 DEF SendChunk, workVars
    <2> HIDE DEF c
    <2>3. pending'[w] = Append(pending[w], c) /\ \A v \in Workers : v # w => pending'[v] = pending[v]
      BY <2>1
    <2>4. Has(w)' = Has(w) \cup {c}
      <3>1. Range(Append(pending[w], c)) = Range(pending[w]) \cup {c}
        BY <1>0, <2>1, Elements
      <3> QED BY <2>2, <2>3, <3>1 DEF Has
    <2>5. \A v \in Workers : v # w => Has(v)' = Has(v)
      BY <2>2, <2>3 DEF Has
    <2>6. \A v \in Workers : \A b \in Has(v) \ {Pill} : b < c /\ b \in Nat
      <3>1. \A v \in Workers : \A b \in Has(v) : b \in Chunks \cup {Pill}
        BY <1>0, Elements DEF Has
      <3> QED BY <3>1, Numbers DEF OwnerInv, c
    <2>7. \A v \in Workers : \A b \in Has(v) \ {Pill} : b < c + 1
      BY <2>1, <2>6
    <2>8. \A v \in Workers : c \notin Has(v) \ {Pill}
      BY <2>1, <2>6
    <2>9. \A v \in Workers : \A b \in (Has(v) \ {Pill})' : b < feeder'.next
      <3>1. c < c + 1
        BY <2>1
      <3>2. \A v \in Workers : \A b \in Has(v)' : b \in Has(v) \cup {c}
        BY <2>4, <2>5
      <3> QED BY <2>1, <2>7, <3>1, <3>2 DEF Pill
    <2>10. c # Pill
      BY <2>1, Numbers
    <2>11. \A v, u \in Workers : \A b \in ((Has(v) \cap Has(u)) \ {Pill})' : v = u
      <3>1. \A v, u \in Workers : \A b \in (Has(v) \cap Has(u)) \ {Pill} : v = u
        BY DEF OwnerInv
      <3>2. \A v \in Workers : Has(v)' = IF v = w THEN Has(v) \cup {c} ELSE Has(v)
        BY <2>4, <2>5
      <3>3. \A v \in Workers : c \notin Has(v)
        BY <2>8, <2>10
      <3>4. \A v \in Workers : \A b \in Has(v)' : b = c \/ b \in Has(v)
        BY <3>2
      <3>5. ASSUME NEW v \in Workers, NEW u \in Workers, NEW b \in Has(v)' \cap Has(u)', b # Pill
            PROVE  v = u
        <4>1. CASE b = c
          BY <4>1, <3>2, <3>3
        <4>2. CASE b # c
          <5>1. b \in Has(v) \cap Has(u)
            BY <4>2, <3>4
          <5> QED BY <5>1, <3>1, <3>5
        <4> QED BY <4>1, <4>2
      <3> QED BY <3>5 DEF Pill
    <2> QED BY <2>9, <2>11 DEF OwnerInv, Pill
  <1>3. ASSUME NEW w \in Workers, WriteChunk(w) PROVE OwnerInv'
    <2>1. pending[w] # << >> /\ feeder' = feeder /\ hand' = hand
      BY <1>3 DEF WriteChunk, LockInv, workVars
    <2>2. /\ pending'[w] = Tail(pending[w]) /\ pipe'[w] = Append(pipe[w], Head(pending[w]))
          /\ \A v \in Workers : v # w => pending'[v] = pending[v] /\ pipe'[v] = pipe[v]
      BY <1>0, <1>3 DEF WriteChunk
    <2>3. Has(w)' = Has(w)
      <3>0. Range(pending[w]) = Range(Tail(pending[w])) \cup {Head(pending[w])} /\ Range(pending[w]) \subseteq Chunks
        BY <1>0, <2>1, Elements
      <3>1. Range(pending[w]) = Range(Tail(pending[w])) \cup {Head(pending[w])} /\ Head(pending[w]) \in Chunks
        BY <3>0
      <3>2. Head(pending[w]) \in Chunks \cup {Pill}
        BY <3>1
      <3>3. Range(Append(pipe[w], Head(pending[w]))) = Range(pipe[w]) \cup {Head(pending[w])}
        BY <3>2, PipeElements
      <3> QED BY <2>1, <2>2, <3>1, <3>3 DEF Has
    <2>4. \A v \in Workers : v # w => Has(v)' = Has(v)
      BY <2>1, <2>2 DEF Has
    <2> QED BY <2>1, <2>3, <2>4, OwnerKeep
  <1>4. ASSUME NEW w \in Workers, Receive(w) PROVE OwnerInv'
    <2>1. pipe[w] # << >> /\ feeder' = feeder /\ pending' = pending
      BY <1>4 DEF Receive, feederVars
    <2>2. /\ pipe'[w] = Tail(pipe[w]) /\ hand'[w] = hand[w] \cup {Head(pipe[w])}
          /\ \A v \in Workers : v # w => hand'[v] = hand[v] /\ pipe'[v] = pipe[v]
      BY <1>0, <1>4 DEF Receive
    <2>3. Has(w)' = Has(w)
      BY <1>0, <2>1, <2>2, Elements DEF Has
    <2>4. \A v \in Workers : v # w => Has(v)' = Has(v)
      BY <2>1, <2>2 DEF Has
    <2> QED BY <2>1, <2>3, <2>4, OwnerKeep
  <1>5. ASSUME NEW w \in Workers, WorkerEnds(w) PROVE OwnerInv'
    <2>1. pipe[w] # << >> /\ feeder' = feeder /\ pending' = pending /\ hand' = hand
      BY <1>5 DEF WorkerEnds, feederVars, workVars
    <2>2. pipe'[w] = Tail(pipe[w]) /\ \A v \in Workers : v # w => pipe'[v] = pipe[v]
      BY <1>0, <1>5 DEF WorkerEnds
    <2>3. Has(w)' \subseteq Has(w)
      BY <1>0, <2>1, <2>2, Elements DEF Has
    <2>4. \A v \in Workers : v # w => Has(v)' = Has(v)
      BY <2>1, <2>2 DEF Has
    <2> QED BY <2>1, <2>3, <2>4, OwnerKeep
  <1>6. ASSUME NEW w \in Workers, WritePill(w) PROVE OwnerInv'
    <2>1. feeder' = feeder /\ pending' = pending /\ hand' = hand
      BY <1>6 DEF WritePill, feederVars, workVars
    <2>2. pipe'[w] = Append(pipe[w], Pill) /\ \A v \in Workers : v # w => pipe'[v] = pipe[v]
      BY <1>0, <1>6 DEF WritePill
    <2>3. Has(w)' = Has(w) \cup {Pill}
      <3>1. Range(Append(pipe[w], Pill)) = Range(pipe[w]) \cup {Pill}
        BY PipeElements
      <3> QED BY <2>1, <2>2, <3>1 DEF Has
    <2>4. \A v \in Workers : v # w => Has(v)' = Has(v)
      BY <2>1, <2>2 DEF Has
    <2>5. \A v \in Workers : \A c \in (Has(v) \ {Pill})' : c \in Has(v)
      BY <2>3, <2>4 DEF Pill
    <2> QED BY <2>1, <2>5, OwnerKeep
  <1>7. ASSUME FeederEnds \/ WriteFeederPill PROVE OwnerInv'
    <2>1. feeder'.next = feeder.next /\ pending' = pending /\ hand' = hand
      BY <1>7 DEF FeederEnds, WriteFeederPill, feederVars, workVars, FeederType
    <2>2. \A w \in Workers : pipe'[w] = pipe[w]
      BY <1>0, <1>7 DEF FeederEnds, WriteFeederPill
    <2> QED BY <1>1, <2>1, <2>2
  <1>8. ASSUME Fed PROVE OwnerInv'
    <2>1. feeder'.next = feeder.next
      BY <1>8 DEF Fed, FeederType
    <2> QED BY <1>1, <1>8, <2>1 DEF Fed, workVars
  <1>9. FeedStep => OwnerInv'
    BY <1>1, <1>2, <1>3, <1>7, <1>8 DEF FeedStep, Lock, feederVars, workVars
  <1>10. WorkStep => OwnerInv'
    BY <1>1, <1>4, <1>5 DEF WorkStep, StoreRows, ReportChunk, feederVars
  <1>11. PillStep => OwnerInv'
    BY <1>1, <1>6, <1>7 DEF PillStep, LockPill, feederVars, workVars
  <1>12. SendStep \/ ParentStep => OwnerInv'
    BY <1>1 DEF SendStep, WriteResult, ParentStep, AllReceived, Abort, SendPoisonPill, Close, ReceiveResult, feederVars, workVars
  <1>13. Fault => OwnerInv'
    BY <1>1 DEF Fault, ChildTimeout, Die, GiveUpRows, feederVars, workVars
  <1>14. UNCHANGED vars => OwnerInv'
    BY <1>1 DEF vars
  <1>15. [Next]_vars
    OBVIOUS
  <1> QED BY ONLY <1>9, <1>10, <1>11, <1>12, <1>13, <1>14, <1>15 DEF Next

-----------------------------------------------------------------------------
(* The kinds of steps, for what is on the wires                            *)

QuietStep ==
    /\ UNCHANGED <<failed, errFile, reports, hand>> /\ alive' \subseteq alive
    /\ parent'.total = parent.total /\ parent'.sent = parent.sent
    /\ Wires' = Wires

CutStep ==
    /\ UNCHANGED <<failed, errFile, reports, hand>> /\ alive' \subseteq alive
    /\ parent'.total = parent.total /\ parent'.sent = parent.sent
    /\ Wires' \in [Children -> Seq(Results)]
    /\ \A q \in alive' : Wires'[q] = Wires[q]
    /\ \A q \in Children : Len(Wires'[q]) <= Len(Wires[q]) /\ \A i \in 1 .. Len(Wires'[q]) : Wires'[q][i] = Wires[q][i]

WireStep ==
    \/ QuietStep \/ CutStep \/ Fed
    \/ \E w \in Workers : Receive(w) \/ \E c \in hand[w] : GiveUpRows(w, c) \/ ReportChunk(w, c)
    \/ \E p \in Children : ReceiveResult(p)

LEMMA IsCut ==
    ASSUME TypeOK, UNCHANGED <<failed, errFile, reports, hand, results>>, alive' \subseteq alive,
           parent'.total = parent.total, parent'.sent = parent.sent,
           NEW D, outbox' = [q \in Children |-> IF q \in D THEN << >> ELSE outbox[q]], D \cap alive' = {}
    PROVE  CutStep
  <1>1. /\ Wires' \in [Children -> Seq(Results)]
        /\ \A q \in Children : q \notin D => Wires'[q] = Wires[q]
        /\ \A q \in Children : Len(Wires'[q]) <= Len(Wires[q]) /\ \A i \in 1 .. Len(Wires'[q]) : Wires'[q][i] = Wires[q][i]
    BY WireCut, TypeParts
  <1>2. \A q \in alive' : q \in Children /\ q \notin D
    BY TypeParts
  <1> QED BY <1>1, <1>2 DEF CutStep

LEMMA OneEnds ==
    ASSUME TypeOK, UNCHANGED <<failed, errFile, reports, hand, results, parent>>,
           NEW p \in Children, alive' = alive \ {p}, outbox' = [outbox EXCEPT ![p] = << >>]
    PROVE  CutStep
  <1>1. outbox' = [q \in Children |-> IF q \in {p} THEN << >> ELSE outbox[q]]
    BY TypeParts
  <1>2. {p} \cap alive' = {} /\ alive' \subseteq alive
    OBVIOUS
  <1> QED BY <1>1, <1>2, IsCut

LEMMA IsQuiet ==
    ASSUME UNCHANGED <<failed, errFile, reports, hand, results, outbox>>, alive' \subseteq alive,
           parent'.total = parent.total, parent'.sent = parent.sent
    PROVE  QuietStep
  BY DEF QuietStep, Wires

LEMMA Kinds ==
    ASSUME TypeOK, [Next]_vars
    PROVE  WireStep
  <1> USE DEF workVars, feederVars, parentVars
  <1> parent \in ParentType
    BY TypeParts
  <1>1. ASSUME NEW w \in Workers, SendChunk(w) \/ Lock(w) \/ WriteChunk(w) PROVE QuietStep
    BY <1>1, IsQuiet DEF SendChunk, Lock, WriteChunk
  <1>2. FeederEnds => CutStep
    BY OneEnds DEF FeederEnds, Children
  <1>3. ASSUME NEW w \in Workers, WorkerEnds(w) PROVE CutStep
    BY <1>3, OneEnds DEF WorkerEnds, Children
  <1>4. ASSUME NEW w \in Workers, NEW c \in hand[w], StoreRows(w, c) PROVE QuietStep
    BY <1>4, IsQuiet DEF StoreRows, Work!Settle
  <1>5. ASSUME NEW p \in Children, WriteResult(p) PROVE QuietStep
    <2>1. Wires' = Wires
      BY <1>5, WireWrite, TypeParts
    <2> QED BY <1>5, <2>1 DEF WriteResult, QuietStep
  <1>6. ASSUME NEW w \in Workers, LockPill(w) \/ WritePill(w) PROVE QuietStep
    BY <1>6, IsQuiet DEF LockPill, WritePill
  <1>7. WriteFeederPill => QuietStep
    BY IsQuiet DEF WriteFeederPill
  <1>8. ASSUME AllReceived \/ Abort \/ ChildTimeout PROVE QuietStep
    <2>1. parent'.total = parent.total /\ parent'.sent = parent.sent
      BY <1>8, ParentChange DEF AllReceived, Abort, ChildTimeout
    <2> QED BY <1>8, <2>1, IsQuiet DEF AllReceived, Abort, ChildTimeout
  <1>9. ASSUME SendPoisonPill PROVE CutStep
    <2>1. \E a \in {"done", "wait"} : parent' = [parent EXCEPT !.at = a]
      BY <1>9 DEF SendPoisonPill
    <2>2. parent'.total = parent.total /\ parent'.sent = parent.sent
      BY <2>1, ParentChange
    <2>3. PICK D : /\ alive' \subseteq alive /\ results' = results /\ D \cap alive' = {}
                   /\ outbox' = [q \in Children |-> IF q \in D THEN << >> ELSE outbox[q]]
      BY <1>9, PillCut
    <2>4. UNCHANGED <<failed, errFile, reports, hand>>
      BY <1>9 DEF SendPoisonPill
    <2> QED BY <2>2, <2>3, <2>4, IsCut
  <1>10. ASSUME Close PROVE QuietStep
    <2>1. parent'.total = parent.total /\ parent'.sent = parent.sent
      BY <1>10, ParentChange DEF Close
    <2> QED BY <1>10, <2>1, IsQuiet DEF Close
  <1>11. ASSUME NEW p \in Children, Die(p) PROVE CutStep
    BY <1>11, OneEnds DEF Die
  <1>12. UNCHANGED vars => QuietStep
    BY IsQuiet DEF vars
  <1>13. FeedStep => WireStep
    BY <1>1, <1>2 DEF FeedStep, WireStep
  <1>14. WorkStep => WireStep
    BY <1>3, <1>4 DEF WorkStep, WireStep
  <1>15. SendStep => WireStep
    BY <1>5 DEF SendStep, WireStep
  <1>16. PillStep => WireStep
    BY <1>6, <1>7 DEF PillStep, WireStep
  <1>17. ParentStep => WireStep
    BY <1>8, <1>9, <1>10 DEF ParentStep, WireStep
  <1>18. Fault => WireStep
    BY <1>8, <1>11 DEF Fault, WireStep
  <1>19. [Next]_vars /\ (UNCHANGED vars => WireStep)
    BY <1>12 DEF WireStep
  <1> QED BY ONLY <1>13, <1>14, <1>15, <1>16, <1>17, <1>18, <1>19 DEF Next

\* The three steps that put a message on a wire, and the one that takes it off.
LEMMA FedMessage ==
    ASSUME ChunksAssumption, TypeOK, Fed, NEW m, m = [type |-> "fed", sent |-> feeder.sent]
    PROVE  /\ m \in Results /\ m.type = "fed" /\ m.sent = feeder.sent
           /\ Feeder \in Children /\ Wires' = [Wires EXCEPT ![Feeder] = Append(@, m)]
           /\ UNCHANGED <<failed, errFile, reports, hand, alive, parent>>
  <1>1. feeder.sent \in Nat
    BY TypeParts DEF FeederType
  <1>2. m \in Results /\ m.type = "fed" /\ m.sent = feeder.sent
    BY <1>1, MessageTypes
  <1>3. Queue(Feeder, <<m>>) /\ results' = results /\ Feeder \in Children
    BY DEF Fed, Children
  <1>4. Wires' = [Wires EXCEPT ![Feeder] = Append(@, m)]
    BY <1>2, <1>3, WireQueue, TypeParts
  <1> QED BY <1>2, <1>3, <1>4 DEF Fed, workVars, parentVars

LEMMA FedTells ==
    ASSUME ChunksAssumption, TypeOK, SentInv, Fed, NEW m, m = [type |-> "fed", sent |-> feeder.sent]
    PROVE  TellsAll(m)
  <1>1. feeder.next \in 1 .. Cardinality(Chunks) + 1
    BY TypeParts DEF FeederType
  <1>2. Before(feeder.next) = Rows
    BY <1>1, BeforeAll DEF Fed
  <1> QED BY <1>2 DEF TellsAll, SentInv

LEMMA ErrorMessage ==
    ASSUME ChunksAssumption, TypeOK, NEW w \in Workers, NEW c \in hand[w], GiveUpRows(w, c)
    PROVE  \E R \in SUBSET (RowsOf(c) \ settled) : \E m \in Results :
               /\ m.type = "error" /\ m.rows = R /\ R # {}
               /\ failed' = failed \cup R /\ settled' = settled \cup R
               /\ Wires' = [Wires EXCEPT ![w] = Append(@, m)]
               /\ UNCHANGED <<errFile, reports, hand, alive, parent>>
  <1>1. PICK R \in SUBSET (RowsOf(c) \ settled), k \in ErrorKinds :
            /\ settled' = settled \cup R /\ reports' = reports /\ failed' = failed \cup R /\ R # {}
            /\ Queue(w, <<[type |-> "error", kind |-> k, rows |-> R]>>)
    BY DEF GiveUpRows, Work!Settle
  <1>2. R \in SUBSET Rows
    BY DEF RowsOf, Work!RowsOf
  <1>3. PICK m : m = [type |-> "error", kind |-> k, rows |-> R]
    OBVIOUS
  <1>4. m \in Results /\ m.type = "error" /\ m.rows = R /\ w \in Children
    BY <1>2, <1>3, MessageTypes DEF Children
  <1>5. Queue(w, <<m>>) /\ results' = results
    BY <1>1, <1>3 DEF GiveUpRows
  <1>6. Wires' = [Wires EXCEPT ![w] = Append(@, m)]
    BY <1>4, <1>5, WireQueue, TypeParts
  <1> QED BY <1>1, <1>4, <1>6 DEF GiveUpRows, parentVars

LEMMA ResultMessage ==
    ASSUME ChunksAssumption, TypeOK, NEW w \in Workers, NEW c \in hand[w], ReportChunk(w, c)
    PROVE  \E m \in Results :
               /\ m.type = "imported" /\ m.n = Size(c) /\ c \in Chunks
               /\ reports'[c] = reports[c] + 1 /\ reports'[c] \in 1 .. MaxReports
               /\ \A b \in Chunks : reports'[b] >= reports[b]
               /\ reports' \in [Chunks -> Nat]
               /\ Wires' = [Wires EXCEPT ![w] = Append(@, m)]
               /\ UNCHANGED <<settled, failed, errFile, hand, alive, parent>>
  <1>1. c \in Chunks /\ w \in Children /\ reports \in [Chunks -> Nat]
    BY TypeParts DEF Children
  <1>2. /\ reports' = [reports EXCEPT ![c] = @ + 1] /\ reports[c] < MaxReports
        /\ settled' = settled /\ Queue(w, <<[type |-> "imported", n |-> Size(c)]>>)
    BY DEF ReportChunk, Work!Report
  <1>3. reports'[c] = reports[c] + 1 /\ reports'[c] \in 1 .. MaxReports /\ reports' \in [Chunks -> Nat]
    <2>1. reports[c] \in Nat /\ MaxReports \in Nat
      BY <1>1 DEF ChunksAssumption
    <2> QED BY <1>1, <1>2, <2>1
  <1>4. \A b \in Chunks : reports'[b] >= reports[b]
    BY <1>1, <1>2
  <1>5. PICK m : m = [type |-> "imported", n |-> Size(c)]
    OBVIOUS
  <1>6. m \in Results /\ m.type = "imported" /\ m.n = Size(c)
    BY <1>1, <1>5, Numbers, MessageTypes
  <1>7. Queue(w, <<m>>) /\ results' = results
    BY <1>2, <1>5 DEF ReportChunk
  <1>8. Wires' = [Wires EXCEPT ![w] = Append(@, m)]
    BY <1>1, <1>6, <1>7, WireQueue, TypeParts
  <1> QED BY <1>1, <1>2, <1>3, <1>4, <1>6, <1>8 DEF ReportChunk, parentVars

LEMMA TakenMessage ==
    ASSUME ChunksAssumption, TypeOK, NEW p \in Children, ReceiveResult(p)
    PROVE  \E m \in Results :
               /\ Wires[p] # << >> /\ m = Head(Wires[p])
               /\ Wires' = [Wires EXCEPT ![p] = Tail(@)]
               /\ parent.at = "loop" /\ parent'.at = "loop"
               /\ UNCHANGED <<settled, failed, reports, hand, alive>>
               /\ parent'.total = Count(parent.total, m)
               /\ parent'.sent = IF m.type = "fed" THEN m.sent ELSE parent.sent
               /\ errFile' = IF m.type = "error" THEN errFile \cup m.rows ELSE errFile
  <1>1. results[p] # << >> /\ results' = [results EXCEPT ![p] = Tail(@)] /\ outbox' = outbox
    BY DEF ReceiveResult
  <1>2. PICK m : m = Head(results[p])
    OBVIOUS
  <1>3. m \in Results /\ Wires[p] # << >> /\ m = Head(Wires[p]) /\ Wires' = [Wires EXCEPT ![p] = Tail(@)]
    BY <1>1, <1>2, WireReceive, TypeParts
  <1>4. parent \in ParentType /\ parent.at = "loop"
    BY TypeParts DEF ReceiveResult
  <1>5. UNCHANGED <<settled, failed, reports, hand, alive>>
    BY DEF ReceiveResult, workVars
  <1> DEFINE Effect ==
        /\ parent'.at = "loop"
        /\ parent'.total = Count(parent.total, m)
        /\ parent'.sent = IF m.type = "fed" THEN m.sent ELSE parent.sent
        /\ errFile' = IF m.type = "error" THEN errFile \cup m.rows ELSE errFile
  <1>6. CASE m.type = "imported" /\ parent' = [parent EXCEPT !.total = @ + m.n] /\ errFile' = errFile
    <2>1. m.n \in Nat
      BY <1>3, <1>6, MessageTypes
    <2>2. parent'.at = parent.at /\ parent'.total = parent.total + m.n /\ parent'.sent = parent.sent
      BY <1>4, <1>6, <2>1, ParentChange
    <2>3. Effect
      BY <1>4, <1>6, <2>2 DEF Count
    <2> QED BY <1>3, <1>4, <1>5, <2>3
  <1>7. CASE m.type = "fed" /\ parent' = [parent EXCEPT !.sent = m.sent] /\ errFile' = errFile
    <2>1. m.sent \in Nat
      BY <1>3, <1>7, MessageTypes
    <2>2. parent'.at = parent.at /\ parent'.total = parent.total /\ parent'.sent = m.sent
      BY <1>4, <1>7, <2>1, ParentChange
    <2>3. Effect
      BY <1>4, <1>7, <2>2 DEF Count
    <2> QED BY <1>3, <1>4, <1>5, <2>3
  <1>8. CASE /\ m.type = "error" /\ parent' = [parent EXCEPT !.errors[m.kind] = @ + Cardinality(m.rows)]
             /\ errFile' = errFile \cup m.rows
    <2>1. m.kind \in ErrorKinds /\ Cardinality(m.rows) \in Nat
      BY <1>3, <1>8, MessageCount
    <2>2. parent'.at = parent.at /\ parent'.total = parent.total /\ parent'.sent = parent.sent
      BY <1>4, <1>8, <2>1, ParentChange
    <2>3. Effect
      BY <1>4, <1>8, <2>2 DEF Count
    <2> QED BY <1>3, <1>4, <1>5, <2>3
  <1> QED BY <1>2, <1>6, <1>7, <1>8 DEF ReceiveResult

-----------------------------------------------------------------------------
(* What is on the wires                                                    *)

\* A step changes a wire by an append, a cut or a receipt, so what all messages
\* have in common stays so.
LEMMA AllAppend ==
    ASSUME NEW W \in [Children -> Seq(Results)], NEW p \in Children, NEW m \in Results,
           NEW W2, W2 = [W EXCEPT ![p] = Append(@, m)], NEW q \in Children, NEW i \in 1 .. Len(W2[q])
    PROVE  W2[q][i] = m \/ \E j \in 1 .. Len(W[q]) : W2[q][i] = W[q][j]
  <1>1. /\ \A u \in Children : Len(W[u]) \in Nat /\ (u # p => W2[u] = W[u])
        /\ Len(W2[p]) = Len(W[p]) + 1 /\ W2[p][Len(W[p]) + 1] = m
        /\ \A j \in 1 .. Len(W[p]) : W2[p][j] = W[p][j]
    BY AppendAt
  <1>2. CASE q = p
    <2>1. i = Len(W[p]) + 1 \/ i \in 1 .. Len(W[p])
      BY <1>1, <1>2
    <2> QED BY <1>1, <1>2, <2>1
  <1>3. CASE q # p
    BY <1>1, <1>3
  <1> QED BY <1>2, <1>3

LEMMA AllTail ==
    ASSUME NEW W \in [Children -> Seq(Results)], NEW p \in Children, W[p] # << >>,
           NEW W2, W2 = [W EXCEPT ![p] = Tail(@)], NEW q \in Children, NEW i \in 1 .. Len(W2[q])
    PROVE  \E j \in 1 .. Len(W[q]) : W2[q][i] = W[q][j]
  <1>1. /\ \A u \in Children : Len(W[u]) \in Nat /\ (u # p => W2[u] = W[u])
        /\ Len(W[p]) >= 1 /\ Len(W2[p]) = Len(W[p]) - 1
        /\ \A j \in 1 .. Len(W2[p]) : W2[p][j] = W[p][j + 1]
    BY TailAt
  <1>2. CASE q = p
    <2>1. i + 1 \in 1 .. Len(W[p]) /\ W2[q][i] = W[q][i + 1]
      BY <1>1, <1>2
    <2> QED BY <1>2, <2>1
  <1>3. CASE q # p
    BY <1>1, <1>3
  <1> QED BY <1>2, <1>3

\* What the feeder counts.
LEMMA CountStep ==
    ASSUME ChunksAssumption, TypeOK, feeder.sent = Cardinality(Before(feeder.next)), [Next]_vars
    PROVE  feeder'.sent = Cardinality(Before(feeder'.next))
  <1> feeder \in FeederType
    BY TypeParts
  <1> DEFINE Done == feeder'.sent = Cardinality(Before(feeder'.next))
  <1>1. ASSUME feeder'.sent = feeder.sent /\ feeder'.next = feeder.next PROVE Done
    BY <1>1
  <1>2. ASSUME NEW w \in Workers, SendChunk(w) PROVE Done
    <2> DEFINE n == feeder.next
    <2>1. n \in Chunks
      BY <1>2 DEF SendChunk
    <2>2. feeder'.next = n + 1 /\ feeder'.sent = feeder.sent + Size(n)
      BY <1>2 DEF SendChunk, FeederType
    <2>3. Cardinality(Before(n + 1)) = Cardinality(Before(n)) + Size(n)
      BY <2>1, BeforeAdd
    <2> QED BY <2>2, <2>3
  <1>3. Fed \/ FeederEnds => feeder'.sent = feeder.sent /\ feeder'.next = feeder.next
    BY DEF Fed, FeederEnds, FeederType
  <1>4. ASSUME UNCHANGED feeder PROVE Done
    BY <1>1, <1>4
  <1> HIDE DEF Done
  <1>5. FeedStep => Done
    BY <1>1, <1>2, <1>3, <1>4 DEF FeedStep, Lock, WriteChunk, feederVars
  <1>6. WorkStep \/ SendStep \/ PillStep => Done
    BY <1>4 DEF WorkStep, Receive, WorkerEnds, StoreRows, ReportChunk, SendStep, WriteResult,
                PillStep, WriteFeederPill, LockPill, WritePill, feederVars
  <1>7. ParentStep => Done
    BY <1>4 DEF ParentStep, AllReceived, Abort, SendPoisonPill, Close, ReceiveResult, feederVars
  <1>8. Fault => Done
    BY <1>4 DEF Fault, ChildTimeout, Die, GiveUpRows, feederVars
  <1>9. UNCHANGED vars => Done
    BY <1>4 DEF vars
  <1>10. [Next]_vars
    OBVIOUS
  <1>11. Done
    BY ONLY <1>5, <1>6, <1>7, <1>8, <1>9, <1>10 DEF Next
  <1> QED BY <1>11 DEF Done

LEMMA SentStep ==
    ASSUME ChunksAssumption, TypeOK, SentInv, [Next]_vars
    PROVE  SentInv'
  <1> DEFINE Told(W) == \A p \in Children : \A i \in 1 .. Len(W[p]) : TellsAll(W[p][i])
             All == {NoResult, Cardinality(Rows)}
  <1>1. WireStep /\ Wires \in [Children -> Seq(Results)]
    BY Kinds, WireTypes, TypeParts
  <1>2. Told(Wires) /\ parent.sent \in All
    BY DEF SentInv
  <1>3. QuietStep => Told(Wires') /\ parent'.sent \in All
    BY <1>2 DEF QuietStep
  <1>4. ASSUME CutStep PROVE Told(Wires') /\ parent'.sent \in All
    <2>1. \A p \in Children : Len(Wires[p]) \in Nat /\ Len(Wires'[p]) \in Nat /\ Len(Wires'[p]) <= Len(Wires[p])
      BY <1>1, <1>4 DEF CutStep
    <2>2. \A p \in Children : \A i \in 1 .. Len(Wires'[p]) : i \in 1 .. Len(Wires[p]) /\ Wires'[p][i] = Wires[p][i]
      BY <1>4, <2>1 DEF CutStep
    <2> QED BY <1>2, <1>4, <2>2 DEF CutStep
  <1>5. ASSUME NEW p \in Children, NEW m \in Results, TellsAll(m), Wires' = [Wires EXCEPT ![p] = Append(@, m)]
        PROVE  Told(Wires')
    <2> SUFFICES ASSUME NEW q \in Children, NEW i \in 1 .. Len(Wires'[q]) PROVE TellsAll(Wires'[q][i])
      OBVIOUS
    <2>1. Wires'[q][i] = m \/ \E j \in 1 .. Len(Wires[q]) : Wires'[q][i] = Wires[q][j]
      BY <1>1, <1>5, AllAppend
    <2> QED BY <1>2, <1>5, <2>1
  <1>6. ASSUME Fed PROVE Told(Wires') /\ parent'.sent \in All
    <2>1. PICK m : m = [type |-> "fed", sent |-> feeder.sent]
      OBVIOUS
    <2>2. TellsAll(m)
      BY <1>6, <2>1, FedTells
    <2> QED BY <1>2, <1>5, <1>6, <2>1, <2>2, FedMessage
  <1>7. ASSUME NEW w \in Workers, Receive(w) PROVE Told(Wires') /\ parent'.sent \in All
    <2>1. Wires' = Wires /\ parent' = parent
      BY <1>7 DEF Receive, parentVars, Wires
    <2> QED BY <1>2, <2>1
  <1>8. ASSUME NEW w \in Workers, NEW c \in hand[w], GiveUpRows(w, c) PROVE Told(Wires') /\ parent'.sent \in All
    <2>1. PICK m \in Results : /\ m.type = "error" /\ Wires' = [Wires EXCEPT ![w] = Append(@, m)]
                               /\ UNCHANGED parent
      BY <1>8, ErrorMessage
    <2>2. TellsAll(m) /\ w \in Children
      BY <2>1 DEF TellsAll, Children
    <2> QED BY <1>2, <1>5, <2>1, <2>2
  <1>9. ASSUME NEW w \in Workers, NEW c \in hand[w], ReportChunk(w, c) PROVE Told(Wires') /\ parent'.sent \in All
    <2>1. PICK m \in Results : /\ m.type = "imported" /\ Wires' = [Wires EXCEPT ![w] = Append(@, m)]
                               /\ UNCHANGED parent
      BY <1>9, ResultMessage
    <2>2. TellsAll(m) /\ w \in Children
      BY <2>1 DEF TellsAll, Children
    <2> QED BY <1>2, <1>5, <2>1, <2>2
  <1>10. ASSUME NEW p \in Children, ReceiveResult(p) PROVE Told(Wires') /\ parent'.sent \in All
    <2>1. PICK m \in Results :
            /\ Wires[p] # << >> /\ m = Head(Wires[p]) /\ Wires' = [Wires EXCEPT ![p] = Tail(@)]
            /\ parent'.sent = IF m.type = "fed" THEN m.sent ELSE parent.sent
      BY <1>10, TakenMessage
    <2>2. \A q \in Children : \A i \in 1 .. Len(Wires'[q]) : \E j \in 1 .. Len(Wires[q]) : Wires'[q][i] = Wires[q][j]
      BY <1>1, <2>1, AllTail
    <2>3. 1 \in 1 .. Len(Wires[p]) /\ Wires[p][1] = m
      BY <1>1, <2>1, TailAt
    <2>4. TellsAll(m)
      BY <1>2, <2>3
    <2> QED BY <1>2, <2>1, <2>2, <2>4 DEF TellsAll
  <1> HIDE DEF Told, All
  <1>11. Told(Wires') /\ parent'.sent \in All
    BY <1>1, <1>3, <1>4, <1>6, <1>7, <1>8, <1>9, <1>10 DEF WireStep
  <1>12. feeder'.sent = Cardinality(Before(feeder'.next))
    BY CountStep DEF SentInv
  <1> QED BY <1>11, <1>12 DEF SentInv, Told, All

LEMMA ErrorStep ==
    ASSUME ChunksAssumption, TypeOK, ChunkInv, OwnerInv, ErrorInv, [Next]_vars
    PROVE  ErrorInv'
  <1> DEFINE Told(W, F) == \A p \in Children : \A i \in 1 .. Len(W[p]) : W[p][i].type = "error" => W[p][i].rows \subseteq F
             Done == Told(Wires', failed') /\ Carried(Wires', Unfiled', hand', alive')
  <1> USE TypeParts
  <1>1. WireStep /\ Wires \in [Children -> Seq(Results)] /\ Unfiled \in SUBSET Rows
    BY Kinds, WireTypes DEF Unfiled
  <1>2. Told(Wires, failed) /\ Carried(Wires, Unfiled, hand, alive)
    BY DEF ErrorInv
  <1>3. ASSUME QuietStep PROVE Done
    <2>1. Unfiled' = Unfiled
      BY <1>3 DEF QuietStep, Unfiled
    <2>2. Carried(Wires', Unfiled, hand', alive')
      BY <1>2, <1>3, CarriedLess DEF QuietStep
    <2> QED BY <1>2, <1>3, <2>1, <2>2 DEF QuietStep
  <1>4. ASSUME CutStep PROVE Done
    <2>1. Unfiled' = Unfiled
      BY <1>4 DEF CutStep, Unfiled
    <2>2. Carried(Wires', Unfiled, hand', alive')
      <3>1. /\ alive' \in SUBSET alive /\ hand' = hand
            /\ \A w \in Workers \cap alive' : Wires'[w] = Wires[w]
        BY <1>4 DEF CutStep
      <3> QED BY ONLY <1>2, <3>1, CarriedLess
    <2>3. \A p \in Children : Len(Wires[p]) \in Nat /\ Len(Wires'[p]) \in Nat /\ Len(Wires'[p]) <= Len(Wires[p])
      BY <1>1, <1>4 DEF CutStep
    <2>4. \A p \in Children : \A i \in 1 .. Len(Wires'[p]) : i \in 1 .. Len(Wires[p]) /\ Wires'[p][i] = Wires[p][i]
      BY <1>4, <2>3 DEF CutStep
    <2>5. Told(Wires', failed')
      BY <1>2, <1>4, <2>4 DEF CutStep
    <2> QED BY <1>4, <2>1, <2>2, <2>5 DEF CutStep
  <1>5. ASSUME NEW p \in Children, NEW m \in Results, Wires' = [Wires EXCEPT ![p] = Append(@, m)],
               m.type = "error" => m.rows \subseteq failed', failed \subseteq failed'
        PROVE  Told(Wires', failed')
    <2> SUFFICES ASSUME NEW q \in Children, NEW i \in 1 .. Len(Wires'[q]), Wires'[q][i].type = "error"
                 PROVE  Wires'[q][i].rows \subseteq failed'
      OBVIOUS
    <2>1. Wires'[q][i] = m \/ \E j \in 1 .. Len(Wires[q]) : Wires'[q][i] = Wires[q][j]
      BY <1>1, <1>5, AllAppend
    <2> QED BY <1>2, <1>5, <2>1
  <1>6. ASSUME Fed PROVE Done
    <2>1. PICK m : m = [type |-> "fed", sent |-> feeder.sent]
      OBVIOUS
    <2>2. /\ m \in Results /\ m.type = "fed" /\ Feeder \in Children /\ Wires' = [Wires EXCEPT ![Feeder] = Append(@, m)]
          /\ UNCHANGED <<failed, errFile, reports, hand, alive>>
      BY <1>6, <2>1, FedMessage
    <2>3. Unfiled' = Unfiled \cup {}
      BY <2>2 DEF Unfiled
    <2>5. Carried(Wires', Unfiled \cup {}, hand, alive)
      BY <1>1, <1>2, <2>2, CarriedAppend
    <2> QED BY <1>5, <2>2, <2>3, <2>5
  <1>7. ASSUME NEW w \in Workers, Receive(w) PROVE Done
    <2>1. Wires' = Wires /\ UNCHANGED <<failed, errFile, reports, alive>>
      BY <1>7 DEF Receive, parentVars, Wires
    <2>2. Unfiled' = Unfiled
      BY <2>1 DEF Unfiled
    <2> DEFINE c == Head(pipe[w])
    <2>3. pipe[w] # << >> /\ c # Pill /\ hand' = [hand EXCEPT ![w] = @ \cup {c}]
      BY <1>7 DEF Receive
    <2>4. c \in Range(pipe[w])
      <3>1. pipe[w] \in Seq(Chunks \cup {Pill})
        BY DEF Children
      <3>2. Range(pipe[w]) = Range(Tail(pipe[w])) \cup {Head(pipe[w])}
        BY <2>3, <3>1, Elements
      <3> QED BY <3>2
    <2> HIDE DEF c
    <2>5. c \in Has(w)
      BY <2>4 DEF Has
    <2>6. ASSUME NEW r \in Unfiled, NEW v \in Workers, ChunkOf[r] \in hand'[v]
          PROVE  ChunkOf[r] \in hand[v]
      <3>1. PICK u \in Workers : ChunkOf[r] \in hand[u]
        BY DEF ChunkInv, Unfiled
      <3>2. CASE ChunkOf[r] \in hand[v]
        BY <3>2
      <3>3. CASE ChunkOf[r] \notin hand[v]
        <4>1. v = w /\ ChunkOf[r] = c
          BY <2>3, <2>6, <3>3
        <4>2. ChunkOf[r] \in Has(u) /\ ChunkOf[r] \in Has(w) /\ ChunkOf[r] # Pill
          BY <2>3, <2>5, <3>1, <4>1 DEF Has
        <4>3. u = w
          BY <4>2 DEF OwnerInv
        <4> QED BY <3>1, <4>1, <4>3
      <3> QED BY <3>2, <3>3
    <2>7. Carried(Wires, Unfiled, hand', alive)
      BY <1>2, <2>6, CarriedLess
    <2> QED BY <1>2, <2>1, <2>2, <2>7
  <1>8. ASSUME NEW w \in Workers, NEW c \in hand[w], GiveUpRows(w, c) PROVE Done
    <2>1. PICK R \in SUBSET (RowsOf(c) \ settled), m \in Results :
            /\ m.type = "error" /\ m.rows = R
            /\ failed' = failed \cup R
            /\ Wires' = [Wires EXCEPT ![w] = Append(@, m)]
            /\ UNCHANGED <<errFile, reports, hand, alive>>
      BY <1>8, ErrorMessage
    <2>2. Unfiled' = Unfiled \cup R
      <3>1. R \cap errFile = {}
        OBVIOUS
      <3> QED BY <2>1, <3>1 DEF Unfiled
    <2>3. w \in Children /\ Told(Wires', failed')
      BY <1>5, <2>1 DEF Children
    <2>4. ASSUME NEW r \in R, NEW v \in Workers, ChunkOf[r] \in hand[v]
          PROVE  v = w
      <3>1. ChunkOf[r] = c /\ c # Pill
        <4>1. c \in Chunks
          OBVIOUS
        <4> QED BY <4>1, Numbers DEF RowsOf, Work!RowsOf
      <3>2. c \in Has(v) /\ c \in Has(w)
        BY <2>4, <3>1 DEF Has
      <3> QED BY <3>1, <3>2 DEF OwnerInv
    <2>6. \A r \in R : ErrorFor(m, r)
      BY <2>1 DEF ErrorFor
    <2>7. Carried(Wires', Unfiled \cup R, hand, alive)
      BY <1>1, <1>2, <2>1, <2>3, <2>4, <2>6, CarriedAppend
    <2> QED BY <2>1, <2>2, <2>3, <2>7
  <1>9. ASSUME NEW w \in Workers, NEW c \in hand[w], ReportChunk(w, c) PROVE Done
    <2>1. PICK m \in Results :
            /\ m.type = "imported"
            /\ Wires' = [Wires EXCEPT ![w] = Append(@, m)]
            /\ UNCHANGED <<failed, errFile, hand, alive>>
      BY <1>9, ResultMessage
    <2>2. w \in Children /\ Told(Wires', failed')
      BY <1>5, <2>1 DEF Children
    <2>3. Unfiled' = Unfiled \cup {}
      BY <2>1 DEF Unfiled
    <2>4. Carried(Wires', Unfiled \cup {}, hand, alive)
      BY <1>1, <1>2, <2>1, <2>2, CarriedAppend
    <2> QED BY <2>1, <2>2, <2>3, <2>4
  <1>10. ASSUME NEW p \in Children, ReceiveResult(p) PROVE Done
    <2>1. PICK m \in Results :
            /\ Wires[p] # << >> /\ m = Head(Wires[p]) /\ Wires' = [Wires EXCEPT ![p] = Tail(@)]
            /\ UNCHANGED <<failed, reports, hand, alive>>
            /\ errFile' = IF m.type = "error" THEN errFile \cup m.rows ELSE errFile
      BY <1>10, TakenMessage
    <2>2. \A q \in Children : \A i \in 1 .. Len(Wires'[q]) : \E j \in 1 .. Len(Wires[q]) : Wires'[q][i] = Wires[q][j]
      BY ONLY <1>1, <2>1, AllTail
    <2>3. Told(Wires', failed')
      BY ONLY <1>2, <2>1, <2>2
    <2>4. Unfiled' \in SUBSET Unfiled /\ \A r \in Unfiled' : ~ ErrorFor(Head(Wires[p]), r)
      BY <2>1 DEF Unfiled, ErrorFor
    <2>5. Carried(Wires', Unfiled', hand, alive)
      BY <1>1, <1>2, <2>1, <2>4, CarriedTail
    <2> QED BY <2>1, <2>3, <2>5
  <1> HIDE DEF Done
  <1>11. Done
    BY <1>1, <1>3, <1>4, <1>6, <1>7, <1>8, <1>9, <1>10 DEF WireStep
  <1> QED BY <1>11 DEF Done, ErrorInv

LEMMA LabelStep ==
    ASSUME ChunksAssumption, TypeOK, ChunkInv, ErrorInv, LabelInv, [Next]_vars
    PROVE  LabelInv'
  <1>1. WireStep /\ Wires \in [Children -> Seq(Results)] /\ reports \in [Chunks -> Nat]
    BY Kinds, WireTypes, TypeParts
  <1>2. Nameable(Wires, Unfiled, reports, parent.total)
    BY DEF LabelInv
  <1> DEFINE Done == Nameable(Wires', Unfiled', reports', parent'.total)
  <1>3. ASSUME QuietStep PROVE Done
    <2>1. Unfiled' = Unfiled
      BY <1>3 DEF QuietStep, Unfiled
    <2> QED BY <1>2, <1>3, <2>1 DEF QuietStep
  <1>4. ASSUME CutStep PROVE Done
    <2>1. Unfiled' = Unfiled
      BY <1>4 DEF CutStep, Unfiled
    <2>2. Nameable(Wires', Unfiled, reports, parent.total)
      BY <1>1, <1>2, <1>4, LabelCut DEF CutStep
    <2> QED BY <1>4, <2>1, <2>2 DEF CutStep
  <1>5. ASSUME Fed PROVE Done
    <2>1. PICK m : m = [type |-> "fed", sent |-> feeder.sent]
      OBVIOUS
    <2>2. /\ m \in Results /\ m.type = "fed" /\ Feeder \in Children /\ Wires' = [Wires EXCEPT ![Feeder] = Append(@, m)]
          /\ UNCHANGED <<failed, errFile, reports, parent>>
      BY <1>5, <2>1, FedMessage
    <2>3. Unfiled' = Unfiled \cup {}
      BY <2>2 DEF Unfiled
    <2>4. /\ \A c \in Chunks : reports[c] >= reports[c]
          /\ NoMark \in Marks \cup {NoMark} /\ Announces(Wires, Unfiled, reports, reports, Feeder, m, NoMark)
      BY <1>1, <2>2 DEF Announces
    <2>5. Nameable(Wires', Unfiled \cup {}, reports, parent.total)
      BY <1>1, <1>2, <2>2, <2>4, LabelAppend
    <2> QED BY <2>2, <2>3, <2>5
  <1>6. ASSUME NEW w \in Workers, Receive(w) PROVE Done
    <2>1. Wires' = Wires /\ UNCHANGED <<failed, errFile, reports, parent>>
      BY <1>6 DEF Receive, parentVars, Wires
    <2>2. Unfiled' = Unfiled
      BY <2>1 DEF Unfiled
    <2> QED BY <1>2, <2>1, <2>2
  <1>7. ASSUME NEW w \in Workers, NEW c \in hand[w], GiveUpRows(w, c) PROVE Done
    <2>1. PICK R \in SUBSET (RowsOf(c) \ settled), m \in Results :
            /\ m.type = "error" /\ failed' = failed \cup R
            /\ Wires' = [Wires EXCEPT ![w] = Append(@, m)]
            /\ UNCHANGED <<errFile, reports, hand, alive, parent>>
      BY <1>7, ErrorMessage
    <2>2. Unfiled' = Unfiled \cup R
      <3>1. R \cap errFile = {}
        BY TypeParts
      <3> QED BY <2>1, <3>1 DEF Unfiled
    <2>3. w \in Children /\ c \in Chunks
      BY TypeParts DEF Children
    <2>4. \A r \in R : ChunkOf[r] \in Chunks /\ reports[ChunkOf[r]] = 0
      <3>1. \A r \in R : ChunkOf[r] = c /\ r \in RowsOf(c) /\ r \notin settled
        BY DEF RowsOf, Work!RowsOf
      <3>2. \A r \in R : ~ reports[c] > 0
        BY <2>3, <3>1 DEF ChunkInv
      <3> QED BY <1>1, <2>3, <3>1, <3>2
    <2>5. /\ \A b \in Chunks : reports[b] >= reports[b]
          /\ NoMark \in Marks \cup {NoMark} /\ Announces(Wires, Unfiled, reports, reports, w, m, NoMark)
      BY <1>1, <2>1 DEF Announces
    <2>6. Nameable(Wires', Unfiled \cup R, reports, parent.total)
      BY <1>1, <1>2, <2>1, <2>3, <2>4, <2>5, LabelAppend
    <2> QED BY <2>1, <2>2, <2>6
  <1>8. ASSUME NEW w \in Workers, NEW c \in hand[w], ReportChunk(w, c) PROVE Done
    <2>1. PICK m \in Results :
            /\ m.type = "imported" /\ m.n = Size(c) /\ c \in Chunks
            /\ reports'[c] = reports[c] + 1 /\ reports'[c] \in 1 .. MaxReports
            /\ \A b \in Chunks : reports'[b] >= reports[b]
            /\ reports' \in [Chunks -> Nat]
            /\ Wires' = [Wires EXCEPT ![w] = Append(@, m)]
            /\ UNCHANGED <<failed, errFile, hand, alive, parent>>
      BY <1>8, ResultMessage
    <2>2. Unfiled' = Unfiled \cup {}
      BY <2>1 DEF Unfiled
    <2>3. w \in Children /\ w \in Workers \cap alive
      BY <1>8 DEF Children, ReportChunk
    <2>4. \A r \in Unfiled : ChunkOf[r] = c => \E j \in 1 .. Len(Wires[w]) : ErrorFor(Wires[w][j], r)
      BY <2>1, <2>3 DEF ErrorInv, Carried
    <2> DEFINE l == <<c, reports'[c]>>
    <2>5. l \in Marks /\ l # NoMark /\ l[1] = c /\ reports[c] < l[2] /\ l[2] <= reports'[c]
      <3>1. reports[c] \in Nat /\ reports'[c] \in Nat /\ l \in Marks /\ l[1] = c /\ l[2] = reports'[c]
        BY <1>1, <2>1 DEF Marks
      <3>2. l # NoMark
        BY <3>1, MarkParts
      <3> QED BY <2>1, <3>1, <3>2
    <2> HIDE DEF l
    <2>6. Nameable(Wires', Unfiled \cup {}, reports', parent.total)
      <3>1. Announces(Wires, Unfiled, reports, reports', w, m, l)
        BY <2>1, <2>4, <2>5 DEF Announces
      <3>2. \A r \in {} : ChunkOf[r] \in Chunks /\ reports[ChunkOf[r]] = 0
        OBVIOUS
      <3> QED BY <1>1, <1>2, <2>1, <2>3, <2>5, <3>1, <3>2, LabelAppend
    <2> QED BY <2>1, <2>2, <2>6
  <1>9. ASSUME NEW p \in Children, ReceiveResult(p) PROVE Done
    <2>1. PICK m \in Results :
            /\ Wires[p] # << >> /\ m = Head(Wires[p]) /\ Wires' = [Wires EXCEPT ![p] = Tail(@)]
            /\ UNCHANGED <<failed, reports>>
            /\ parent'.total = Count(parent.total, m)
            /\ errFile' = IF m.type = "error" THEN errFile \cup m.rows ELSE errFile
      BY <1>9, TakenMessage
    <2>2. Unfiled' \in SUBSET Unfiled /\ \A r \in Unfiled' : ~ ErrorFor(Head(Wires[p]), r)
      BY <2>1 DEF Unfiled, ErrorFor
    <2>3. parent'.total = Count(parent.total, Head(Wires[p]))
      BY <2>1
    <2>4. Nameable(Wires', Unfiled', reports, parent'.total)
      BY <1>1, <1>2, <2>1, <2>2, <2>3, LabelTail
    <2> QED BY <2>1, <2>4
  <1> HIDE DEF Done
  <1>10. Done
    BY <1>1, <1>3, <1>4, <1>5, <1>6, <1>7, <1>8, <1>9 DEF WireStep
  <1> QED BY <1>10 DEF Done, LabelInv

-----------------------------------------------------------------------------
(* The promise                                                             *)

\* When the total reaches the number of rows, a row whose chunk was not received
\* is made up for by one that was counted again.
LEMMA AllCounted ==
    ASSUME ChunksAssumption, TypeOK, ChunkInv, SentInv, LabelInv,
           parent.sent # NoResult, parent.total >= parent.sent
    PROVE  Cardinality(Unaccounted) <= Cardinality(CountedAgain)
  <1>1. PICK Got \in SUBSET Marks :
            /\ \A g \in Got : g[2] <= reports[g[1]]
            /\ \A r \in Unfiled : \A g \in Got : ChunkOf[r] # g[1]
            /\ parent.total = Cardinality(Counted(Got))
    BY DEF LabelInv, Nameable, Labelled
  <1> DEFINE Received == {r \in Rows : \E g \in Got : g[1] = ChunkOf[r]}
             Once == {q \in Rows \X (1 .. MaxReports) : q[1] \in Received /\ q[2] = 1}
             f == [r \in Received |-> <<r, 1>>]
  <1>2. \A g \in Got : /\ g[1] \in Chunks /\ g[2] \in 1 .. MaxReports /\ g[2] \in Nat \ {0}
                       /\ reports[g[1]] \in Nat /\ g[2] <= reports[g[1]]
    BY <1>1, MarkParts, TypeParts
  <1>3. Unaccounted \subseteq Rows \ Received
    <2>1. \A r \in Received : r \in settled
      <3> TAKE r \in Received
      <3>1. PICK g \in Got : g[1] = ChunkOf[r]
        OBVIOUS
      <3>2. reports[ChunkOf[r]] > 0 /\ ChunkOf[r] \in Chunks /\ r \in RowsOf(ChunkOf[r])
        BY <1>2, <3>1, Numbers
      <3> QED BY <3>2 DEF ChunkInv
    <2>2. \A r \in Received : r \notin failed \ errFile
      BY <1>1 DEF Unfiled
    <2> QED BY <2>1, <2>2, TypeParts DEF Unaccounted
  <1>4. IsFiniteSet(Once) /\ Cardinality(Once) = Cardinality(Received)
    <2>1. IsFiniteSet(Received)
      BY Numbers
    <2>2. \A r \in Received : <<r, 1>> \in Once
      <3> TAKE r \in Received
      <3>1. PICK g \in Got : g[1] = ChunkOf[r]
        OBVIOUS
      <3>2. 1 \in 1 .. MaxReports
        BY <1>2, <3>1 DEF ChunksAssumption
      <3> QED BY <3>2
    <2>3. \A q \in Once : q[1] \in Received /\ q = <<q[1], 1>>
      OBVIOUS
    <2> HIDE DEF Once, Received
    <2>4. f \in [Received -> Once] /\ \A a, b \in Received : f[a] = f[b] => a = b
      BY <2>2
    <2>5. \A q \in Once : \E r \in Received : f[r] = q
      BY <2>3
    <2>6. ExistsBijection(Received, Once)
      BY <2>4, <2>5 DEF ExistsBijection, Bijection, Injection, Surjection, IsInjective
    <2> QED BY <2>1, <2>6, FS_Bijection
  <1>5. Counted(Got) \subseteq Once \cup CountedAgain
    <2> SUFFICES ASSUME NEW q \in Counted(Got) PROVE q \in Once \cup CountedAgain
      OBVIOUS
    <2>1. q \in Rows \X (1 .. MaxReports) /\ <<ChunkOf[q[1]], q[2]>> \in Got
      BY DEF Counted
    <2>2. q[1] \in Received /\ q[2] \in 1 .. MaxReports /\ q[2] <= reports[ChunkOf[q[1]]]
      <3>1. PICK g \in Got : g = <<ChunkOf[q[1]], q[2]>>
        BY <2>1
      <3>2. g[1] = ChunkOf[q[1]] /\ g[2] = q[2]
        BY <3>1
      <3> QED BY <1>2, <2>1, <3>2
    <2>3. CASE q[2] = 1
      BY <2>1, <2>2, <2>3
    <2>4. CASE q[2] # 1
      <3>1. MaxReports \in Nat /\ q[2] \in 2 .. MaxReports
        BY <2>2, <2>4 DEF ChunksAssumption
      <3>2. q \in Rows \X (2 .. MaxReports)
        BY <2>1, <3>1
      <3> QED BY <2>2, <3>2 DEF CountedAgain
    <2> QED BY <2>3, <2>4
  <1>6. /\ IsFiniteSet(CountedAgain) /\ Cardinality(CountedAgain) \in Nat
        /\ IsFiniteSet(Counted(Got)) /\ Cardinality(Counted(Got)) \in Nat
    BY CountsFinite DEF Counted
  <1>7. /\ IsFiniteSet(Rows) /\ Cardinality(Rows) \in Nat /\ Cardinality(Received) \in Nat
        /\ IsFiniteSet(Received) /\ IsFiniteSet(Rows \ Received) /\ Cardinality(Rows \ Received) \in Nat
    BY Numbers
  <1> HIDE DEF Once
  <1>8. Cardinality(Counted(Got)) <= Cardinality(Received) + Cardinality(CountedAgain)
    <2>1. IsFiniteSet(Once \cup CountedAgain) /\ Cardinality(Once \cup CountedAgain) \in Nat
      BY <1>4, <1>6, FS_Union, FS_CardinalityType
    <2>2. Cardinality(Counted(Got)) <= Cardinality(Once \cup CountedAgain)
      BY <1>5, <2>1, FS_Subset
    <2>3. Once \cap CountedAgain \subseteq CountedAgain
      OBVIOUS
    <2>4. Cardinality(Once \cap CountedAgain) \in Nat
      BY <1>6, <2>3, FS_Subset, FS_CardinalityType
    <2>5. Cardinality(Once \cup CountedAgain) = Cardinality(Once) + Cardinality(CountedAgain) - Cardinality(Once \cap CountedAgain)
      BY <1>4, <1>6, FS_Union
    <2> QED BY <1>4, <1>6, <1>7, <2>1, <2>2, <2>4, <2>5
  <1>9. Cardinality(Rows) = Cardinality(Received) + Cardinality(Rows \ Received)
    <2>1. Received \cup (Rows \ Received) = Rows /\ Received \cap (Rows \ Received) = {}
      OBVIOUS
    <2>2. Cardinality({}) = 0
      BY FS_EmptySet
    <2> HIDE DEF Received
    <2>3. Cardinality(Received \cup (Rows \ Received)) = Cardinality(Received) + Cardinality(Rows \ Received) - 0
      BY <1>7, <2>1, <2>2, FS_Union
    <2>4. Cardinality(Received) + Cardinality(Rows \ Received) - 0 = Cardinality(Received) + Cardinality(Rows \ Received)
      BY <1>7
    <2>5. Cardinality(Rows) = Cardinality(Received) + Cardinality(Rows \ Received) - 0
      BY <2>1, <2>3
    <2> QED BY <2>4, <2>5
  <1> HIDE DEF Received
  <1>10. Cardinality(Unaccounted) \in Nat /\ Cardinality(Unaccounted) <= Cardinality(Rows \ Received)
    BY <1>3, <1>7, FS_Subset, FS_CardinalityType
  <1>11. parent.sent = Cardinality(Rows)
    BY DEF SentInv
  <1>12. Cardinality(Counted(Got)) >= Cardinality(Rows)
    BY <1>1, <1>11
  <1> QED BY <1>6, <1>7, <1>8, <1>9, <1>10, <1>12

LEMMA DoneStep ==
    ASSUME ChunksAssumption, TypeOK, ChunkInv, SentInv, LabelInv, DoneInv, [Next]_vars
    PROVE  DoneInv'
  <1> USE DEF workVars, feederVars, parentVars
  <1> parent \in ParentType /\ settled \subseteq Rows
    BY TypeParts
  <1>1. ASSUME UNCHANGED errFile, \A c \in Chunks : reports'[c] >= reports[c], reports' \in [Chunks -> Nat],
               failed' \ failed \subseteq Rows \ settled, settled \subseteq settled', Completed' => Completed
        PROVE  DoneInv'
    <2>1. Unaccounted' \subseteq Unaccounted /\ Unaccounted \subseteq Rows
      BY <1>1, TypeParts DEF Unaccounted
    <2>2. CountedAgain \subseteq CountedAgain'
      <3> SUFFICES ASSUME NEW c \in Rows \X (2 .. MaxReports), c[2] <= reports[ChunkOf[c[1]]]
                   PROVE  c[2] <= reports'[ChunkOf[c[1]]]
        BY DEF CountedAgain
      <3>1. ChunkOf[c[1]] \in Chunks /\ c[2] \in Int
        BY Numbers DEF ChunksAssumption
      <3>2. reports[ChunkOf[c[1]]] \in Nat /\ reports'[ChunkOf[c[1]]] \in Nat
        BY <1>1, <3>1, TypeParts
      <3> QED BY <1>1, <3>1, <3>2
    <2>3. /\ IsFiniteSet(CountedAgain') /\ Cardinality(CountedAgain') \in Nat
          /\ IsFiniteSet(Unaccounted) /\ Cardinality(Unaccounted) \in Nat
      <3>1. CountedAgain' \subseteq Rows \X (1 .. MaxReports)
        <4>1. 2 .. MaxReports \subseteq 1 .. MaxReports
          BY DEF ChunksAssumption
        <4> QED BY <4>1 DEF CountedAgain
      <3> QED BY <2>1, <3>1, CountsFinite, Numbers
    <2>4. Cardinality(Unaccounted') \in Nat /\ Cardinality(Unaccounted') <= Cardinality(Unaccounted)
      BY <2>1, <2>3, FS_Subset, FS_CardinalityType
    <2>5. Cardinality(CountedAgain) \in Nat /\ Cardinality(CountedAgain) <= Cardinality(CountedAgain')
      BY <2>2, <2>3, FS_Subset, FS_CardinalityType
    <2> QED BY <1>1, <2>3, <2>4, <2>5 DEF DoneInv, MissingIsCountedAgain
  <1>0. ASSUME UNCHANGED <<settled, failed, errFile, reports>>, Completed' => Completed PROVE DoneInv'
    <2>1. Unaccounted' = Unaccounted /\ CountedAgain' = CountedAgain
      BY <1>0 DEF Unaccounted, CountedAgain
    <2> QED BY <1>0, <2>1 DEF DoneInv, MissingIsCountedAgain
  <1>2. AllReceived => DoneInv'
    <2> HAVE AllReceived
    <2>1. Cardinality(Unaccounted) <= Cardinality(CountedAgain)
      BY AllCounted DEF AllReceived
    <2>2. UNCHANGED <<settled, failed, errFile, reports>>
      BY DEF AllReceived
    <2>3. Unaccounted' = Unaccounted /\ CountedAgain' = CountedAgain
      BY <2>2 DEF Unaccounted, CountedAgain
    <2> QED BY <2>1, <2>3 DEF DoneInv, MissingIsCountedAgain
  <1>3. ASSUME Abort \/ ChildTimeout PROVE DoneInv'
    <2>1. parent'.aborted = TRUE
      BY <1>3, ParentChange DEF Abort, ChildTimeout
    <2> QED BY <2>1 DEF DoneInv, MissingIsCountedAgain, Completed
  <1>4. ASSUME SendPoisonPill \/ Close PROVE DoneInv'
    <2>1. parent.at # "loop" /\ \E a \in {"done", "wait"} : parent' = [parent EXCEPT !.at = a]
      BY <1>4 DEF SendPoisonPill, Close
    <2>2. parent'.aborted = parent.aborted
      BY <2>1, ParentChange
    <2>3. Completed' => Completed
      BY <2>1, <2>2 DEF Completed
    <2>4. UNCHANGED <<settled, failed, errFile, reports>>
      BY <1>4 DEF SendPoisonPill, Close
    <2> QED BY <1>0, <2>3, <2>4
  <1>5. ASSUME NEW p \in Children, ReceiveResult(p) PROVE DoneInv'
    <2>1. parent'.at = "loop"
      BY <1>5, TakenMessage
    <2> QED BY <2>1 DEF DoneInv, MissingIsCountedAgain, Completed
  <1>6. ASSUME NEW w \in Workers, NEW c \in hand[w], StoreRows(w, c) \/ GiveUpRows(w, c) PROVE DoneInv'
    <2>1. UNCHANGED <<parent, errFile, reports>>
      BY <1>6 DEF StoreRows, GiveUpRows, Work!Settle
    <2>2. settled \subseteq settled' /\ failed' \ failed \subseteq Rows \ settled
      BY <1>6 DEF StoreRows, GiveUpRows, Work!Settle, RowsOf, Work!RowsOf
    <2>3. /\ \A b \in Chunks : reports'[b] >= reports[b]
          /\ reports' \in [Chunks -> Nat]
      BY <2>1, TypeParts
    <2>4. Completed' => Completed
      BY <2>1 DEF Completed
    <2> QED BY ONLY <1>1, <2>1, <2>2, <2>3, <2>4
  <1>7. ASSUME UNCHANGED <<settled, failed, parent, errFile, reports>> PROVE DoneInv'
    BY <1>0, <1>7 DEF Completed
  <1>15. ASSUME NEW w \in Workers, NEW c \in hand[w], ReportChunk(w, c) PROVE DoneInv'
    <2>1. UNCHANGED <<settled, failed, parent, errFile>>
      BY <1>15 DEF ReportChunk, Work!Report
    <2>2. /\ \A b \in Chunks : reports'[b] >= reports[b]
          /\ reports' \in [Chunks -> Nat]
      BY <1>15, ResultMessage
    <2>3. Completed' => Completed
      BY <2>1 DEF Completed
    <2>4. settled \subseteq settled' /\ failed' \ failed \subseteq Rows \ settled
      BY <2>1
    <2> QED BY ONLY <1>1, <2>1, <2>2, <2>3, <2>4
  <1>8. FeedStep => DoneInv'
    BY <1>7 DEF FeedStep, Fed, FeederEnds, SendChunk, Lock, WriteChunk
  <1>9. WorkStep => DoneInv'
    BY <1>6, <1>7, <1>15 DEF WorkStep, Receive, WorkerEnds
  <1>10. SendStep \/ PillStep => DoneInv'
    BY <1>7 DEF SendStep, WriteResult, PillStep, WriteFeederPill, LockPill, WritePill
  <1>11. ParentStep => DoneInv'
    BY <1>2, <1>3, <1>4, <1>5 DEF ParentStep
  <1>12. Fault => DoneInv'
    BY <1>3, <1>6, <1>7 DEF Fault, Die
  <1>13. UNCHANGED vars => DoneInv'
    BY <1>7 DEF vars
  <1>14. [Next]_vars
    OBVIOUS
  <1> QED BY ONLY <1>8, <1>9, <1>10, <1>11, <1>12, <1>13, <1>14 DEF Next

-----------------------------------------------------------------------------
(* Theorems                                                                *)

LEMMA InvInit == ASSUME ChunksAssumption, Init PROVE IInv
  <1>1. TypeOK
    BY TypeInit
  <1>2. /\ failed = {} /\ errFile = {} /\ Unfiled = {} /\ hand = [w \in Workers |-> {}]
        /\ pending = [w \in Workers |-> << >>] /\ pipe = [p \in Children |-> << >>]
        /\ reports = [c \in Chunks |-> 0] /\ wlock = [w \in Workers |-> "free"]
        /\ parent.at = "loop" /\ parent.total = 0 /\ parent.sent = NoResult
        /\ feeder.next = 1 /\ feeder.sent = 0
    BY DEF Init, Work!Init, Unfiled, Chunks
  <1>3. Wires = [p \in Children |-> << >>] /\ \A p \in Children : Wires[p] = << >> /\ Len(Wires[p]) = 0
    <2>1. << >> \o << >> = << >>
      OBVIOUS
    <2> QED BY <2>1 DEF Init, Wires
  <1>4. LockInv
    BY <1>2 DEF LockInv
  <1>5. ChunkInv
    BY <1>2 DEF ChunkInv
  <1>6. OwnerInv
    <2>1. \A w \in Workers : Range(pending[w]) = {} /\ Range(pipe[w]) = {} /\ hand[w] = {}
      BY <1>2 DEF Range, Children
    <2> QED BY <2>1 DEF OwnerInv, Has
  <1>7. SentInv
    BY <1>2, <1>3, BeforeAll DEF SentInv
  <1>8. ErrorInv
    BY <1>2, <1>3 DEF ErrorInv, Carried
  <1>9. LabelInv
    <2> DEFINE label == [p \in Children |-> << >>]
    <2>1. label \in Labels /\ \A p \in Children : Len(label[p]) = 0
      BY DEF Labels
    <2> HIDE DEF label
    <2>2. Counted({}) = {} /\ Cardinality({}) = 0
      BY FS_EmptySet DEF Counted
    <2>3. 1 .. 0 = {} /\ {} \in SUBSET Marks
      OBVIOUS
    <2>4. Labelled(Wires, label, {}, Unfiled, reports, parent.total)
      BY <1>2, <1>3, <2>1, <2>2, <2>3 DEF Labelled
    <2> QED BY <2>1, <2>3, <2>4 DEF LabelInv, Nameable
  <1>10. DoneInv
    BY <1>2 DEF DoneInv, MissingIsCountedAgain, Completed
  <1> QED BY <1>1, <1>4, <1>5, <1>6, <1>7, <1>8, <1>9, <1>10 DEF IInv

\* The inductive invariant holds in every behaviour.
LEMMA InvHolds == ASSUME ChunksAssumption PROVE Spec => []IInv
  <1>1. Init => IInv
    BY InvInit
  <1>2. IInv /\ [Next]_vars => IInv'
    BY TypeStep, LockStep, ChunkStep, OwnerStep, SentStep, ErrorStep, LabelStep, DoneStep DEF IInv
  <1> QED BY <1>1, <1>2, PTL DEF Spec

\* The queues, pipes and totals of COPY FROM have the values the program gives
\* them (class CopyTask, ImportTask, FeedingProcess, ImportProcess).
THEOREM TypesHold == ASSUME ChunksAssumption PROVE Spec => []TypeOK
  <1>1. IInv => TypeOK
    BY DEF IInv
  <1> QED BY <1>1, InvHolds, PTL

\* If the parent leaves its loop because the rows imported have reached the
\* rows sent, then however many children died and whatever was cut off, the
\* rows without an outcome, or given up and not on file, are no more than those
\* counted again because racing threads reported a chunk more than once
\* (import_records, receive_results; update_chunk, which takes no lock).
THEOREM MissingCountedAgain == ASSUME ChunksAssumption PROVE Spec => []MissingIsCountedAgain
  <1>1. IInv => MissingIsCountedAgain
    BY DEF IInv, DoneInv
  <1> QED BY <1>1, InvHolds, PTL

\* Then no row is missing if no chunk was reported twice.
LEMMA NothingMissing ==
    ASSUME ChunksAssumption, IInv, Completed, CountedAgain = {}
    PROVE  Unaccounted = {}
  <1>1. Unaccounted \subseteq Rows /\ IsFiniteSet(Unaccounted) /\ Cardinality(Unaccounted) \in Nat
    BY TypeParts, Numbers DEF IInv, Unaccounted
  <1>2. Cardinality(Unaccounted) <= Cardinality({}) /\ Cardinality({}) = 0
    BY FS_EmptySet DEF IInv, DoneInv, MissingIsCountedAgain
  <1>3. Cardinality(Unaccounted) = 0
    BY <1>1, <1>2
  <1> QED BY <1>1, <1>3, FS_EmptySet

\* An import that completes has stored or given up every row of the input,
\* unless some chunk was reported twice (import_records, receive_results).
THEOREM CompletedMeansAllSettled == ASSUME ChunksAssumption PROVE Spec => []CompletedMeansSettled
  <1>1. IInv => CompletedMeansSettled
    BY NothingMissing, TypeParts DEF CompletedMeansSettled, Unaccounted, IInv
  <1> QED BY <1>1, InvHolds, PTL

\* By then the error file has every row that was given up, unless some chunk
\* was reported twice: an error is on the wire before the result that counts
\* its chunk (send_chunk_results after report_error, ImportErrorHandler).
THEOREM CompletedMeansErrorsFiled == ASSUME ChunksAssumption PROVE Spec => []ErrorFileIsComplete
  <1>1. IInv => ErrorFileIsComplete
    BY NothingMissing, TypeParts DEF ErrorFileIsComplete, Unaccounted, IInv
  <1> QED BY <1>1, InvHolds, PTL

-----------------------------------------------------------------------------
(* What the feeder sends (Feeder), whose variables are its own.            *)
CONSTANTS Stdin, None, End, Missing, Inputs, Header, MaxRows, SkipRows, ChunkSize, IngestRate, Interval, Line
VARIABLES input, todo, current, stdin, exhausted, header, numRead, rows, left, pc, sent, errors,
          counted, since, pillSent
Feeding == INSTANCE Feeder WITH pipe <- stdin, pill <- pillSent

Texts == Seq(Line)
(* A file is a sequence of lines or missing; standard input is there and   *)
(* its lines are not the None that ends it.                                *)
InputsFit == /\ Inputs \subseteq Seq(Texts \cup {Missing}) /\ None \notin Texts
             /\ Stdin => /\ End \notin Line
                         /\ \A in \in Inputs : Len(in) = 1 /\ in[1] \in Texts

Stages == {"start", "loop", "read", "wait", "ended", "dead"}
FeederTypes ==
    /\ input \in Inputs /\ todo \in Seq(Texts \cup {Missing}) /\ current \in Texts \cup {None}
    /\ stdin \in Seq(Line \cup {End}) /\ exhausted \in BOOLEAN /\ header \in BOOLEAN /\ numRead \in Nat
    /\ rows \in Texts /\ left \in Nat /\ pc \in Stages /\ sent \in Texts
    /\ counted \in Nat /\ since \in 0..Interval

(* What a chunk may still take was free at the meter when it was begun.    *)
RateInv ==
    /\ Len(rows) + left <= ChunkSize /\ counted + Len(rows) + left <= IngestRate
    /\ pc # "read" => rows = <<>> /\ left = 0
    /\ pc = "read" /\ ~Stdin => current # None

LEMMA LineFacts ==
    /\ \A s \in Texts : s # <<>> => Head(s) \in Line /\ Tail(s) \in Texts
    /\ \A s \in Texts, x \in Line : Append(s, x) \in Texts /\ Len(Append(s, x)) = Len(s) + 1
    /\ \A s, t \in Texts : s \o t \in Texts /\ Len(s \o t) = Len(s) + Len(t)
    /\ \A s \in Texts : Len(s) \in Nat /\ (s = <<>> <=> Len(s) = 0)
    /\ <<>> \in Texts
  BY DEF Texts

LEMMA NextTypes ==
    ASSUME InputsFit, NEW ss \in Seq(Texts \cup {Missing}), NEW next, next = Feeding!NextSource(ss)
    PROVE  next.current \in Texts \cup {None} /\ next.todo \in Seq(Texts \cup {Missing})
  <1>1. CASE ss = <<>> BY <1>1 DEF Feeding!NextSource
  <1>2. CASE ss # <<>>
    <2>1. Head(ss) \in Texts \cup {Missing} /\ Tail(ss) \in Seq(Texts \cup {Missing}) BY <1>2
    <2>2. CASE Head(ss) = Missing BY <1>2, <2>2 DEF Feeding!NextSource
    <2>3. CASE Head(ss) # Missing /\ Header /\ Head(ss) = <<>> BY <1>2, <2>1, <2>3, LineFacts DEF Feeding!NextSource
    <2>4. CASE Head(ss) # Missing /\ ~(Header /\ Head(ss) = <<>>)
      <3>1. next = [current |-> IF Header THEN Tail(Head(ss)) ELSE Head(ss), todo |-> Tail(ss), raises |-> None]
        BY <1>2, <2>4 DEF Feeding!NextSource
      <3> QED BY <2>1, <2>4, <3>1, LineFacts
    <2> QED BY <2>2, <2>3, <2>4
  <1> QED BY <1>1, <1>2

LEMMA SendsChunk ==
    ASSUME Feeding!FeederAssumption, FeederTypes, RateInv, NEW rs \in Texts, Feeding!SendChunk(rs),
           counted + Len(rs) <= IngestRate
    PROVE  /\ sent' = sent \o rs /\ sent' \in Texts /\ pc' = "loop" /\ rows' = <<>> /\ left' = 0
           /\ counted' \in Nat /\ counted' <= IngestRate /\ since' \in 0..Interval
  <1>1. CASE rs = <<>> BY <1>1, LineFacts DEF FeederTypes, Feeding!SendChunk, Feeding!meter, RateInv
  <1>2. CASE rs # <<>>
    <2>1. counted + Len(rs) \in Nat BY LineFacts DEF FeederTypes
    <2>2. Feeding!Updated(counted + Len(rs)) BY <1>2 DEF Feeding!SendChunk
    <2> QED BY <2>1, <2>2, LineFacts DEF FeederTypes, Feeding!SendChunk, Feeding!Updated, Feeding!FeederAssumption
  <1> QED BY <1>1, <1>2

LEMMA Concludes ==
    ASSUME Feeding!FeederAssumption, InputsFit, FeederTypes, RateInv, NEW ss \in Seq(Texts \cup {Missing}),
           Feeding!Conclude(Feeding!NextSource(ss))
    PROVE  /\ current' \in Texts \cup {None} /\ todo' \in Seq(Texts \cup {Missing})
           /\ sent' \in Texts /\ pc' = "loop" /\ rows' = <<>> /\ left' = 0
           /\ counted' \in Nat /\ counted' <= IngestRate /\ since' \in 0..Interval
  <1>1. PICK next : next = Feeding!NextSource(ss) OBVIOUS
  <1>2. current' = next.current /\ todo' = next.todo BY <1>1 DEF Feeding!Conclude, Feeding!Take
  <1>3. PICK rs \in Texts : Feeding!SendChunk(rs) /\ counted + Len(rs) <= IngestRate
    <2>1. rows \in Texts /\ Len(rows) \in Nat /\ left \in Nat /\ counted \in Nat BY LineFacts DEF FeederTypes
    <2>2. \A m, n, k \in Nat : \A r \in Nat : m + n + k <= r => m + n <= r /\ m + 0 <= r OBVIOUS
    <2>3. IngestRate \in Nat BY DEF Feeding!FeederAssumption
    <2>4. counted + Len(rows) <= IngestRate /\ counted + 0 <= IngestRate BY <2>1, <2>2, <2>3 DEF RateInv
    <2>5. Len(<<>>) = 0 OBVIOUS
    <2> QED BY <1>1, <2>1, <2>4, <2>5, LineFacts DEF Feeding!Conclude, Feeding!Return, Feeding!Raise
  <1> QED BY <1>1, <1>2, <1>3, NextTypes, SendsChunk

LEMMA FeederNext ==
    ASSUME Feeding!FeederAssumption, InputsFit, FeederTypes, RateInv, [Feeding!Next]_Feeding!vars
    PROVE  FeederTypes' /\ RateInv'
  <1> USE DEF Feeding!source, Feeding!meter
  <1>1. ASSUME UNCHANGED <<input, rows, left, sent, numRead, header>>, counted' \in Nat, counted' <= IngestRate, since' \in 0..Interval,
               current' \in Texts \cup {None}, todo' \in Seq(Texts \cup {Missing}), stdin' \in Seq(Line \cup {End}),
               exhausted' \in BOOLEAN, pc' \in Stages \ {"read"}, pc # "read"
        PROVE  FeederTypes' /\ RateInv'
    BY <1>1 DEF FeederTypes, RateInv
  <1>2. CASE Feeding!Start
    <2>1. PICK next : next = Feeding!NextSource(todo) OBVIOUS
    <2>2. /\ current' = next.current /\ todo' = next.todo /\ pc' \in {"dead", "loop"} /\ pc = "start"
          /\ UNCHANGED <<input, stdin, exhausted, header, numRead, rows, left, sent, counted, since>>
      BY <1>2, <2>1 DEF Feeding!Start, Feeding!Take
    <2>3. todo \in Seq(Texts \cup {Missing}) BY DEF FeederTypes
    <2>4. current' \in Texts \cup {None} /\ todo' \in Seq(Texts \cup {Missing}) BY <2>1, <2>2, <2>3, NextTypes
    <2> QED BY <2>2, <2>4, LineFacts DEF FeederTypes, RateInv, Stages
  <1>3. CASE Feeding!StartPipe \/ Feeding!Report BY <1>3 DEF Feeding!StartPipe, Feeding!Report, FeederTypes, RateInv, Stages
  <1>4. CASE Feeding!Wait BY <1>4 DEF Feeding!Wait, Feeding!Updated, FeederTypes, RateInv, Feeding!FeederAssumption
  <1>5. CASE Feeding!Begin
    <2>1. /\ left' \in Nat /\ left' <= ChunkSize /\ counted + left' <= IngestRate
      BY <1>5 DEF Feeding!Begin, Feeding!Room, FeederTypes, Feeding!FeederAssumption
    <2>2. rows' = <<>> /\ pc' = "read" /\ UNCHANGED <<input, todo, current, stdin, exhausted, header, numRead, sent, counted, since>>
          /\ (~Stdin => current # None)
      BY <1>5 DEF Feeding!Begin, Feeding!Exhausted
    <2>3. Len(<<>>) = 0 OBVIOUS
    <2> QED BY <2>1, <2>2, <2>3, LineFacts DEF FeederTypes, RateInv, Stages
  <1>6. ASSUME UNCHANGED <<input, header>>, numRead' \in Nat, current' \in Texts \cup {None},
               todo' \in Seq(Texts \cup {Missing}), stdin' \in Seq(Line \cup {End}), exhausted' \in BOOLEAN,
               sent' \in Texts, pc' = "loop", rows' = <<>>, left' = 0,
               counted' \in Nat, counted' <= IngestRate, since' \in 0..Interval
        PROVE  FeederTypes' /\ RateInv'
    <2>1. FeederTypes' BY <1>6, LineFacts DEF FeederTypes, Stages
    <2>2. Len(<<>>) = 0 OBVIOUS
    <2>3. Len(rows') = 0 /\ left' = 0 /\ rows' = <<>> /\ pc' # "read" BY <1>6, <2>2
    <2>4. \A n \in Nat : n + 0 + 0 = n /\ 0 + 0 <= n OBVIOUS
    <2>5. ChunkSize \in Nat BY DEF Feeding!FeederAssumption
    <2>6. 0 + 0 <= ChunkSize /\ counted' + 0 + 0 = counted' BY <1>6, <2>4, <2>5
    <2> QED BY <1>6, <2>1, <2>3, <2>6 DEF RateInv
  <1>7. rows \in Texts /\ counted + Len(rows) <= IngestRate /\ Len(rows) \in Nat
    <2>1. rows \in Texts /\ Len(rows) \in Nat /\ left \in Nat /\ counted \in Nat BY LineFacts DEF FeederTypes
    <2>2. \A m, n, k \in Nat : \A r \in Nat : m + n + k <= r => m + n <= r OBVIOUS
    <2> QED BY <2>1, <2>2 DEF RateInv, Feeding!FeederAssumption
  <1>8. CASE Feeding!ChunkFull
    <2>1. Feeding!SendChunk(rows) /\ UNCHANGED <<input, todo, current, stdin, exhausted, header, numRead>>
      BY <1>8 DEF Feeding!ChunkFull, Feeding!Return, Feeding!Reading
    <2> QED BY <1>6, <1>7, <2>1, SendsChunk DEF FeederTypes
  <1>9. CASE Feeding!BeyondLast
    <2>1. PICK next : next = Feeding!NextSource(todo) OBVIOUS
    <2>2. PICK ss \in Seq(Texts \cup {Missing}) : Feeding!Conclude(Feeding!NextSource(ss))
      <3>1. todo \in Seq(Texts \cup {Missing}) BY DEF FeederTypes
      <3>2. next.todo \in Seq(Texts \cup {Missing}) BY <2>1, <3>1, NextTypes
      <3> QED BY <1>9, <2>1, <3>1, <3>2 DEF Feeding!BeyondLast
    <2>3. numRead' \in Nat /\ UNCHANGED <<input, stdin, exhausted, header>>
      BY <1>9 DEF Feeding!BeyondLast, Feeding!Reading, FeederTypes
    <2> QED BY <1>6, <2>2, <2>3, Concludes DEF FeederTypes
  <1>10. CASE Feeding!EndOfSource
    <2>1. Feeding!Conclude(Feeding!NextSource(todo)) /\ UNCHANGED <<input, stdin, exhausted, header, numRead>>
      BY <1>10 DEF Feeding!EndOfSource, Feeding!Reading
    <2> QED BY <1>6, <2>1, Concludes DEF FeederTypes
  <1>11. ASSUME NEW x \in Line, rows' = rows \/ rows' = Append(rows, x), left > 0, left' = left - 1, numRead' = numRead + 1,
               current' \in Texts \cup {None}, ~Stdin => current' # None, stdin' \in Seq(Line \cup {End}), header' \in BOOLEAN,
               UNCHANGED <<input, todo, exhausted, pc, sent, counted, since>>, pc = "read"
        PROVE  FeederTypes' /\ RateInv'
    <2>1. rows' \in Texts /\ Len(rows') \in Nat /\ Len(rows') <= Len(rows) + 1
      <3>1. CASE rows' = rows BY <1>7, <3>1
      <3>2. CASE rows' = Append(rows, x)
        <4>1. rows' \in Texts /\ Len(rows') = Len(rows) + 1 BY <1>7, <3>2, LineFacts
        <4> QED BY <1>7, <4>1
      <3> QED BY <1>11, <3>1, <3>2
    <2>2. left \in Nat /\ left' \in Nat /\ numRead' \in Nat BY <1>11 DEF FeederTypes
    <2>3. Len(rows') + left' <= ChunkSize /\ counted + Len(rows') + left' <= IngestRate
      BY <1>7, <1>11, <2>1, <2>2 DEF RateInv, Feeding!FeederAssumption, FeederTypes
    <2> QED BY <1>11, <2>1, <2>2, <2>3 DEF FeederTypes, RateInv
  <1>12. CASE Feeding!ReadLine
    <2>1. current \in Texts /\ current # <<>> /\ current' = Tail(current)
      BY <1>12 DEF Feeding!ReadLine, FeederTypes, RateInv, Feeding!Reading
    <2>2. Head(current) \in Line /\ current' \in Texts BY <2>1, LineFacts
    <2>3. rows' = rows \/ rows' = Append(rows, Head(current)) BY <1>12 DEF Feeding!ReadLine, Feeding!KeepLine
    <2>4. /\ left > 0 /\ left' = left - 1 /\ numRead' = numRead + 1 /\ pc = "read" /\ ~Stdin
          /\ UNCHANGED <<input, todo, stdin, exhausted, header, pc, sent, counted, since>>
      BY <1>12 DEF Feeding!ReadLine, Feeding!Reading
    <2>5. current' # None BY <2>2 DEF InputsFit
    <2> QED BY <1>11, <2>2, <2>3, <2>4, <2>5 DEF FeederTypes
  <1>13. CASE Feeding!ReadPipe
    <2>1. stdin # <<>> /\ Head(stdin) # End /\ stdin' = Tail(stdin) /\ stdin \in Seq(Line \cup {End})
      BY <1>13 DEF Feeding!ReadPipe, FeederTypes
    <2>2. Head(stdin) \in Line /\ stdin' \in Seq(Line \cup {End}) BY <2>1
    <2>3. rows' = rows \/ rows' = Append(rows, Head(stdin)) BY <1>13 DEF Feeding!ReadPipe
    <2>4. /\ left > 0 /\ left' = left - 1 /\ numRead' = numRead + 1 /\ pc = "read" /\ Stdin /\ header' \in BOOLEAN
          /\ UNCHANGED <<input, todo, current, exhausted, pc, sent, counted, since>>
      BY <1>13 DEF Feeding!ReadPipe, Feeding!Reading, FeederTypes
    <2> QED BY <1>11, <2>2, <2>3, <2>4 DEF FeederTypes
  <1>14. CASE Feeding!EndOfPipe
    <2>1. /\ Feeding!SendChunk(rows) /\ UNCHANGED <<input, todo, current, header>> /\ exhausted' = TRUE
          /\ stdin # <<>> /\ stdin' = Tail(stdin) /\ numRead' \in {numRead, numRead + 1}
      BY <1>14 DEF Feeding!EndOfPipe, Feeding!Return, Feeding!Reading
    <2>2. stdin' \in Seq(Line \cup {End}) /\ numRead' \in Nat BY <2>1 DEF FeederTypes
    <2> QED BY <1>6, <1>7, <2>1, <2>2, SendsChunk DEF FeederTypes
  <1>15. CASE Feeding!TakePill
    <2>1. stdin' \in Seq(Line \cup {End}) BY <1>15 DEF Feeding!TakePill, FeederTypes
    <2> QED BY <1>15, <2>1 DEF Feeding!TakePill, FeederTypes, RateInv, Stages
  <1>16. CASE Feeding!SendPill
    <2>1. stdin' \in Seq(Line \cup {End}) BY <1>16 DEF Feeding!SendPill, FeederTypes
    <2> QED BY <1>16, <2>1 DEF Feeding!SendPill, FeederTypes, RateInv
  <1>17. CASE Feeding!Tick BY <1>17 DEF Feeding!Tick, FeederTypes, RateInv, Feeding!FeederAssumption
  <1>18. CASE UNCHANGED Feeding!vars BY <1>18 DEF Feeding!vars, FeederTypes, RateInv
  <1> QED BY <1>2, <1>3, <1>4, <1>5, <1>8, <1>9, <1>10, <1>12, <1>13, <1>14, <1>15, <1>16, <1>17, <1>18
      DEF Feeding!Next, Feeding!FeederStep

LEMMA FeederAlways ==
    ASSUME Feeding!FeederAssumption, InputsFit
    PROVE  Feeding!Spec => [](FeederTypes /\ RateInv)
  <1>1. Feeding!Init => FeederTypes /\ RateInv
    <2> SUFFICES ASSUME Feeding!Init PROVE FeederTypes /\ RateInv OBVIOUS
    <2>1. input \in Inputs /\ input \in Seq(Texts \cup {Missing}) BY DEF Feeding!Init, InputsFit
    <2>2. stdin \in Seq(Line \cup {End})
      <3>1. CASE Stdin
        <4>1. PICK s \in Texts : s = input[1] BY <2>1, <3>1 DEF InputsFit
        <4>2. stdin = Append(s, End) BY <3>1, <4>1 DEF Feeding!Init
        <4>3. s \in Seq(Line \cup {End}) BY <4>1 DEF Texts
        <4> QED BY <4>2, <4>3
      <3>2. CASE ~Stdin BY <3>2 DEF Feeding!Init
      <3> QED BY <3>1, <3>2
    <2>3. todo \in Seq(Texts \cup {Missing}) BY <2>1 DEF Feeding!Init
    <2>4. Len(<<>>) = 0 OBVIOUS
    <2>5. FeederTypes
      <3>1. \A n \in Nat : 0 \in 0..n OBVIOUS
      <3>2. 0 \in 0..Interval /\ Header \in BOOLEAN BY <3>1 DEF Feeding!FeederAssumption
      <3>3. /\ current = None /\ exhausted = FALSE /\ header = Header /\ numRead = 0 /\ rows = <<>> /\ left = 0
            /\ pc = "start" /\ sent = <<>> /\ counted = 0 /\ since = 0
        BY DEF Feeding!Init
      <3> QED BY <2>1, <2>2, <2>3, <3>2, <3>3, LineFacts DEF FeederTypes, Stages
    <2>6. pc = "start" /\ rows = <<>> /\ left = 0 /\ counted = 0 BY DEF Feeding!Init
    <2> QED BY <2>4, <2>5, <2>6 DEF RateInv, Feeding!FeederAssumption
  <1>2. FeederTypes /\ RateInv /\ [Feeding!Next]_Feeding!vars => (FeederTypes /\ RateInv)' BY FeederNext
  <1> QED BY <1>1, <1>2, PTL DEF Feeding!Spec

(* Whatever the sizes of chunks and files, no more than INGESTRATE rows    *)
(* are sent before the meter starts again (FeedingProcess.get_chunk,       *)
(* RateMeter).                                                             *)
THEOREM RateIsKept ==
    ASSUME Feeding!FeederAssumption, InputsFit
    PROVE  Feeding!Spec => []Feeding!RateKept
  <1>1. FeederTypes /\ RateInv => Feeding!RateKept
    BY LineFacts DEF FeederTypes, RateInv, Feeding!RateKept, Feeding!FeederAssumption
  <1> QED BY <1>1, FeederAlways, PTL

(* A set of numbers has a least one.                                       *)
LEMMA Least ==
    ASSUME NEW S \in SUBSET Nat, S # {}
    PROVE  \E m \in S : \A k \in S : m <= k
  <1>1. IsWellFoundedOn(OpToRel(<, Nat), Nat) BY NatLessThanWellFounded
  <1>2. PICK R : R = OpToRel(<, Nat) OBVIOUS
  <1>3. PICK m \in S : \A k \in S : ~(<<k, m>> \in R) BY <1>1, <1>2, WFMin
  <1>4. \A k \in S : <<k, m>> \in Nat \X Nat OBVIOUS
  <1>5. \A ss \in Nat \X Nat : ss[1] < ss[2] => ss \in R BY <1>2 DEF OpToRel
  <1>6. \A k \in S : ~(k < m) BY <1>3, <1>4, <1>5
  <1> QED BY <1>6

(* A text laid out after the others begins where S says.                   *)
Laid(bodies, L, S) ==
    /\ S \in [0..Len(bodies) -> Nat] /\ S[0] = 0 /\ L \in Texts /\ Len(L) = S[Len(bodies)]
    /\ \A k \in 1..Len(bodies) : S[k] = S[k - 1] + Len(bodies[k]) /\ S[k] <= Len(L)
    /\ \A k \in 1..Len(bodies) : \A i \in 1..Len(bodies[k]) : L[S[k - 1] + i] = bodies[k][i]

Flats(bodies, m) == {f \in [1..m -> Texts] : \A i \in 1..m : f[i] = IF i = 1 THEN bodies[i] ELSE f[i - 1] \o bodies[i]}

LEMMA ConcatAt ==
    ASSUME NEW s \in Texts, NEW t \in Texts
    PROVE  /\ s \o t \in Texts /\ Len(s \o t) = Len(s) + Len(t) /\ Len(s) \in Nat /\ Len(t) \in Nat
           /\ \A i \in 1..Len(s) : (s \o t)[i] = s[i]
           /\ \A i \in 1..Len(t) : (s \o t)[Len(s) + i] = t[i]
  BY DEF Texts

LEMMA FlatsExist ==
    ASSUME NEW bodies \in Seq(Texts), NEW n \in 1..Len(bodies)
    PROVE  Flats(bodies, n) # {}
  <1>1. PICK S : S = {m \in 1..Len(bodies) : Flats(bodies, m) = {}} OBVIOUS
  <1>2. SUFFICES ASSUME S # {} PROVE FALSE BY <1>1
  <1>3. S \in SUBSET Nat BY <1>1
  <1>4. PICK m \in S : \A k \in S : m <= k BY <1>2, <1>3, Least
  <1>5. m \in 1..Len(bodies) /\ Flats(bodies, m) = {} /\ Len(bodies) \in Nat BY <1>1
  <1>6. bodies[m] \in Texts BY <1>5
  <1>7. CASE m = 1
    <2>1. PICK f : f = [i \in 1..1 |-> bodies[1]] OBVIOUS
    <2>2. f \in Flats(bodies, 1) BY <1>6, <1>7, <2>1 DEF Flats
    <2> QED BY <1>5, <1>7, <2>2
  <1>8. CASE m # 1
    <2>1. m - 1 \in 1..Len(bodies) /\ m - 1 \notin S BY <1>4, <1>5, <1>8
    <2>2. PICK f : f \in Flats(bodies, m - 1) BY <1>1, <2>1
    <2>3. PICK g : g = [i \in 1..m |-> IF i < m THEN f[i] ELSE f[m - 1] \o bodies[m]] OBVIOUS
    <2>4. f \in [1..(m - 1) -> Texts] /\ \A i \in 1..(m - 1) : f[i] = IF i = 1 THEN bodies[i] ELSE f[i - 1] \o bodies[i]
      BY <2>2 DEF Flats
    <2>5. m - 1 \in 1..(m - 1) /\ m - 1 \in Nat BY <1>5, <1>8
    <2>6. f[m - 1] \in Texts /\ f[m - 1] \o bodies[m] \in Texts BY <1>6, <2>4, <2>5, ConcatAt
    <2>7. g \in [1..m -> Texts]
      <3>1. \A i \in 1..m : i < m => i \in 1..(m - 1) BY <1>5
      <3> QED BY <2>3, <2>4, <2>6, <3>1
    <2>8. ASSUME NEW i \in 1..m PROVE g[i] = IF i = 1 THEN bodies[i] ELSE g[i - 1] \o bodies[i]
      <3>1. CASE i = m
        <4>1. m \in 1..m /\ m - 1 \in 1..m /\ ~(m < m) /\ m - 1 < m BY <1>5, <1>8
        <4>2. g[m] = f[m - 1] \o bodies[m] BY <2>3, <4>1
        <4>3. g[m - 1] = f[m - 1] BY <2>3, <4>1
        <4> QED BY <1>8, <3>1, <4>2, <4>3
      <3>2. CASE i < m
        <4>1. i \in 1..(m - 1) /\ g[i] = f[i] BY <1>5, <2>3, <3>2
        <4>2. CASE i = 1 BY <2>4, <4>1, <4>2
        <4>3. CASE i # 1
          <5>1. i - 1 \in 1..m /\ i - 1 < m BY <1>5, <3>2, <4>3
          <5>2. g[i - 1] = f[i - 1] BY <2>3, <5>1
          <5> QED BY <2>4, <4>1, <4>3, <5>2
        <4> QED BY <4>2, <4>3
      <3> QED BY <1>5, <3>1, <3>2
    <2>9. g \in Flats(bodies, m) BY <2>7, <2>8 DEF Flats
    <2> QED BY <1>5, <2>9
  <1> QED BY <1>7, <1>8

LEMMA FlatLaid ==
    ASSUME NEW bodies \in Seq(Texts), NEW n \in 1..Len(bodies), NEW f \in Flats(bodies, n),
           NEW T \in [0..n -> Nat], T[0] = 0, \A j \in 1..n : T[j] = Len(f[j])
    PROVE  /\ \A j \in 1..n : T[j] = T[j - 1] + Len(bodies[j]) /\ T[j] <= T[n]
           /\ \A j \in 1..n : \A i \in 1..Len(bodies[j]) : f[n][T[j - 1] + i] = bodies[j][i]
  <1> DEFINE Fits(k) == \A j \in 1..k : /\ T[j] <= T[k]
                                       /\ \A i \in 1..Len(bodies[j]) : f[k][T[j - 1] + i] = bodies[j][i]
  <1>a. n \in Nat /\ Len(bodies) \in Nat /\ n <= Len(bodies) /\ \A j \in 1..n : j \in 1..Len(bodies) OBVIOUS
  <1>b. f \in [1..n -> Texts] /\ \A i \in 1..n : f[i] = IF i = 1 THEN bodies[i] ELSE f[i - 1] \o bodies[i]
    BY DEF Flats
  <1>c. \A j \in 1..n : bodies[j] \in Texts /\ f[j] \in Texts /\ Len(bodies[j]) \in Nat /\ T[j] \in Nat
    BY <1>a, <1>b DEF Texts
  <1>d. ASSUME NEW j \in 1..n
        PROVE  /\ T[j] = T[j - 1] + Len(bodies[j]) /\ T[j - 1] \in Nat
               /\ \A i \in 1..Len(bodies[j]) : f[j][T[j - 1] + i] = bodies[j][i]
               /\ j # 1 => \A i \in 1..T[j - 1] : f[j][i] = f[j - 1][i]
    <2>1. CASE j = 1
      <3>0. f[j] = bodies[j] /\ bodies[j] \in Texts /\ T[j] = Len(f[j]) BY <1>b, <1>c, <2>1
      <3>1. f[1] = bodies[1] /\ bodies[1] \in Texts /\ T[1] = Len(bodies[1]) /\ j - 1 = 0 /\ T[0] = 0
        BY <2>1, <3>0
      <3>2. \A m \in Nat : m = 0 + m OBVIOUS
      <3>3. Len(bodies[1]) \in Nat /\ Len(bodies[1]) = 0 + Len(bodies[1]) BY <1>c, <2>1, <3>2
      <3>4. \A i \in 1..Len(bodies[1]) : 0 + i = i BY <3>3
      <3> QED BY <2>1, <3>1, <3>3, <3>4
    <2>2. CASE j # 1
      <3>1. j - 1 \in 1..n BY <1>a, <2>2
      <3>2. f[j] = f[j - 1] \o bodies[j] BY <1>b, <2>2
      <3>3. f[j - 1] \in Texts /\ bodies[j] \in Texts /\ T[j - 1] = Len(f[j - 1]) /\ T[j] = Len(f[j])
        BY <1>c, <3>1
      <3>4. PICK s \in Texts, t \in Texts : s = f[j - 1] /\ t = bodies[j] BY <3>3
      <3>5. /\ Len(s \o t) = Len(s) + Len(t) /\ Len(s) \in Nat
            /\ \A i \in 1..Len(s) : (s \o t)[i] = s[i]
            /\ \A i \in 1..Len(t) : (s \o t)[Len(s) + i] = t[i]
        BY ConcatAt
      <3>6. f[j] = s \o t /\ T[j - 1] = Len(s) /\ T[j] = Len(s \o t) BY <3>2, <3>3, <3>4
      <3> QED BY <3>4, <3>5, <3>6
    <2> QED BY <2>1, <2>2
  <1>1. ASSUME NEW k \in 1..n, ~Fits(k), \A l \in 1..n : ~Fits(l) => k <= l PROVE FALSE
    <2>1. CASE k = 1
      <3>1. \A j \in 1..1 : j = 1 OBVIOUS
      <3>2. T[1] <= T[1] BY <1>c, <2>1
      <3> QED BY <1>1, <1>d, <2>1, <3>1, <3>2
    <2>2. CASE k # 1
      <3>1. k - 1 \in 1..n /\ ~(k <= k - 1) BY <1>a, <2>2
      <3>2. Fits(k - 1) BY <1>1, <3>1
      <3>3. T[k - 1] \in Nat /\ T[k] \in Nat /\ T[k - 1] <= T[k]
        <4>1. T[k] = T[k - 1] + Len(bodies[k]) /\ T[k - 1] \in Nat /\ Len(bodies[k]) \in Nat BY <1>c, <1>d
        <4> QED BY <4>1
      <3>4. ASSUME NEW j \in 1..k
            PROVE  T[j] <= T[k] /\ \A i \in 1..Len(bodies[j]) : f[k][T[j - 1] + i] = bodies[j][i]
        <4>1. CASE j = k BY <1>d, <3>3, <4>1
        <4>2. CASE j # k
          <5>1. j \in 1..(k - 1) /\ j \in 1..n BY <1>a, <4>2
          <5>2. T[j] <= T[k - 1] /\ \A i \in 1..Len(bodies[j]) : f[k - 1][T[j - 1] + i] = bodies[j][i] BY <3>2, <5>1
          <5>3. T[j] = T[j - 1] + Len(bodies[j]) /\ T[j - 1] \in Nat /\ T[j] \in Nat /\ Len(bodies[j]) \in Nat
            BY <1>c, <1>d, <5>1
          <5>a. \A a, b, c \in Nat : a + b <= c => \A i \in 1..b : a + i \in 1..c OBVIOUS
          <5>b. T[j - 1] + Len(bodies[j]) <= T[k - 1] BY <5>2, <5>3
          <5>4. \A i \in 1..Len(bodies[j]) : T[j - 1] + i \in 1..T[k - 1] BY <3>3, <5>3, <5>a, <5>b
          <5>5. \A i \in 1..T[k - 1] : f[k][i] = f[k - 1][i] BY <1>d, <2>2
          <5>6. T[j] <= T[k] BY <3>3, <5>2, <5>3
          <5> QED BY <5>2, <5>4, <5>5, <5>6
        <4> QED BY <4>1, <4>2
      <3> QED BY <1>1, <3>4
    <2> QED BY <2>1, <2>2
  <1>2. Fits(n)
    <2>1. PICK S : S = {k \in 1..n : ~Fits(k)} OBVIOUS
    <2>2. S \in SUBSET Nat BY <2>1
    <2>3. CASE S # {}
      <3>1. PICK k \in S : \A l \in S : k <= l BY <2>2, <2>3, Least
      <3> HIDE DEF Fits
      <3>2. k \in 1..n /\ ~Fits(k) /\ \A l \in 1..n : ~Fits(l) => k <= l BY <2>1, <3>1
      <3> QED BY <1>1, <3>2
    <2>4. CASE S = {}
      <3>1. n \in 1..n BY <1>a
      <3> HIDE DEF Fits
      <3> QED BY <2>1, <2>4, <3>1
    <2> QED BY <2>3, <2>4
  <1> QED BY <1>2, <1>d

LEMMA FlattenLaid ==
    ASSUME NEW bodies \in Seq(Texts)
    PROVE  \E T : Laid(bodies, Feeding!FlattenSeq(bodies), T)
  <1>1. CASE Len(bodies) = 0
    <2>1. bodies = <<>> /\ Feeding!FlattenSeq(bodies) = <<>> /\ <<>> \in Texts BY <1>1 DEF Feeding!FlattenSeq, Texts
    <2>2. PICK T : T = [j \in 0..0 |-> 0] OBVIOUS
    <2>3. T \in [0..0 -> Nat] /\ T[0] = 0 BY <2>2
    <2>4. Len(<<>>) = 0 /\ \A k \in 1..0 : FALSE OBVIOUS
    <2> QED BY <1>1, <2>1, <2>3, <2>4 DEF Laid
  <1>2. CASE Len(bodies) # 0
    <2> DEFINE Eq(f) == f = [i \in 1..Len(bodies) |-> IF i = 1 THEN bodies[i] ELSE f[i - 1] \o bodies[i]]
    <2>1. PICK n \in Nat : n = Len(bodies) /\ n \in 1..Len(bodies) BY <1>2
    <2>2. \E f : Eq(f)
      <3>1. PICK f : f \in Flats(bodies, n) BY <2>1, FlatsExist
      <3>2. f \in [1..n -> Texts] /\ \A i \in 1..n : f[i] = IF i = 1 THEN bodies[i] ELSE f[i - 1] \o bodies[i]
        BY <3>1 DEF Flats
      <3>3. Eq(f) BY <2>1, <3>2
      <3> QED BY <3>3
    <2>3. Feeding!FlattenSeq(bodies) = (CHOOSE f : Eq(f))[Len(bodies)] BY <1>2 DEF Feeding!FlattenSeq
    <2>4. PICK f : f = CHOOSE g : Eq(g) OBVIOUS
    <2>5. Eq(f)
      <3> HIDE DEF Eq
      <3> QED BY <2>2, <2>4
    <2>6. Feeding!FlattenSeq(bodies) = f[n] BY <2>1, <2>3, <2>4
    <2>7. DOMAIN f = 1..n /\ \A i \in 1..n : f[i] = IF i = 1 THEN bodies[i] ELSE f[i - 1] \o bodies[i]
      BY <2>1, <2>5
    <2>8. ASSUME NEW k \in 1..n, f[k] \notin Texts, \A l \in 1..n : f[l] \notin Texts => k <= l PROVE FALSE
      <3>1. bodies[k] \in Texts BY <2>1
      <3>2. CASE k = 1 BY <2>7, <2>8, <3>1, <3>2
      <3>3. CASE k # 1
        <4>1. k - 1 \in 1..n /\ ~(k <= k - 1) BY <3>3
        <4>2. f[k - 1] \in Texts /\ f[k] = f[k - 1] \o bodies[k] BY <2>7, <2>8, <3>3, <4>1
        <4> QED BY <2>8, <3>1, <4>2, ConcatAt
      <3> QED BY <3>2, <3>3
    <2>9. f \in Flats(bodies, n)
      <3>1. PICK S : S = {k \in 1..n : f[k] \notin Texts} OBVIOUS
      <3>2. S \in SUBSET Nat BY <3>1
      <3>3. S = {}
        <4> SUFFICES ASSUME S # {} PROVE FALSE OBVIOUS
        <4>1. PICK k \in S : \A l \in S : k <= l BY <3>2, Least
        <4>2. k \in 1..n /\ f[k] \notin Texts /\ \A l \in 1..n : f[l] \notin Texts => k <= l BY <3>1, <4>1
        <4> QED BY <2>8, <4>2
      <3>4. \A k \in 1..n : f[k] \in Texts BY <3>1, <3>3
      <3>5. f = [k \in 1..n |-> f[k]] BY <2>1, <2>5
      <3>6. f \in [1..n -> Texts] BY <3>4, <3>5
      <3> QED BY <2>7, <3>6 DEF Flats
    <2>10. PICK T : T = [j \in 0..n |-> IF j = 0 THEN 0 ELSE Len(f[j])] OBVIOUS
    <2>11. f \in [1..n -> Texts] BY <2>9 DEF Flats
    <2>12. \A j \in 1..n : f[j] \in Texts /\ Len(f[j]) \in Nat BY <2>11 DEF Texts
    <2>13. T \in [0..n -> Nat] /\ T[0] = 0 /\ \A j \in 1..n : T[j] = Len(f[j])
      <3>1. \A j \in 0..n : j = 0 \/ j \in 1..n OBVIOUS
      <3>2. 0 \in 0..n /\ \A j \in 1..n : j \in 0..n /\ j # 0 OBVIOUS
      <3> QED BY <2>10, <2>12, <3>1, <3>2
    <2>14. n \in 1..n BY <2>1
    <2>15. /\ \A j \in 1..n : T[j] = T[j - 1] + Len(bodies[j]) /\ T[j] <= T[n]
           /\ \A j \in 1..n : \A i \in 1..Len(bodies[j]) : f[n][T[j - 1] + i] = bodies[j][i]
      BY <2>1, <2>9, <2>13, FlatLaid
    <2>16. Laid(bodies, f[n], T) BY <2>1, <2>12, <2>13, <2>14, <2>15 DEF Laid
    <2> QED BY <2>6, <2>16
  <1> QED BY <1>1, <1>2

(* The rows that came of the first n lines of a text are all but the first *)
(* skip.                                                                   *)
Past(n, skip) == IF n > skip THEN n - skip ELSE 0
RowsFrom(L, skip, n) ==
    /\ Len(sent) + Len(rows) = Past(n, skip)
    /\ \A i \in 1..Len(sent) : sent[i] = L[skip + i]
    /\ \A i \in 1..Len(rows) : rows[i] = L[skip + Len(sent) + i]

(* All files are there and, with a header, none is empty.                  *)
FilesReadable == /\ ~Stdin /\ Missing \notin Texts
                 /\ \A in \in Inputs : in \in Seq(Texts) /\ (Header => \A k \in 1..Len(in) : in[k] # <<>>)

Bodies(in) == [k \in DOMAIN in |-> IF in[k] = Missing THEN <<>> ELSE Feeding!Body(in[k])]
Lay(in, L, T) == L = Feeding!FlattenSeq(Bodies(in)) /\ Laid(Bodies(in), L, T)

Over == MaxRows >= 0 /\ numRead > MaxRows
UpTo == IF Over THEN MaxRows ELSE numRead
Unread == IF current = None THEN <<>> ELSE current
(* The files left, the place in the text of the file that is read, and the *)
(* rows that came of the text before it.                                   *)
FilesLeft(in) ==
    /\ input = in /\ todo \in Seq(Texts) /\ Len(todo) <= Len(in)
    /\ \A j \in 1..Len(todo) : todo[j] = in[Len(in) - Len(todo) + j]
    /\ pc = "start" => current = None /\ numRead = 0 /\ todo = in /\ sent = <<>> /\ rows = <<>>
    /\ current = None /\ pc # "start" => todo = <<>>
    /\ pc \in {"wait", "ended"} => current = None
    /\ pc # "dead"
AtPlace(in, L, T) ==
    IF Over THEN MaxRows < Len(L)
    ELSE /\ numRead + Len(Unread) = T[Len(in) - Len(todo)]
         /\ \A i \in 1..Len(Unread) : Unread[i] = L[numRead + i]
RowsSoFar(L) == RowsFrom(L, SkipRows, UpTo)
ReadSoFar(in, L, T) == FilesLeft(in) /\ AtPlace(in, L, T) /\ RowsSoFar(L)
FilesInv == \E in, L, T : Lay(in, L, T) /\ ReadSoFar(in, L, T)

LEMMA BodiesAre ==
    ASSUME FilesReadable, Feeding!FeederAssumption, NEW in \in Inputs
    PROVE  /\ Bodies(in) \in Seq(Texts) /\ Len(Bodies(in)) = Len(in) /\ in \in Seq(Texts)
           /\ \A k \in 1..Len(in) : Bodies(in)[k] = IF Header THEN Tail(in[k]) ELSE in[k]
  <1>1. in \in Seq(Texts) /\ Len(in) \in Nat /\ DOMAIN in = 1..Len(in) BY DEF FilesReadable
  <1>2. ASSUME NEW k \in 1..Len(in)
        PROVE  /\ Bodies(in)[k] = IF Header THEN Tail(in[k]) ELSE in[k]
               /\ Bodies(in)[k] \in Texts
    <2>1. in[k] \in Texts /\ in[k] # Missing /\ (Header => in[k] # <<>>) BY <1>1 DEF FilesReadable
    <2>2. Bodies(in)[k] = Feeding!Body(in[k]) BY <1>1, <2>1 DEF Bodies
    <2>3. Bodies(in)[k] = IF Header THEN Tail(in[k]) ELSE in[k] BY <2>1, <2>2 DEF Feeding!Body
    <2> QED BY <2>1, <2>3, LineFacts
  <1>3. Bodies(in) = [k \in 1..Len(in) |-> Bodies(in)[k]] BY <1>1 DEF Bodies
  <1>4. Bodies(in) \in [1..Len(in) -> Texts] BY <1>2, <1>3
  <1>5. \A n \in Nat : \A s \in [1..n -> Texts] : s \in Seq(Texts) /\ Len(s) = n OBVIOUS
  <1>6. Bodies(in) \in Seq(Texts) /\ Len(Bodies(in)) = Len(in) BY <1>1, <1>4, <1>5
  <1> QED BY <1>1, <1>2, <1>6

(* The next file is read from its beginning, or there is none.             *)
Follows(next, in, L, T) ==
    /\ next.raises = None /\ next.todo \in Seq(Texts)
    /\ todo = <<>> => next.current = None /\ next.todo = <<>>
    /\ todo # <<>> =>
           /\ next.current \in Texts /\ Len(next.todo) = Len(todo) - 1
           /\ \A j \in 1..Len(next.todo) : next.todo[j] = in[Len(in) - Len(next.todo) + j]
           /\ Len(in) - Len(next.todo) \in 1..Len(in)
           /\ T[Len(in) - Len(todo)] + Len(next.current) = T[Len(in) - Len(next.todo)]
           /\ \A i \in 1..Len(next.current) : next.current[i] = L[T[Len(in) - Len(todo)] + i]

LEMMA NextFile ==
    ASSUME FilesReadable, Feeding!FeederAssumption, NEW in \in Inputs, NEW L, NEW T, Lay(in, L, T),
           FilesLeft(in), NEW next, next = Feeding!NextSource(todo)
    PROVE  Follows(next, in, L, T)
  <1>1. CASE todo = <<>>
    <2>1. next = [current |-> None, todo |-> <<>>, raises |-> None] BY <1>1 DEF Feeding!NextSource
    <2>2. next.raises = None /\ next.todo = <<>> /\ next.current = None BY <2>1
    <2>3. <<>> \in Seq(Texts) OBVIOUS
    <2> QED BY <1>1, <2>2, <2>3 DEF Follows
  <1>2. CASE todo # <<>>
    <2>1. PICK n \in Nat, t \in Nat, k \in Nat : n = Len(in) /\ t = Len(todo) /\ k = n - t + 1 /\ t >= 1 /\ t <= n /\ k \in 1..n
      <3>1. in \in Seq(Texts) /\ Len(in) \in Nat BY DEF FilesReadable
      <3>2. todo \in Seq(Texts) /\ Len(todo) \in Nat /\ Len(todo) >= 1 /\ Len(todo) <= Len(in) BY <1>2 DEF FilesLeft
      <3>3. \A n, t \in Nat : t >= 1 /\ t <= n => n - t + 1 \in 1..n /\ n - t + 1 \in Nat OBVIOUS
      <3> QED BY <3>1, <3>2, <3>3
    <2>2. /\ Head(todo) = todo[1] /\ Head(todo) \in Texts /\ Tail(todo) \in Seq(Texts) /\ Len(Tail(todo)) = t - 1
          /\ \A j \in 1..(t - 1) : Tail(todo)[j] = todo[j + 1]
      BY <1>2, <2>1 DEF FilesLeft
    <2>3. Head(todo) = in[k]
      <3>1. 1 \in 1..t /\ n - t + 1 = k BY <2>1
      <3> QED BY <2>1, <2>2, <3>1 DEF FilesLeft
    <2>4. Head(todo) # Missing /\ (Header => Head(todo) # <<>>) BY <2>1, <2>2, <2>3 DEF FilesReadable
    <2>5. next = [current |-> IF Header THEN Tail(Head(todo)) ELSE Head(todo), todo |-> Tail(todo), raises |-> None]
      BY <1>2, <2>4 DEF Feeding!NextSource
    <2>6. next.raises = None /\ next.todo = Tail(todo) /\ next.current = Bodies(in)[k]
      <3>1. next.raises = None /\ next.todo = Tail(todo) /\ next.current = IF Header THEN Tail(in[k]) ELSE in[k]
        BY <2>3, <2>5
      <3>2. Bodies(in)[k] = IF Header THEN Tail(in[k]) ELSE in[k] BY <2>1, BodiesAre
      <3> QED BY <3>1, <3>2
    <2>7. next.current \in Texts BY <2>1, <2>6, BodiesAre
    <2>8. ASSUME NEW j \in 1..(t - 1) PROVE Tail(todo)[j] = in[n - (t - 1) + j]
      <3>1. j + 1 \in 1..t /\ n - t + (j + 1) = n - (t - 1) + j BY <2>1
      <3>2. todo[j + 1] = in[n - t + (j + 1)] BY <2>1, <3>1 DEF FilesLeft
      <3> QED BY <2>2, <3>1, <3>2
    <2>9. n - t = k - 1 /\ n - (t - 1) = k BY <2>1
    <2>10. T[k] = T[k - 1] + Len(Bodies(in)[k]) /\ \A i \in 1..Len(Bodies(in)[k]) : L[T[k - 1] + i] = Bodies(in)[k][i]
      BY <2>1, BodiesAre DEF Lay, Laid
    <2> QED BY <1>2, <2>1, <2>2, <2>6, <2>7, <2>8, <2>9, <2>10 DEF Follows
  <1> QED BY <1>1, <1>2

(* What is asked for once all files were read, or a line beyond the last.  *)
LEMMA SentAll ==
    ASSUME FilesReadable, Feeding!FeederAssumption, FeederTypes, RateInv, NEW in \in Inputs, NEW L, NEW T,
           Lay(in, L, T), ReadSoFar(in, L, T)
    PROVE  Feeding!SentIsWanted
  <1> SUFFICES ASSUME pc \in {"wait", "ended"} PROVE sent = Feeding!Wanted BY DEF Feeding!SentIsWanted
  <1>1. Feeding!Lines = L BY DEF ReadSoFar, FilesLeft, Feeding!Lines, Lay, Bodies
  <1>2. PICK len \in Nat, had \in Nat : len = Len(L) /\ had = Len(sent) /\ L \in Texts /\ sent \in Texts /\ Len(rows) = 0
    BY LineFacts DEF Lay, Laid, FeederTypes, RateInv
  <1>3. numRead \in Nat /\ MaxRows \in Int /\ SkipRows \in Nat BY DEF FeederTypes, Feeding!FeederAssumption
  <1>4. PICK m : m = IF MaxRows >= 0 /\ MaxRows < len THEN MaxRows ELSE len OBVIOUS
  <1>5. m \in Nat /\ m <= len BY <1>2, <1>3, <1>4
  <1>6. UpTo = m
    <2>1. CASE Over BY <1>2, <1>3, <1>4, <2>1 DEF ReadSoFar, AtPlace, UpTo, Over
    <2>2. CASE ~Over
      <3>1. todo = <<>> /\ Unread = <<>> BY DEF ReadSoFar, FilesLeft, Unread
      <3>2. Len(todo) = 0 /\ Len(Unread) = 0 BY <3>1
      <3>3. numRead + Len(Unread) = T[Len(in) - Len(todo)] BY <2>2 DEF ReadSoFar, AtPlace
      <3>4. Len(in) \in Nat BY BodiesAre
      <3>5. T[Len(in)] = len BY <1>2, BodiesAre DEF Lay, Laid
      <3>6. numRead = len BY <1>3, <3>2, <3>3, <3>4, <3>5
      <3> QED BY <1>3, <1>4, <2>2, <3>6 DEF UpTo, Over
    <2> QED BY <2>1, <2>2
  <1>7. had = Past(m, SkipRows) BY <1>2, <1>6 DEF ReadSoFar, RowsSoFar, RowsFrom
  <1>8. \A i \in 1..had : sent[i] = L[SkipRows + i] BY <1>2 DEF ReadSoFar, RowsSoFar, RowsFrom
  <1>9. Feeding!Wanted = SubSeq(L, SkipRows + 1, m) BY <1>1, <1>2, <1>4 DEF Feeding!Wanted
  <1>10. SubSeq(L, SkipRows + 1, m) = [i \in 1..had |-> L[SkipRows + i]]
    <2>1. CASE m > SkipRows
      <3>1. had = m - SkipRows /\ SkipRows + 1 \in 1..len /\ m \in 1..len BY <1>3, <1>5, <1>7, <2>1 DEF Past
      <3>2. SubSeq(L, SkipRows + 1, m) = [i \in 1..(m - (SkipRows + 1) + 1) |-> L[i + (SkipRows + 1) - 1]]
        BY <1>2, <1>3, <1>5, <3>1 DEF Texts
      <3>3. m - (SkipRows + 1) + 1 = had /\ \A i \in 1..had : i + (SkipRows + 1) - 1 = SkipRows + i BY <1>3, <1>5, <3>1
      <3> QED BY <3>2, <3>3
    <2>2. CASE m <= SkipRows
      <3>1. had = 0 /\ ~(m > SkipRows) BY <1>3, <1>5, <1>7, <2>2 DEF Past
      <3>2. SubSeq(L, SkipRows + 1, m) = <<>> BY <1>2, <1>3, <1>5, <2>2 DEF Texts
      <3>3. <<>> = [i \in 1..0 |-> L[SkipRows + i]] OBVIOUS
      <3> QED BY <3>1, <3>2, <3>3
    <2> QED BY <1>3, <1>5, <2>1, <2>2
  <1>11. sent = [i \in 1..had |-> sent[i]] BY <1>2 DEF Texts
  <1> QED BY <1>8, <1>9, <1>10, <1>11

(* A step that sends a chunk, or starts the next, keeps the rows.          *)
LEMMA RowsStay ==
    ASSUME FeederTypes, NEW L, NEW skip \in Nat, NEW n, RowsFrom(L, skip, n),
           \/ UNCHANGED <<sent, rows>>
           \/ sent' = sent \o rows /\ rows' = <<>>
           \/ sent' = sent /\ rows = <<>> /\ rows' = <<>>
    PROVE  RowsFrom(L, skip, n)'
  <1>1. CASE UNCHANGED <<sent, rows>> BY <1>1 DEF RowsFrom
  <1>2. CASE sent' = sent \o rows /\ rows' = <<>>
    <2>1. PICK s \in Texts, t \in Texts : s = sent /\ t = rows BY DEF FeederTypes
    <2>2. PICK a \in Nat, b \in Nat : a = Len(s) /\ b = Len(t) BY <2>1 DEF Texts
    <2>3. /\ Len(s \o t) = a + b
          /\ \A i \in 1..a : (s \o t)[i] = s[i]
          /\ \A i \in 1..b : (s \o t)[a + i] = t[i]
      BY <2>2, ConcatAt
    <2>4. /\ a + b = Past(n, skip)
          /\ \A i \in 1..a : s[i] = L[skip + i]
          /\ \A i \in 1..b : t[i] = L[skip + a + i]
      BY <2>1, <2>2 DEF RowsFrom
    <2>5. \A i \in 1..(a + b) : (s \o t)[i] = L[skip + i]
      <3> TAKE i \in 1..(a + b)
      <3>1. CASE i <= a BY <2>2, <2>3, <2>4, <3>1
      <3>2. CASE i > a
        <4>1. PICK j \in 1..b : a + j = i
          <5>1. i - a \in 1..b /\ a + (i - a) = i BY <2>2, <3>2
          <5> QED BY <5>1
        <4>a. (s \o t)[a + j] = t[j] BY <2>3
        <4>b. t[j] = L[skip + a + j] BY <2>4
        <4>2. (s \o t)[a + j] = t[j] /\ t[j] = L[skip + a + j] BY <4>a, <4>b
        <4>3. skip + a + j = skip + i BY <2>2, <4>1
        <4> QED BY <4>1, <4>2, <4>3
      <3> QED BY <2>2, <3>1, <3>2
    <2>6. sent' = s \o t /\ Len(sent') = a + b /\ Len(rows') = 0 BY <1>2, <2>1, <2>3
    <2>7. Len(sent') + Len(rows') = Past(n, skip) BY <2>2, <2>4, <2>6
    <2> QED BY <2>2, <2>5, <2>6, <2>7 DEF RowsFrom
  <1>3. CASE sent' = sent /\ rows = <<>> /\ rows' = <<>> BY <1>3 DEF RowsFrom
  <1> QED BY <1>1, <1>2, <1>3

(* A line is kept when it comes after the first skip.                      *)
LEMMA RowKept ==
    ASSUME FeederTypes, NEW L, NEW skip \in Nat, NEW n \in Nat, RowsFrom(L, skip, n),
           NEW x \in Line, x = L[n + 1], sent' = sent,
           rows' = IF n + 1 > skip THEN Append(rows, x) ELSE rows
    PROVE  RowsFrom(L, skip, n + 1)'
  <1>1. PICK s \in Texts, a \in Nat, b \in Nat : s = rows /\ a = Len(sent) /\ b = Len(s)
    BY LineFacts DEF FeederTypes
  <1>2. /\ a + b = Past(n, skip)
        /\ \A i \in 1..a : sent[i] = L[skip + i]
        /\ \A i \in 1..b : s[i] = L[skip + a + i]
    BY <1>1 DEF RowsFrom
  <1>3. CASE n + 1 > skip
    <2>1. rows' = Append(s, x) BY <1>1, <1>3
    <2>2. Len(Append(s, x)) = b + 1 /\ Append(s, x)[b + 1] = x /\ \A i \in 1..b : Append(s, x)[i] = s[i]
      BY <1>1 DEF Texts
    <2>3. a + b = n - skip
      <3>1. CASE n > skip BY <1>2, <3>1 DEF Past
      <3>2. CASE ~(n > skip)
        <4>1. n = skip /\ n - skip = 0 BY <1>3, <3>2
        <4> QED BY <1>2, <3>2, <4>1 DEF Past
      <3> QED BY <3>1, <3>2
    <2>4. a + (b + 1) = (n + 1) - skip BY <1>1, <2>3
    <2>5. a + (b + 1) = Past(n + 1, skip) BY <1>3, <2>4 DEF Past
    <2>6. skip + a + (b + 1) = n + 1 BY <1>1, <2>4
    <2>7. ASSUME NEW i \in 1..(b + 1) PROVE Append(s, x)[i] = L[skip + a + i]
      <3>1. CASE i \in 1..b
        <4>1. Append(s, x)[i] = s[i] BY <2>2, <3>1
        <4>2. s[i] = L[skip + a + i] BY <1>2, <3>1
        <4> QED BY <4>1, <4>2
      <3>2. CASE i = b + 1 BY <2>2, <2>6, <3>2
      <3>3. \A j \in 1..(b + 1) : j \in 1..b \/ j = b + 1 BY <1>1
      <3> QED BY <3>1, <3>2, <3>3
    <2> QED BY <1>1, <1>2, <2>1, <2>2, <2>5, <2>7 DEF RowsFrom, Past
  <1>4. CASE ~(n + 1 > skip)
    <2>1. rows' = rows /\ Past(n + 1, skip) = Past(n, skip) BY <1>4 DEF Past
    <2> QED BY <1>1, <1>2, <2>1 DEF RowsFrom, Past
  <1> QED BY <1>3, <1>4

(* A line is read: it is the next of the text, and is kept after SKIPROWS. *)
LEMMA LineRead ==
    ASSUME FilesReadable, InputsFit, Feeding!FeederAssumption, FeederTypes, RateInv, NEW in \in Inputs, NEW L, NEW T,
           Lay(in, L, T), ReadSoFar(in, L, T), Feeding!ReadLine
    PROVE  ReadSoFar(in, L, T)'
  <1>1. /\ current \in Texts /\ current # <<>> /\ current # None /\ current' = Tail(current) /\ numRead' = numRead + 1
        /\ rows' = (IF numRead + 1 > SkipRows THEN Append(rows, Head(current)) ELSE rows)
        /\ ~Feeding!Beyond /\ pc = "read" /\ UNCHANGED <<input, todo, pc, sent>>
    BY DEF Feeding!ReadLine, Feeding!Reading, Feeding!KeepLine, FeederTypes, RateInv, FilesReadable
  <1>2. PICK n \in Nat, a \in Nat, b \in Nat, c \in Nat :
            n = numRead /\ a = Len(sent) /\ b = Len(rows) /\ c = Len(current) /\ c >= 1
    <2>1. numRead \in Nat /\ sent \in Texts /\ rows \in Texts BY DEF FeederTypes
    <2>2. Len(sent) \in Nat /\ Len(rows) \in Nat /\ Len(current) \in Nat /\ Len(current) # 0 BY <1>1, <2>1, LineFacts
    <2>3. Len(current) >= 1 BY <2>2
    <2> QED BY <2>1, <2>2, <2>3
  <1>3. MaxRows \in Int /\ SkipRows \in Nat BY DEF Feeding!FeederAssumption
  <1>4. ~Over /\ ~Over' /\ UpTo = n /\ UpTo' = n + 1
    BY <1>1, <1>2, <1>3 DEF Over, UpTo, Feeding!Beyond
  <1>5. /\ Len(Tail(current)) = c - 1 /\ Head(current) = current[1] /\ Tail(current) \in Texts
        /\ \A i \in 1..(c - 1) : Tail(current)[i] = current[i + 1]
    BY <1>1, <1>2 DEF Texts
  <1>6. current' # None /\ Unread = current /\ Unread' = Tail(current)
    <2>1. None \notin Texts
      BY DEF InputsFit
    <2> QED BY <1>1, <1>5, <2>1 DEF Unread
  <1>7. FilesLeft(in)' BY <1>1, <1>6 DEF ReadSoFar, FilesLeft
  <1>8. n + c = T[Len(in) - Len(todo)] /\ \A i \in 1..c : current[i] = L[n + i]
    BY <1>2, <1>4, <1>6 DEF ReadSoFar, AtPlace
  <1>9. AtPlace(in, L, T)'
    <2>1. (n + 1) + (c - 1) = n + c BY <1>2
    <2>2. \A i \in 1..(c - 1) : i + 1 \in 1..c /\ n + (i + 1) = (n + 1) + i BY <1>2
    <2>3. \A i \in 1..(c - 1) : Tail(current)[i] = L[(n + 1) + i] BY <1>5, <1>8, <2>2
    <2> QED BY <1>1, <1>2, <1>4, <1>5, <1>6, <1>8, <2>1, <2>3 DEF AtPlace
  <1>10. Head(current) = L[n + 1] /\ Head(current) \in Line
    <2>1. 1 \in 1..c BY <1>2
    <2> QED BY <1>1, <1>5, <1>8, <2>1, LineFacts
  <1>11. RowsFrom(L, SkipRows, n) BY <1>4 DEF ReadSoFar, RowsSoFar
  <1>a. PICK x \in Line : x = Head(current) BY <1>10
  <1>12. RowsFrom(L, SkipRows, n + 1)' BY <1>1, <1>2, <1>3, <1>10, <1>11, <1>a, RowKept
  <1>13. RowsSoFar(L)' BY <1>4, <1>12 DEF RowsSoFar, RowsFrom
  <1> QED BY <1>7, <1>9, <1>13 DEF ReadSoFar

(* A file ends, or a line beyond the last was read: the next file.         *)
LEMMA FileEnds ==
    ASSUME FilesReadable, InputsFit, Feeding!FeederAssumption, FeederTypes, RateInv, NEW in \in Inputs, NEW L, NEW T,
           Lay(in, L, T), ReadSoFar(in, L, T),
           \/ Feeding!EndOfSource \/ Feeding!BeyondLast \/ Feeding!Start
    PROVE  ReadSoFar(in, L, T)'
  <1>1. PICK next : next = Feeding!NextSource(todo) OBVIOUS
  <1>2. FilesLeft(in) /\ AtPlace(in, L, T) /\ RowsSoFar(L) BY DEF ReadSoFar
  <1>3. /\ next.raises = None /\ next.todo \in Seq(Texts)
        /\ todo = <<>> => next.current = None /\ next.todo = <<>>
        /\ todo # <<>> =>
               /\ next.current \in Texts /\ Len(next.todo) = Len(todo) - 1
               /\ \A j \in 1..Len(next.todo) : next.todo[j] = in[Len(in) - Len(next.todo) + j]
               /\ Len(in) - Len(next.todo) \in 1..Len(in)
               /\ T[Len(in) - Len(todo)] + Len(next.current) = T[Len(in) - Len(next.todo)]
               /\ \A i \in 1..Len(next.current) : next.current[i] = L[T[Len(in) - Len(todo)] + i]
    <2>1. Follows(next, in, L, T) BY <1>1, <1>2, NextFile
    <2> QED BY <2>1 DEF Follows
  <1>4. None \notin {"IOError", "StopIteration"} BY DEF Feeding!FeederAssumption
  <1>5. /\ current' = next.current /\ todo' = next.todo /\ input' = input /\ pc' = "loop"
        /\ \/ sent' = sent \o rows /\ rows' = <<>>
           \/ UNCHANGED <<sent, rows>>
    <2>1. CASE Feeding!Start
      <3>1. Feeding!Take(next) /\ UNCHANGED <<input, sent, rows>>
            /\ pc' = IF next.raises = "StopIteration" THEN "dead" ELSE "loop"
        BY <1>1, <2>1 DEF Feeding!Start
      <3> QED BY <1>3, <1>4, <3>1 DEF Feeding!Take
    <2>2. CASE Feeding!EndOfSource \/ Feeding!BeyondLast
      <3>1. Feeding!Conclude(next) /\ UNCHANGED input
        BY <1>1, <1>3, <1>4, <2>2 DEF Feeding!EndOfSource, Feeding!BeyondLast, Feeding!Reading
      <3>2. Feeding!Take(next) /\ Feeding!SendChunk(rows) BY <1>3, <3>1 DEF Feeding!Conclude, Feeding!Return
      <3> QED BY <3>1, <3>2 DEF Feeding!Take, Feeding!SendChunk
    <2> QED BY <2>1, <2>2
  <1>6. PICK n \in Nat, t \in Nat, d \in Nat : n = numRead /\ t = Len(in) /\ d = Len(todo) /\ d <= t
    <2>1. numRead \in Nat /\ Len(in) \in Nat BY BodiesAre DEF FeederTypes
    <2>2. Len(todo) \in Nat /\ Len(todo) <= Len(in) BY <1>2 DEF FilesLeft
    <2> QED BY <2>1, <2>2
  <1>7. MaxRows \in Int /\ SkipRows \in Nat BY DEF Feeding!FeederAssumption
  <1>8. FilesLeft(in)'
    <2>1. CASE todo = <<>>
      <3>1. todo' = <<>> /\ current' = None BY <1>3, <1>5, <2>1
      <3>2. Len(todo') = 0 /\ todo' \in Seq(Texts) /\ \A j \in 1..0 : FALSE BY <3>1
      <3> QED BY <1>2, <1>5, <1>6, <3>1, <3>2 DEF FilesLeft
    <2>2. CASE todo # <<>>
      <3>1. /\ todo' \in Seq(Texts) /\ Len(todo') = d - 1 /\ current' \in Texts /\ current' # None
            /\ \A j \in 1..Len(todo') : todo'[j] = in[Len(in) - Len(todo') + j]
        BY <1>3, <1>5, <1>6, <2>2 DEF InputsFit
      <3>2. Len(todo') <= Len(in) BY <1>6, <3>1
      <3> QED BY <1>2, <1>5, <3>1, <3>2 DEF FilesLeft
    <2> QED BY <2>1, <2>2
  <1>9. UpTo' = UpTo /\ (Over => Over') /\ (Over' => Over \/ MaxRows < Len(L)) /\ (~Over' => numRead' = n /\ Unread = <<>>)
    <2>1. CASE Feeding!Start
      <3>1. numRead' = numRead /\ current = None BY <1>2, <2>1 DEF Feeding!Start, FilesLeft
      <3> QED BY <1>6, <3>1 DEF UpTo, Over, Unread
    <2>2. CASE Feeding!EndOfSource
      <3>1. numRead' = numRead /\ current = <<>> BY <2>2 DEF Feeding!EndOfSource
      <3> QED BY <1>6, <3>1 DEF UpTo, Over, Unread
    <2>3. CASE Feeding!BeyondLast
      <3>1. numRead' = n + 1 /\ MaxRows >= 0 /\ n + 1 > MaxRows /\ current # <<>> /\ pc = "read" /\ ~Stdin
        BY <1>6, <2>3 DEF Feeding!BeyondLast, Feeding!Beyond, Feeding!Reading
      <3>2. Over' BY <1>6, <1>7, <3>1 DEF Over
      <3>3. UpTo' = MaxRows BY <3>2 DEF UpTo
      <3>4. CASE Over BY <3>2, <3>3, <3>4 DEF UpTo
      <3>5. CASE ~Over
        <4>1. n = MaxRows BY <1>6, <1>7, <3>1, <3>5 DEF Over
        <4>2. UpTo = MaxRows BY <1>6, <3>5, <4>1 DEF UpTo
        <4>3. current \in Texts /\ current # None BY <3>1 DEF FeederTypes, RateInv
        <4>4. Unread = current BY <4>3 DEF Unread
        <4>5. Len(current) \in Nat /\ Len(current) # 0 BY <3>1, <4>3, LineFacts
        <4>6. n + Len(current) = T[t - d] BY <1>2, <1>6, <3>5, <4>4 DEF AtPlace
        <4>7. t - d \in 0..t /\ (t - d = 0 \/ t - d \in 1..t) BY <1>6
        <4>8. T[0] = 0 /\ \A k \in 1..t : T[k] <= Len(L) BY <1>6, BodiesAre DEF Lay, Laid
        <4>9. t - d # 0
          <5>1. n + Len(current) # 0 BY <1>6, <4>5
          <5> QED BY <4>6, <4>8, <5>1
        <4>10. T[t - d] <= Len(L) BY <4>7, <4>8, <4>9
        <4>11. L \in Texts BY DEF Lay, Laid
        <4>12. Len(L) \in Nat BY <4>11, LineFacts
        <4>13. MaxRows < Len(L) BY <1>6, <1>7, <4>1, <4>5, <4>6, <4>10, <4>12
        <4> QED BY <3>2, <3>3, <4>2, <4>13
      <3> QED BY <3>4, <3>5
    <2> QED BY <2>1, <2>2, <2>3
  <1>10. AtPlace(in, L, T)'
    <2>1. CASE Over'
      <3>1. MaxRows < Len(L) BY <1>2, <1>9, <2>1 DEF AtPlace
      <3> QED BY <2>1, <3>1 DEF AtPlace
    <2>2. CASE ~Over'
      <3>1. ~Over /\ numRead' = n /\ Unread = <<>> BY <1>9, <2>2
      <3>2. Len(<<>>) = 0 OBVIOUS
      <3>3. n + 0 = T[t - d] BY <1>2, <1>6, <3>1, <3>2 DEF AtPlace
      <3>4. n = T[t - d] BY <1>6, <3>3
      <3>5. CASE todo = <<>>
        <4>1. todo' = todo /\ Unread' = <<>> BY <1>3, <1>5, <3>5 DEF Unread
        <4>2. \A i \in 1..0 : FALSE OBVIOUS
        <4> QED BY <1>6, <2>2, <3>1, <3>2, <3>3, <4>1, <4>2 DEF AtPlace
      <3>6. CASE todo # <<>>
        <4>1. current' = next.current /\ current' # None BY <1>3, <1>5, <3>6 DEF InputsFit
        <4>2. Unread' = next.current BY <4>1 DEF Unread
        <4>3. /\ n + Len(next.current) = T[Len(in) - Len(next.todo)]
              /\ \A i \in 1..Len(next.current) : next.current[i] = L[n + i]
          BY <1>3, <1>6, <3>4, <3>6
        <4> QED BY <1>5, <2>2, <3>1, <4>2, <4>3 DEF AtPlace
      <3> QED BY <3>5, <3>6
    <2> QED BY <2>1, <2>2
  <1>11. RowsSoFar(L)'
    <2>1. PICK m : m = UpTo OBVIOUS
    <2>2. RowsFrom(L, SkipRows, m) BY <1>2, <2>1 DEF RowsSoFar
    <2>3. RowsFrom(L, SkipRows, m)' BY <1>5, <1>7, <2>2, RowsStay
    <2> QED BY <1>9, <2>1, <2>3 DEF RowsSoFar, RowsFrom
  <1> QED BY <1>8, <1>10, <1>11 DEF ReadSoFar

LEMMA FilesNext ==
    ASSUME FilesReadable, InputsFit, Feeding!FeederAssumption, FeederTypes, RateInv, NEW in \in Inputs, NEW L, NEW T,
           Lay(in, L, T), ReadSoFar(in, L, T), [Feeding!Next]_Feeding!vars
    PROVE  ReadSoFar(in, L, T)'
  <1> USE DEF Feeding!source, Feeding!meter
  <1>0. FilesLeft(in) /\ AtPlace(in, L, T) /\ RowsSoFar(L) BY DEF ReadSoFar
  <1>1. ASSUME UNCHANGED <<input, todo, current, numRead>>, (pc # "start" /\ pc' \notin {"start", "dead"}) \/ pc' = pc,
               pc' \in {"wait", "ended"} /\ pc \notin {"wait", "ended"} => current = None,
               \/ UNCHANGED <<sent, rows>>
               \/ sent' = sent \o rows /\ rows' = <<>>
               \/ sent' = sent /\ rows = <<>> /\ rows' = <<>>,
               pc' = "start" => UNCHANGED <<sent, rows>>
        PROVE  ReadSoFar(in, L, T)'
    <2>1. FilesLeft(in)' BY <1>0, <1>1 DEF FilesLeft
    <2>2. AtPlace(in, L, T)' /\ UpTo' = UpTo BY <1>0, <1>1 DEF AtPlace, Over, Unread, UpTo
    <2>3. RowsSoFar(L)'
      <3>1. PICK m : m = UpTo OBVIOUS
      <3>2. RowsFrom(L, SkipRows, m) BY <1>0, <3>1 DEF RowsSoFar
      <3>3. SkipRows \in Nat BY DEF Feeding!FeederAssumption
      <3>4. RowsFrom(L, SkipRows, m)' BY <1>1, <3>2, <3>3, RowsStay
      <3> QED BY <2>2, <3>1, <3>4 DEF RowsSoFar, RowsFrom
    <2> QED BY <2>1, <2>2, <2>3 DEF ReadSoFar
  <1>2. CASE Feeding!ReadLine BY <1>2, LineRead
  <1>3. CASE Feeding!EndOfSource \/ Feeding!BeyondLast \/ Feeding!Start BY <1>3, FileEnds
  <1>4. CASE Feeding!StartPipe \/ Feeding!ReadPipe \/ Feeding!EndOfPipe
    BY <1>4 DEF Feeding!StartPipe, Feeding!ReadPipe, Feeding!EndOfPipe, FilesReadable
  <1>5. CASE Feeding!Wait BY <1>1, <1>5 DEF Feeding!Wait
  <1>6. CASE Feeding!Begin
    <2>1. rows = <<>> BY <1>6 DEF Feeding!Begin, RateInv
    <2> QED BY <1>1, <1>6, <2>1 DEF Feeding!Begin
  <1>7. CASE Feeding!ChunkFull BY <1>1, <1>7 DEF Feeding!ChunkFull, Feeding!Reading, Feeding!Return, Feeding!SendChunk
  <1>8. CASE Feeding!Tick BY <1>1, <1>8 DEF Feeding!Tick
  <1>9. CASE Feeding!Report
    BY <1>1, <1>9 DEF Feeding!Report, Feeding!Exhausted, FilesReadable
  <1>10. CASE Feeding!SendPill BY <1>1, <1>10 DEF Feeding!SendPill
  <1>11. CASE Feeding!TakePill
    <2>1. current = None BY <1>0, <1>11 DEF Feeding!TakePill, FilesLeft
    <2> QED BY <1>1, <1>11, <2>1 DEF Feeding!TakePill
  <1>12. CASE UNCHANGED Feeding!vars BY <1>1, <1>12 DEF Feeding!vars
  <1> QED BY <1>2, <1>3, <1>4, <1>5, <1>6, <1>7, <1>8, <1>9, <1>10, <1>11, <1>12 DEF Feeding!Next, Feeding!FeederStep

LEMMA FilesStart ==
    ASSUME FilesReadable, InputsFit, Feeding!FeederAssumption, Feeding!Init
    PROVE  FilesInv
  <1>1. PICK in \in Inputs : in = input BY DEF Feeding!Init
  <1>2. Bodies(in) \in Seq(Texts) /\ Len(Bodies(in)) = Len(in) /\ in \in Seq(Texts) BY BodiesAre
  <1>3. PICK L : L = Feeding!FlattenSeq(Bodies(in)) OBVIOUS
  <1>4. PICK T : Laid(Bodies(in), L, T) BY <1>2, <1>3, FlattenLaid
  <1>5. /\ todo = in /\ current = None /\ numRead = 0 /\ rows = <<>> /\ pc = "start" /\ sent = <<>>
    BY <1>1 DEF Feeding!Init, FilesReadable
  <1>6. Len(in) \in Nat /\ \A j \in 1..Len(in) : Len(in) - Len(in) + j = j BY <1>2
  <1>7. FilesLeft(in) BY <1>1, <1>2, <1>5, <1>6 DEF FilesLeft
  <1>8. MaxRows \in Int /\ SkipRows \in Nat BY DEF Feeding!FeederAssumption
  <1>9. ~Over /\ UpTo = 0 /\ Past(UpTo, SkipRows) = 0 /\ Unread = <<>> BY <1>5, <1>8 DEF Over, UpTo, Past, Unread
  <1>10. Len(<<>>) = 0 /\ \A i \in 1..0 : FALSE OBVIOUS
  <1>11. T[Len(in) - Len(in)] = 0
    <2>1. Len(in) - Len(in) = 0 BY <1>6
    <2> QED BY <1>4, <2>1 DEF Laid
  <1>12. AtPlace(in, L, T) BY <1>5, <1>9, <1>10, <1>11 DEF AtPlace
  <1>13. RowsSoFar(L) BY <1>5, <1>9, <1>10 DEF RowsSoFar, RowsFrom
  <1> QED BY <1>1, <1>3, <1>4, <1>7, <1>12, <1>13 DEF FilesInv, Lay, ReadSoFar

(* Whatever the files, the chunks, the rate and the limits: when the       *)
(* feeder reports that it has sent all rows, it has sent the rows the      *)
(* command asks for, in order, when all its files are there and none lacks *)
(* its header (FilesReader.read_rows, FeedingProcess.send_chunk).          *)
THEOREM FilesSentAsWanted ==
    ASSUME Feeding!FeederAssumption, InputsFit, FilesReadable
    PROVE  Feeding!Spec => []Feeding!SentIsWanted
  <1>1. Feeding!Init => FilesInv BY FilesStart
  <1>2. FeederTypes /\ RateInv /\ FilesInv /\ [Feeding!Next]_Feeding!vars => FilesInv'
    <2> SUFFICES ASSUME FeederTypes, RateInv, FilesInv, [Feeding!Next]_Feeding!vars PROVE FilesInv' OBVIOUS
    <2>1. PICK in, L, T : Lay(in, L, T) /\ ReadSoFar(in, L, T) BY DEF FilesInv
    <2>2. in \in Inputs BY <2>1 DEF ReadSoFar, FilesLeft, FeederTypes
    <2>3. ReadSoFar(in, L, T)' BY <2>1, <2>2, FilesNext
    <2> QED BY <2>1, <2>3 DEF FilesInv, Lay
  <1>3. FeederTypes /\ RateInv /\ FilesInv => Feeding!SentIsWanted
    <2> SUFFICES ASSUME FeederTypes, RateInv, FilesInv PROVE Feeding!SentIsWanted OBVIOUS
    <2>1. PICK in, L, T : Lay(in, L, T) /\ ReadSoFar(in, L, T) BY DEF FilesInv
    <2>2. in \in Inputs BY <2>1 DEF ReadSoFar, FilesLeft, FeederTypes
    <2> QED BY <2>1, <2>2, SentAll
  <1> QED BY <1>1, <1>2, <1>3, FeederAlways, PTL DEF Feeding!Spec

-----------------------------------------------------------------------------
(* STDIN: what is left in the pipe is the rest of the text and the end;    *)
(* the first line may be a header.  SKIPROWS and MAXROWS are left out: the *)
(* reader of the pipe skips one row too few and counts the header.         *)
StdinPlain == Stdin /\ SkipRows = 0 /\ MaxRows < 0

Titles == IF Header THEN 1 ELSE 0
InPipe(F) ==
    ~exhausted => /\ numRead <= Len(F) /\ Len(stdin) = Len(F) - numRead + 1
                  /\ stdin[Len(F) - numRead + 1] = End
                  /\ \A i \in 1..(Len(F) - numRead) : stdin[i] = F[numRead + i]
                  /\ header = (Header /\ numRead = 0)
PipeSoFar(F) ==
    /\ input \in Inputs /\ F = input[1] /\ InPipe(F) /\ RowsFrom(F, Titles, numRead)
    /\ exhausted => numRead = Len(F) /\ pc \notin {"start", "read"}
    /\ pc \in {"wait", "ended"} => exhausted
PipeInv == \E F \in Texts : PipeSoFar(F)

LEMMA PipeRead ==
    ASSUME StdinPlain, InputsFit, Feeding!FeederAssumption, FeederTypes, RateInv, NEW F \in Texts, PipeSoFar(F),
           Feeding!ReadPipe
    PROVE  PipeSoFar(F)'
  <1>1. /\ pc = "read" /\ pc' = pc /\ input' = input /\ stdin # <<>> /\ Head(stdin) # End /\ stdin' = Tail(stdin)
        /\ numRead' = numRead + 1 /\ exhausted' = exhausted /\ sent' = sent
        /\ header' = (header /\ ~Feeding!PipeSkips)
        /\ rows' = IF Feeding!PipeSkips THEN rows ELSE Append(rows, Head(stdin))
    BY DEF Feeding!ReadPipe, Feeding!Reading
  <1>2. PICK n \in Nat, l \in Nat, s \in Seq(Line \cup {End}) : n = numRead /\ l = Len(F) /\ s = stdin
    BY LineFacts DEF FeederTypes
  <1>3. /\ ~exhausted /\ n <= l /\ Len(s) = l - n + 1 /\ s[l - n + 1] = End
        /\ \A i \in 1..(l - n) : s[i] = F[n + i]
        /\ header = (Header /\ n = 0)
    BY <1>1, <1>2 DEF PipeSoFar, InPipe
  <1>4. Head(s) = s[1] /\ Len(Tail(s)) = l - n /\ \A i \in 1..(l - n) : Tail(s)[i] = s[i + 1]
    BY <1>1, <1>2, <1>3
  <1>5. n < l
    <2>1. CASE n = l
      <3>1. l - n + 1 = 1 BY <1>2, <2>1
      <3> QED BY <1>1, <1>2, <1>3, <1>4, <3>1
    <2> QED BY <1>2, <1>3, <2>1
  <1>6. l - (n + 1) \in Nat /\ l - (n + 1) + 1 = l - n /\ l - n >= 1 /\ (l - n) + 1 = l - n + 1
    BY <1>2, <1>5
  <1>7. Tail(s)[l - n] = End
    <2>1. l - n \in 1..(l - n) BY <1>6
    <2>2. Tail(s)[l - n] = s[(l - n) + 1] BY <1>4, <2>1
    <2> QED BY <1>3, <1>6, <2>2
  <1>8. ASSUME NEW i \in 1..(l - (n + 1)) PROVE Tail(s)[i] = F[(n + 1) + i]
    <2>1. i \in 1..(l - n) /\ i + 1 \in 1..(l - n) /\ n + (i + 1) = (n + 1) + i BY <1>2, <1>5
    <2>2. Tail(s)[i] = s[i + 1] BY <1>4, <2>1
    <2>3. s[i + 1] = F[n + (i + 1)] BY <1>3, <2>1
    <2> QED BY <2>1, <2>2, <2>3
  <1>9. Feeding!PipeSkips = header
    <2>1. n + 1 >= 0 /\ ~(n + 1 < 0) BY <1>2
    <2>2. SkipRows = 0 BY DEF StdinPlain
    <2>3. ~(numRead + 1 < SkipRows) BY <1>2, <2>1, <2>2
    <2>4. Feeding!PipeSkips <=> header BY <2>3 DEF Feeding!PipeSkips
    <2>5. Feeding!PipeSkips \in BOOLEAN /\ header \in BOOLEAN BY DEF Feeding!PipeSkips, FeederTypes
    <2> QED BY <2>4, <2>5
  <1>10. Header \in BOOLEAN /\ header \in BOOLEAN BY DEF Feeding!FeederAssumption, FeederTypes
  <1>11. header' = (Header /\ n + 1 = 0)
    <2>1. n + 1 # 0 BY <1>2
    <2>2. header' = FALSE BY <1>1, <1>9, <1>10
    <2> QED BY <2>1, <2>2
  <1>12. InPipe(F)'
    <2>1. n + 1 <= l BY <1>2, <1>5
    <2> QED BY <1>1, <1>2, <1>4, <1>6, <1>7, <1>8, <1>11, <2>1 DEF InPipe
  <1>13. PICK x \in Line : x = Head(stdin) /\ x = F[n + 1]
    <2>1. 1 \in 1..(l - n) /\ s[1] = F[n + 1] BY <1>2, <1>3, <1>5
    <2>2. s[1] \in Line \cup {End} BY <1>1, <1>2
    <2> QED BY <1>1, <1>2, <1>4, <2>1, <2>2
  <1>14. Titles \in Nat /\ (n + 1 > Titles <=> ~header)
    <2>1. header <=> Header /\ n = 0 BY <1>3
    <2>2. n + 1 > 0 /\ (n + 1 > 1 <=> n # 0) BY <1>2
    <2>3. CASE Header
      <3>1. Titles = 1 BY <2>3 DEF Titles
      <3> QED BY <2>1, <2>2, <2>3, <3>1
    <2>4. CASE ~Header
      <3>1. Titles = 0 BY <2>4 DEF Titles
      <3> QED BY <2>1, <2>2, <2>4, <3>1
    <2> QED BY <2>3, <2>4
  <1>15. rows' = IF n + 1 > Titles THEN Append(rows, x) ELSE rows BY <1>1, <1>9, <1>13, <1>14
  <1>16. RowsFrom(F, Titles, n) BY <1>2 DEF PipeSoFar
  <1>17. RowsFrom(F, Titles, n + 1)' BY <1>1, <1>2, <1>13, <1>14, <1>15, <1>16, RowKept
  <1>18. RowsFrom(F, Titles, numRead)' BY <1>1, <1>2, <1>17 DEF RowsFrom
  <1> QED BY <1>1, <1>3, <1>12, <1>18 DEF PipeSoFar

LEMMA PipeNext ==
    ASSUME StdinPlain, InputsFit, Feeding!FeederAssumption, FeederTypes, RateInv, NEW F \in Texts, PipeSoFar(F),
           [Feeding!Next]_Feeding!vars
    PROVE  PipeSoFar(F)'
  <1> USE DEF Feeding!source, Feeding!meter
  <1>0. Titles \in Nat BY DEF Titles
  <1>1. ASSUME UNCHANGED <<input, numRead, header>>, exhausted' \/ UNCHANGED <<stdin, exhausted>>,
               exhausted' => numRead = Len(F) /\ pc' \notin {"start", "read"},
               pc' \in {"wait", "ended"} => exhausted',
               \/ UNCHANGED <<sent, rows>>
               \/ sent' = sent \o rows /\ rows' = <<>>
               \/ sent' = sent /\ rows = <<>> /\ rows' = <<>>
        PROVE  PipeSoFar(F)'
    <2>1. PICK n : n = numRead OBVIOUS
    <2>2. RowsFrom(F, Titles, n) BY <2>1 DEF PipeSoFar
    <2>3. RowsFrom(F, Titles, n)' BY <1>0, <1>1, <2>2, RowsStay
    <2>4. RowsFrom(F, Titles, numRead)' BY <1>1, <2>1, <2>3 DEF RowsFrom
    <2>5. InPipe(F)' BY <1>1 DEF PipeSoFar, InPipe
    <2> QED BY <1>1, <2>4, <2>5 DEF PipeSoFar
  <1>2. CASE Feeding!ReadPipe BY <1>2, PipeRead
  <1>3. CASE Feeding!Start \/ Feeding!ReadLine \/ Feeding!BeyondLast \/ Feeding!EndOfSource
    BY <1>3 DEF Feeding!Start, Feeding!ReadLine, Feeding!BeyondLast, Feeding!EndOfSource, StdinPlain
  <1>4. CASE Feeding!StartPipe BY <1>1, <1>4 DEF Feeding!StartPipe, PipeSoFar
  <1>5. CASE Feeding!Wait BY <1>1, <1>5 DEF Feeding!Wait, PipeSoFar
  <1>6. CASE Feeding!Begin
    <2>1. rows = <<>> /\ ~exhausted BY <1>6 DEF Feeding!Begin, RateInv, Feeding!Exhausted, StdinPlain
    <2> QED BY <1>1, <1>6, <2>1 DEF Feeding!Begin, PipeSoFar
  <1>7. CASE Feeding!ChunkFull
    BY <1>1, <1>7 DEF Feeding!ChunkFull, Feeding!Reading, Feeding!Return, Feeding!SendChunk, PipeSoFar
  <1>8. CASE Feeding!EndOfPipe
    <2>1. /\ pc = "read" /\ stdin # <<>> /\ exhausted' = TRUE /\ pc' = "loop" /\ sent' = sent \o rows /\ rows' = <<>>
          /\ UNCHANGED <<input, header>>
          /\ Head(stdin) = End \/ Feeding!Beyond
          /\ numRead' = IF Head(stdin) = End THEN numRead ELSE numRead + 1
      BY <1>8 DEF Feeding!EndOfPipe, Feeding!Reading, Feeding!Return, Feeding!SendChunk
    <2>2. ~Feeding!Beyond BY DEF Feeding!Beyond, StdinPlain, Feeding!FeederAssumption
    <2>3. Head(stdin) = End /\ numRead' = numRead BY <2>1, <2>2
    <2>4. PICK n \in Nat, l \in Nat, s \in Seq(Line \cup {End}) : n = numRead /\ l = Len(F) /\ s = stdin
      BY LineFacts DEF FeederTypes
    <2>5. n <= l /\ \A i \in 1..(l - n) : s[i] = F[n + i] BY <2>1, <2>4 DEF PipeSoFar, InPipe
    <2>6. n = l
      <3>1. SUFFICES ASSUME n # l PROVE FALSE OBVIOUS
      <3>2. 1 \in 1..(l - n) /\ n + 1 \in 1..l BY <2>4, <2>5, <3>1
      <3>3. s[1] = F[n + 1] /\ F[n + 1] \in Line /\ s[1] = Head(s) BY <2>1, <2>4, <2>5, <3>2 DEF Texts
      <3> QED BY <2>3, <2>4, <3>3 DEF InputsFit, StdinPlain
    <2> QED BY <1>1, <2>1, <2>3, <2>4, <2>6
  <1>9. CASE Feeding!Tick BY <1>1, <1>9 DEF Feeding!Tick, PipeSoFar
  <1>10. CASE Feeding!Report BY <1>1, <1>10 DEF Feeding!Report, Feeding!Exhausted, PipeSoFar, StdinPlain
  <1>11. CASE Feeding!SendPill \/ Feeding!TakePill
    <2>1. exhausted BY <1>11 DEF Feeding!SendPill, Feeding!TakePill, PipeSoFar
    <2> QED BY <1>1, <1>11, <2>1 DEF Feeding!SendPill, Feeding!TakePill, PipeSoFar
  <1>12. CASE UNCHANGED Feeding!vars BY <1>1, <1>12 DEF Feeding!vars, PipeSoFar
  <1> QED BY <1>2, <1>3, <1>4, <1>5, <1>6, <1>7, <1>8, <1>9, <1>10, <1>11, <1>12 DEF Feeding!Next, Feeding!FeederStep

LEMMA PipeStart ==
    ASSUME StdinPlain, InputsFit, Feeding!FeederAssumption, Feeding!Init
    PROVE  PipeInv
  <1>1. PICK in \in Inputs, F \in Texts : in = input /\ F = in[1] /\ Len(in) = 1
    BY DEF Feeding!Init, InputsFit, StdinPlain
  <1>2. /\ stdin = Append(F, End) /\ exhausted = FALSE /\ header = Header /\ numRead = 0 /\ rows = <<>>
        /\ pc = "start" /\ sent = <<>>
    BY <1>1 DEF Feeding!Init, StdinPlain
  <1>3. PICK l \in Nat : l = Len(F) BY LineFacts
  <1>4. Len(Append(F, End)) = l + 1 /\ Append(F, End)[l + 1] = End /\ \A i \in 1..l : Append(F, End)[i] = F[i]
    BY <1>3 DEF Texts
  <1>5. l - 0 + 1 = l + 1 /\ l - 0 = l /\ 0 <= l /\ \A i \in 1..l : 0 + i = i BY <1>3
  <1>6. Header \in BOOLEAN BY DEF Feeding!FeederAssumption
  <1>7. InPipe(F) BY <1>2, <1>3, <1>4, <1>5, <1>6 DEF InPipe
  <1>8. Len(<<>>) = 0 /\ \A i \in 1..0 : FALSE OBVIOUS
  <1>9. Past(0, Titles) = 0 BY DEF Past, Titles
  <1>10. RowsFrom(F, Titles, numRead) BY <1>2, <1>8, <1>9 DEF RowsFrom
  <1> QED BY <1>1, <1>2, <1>7, <1>10 DEF PipeInv, PipeSoFar

(* The text without its header is what was asked for.                      *)
LEMMA PipeSentAll ==
    ASSUME StdinPlain, InputsFit, Feeding!FeederAssumption, Missing \notin Texts, FeederTypes, RateInv,
           NEW F \in Texts, PipeSoFar(F)
    PROVE  Feeding!SentIsWanted
  <1> SUFFICES ASSUME pc \in {"wait", "ended"} PROVE sent = Feeding!Wanted BY DEF Feeding!SentIsWanted
  <1>1. PICK in \in Inputs : in = input /\ Len(in) = 1 /\ in[1] = F BY DEF PipeSoFar, InputsFit, StdinPlain
  <1>2. PICK body \in Texts : body = IF Header /\ F # <<>> THEN Tail(F) ELSE F BY LineFacts
  <1>3. PICK bodies : bodies = [k \in DOMAIN in |-> IF in[k] = Missing THEN <<>> ELSE Feeding!Body(in[k])] OBVIOUS
  <1>4. in \in Seq(Texts \cup {Missing}) BY DEF InputsFit
  <1>5. DOMAIN in = 1..1 BY <1>1, <1>4
  <1>6. bodies = [k \in 1..1 |-> body]
    <2>1. \A k \in 1..1 : k = 1 OBVIOUS
    <2>2. \A k \in 1..1 : (IF in[k] = Missing THEN <<>> ELSE Feeding!Body(in[k])) = body
      BY <1>1, <1>2, <2>1 DEF Feeding!Body
    <2> QED BY <1>3, <1>5, <2>2
  <1>7. bodies \in Seq(Texts) /\ Len(bodies) = 1 /\ bodies[1] = body BY <1>6
  <1>8. PICK L, T : L = Feeding!FlattenSeq(bodies) /\ Laid(bodies, L, T) BY <1>7, FlattenLaid
  <1>9. L = body
    <2>1. /\ T[0] = 0 /\ L \in Texts /\ Len(L) = T[1] BY <1>7, <1>8 DEF Laid
    <2>2. 1 \in 1..1 /\ 1 - 1 = 0 OBVIOUS
    <2>3. T[1] = T[0] + Len(body) /\ \A i \in 1..Len(body) : L[T[0] + i] = body[i] BY <1>7, <1>8, <2>2 DEF Laid
    <2>4. PICK m \in Nat : m = Len(body) BY LineFacts
    <2>5. Len(L) = m /\ \A i \in 1..m : 0 + i = i BY <2>1, <2>3, <2>4
    <2>6. \A i \in 1..m : L[i] = body[i] BY <2>1, <2>3, <2>4, <2>5
    <2>7. L = [i \in 1..m |-> L[i]] /\ body = [i \in 1..m |-> body[i]] BY <2>1, <2>4, <2>5 DEF Texts
    <2> QED BY <2>6, <2>7
  <1>10. Feeding!Lines = body BY <1>1, <1>3, <1>8, <1>9 DEF Feeding!Lines
  <1>11. PICK l \in Nat, m \in Nat, a \in Nat : l = Len(F) /\ m = Len(body) /\ a = Len(sent) BY LineFacts DEF FeederTypes
  <1>12. exhausted /\ numRead = l /\ rows = <<>> BY <1>11 DEF PipeSoFar, RateInv
  <1>13. Len(<<>>) = 0 OBVIOUS
  <1>14. a = Past(l, Titles) /\ \A i \in 1..a : sent[i] = F[Titles + i]
    <2>1. Len(sent) + Len(rows) = Past(l, Titles) /\ \A i \in 1..Len(sent) : sent[i] = F[Titles + i]
      BY <1>12 DEF PipeSoFar, RowsFrom
    <2>2. a + 0 = a BY <1>11
    <2> QED BY <1>11, <1>12, <1>13, <2>1, <2>2
  <1>15. m = a /\ \A i \in 1..m : body[i] = F[Titles + i]
    <2>1. CASE Header /\ F # <<>>
      <3>1. body = Tail(F) /\ Titles = 1 /\ l # 0 /\ l >= 1 BY <1>2, <1>11, <2>1, LineFacts DEF Titles
      <3>2. m = l - 1 /\ \A i \in 1..(l - 1) : Tail(F)[i] = F[i + 1] BY <1>11, <2>1, <3>1 DEF Texts
      <3>3. Past(l, 1) = l - 1 BY <1>11, <3>1 DEF Past
      <3>4. \A i \in 1..(l - 1) : i + 1 = 1 + i BY <1>11, <3>1
      <3> QED BY <1>14, <3>1, <3>2, <3>3, <3>4
    <2>2. CASE Header /\ F = <<>>
      <3>1. body = <<>> /\ m = 0 /\ l = 0 BY <1>2, <1>11, <1>13, <2>2
      <3>2. Past(0, 1) = 0 /\ Titles = 1 /\ \A i \in 1..0 : FALSE BY <2>2 DEF Past, Titles
      <3> QED BY <1>14, <3>1, <3>2
    <2>3. CASE ~Header
      <3>1. body = F /\ Titles = 0 /\ m = l BY <1>2, <1>11, <2>3 DEF Titles
      <3>2. Past(l, 0) = l /\ \A i \in 1..l : 0 + i = i BY <1>11 DEF Past
      <3> QED BY <1>14, <3>1, <3>2
    <2> QED BY <2>1, <2>2, <2>3
  <1>16. sent = body
    <2>1. sent \in Texts BY DEF FeederTypes
    <2>2. sent = [i \in 1..a |-> sent[i]] /\ body = [i \in 1..m |-> body[i]] BY <1>11, <2>1 DEF Texts
    <2> QED BY <1>14, <1>15, <2>2
  <1>17. Feeding!Wanted = SubSeq(body, 0 + 1, m)
    <2>1. ~(MaxRows >= 0) BY DEF StdinPlain, Feeding!FeederAssumption
    <2> QED BY <1>10, <1>11, <2>1 DEF Feeding!Wanted, StdinPlain
  <1>18. SubSeq(body, 0 + 1, m) = body BY <1>11 DEF Texts
  <1> QED BY <1>16, <1>17, <1>18

(* The same for STDIN, whatever comes and however fast, without SKIPROWS   *)
(* and MAXROWS, which the reader of the pipe counts in its own way         *)
(* (PipeReader.read_rows, FeedingProcess.send_chunk).                      *)
THEOREM StdinSentAsWanted ==
    ASSUME Feeding!FeederAssumption, InputsFit, StdinPlain, Missing \notin Texts
    PROVE  Feeding!Spec => []Feeding!SentIsWanted
  <1>1. Feeding!Init => PipeInv BY PipeStart
  <1>2. FeederTypes /\ RateInv /\ PipeInv /\ [Feeding!Next]_Feeding!vars => PipeInv'
    <2> SUFFICES ASSUME FeederTypes, RateInv, PipeInv, [Feeding!Next]_Feeding!vars PROVE PipeInv' OBVIOUS
    <2>1. PICK F \in Texts : PipeSoFar(F) BY DEF PipeInv
    <2>2. PipeSoFar(F)' BY <2>1, PipeNext
    <2> QED BY <2>2 DEF PipeInv
  <1>3. FeederTypes /\ RateInv /\ PipeInv => Feeding!SentIsWanted
    <2> SUFFICES ASSUME FeederTypes, RateInv, PipeInv PROVE Feeding!SentIsWanted OBVIOUS
    <2>1. PICK F \in Texts : PipeSoFar(F) BY DEF PipeInv
    <2> QED BY <2>1, PipeSentAll
  <1> QED BY <1>1, <1>2, <1>3, FeederAlways, PTL DEF Feeding!Spec

-----------------------------------------------------------------------------
(* How a worker divides the rows of a chunk (Batches), whose variables are *)
(* its own.                                                                *)
CONSTANTS Ring, Replicas, Local, Tokens, NoToken, MinBatch, MaxBatch, ChunkRows, Changes
VARIABLES tokens, next, byPos, large, byReplica, unplaced, batches, up, changes
Batching == INSTANCE Batches WITH rows <- tokens, reported <- unplaced, MaxRows <- ChunkRows, Bad <- NoToken

Els(s) == {s[i] : i \in 1..Len(s)}
Once(s) == \A i, j \in 1..Len(s) : s[i] = s[j] => i = j
Stores == ({"pos"} \X Batching!Positions) \cup ({"rep"} \X Batching!Keys)
Pos(t) == Batching!GetRingPos(t)

(* Each of the rows looked at is in one store, in one batch or reported.   *)
Partition(n, A, R, M) ==
    /\ A \in [Stores -> Seq(Nat)] /\ n \in Nat /\ R \subseteq Nat /\ \A b \in M : b.rows \in Seq(Nat)
    /\ \A x \in Stores : Once(A[x]) /\ \A r \in Els(A[x]) : r \in 1..n /\ r \notin R
    /\ \A x, y \in Stores : x # y => \A r \in Els(A[x]) : r \notin Els(A[y])
    /\ \A b \in M : Once(b.rows) /\ \A r \in Els(b.rows) : r \in 1..n /\ r \notin R
    /\ \A b, d \in M : b # d => \A r \in Els(b.rows) : r \notin Els(d.rows)
    /\ \A b \in M : \A x \in Stores : \A r \in Els(b.rows) : r \notin Els(A[x])
    /\ R \subseteq 1..n
    /\ \A r \in 1..n : r \in R \/ (\E x \in Stores : r \in Els(A[x])) \/ (\E b \in M : r \in Els(b.rows))

(* A row is in a store of its own, and the hosts of its batch have it.     *)
Belongs(tk, x, r) ==
    /\ tk[r] \in Tokens
    /\ x[1] = "pos" => Pos(tk[r]) = x[2]
    /\ x[1] = "rep" => x[2] \subseteq Replicas[Pos(tk[r])]
Placement(tk, A, M) ==
    /\ \A x \in Stores : \A r \in Els(A[x]) : Belongs(tk, x, r)
    /\ \A b \in M : \A r \in Els(b.rows) : tk[r] \in Tokens /\ b.hosts \subseteq Replicas[Pos(tk[r])]

(* The rows of one position are in one store; a batch that is not full was *)
(* the last of its store.                                                  *)
Apart(tk, s, t) == \A r \in Els(s) : \A q \in Els(t) : Pos(tk[r]) # Pos(tk[q])
Full(b) == Len(b.rows) = MaxBatch
Grouping(tk, A, M) ==
    /\ \A x, y \in Stores : x # y => Apart(tk, A[x], A[y])
    /\ \A b, d \in M : b # d => Full(b) \/ Full(d) \/ Apart(tk, b.rows, d.rows)
    /\ \A b \in M : Full(b) \/ \A x \in Stores : Apart(tk, b.rows, A[x])
    /\ \A b \in M : Len(b.rows) \in 1..MaxBatch

LEMMA AppendEls ==
    ASSUME NEW s \in Seq(Nat), NEW x \in Nat
    PROVE  /\ Append(s, x) \in Seq(Nat) /\ Els(Append(s, x)) = Els(s) \cup {x}
           /\ Once(s) /\ x \notin Els(s) => Once(Append(s, x))
  <1>1. PICK n \in Nat : n = Len(s) OBVIOUS
  <1>2. Len(Append(s, x)) = n + 1 /\ Append(s, x)[n + 1] = x /\ \A i \in 1..n : Append(s, x)[i] = s[i] BY <1>1
  <1>3. \A i \in 1..(n + 1) : i \in 1..n \/ i = n + 1 BY <1>1
  <1>4. n + 1 \in 1..(n + 1) /\ \A i \in 1..n : i \in 1..(n + 1) BY <1>1
  <1>5. PICK t : t = Append(s, x) OBVIOUS
  <1>6. Els(t) = Els(s) \cup {x}
    <2>1. ASSUME NEW r \in Els(t) PROVE r \in Els(s) \cup {x}
      <3>1. PICK i \in 1..(n + 1) : r = t[i] BY <1>2, <1>5 DEF Els
      <3>2. CASE i = n + 1 BY <1>2, <1>5, <3>1, <3>2
      <3>3. CASE i \in 1..n BY <1>1, <1>2, <1>5, <3>1, <3>3 DEF Els
      <3> QED BY <1>3, <3>2, <3>3
    <2>2. ASSUME NEW r \in Els(s) PROVE r \in Els(t) BY <1>1, <1>2, <1>4, <1>5 DEF Els
    <2>3. x \in Els(t) BY <1>2, <1>4, <1>5 DEF Els
    <2> QED BY <2>1, <2>2, <2>3
  <1>7. ASSUME Once(s), x \notin Els(s) PROVE Once(t)
    <2>1. \A i \in 1..n : s[i] # x BY <1>1, <1>7 DEF Els
    <2>2. \A i, j \in 1..n : s[i] = s[j] => i = j BY <1>1, <1>7 DEF Once
    <2>3. \A i, j \in 1..(n + 1) : t[i] = t[j] => i = j BY <1>2, <1>3, <1>5, <2>1, <2>2
    <2> QED BY <1>2, <1>5, <2>3 DEF Once
  <1> QED BY <1>5, <1>6, <1>7

LEMMA ConcatEls ==
    ASSUME NEW s \in Seq(Nat), NEW t \in Seq(Nat)
    PROVE  /\ s \o t \in Seq(Nat) /\ Els(s \o t) = Els(s) \cup Els(t)
           /\ Once(s) /\ Once(t) /\ (\A r \in Els(s) : r \notin Els(t)) => Once(s \o t)
  <1>1. PICK m \in Nat, n \in Nat : m = Len(s) /\ n = Len(t) OBVIOUS
  <1>2. PICK u : u = s \o t OBVIOUS
  <1>3. /\ Len(u) = m + n /\ (\A i \in 1..m : u[i] = s[i]) /\ \A i \in 1..n : u[m + i] = t[i]
    BY <1>1, <1>2
  <1>4. \A i \in 1..(m + n) : i \in 1..m \/ (i - m \in 1..n /\ m + (i - m) = i) BY <1>1
  <1>5. /\ \A i \in 1..m : i \in 1..(m + n)
        /\ \A i \in 1..n : m + i \in 1..(m + n)
    BY <1>1
  <1>6. \A i \in 1..(m + n) :
            \/ i \in 1..m /\ u[i] = s[i]
            \/ i - m \in 1..n /\ u[i] = t[i - m]
    <2> TAKE i \in 1..(m + n)
    <2>1. CASE i \in 1..m BY <1>3, <2>1
    <2>2. CASE i - m \in 1..n /\ m + (i - m) = i
      <3>1. u[m + (i - m)] = t[i - m] BY <1>3, <2>2
      <3> QED BY <2>2, <3>1
    <2> QED BY <1>4, <2>1, <2>2
  <1>7. Els(u) = Els(s) \cup Els(t)
    <2>1. ASSUME NEW r \in Els(u) PROVE r \in Els(s) \cup Els(t)
      <3>1. PICK i \in 1..(m + n) : r = u[i] BY <1>3 DEF Els
      <3> QED BY <1>1, <1>6, <3>1 DEF Els
    <2>2. ASSUME NEW r \in Els(s) PROVE r \in Els(u) BY <1>1, <1>3, <1>5 DEF Els
    <2>3. ASSUME NEW r \in Els(t) PROVE r \in Els(u)
      <3>1. PICK i \in 1..n : r = t[i] BY <1>1 DEF Els
      <3>2. u[m + i] = r /\ m + i \in 1..(m + n) BY <1>3, <1>5, <3>1
      <3> QED BY <1>3, <3>2 DEF Els
    <2> QED BY <2>1, <2>2, <2>3
  <1>8. ASSUME Once(s), Once(t), \A r \in Els(s) : r \notin Els(t) PROVE Once(u)
    <2>1. \A i \in 1..m : \A j \in 1..n : s[i] # t[j] BY <1>1, <1>8 DEF Els
    <2>2. \A i, j \in 1..m : s[i] = s[j] => i = j BY <1>1, <1>8 DEF Once
    <2>3. \A i, j \in 1..n : t[i] = t[j] => i = j BY <1>1, <1>8 DEF Once
    <2>4. \A i, j \in 1..(m + n) : i - m = j - m => i = j BY <1>1
    <2>5. ASSUME NEW i \in 1..(m + n), NEW j \in 1..(m + n), u[i] = u[j] PROVE i = j
      <3>1. \/ i \in 1..m /\ u[i] = s[i]
            \/ i - m \in 1..n /\ u[i] = t[i - m]
        BY <1>6
      <3>2. \/ j \in 1..m /\ u[j] = s[j]
            \/ j - m \in 1..n /\ u[j] = t[j - m]
        BY <1>6
      <3> QED BY <2>1, <2>2, <2>3, <2>4, <2>5, <3>1, <3>2
    <2> QED BY <1>3, <2>5 DEF Once
  <1> QED BY <1>2, <1>7, <1>8

(* A batch and the rest: nothing is lost, and a batch that is not full     *)
(* leaves none.                                                            *)
LEMMA CutEls ==
    ASSUME NEW s \in Seq(Nat), s # <<>>, MaxBatch \in Nat \ {0}, NEW g, g = Batching!Group(s), NEW rest, rest = Batching!Rest(s)
    PROVE  /\ g \in Seq(Nat) /\ rest \in Seq(Nat) /\ Els(s) = Els(g) \cup Els(rest)
           /\ Len(g) \in 1..MaxBatch /\ (Len(g) # MaxBatch => rest = <<>>)
           /\ Once(s) => Once(g) /\ Once(rest) /\ \A r \in Els(g) : r \notin Els(rest)
  <1>1. PICK n \in Nat, m \in Nat : n = Len(s) /\ m = MaxBatch /\ m >= 1 /\ n >= 1
    <2>1. Len(s) \in Nat /\ Len(s) # 0 OBVIOUS
    <2> QED BY <2>1
  <1>2. PICK k : k = Batching!Min({MaxBatch, Len(s)}) OBVIOUS
  <1>3. k \in 1..n /\ k <= m /\ (k = m \/ k = n)
    <2>1. \E x \in {m, n} : \A y \in {m, n} : x <= y
      <3>1. m <= n \/ n <= m BY <1>1
      <3>2. m <= m /\ n <= n BY <1>1
      <3> QED BY <3>1, <3>2
    <2>2. k \in {m, n} /\ \A y \in {m, n} : k <= y BY <1>1, <1>2, <2>1 DEF Batching!Min
    <2> QED BY <1>1, <2>2
  <1>4. g = SubSeq(s, 1, k) BY <1>2 DEF Batching!Group
  <1>5. g \in Seq(Nat) /\ Len(g) = k /\ \A i \in 1..k : g[i] = s[i] BY <1>1, <1>3, <1>4
  <1>6. CASE k = n
    <2>1. rest = <<>>
      <3>1. m + 1 > n BY <1>1, <1>3, <1>6
      <3> QED BY <1>1, <3>1 DEF Batching!Rest
    <2>2. Els(rest) = {} /\ Once(rest) /\ rest \in Seq(Nat)
      <3>1. Len(<<>>) = 0 /\ <<>> \in Seq(Nat) /\ \A i \in 1..0 : FALSE OBVIOUS
      <3> QED BY <2>1, <3>1 DEF Els, Once
    <2>3. Els(s) = Els(g) BY <1>1, <1>5, <1>6 DEF Els
    <2>4. Once(s) => Once(g) BY <1>1, <1>5, <1>6 DEF Once
    <2>5. Len(g) \in 1..MaxBatch BY <1>1, <1>3, <1>5
    <2> QED BY <1>5, <2>1, <2>2, <2>3, <2>4, <2>5
  <1>7. CASE k # n
    <2>1. k = m /\ m < n BY <1>1, <1>3, <1>7
    <2>2. rest = SubSeq(s, m + 1, n) BY <1>1 DEF Batching!Rest
    <2>3. rest \in Seq(Nat) /\ Len(rest) = n - m /\ \A i \in 1..(n - m) : rest[i] = s[m + i]
      <3>1. m + 1 \in 1..n /\ n - (m + 1) + 1 = n - m /\ n \in 1..n BY <1>1, <2>1
      <3>2. rest \in Seq(Nat) /\ Len(rest) = n - (m + 1) + 1 /\ \A i \in 1..(n - (m + 1) + 1) : rest[i] = s[(m + 1) + i - 1]
        BY <1>1, <2>2, <3>1
      <3>3. \A i \in 1..(n - m) : (m + 1) + i - 1 = m + i BY <1>1
      <3> QED BY <3>1, <3>2, <3>3
    <2>4. \A i \in 1..n : i \in 1..m \/ (i - m \in 1..(n - m) /\ m + (i - m) = i) BY <1>1
    <2>5. (\A i \in 1..m : i \in 1..n) /\ \A i \in 1..(n - m) : m + i \in 1..n BY <1>1, <2>1
    <2>6. Els(s) = Els(g) \cup Els(rest)
      <3>1. ASSUME NEW r \in Els(s) PROVE r \in Els(g) \cup Els(rest)
        <4>1. PICK i \in 1..n : r = s[i] BY <1>1 DEF Els
        <4>2. CASE i \in 1..m
          <5>1. g[i] = r BY <1>5, <2>1, <4>1, <4>2
          <5> QED BY <1>5, <2>1, <4>2, <5>1 DEF Els
        <4>3. CASE i - m \in 1..(n - m) /\ m + (i - m) = i
          <5>1. rest[i - m] = s[m + (i - m)] BY <2>3, <4>3
          <5> QED BY <2>3, <4>1, <4>3, <5>1 DEF Els
        <4> QED BY <2>4, <4>2, <4>3
      <3>2. ASSUME NEW r \in Els(g) PROVE r \in Els(s)
        <4>1. PICK i \in 1..m : r = g[i] BY <1>5, <2>1 DEF Els
        <4>2. r = s[i] /\ i \in 1..n BY <1>5, <2>1, <2>5, <4>1
        <4> QED BY <1>1, <4>2 DEF Els
      <3>3. ASSUME NEW r \in Els(rest) PROVE r \in Els(s)
        <4>1. PICK i \in 1..(n - m) : r = rest[i] BY <2>3 DEF Els
        <4>2. r = s[m + i] /\ m + i \in 1..n BY <2>3, <2>5, <4>1
        <4> QED BY <1>1, <4>2 DEF Els
      <3> QED BY <3>1, <3>2, <3>3
    <2>7. ASSUME Once(s) PROVE Once(g) /\ Once(rest) /\ \A r \in Els(g) : r \notin Els(rest)
      <3>1. \A i, j \in 1..n : s[i] = s[j] => i = j BY <1>1, <2>7 DEF Once
      <3>2. Once(g)
        <4>1. \A i, j \in 1..m : g[i] = g[j] => i = j BY <1>5, <2>1, <2>5, <3>1
        <4> QED BY <1>5, <2>1, <4>1 DEF Once
      <3>3. Once(rest)
        <4>1. \A i, j \in 1..(n - m) : m + i = m + j => i = j BY <1>1
        <4>2. \A i, j \in 1..(n - m) : rest[i] = rest[j] => i = j BY <2>3, <2>5, <3>1, <4>1
        <4> QED BY <2>3, <4>2 DEF Once
      <3>4. ASSUME NEW r \in Els(g), r \in Els(rest) PROVE FALSE
        <4>1. PICK i \in 1..m : r = g[i] BY <1>5, <2>1 DEF Els
        <4>2. PICK j \in 1..(n - m) : r = rest[j] BY <2>3, <3>4 DEF Els
        <4>3. r = s[i] /\ r = s[m + j] /\ i \in 1..n /\ m + j \in 1..n BY <1>5, <2>1, <2>3, <2>5, <4>1, <4>2
        <4>4. i = m + j BY <3>1, <4>3
        <4>5. i # m + j BY <1>1, <4>1, <4>2
        <4> QED BY <4>4, <4>5
      <3> QED BY <3>2, <3>3, <3>4
    <2>8. Len(g) = m /\ m \in 1..MaxBatch BY <1>1, <1>5, <2>1
    <2> QED BY <1>1, <1>5, <2>3, <2>6, <2>7, <2>8
  <1> QED BY <1>6, <1>7

(* Store x of A holds other rows in B, the others hold the same.           *)
Differ(A, B, x) == B \in [Stores -> Seq(Nat)] /\ Once(B[x]) /\ \A y \in Stores : y # x => B[y] = A[y]

(* A row is placed.                                                        *)
LEMMA PutKeeps ==
    ASSUME NEW tk, NEW n, NEW A, NEW R, NEW M, Partition(n, A, R, M), Placement(tk, A, M), Grouping(tk, A, M),
           NEW x \in Stores, NEW B, Differ(A, B, x), Els(B[x]) = Els(A[x]) \cup {n + 1},
           Belongs(tk, x, n + 1), M = {}, \A y \in Stores : y # x => \A q \in Els(A[y]) : Pos(tk[n + 1]) # Pos(tk[q])
    PROVE  Partition(n + 1, B, R, M) /\ Placement(tk, B, M) /\ Grouping(tk, B, M)
  <1>1. n \in Nat /\ n + 1 \in Nat /\ n + 1 \in 1..(n + 1) /\ n + 1 \notin 1..n BY DEF Partition
  <1>2. \A r \in 1..n : r \in 1..(n + 1) BY <1>1
  <1>3. \A r \in 1..(n + 1) : r \in 1..n \/ r = n + 1 BY <1>1
  <1>4. \A y \in Stores : \A r \in Els(A[y]) : r \in 1..n /\ r \notin R BY DEF Partition
  <1>5. \A y \in Stores : \A r \in Els(B[y]) : r \in Els(A[y]) \/ (y = x /\ r = n + 1) BY DEF Differ
  <1>6. R \subseteq 1..n BY DEF Partition
  <1>7. Partition(n + 1, B, R, M)
    <2>1. \A y \in Stores : Once(B[y]) /\ \A r \in Els(B[y]) : r \in 1..(n + 1) /\ r \notin R
      <3>1. \A y \in Stores : Once(B[y]) BY DEF Partition, Differ
      <3>2. n + 1 \notin R BY <1>1, <1>6
      <3>3. ASSUME NEW y \in Stores, NEW r \in Els(B[y]) PROVE r \in 1..(n + 1) /\ r \notin R
        <4>1. CASE r \in Els(A[y]) BY <1>2, <1>4, <4>1
        <4>2. CASE r = n + 1 BY <1>1, <3>2, <4>2
        <4> QED BY <1>5, <4>1, <4>2
      <3> QED BY <3>1, <3>3
    <2>2. \A y, z \in Stores : y # z => \A r \in Els(B[y]) : r \notin Els(B[z])
      BY <1>1, <1>4, <1>5 DEF Partition
    <2>3. \A r \in 1..(n + 1) : r \in R \/ (\E y \in Stores : r \in Els(B[y]))
      <3> TAKE r \in 1..(n + 1)
      <3>1. CASE r = n + 1 BY <3>1
      <3>2. CASE r \in 1..n
        <4>1. r \in R \/ (\E y \in Stores : r \in Els(A[y])) BY <3>2 DEF Partition
        <4> QED BY <4>1 DEF Differ
      <3> QED BY <1>3, <3>1, <3>2
    <2> QED BY <1>1, <1>2, <1>6, <2>1, <2>2, <2>3 DEF Partition, Differ
  <1>8. Placement(tk, B, M) BY <1>5 DEF Placement
  <1>9. Grouping(tk, B, M) BY <1>5 DEF Grouping, Apart
  <1> QED BY <1>7, <1>8, <1>9

(* A row without a token is reported.                                      *)
LEMMA ReportKeeps ==
    ASSUME NEW n, NEW A, NEW R, NEW M, Partition(n, A, R, M)
    PROVE  Partition(n + 1, A, R \cup {n + 1}, M)
  <1>1. n \in Nat /\ n + 1 \in Nat /\ n + 1 \in 1..(n + 1) /\ n + 1 \notin 1..n BY DEF Partition
  <1>2. \A r \in 1..n : r \in 1..(n + 1) BY <1>1
  <1>3. \A r \in 1..(n + 1) : r \in 1..n \/ r = n + 1 BY <1>1
  <1>4. \A y \in Stores : Once(A[y]) /\ \A r \in Els(A[y]) : r \in 1..(n + 1) /\ r \notin R \cup {n + 1}
    BY <1>1, <1>2 DEF Partition
  <1>5. \A b \in M : Once(b.rows) /\ \A r \in Els(b.rows) : r \in 1..(n + 1) /\ r \notin R \cup {n + 1}
    BY <1>1, <1>2 DEF Partition
  <1>6. \A r \in 1..(n + 1) : r \in R \cup {n + 1} \/ (\E x \in Stores : r \in Els(A[x])) \/ (\E b \in M : r \in Els(b.rows))
    BY <1>3 DEF Partition
  <1>7. R \cup {n + 1} \subseteq 1..(n + 1) /\ R \cup {n + 1} \subseteq Nat BY <1>1, <1>2 DEF Partition
  <1> QED BY <1>1, <1>4, <1>5, <1>6, <1>7 DEF Partition

(* A batch leaves its store.                                               *)
LEMMA SendKeeps ==
    ASSUME NEW tk, NEW n, NEW A, NEW R, NEW M, Partition(n, A, R, M), Placement(tk, A, M), Grouping(tk, A, M),
           NEW x \in Stores, NEW B, Differ(A, B, x), NEW b, b.rows \in Seq(Nat), Once(b.rows),
           Els(A[x]) = Els(b.rows) \cup Els(B[x]), \A r \in Els(b.rows) : r \notin Els(B[x]),
           Len(b.rows) \in 1..MaxBatch, Full(b) \/ Els(B[x]) = {},
           \A r \in Els(A[x]) : Belongs(tk, x, r) => b.hosts \subseteq Replicas[Pos(tk[r])]
    PROVE  Partition(n, B, R, M \cup {b}) /\ Placement(tk, B, M \cup {b}) /\ Grouping(tk, B, M \cup {b})
  <1>1. \A y \in Stores : \A r \in Els(B[y]) : r \in Els(A[y]) BY DEF Differ
  <1>2. \A r \in Els(b.rows) : r \in Els(A[x]) OBVIOUS
  <1>3. \A y \in Stores : Once(B[y]) BY DEF Differ, Partition
  <1>4. Partition(n, B, R, M \cup {b})
    <2>1. \A y \in Stores : \A r \in Els(B[y]) : r \in 1..n /\ r \notin R BY <1>1 DEF Partition
    <2>2. \A y, z \in Stores : y # z => \A r \in Els(B[y]) : r \notin Els(B[z]) BY <1>1 DEF Partition
    <2>3. \A d \in M \cup {b} : Once(d.rows) /\ d.rows \in Seq(Nat) /\ \A r \in Els(d.rows) : r \in 1..n /\ r \notin R
      BY <1>2 DEF Partition
    <2>4. \A d, e \in M \cup {b} : d # e => \A r \in Els(d.rows) : r \notin Els(e.rows) BY <1>2 DEF Partition
    <2>5. \A d \in M \cup {b} : \A y \in Stores : \A r \in Els(d.rows) : r \notin Els(B[y])
      <3>1. \A d \in M : \A y \in Stores : \A r \in Els(d.rows) : r \notin Els(B[y]) BY <1>1 DEF Partition
      <3>2. ASSUME NEW y \in Stores, NEW r \in Els(b.rows) PROVE r \notin Els(B[y])
        <4>1. CASE y = x BY <4>1
        <4>2. CASE y # x BY <1>1, <1>2, <4>2 DEF Partition
        <4> QED BY <4>1, <4>2
      <3> QED BY <3>1, <3>2
    <2>6. \A r \in 1..n : r \in R \/ (\E y \in Stores : r \in Els(B[y])) \/ (\E d \in M \cup {b} : r \in Els(d.rows))
      <3> TAKE r \in 1..n
      <3>1. r \in R \/ (\E y \in Stores : r \in Els(A[y])) \/ (\E d \in M : r \in Els(d.rows)) BY DEF Partition
      <3>2. \A y \in Stores : r \in Els(A[y]) => r \in Els(B[y]) \/ r \in Els(b.rows) BY DEF Differ
      <3> QED BY <3>1, <3>2
    <2>7. n \in Nat /\ R \subseteq Nat /\ R \subseteq 1..n /\ B \in [Stores -> Seq(Nat)] BY DEF Partition, Differ
    <2> QED BY <1>3, <2>1, <2>2, <2>3, <2>4, <2>5, <2>6, <2>7 DEF Partition
  <1>5. Placement(tk, B, M \cup {b})
    <2>1. \A r \in Els(b.rows) : tk[r] \in Tokens /\ b.hosts \subseteq Replicas[Pos(tk[r])]
      BY <1>2 DEF Placement, Belongs
    <2> QED BY <1>1, <2>1 DEF Placement
  <1>6. Grouping(tk, B, M \cup {b})
    <2>1. \A y, z \in Stores : y # z => Apart(tk, B[y], B[z]) BY <1>1 DEF Grouping, Apart
    <2>2. \A d \in M : Full(d) \/ Apart(tk, d.rows, A[x]) BY DEF Grouping
    <2>3. \A d \in M : Full(d) \/ (Apart(tk, d.rows, b.rows) /\ Apart(tk, b.rows, d.rows)) BY <1>2, <2>2 DEF Apart
    <2>4. \A d, e \in M \cup {b} : d # e => Full(d) \/ Full(e) \/ Apart(tk, d.rows, e.rows) BY <2>3 DEF Grouping
    <2>5. \A d \in M : Full(d) \/ \A y \in Stores : Apart(tk, d.rows, B[y]) BY <1>1 DEF Grouping, Apart
    <2>6. Full(b) \/ \A y \in Stores : Apart(tk, b.rows, B[y])
      <3>1. ASSUME Els(B[x]) = {}, NEW y \in Stores PROVE Apart(tk, b.rows, B[y])
        <4>1. CASE y = x BY <3>1, <4>1 DEF Apart
        <4>2. CASE y # x
          <5>1. Apart(tk, A[x], A[y]) BY <4>2 DEF Grouping
          <5> QED BY <1>1, <1>2, <5>1 DEF Apart
        <4> QED BY <4>1, <4>2
      <3> QED BY <3>1
    <2> QED BY <2>1, <2>4, <2>5, <2>6 DEF Grouping
  <1> QED BY <1>4, <1>5, <1>6

(* The rows of a position go to a host or to none.                         *)
Poured(tk, A, B, x, y) ==
    /\ x \in Stores /\ y \in Stores /\ x # y
    /\ B \in [Stores -> Seq(Nat)] /\ Once(B[x]) /\ Once(B[y])
    /\ \A z \in Stores : z # x /\ z # y => B[z] = A[z]
    /\ Els(B[x]) = {} /\ Els(B[y]) = Els(A[y]) \cup Els(A[x])
    /\ \A r \in Els(A[x]) : Belongs(tk, x, r) => Belongs(tk, y, r)

LEMMA PourKeeps ==
    ASSUME NEW tk, NEW n, NEW A, NEW R, NEW M, Partition(n, A, R, M), Placement(tk, A, M), Grouping(tk, A, M),
           NEW x, NEW y, NEW B, Poured(tk, A, B, x, y)
    PROVE  Partition(n, B, R, M) /\ Placement(tk, B, M) /\ Grouping(tk, B, M)
  <1> USE DEF Poured
  <1>1. \A z \in Stores : \A r \in Els(B[z]) : r \in Els(A[z]) \/ (z = y /\ r \in Els(A[x])) OBVIOUS
  <1>2. Els(B[x]) = {} OBVIOUS
  <1>3. Partition(n, B, R, M)
    <2>1. \A z \in Stores : Once(B[z]) /\ \A r \in Els(B[z]) : r \in 1..n /\ r \notin R BY <1>1 DEF Partition
    <2>2. \A u, v \in Stores : u # v => \A r \in Els(B[u]) : r \notin Els(B[v])
      BY <1>1, <1>2 DEF Partition
    <2>3. \A b \in M : \A z \in Stores : \A r \in Els(b.rows) : r \notin Els(B[z]) BY <1>1 DEF Partition
    <2>4. \A r \in 1..n : r \in R \/ (\E z \in Stores : r \in Els(B[z])) \/ (\E b \in M : r \in Els(b.rows))
      <3> TAKE r \in 1..n
      <3>1. r \in R \/ (\E z \in Stores : r \in Els(A[z])) \/ (\E b \in M : r \in Els(b.rows)) BY DEF Partition
      <3>2. \A z \in Stores : r \in Els(A[z]) => r \in Els(B[z]) \/ r \in Els(B[y]) OBVIOUS
      <3> QED BY <3>1, <3>2
    <2>5. \A b \in M : b.rows \in Seq(Nat) /\ Once(b.rows) /\ \A r \in Els(b.rows) : r \in 1..n /\ r \notin R
      BY DEF Partition
    <2>6. \A b, d \in M : b # d => \A r \in Els(b.rows) : r \notin Els(d.rows) BY DEF Partition
    <2>7. n \in Nat /\ R \subseteq Nat /\ R \subseteq 1..n BY DEF Partition
    <2> QED BY <2>1, <2>2, <2>3, <2>4, <2>5, <2>6, <2>7 DEF Partition
  <1>4. Placement(tk, B, M) BY <1>1 DEF Placement
  <1>5. Grouping(tk, B, M)
    <2>a. \A u, v \in Stores : u # v => \A r \in Els(A[u]) : \A q \in Els(A[v]) : Pos(tk[r]) # Pos(tk[q])
      BY DEF Grouping, Apart
    <2>1. ASSUME NEW u \in Stores, NEW v \in Stores, u # v, NEW r \in Els(B[u]), NEW q \in Els(B[v])
          PROVE  Pos(tk[r]) # Pos(tk[q])
      <3>1. u # x /\ v # x BY <1>2, <2>1
      <3>2. CASE u = y
        <4>1. q \in Els(A[v]) BY <1>1, <2>1, <3>2
        <4>2. r \in Els(A[u]) \/ r \in Els(A[x]) BY <1>1, <2>1
        <4> QED BY <2>1, <2>a, <3>1, <4>1, <4>2
      <3>3. CASE u # y
        <4>1. r \in Els(A[u]) BY <1>1, <2>1, <3>3
        <4>2. q \in Els(A[v]) \/ q \in Els(A[x]) BY <1>1, <2>1
        <4> QED BY <2>1, <2>a, <3>1, <4>1, <4>2
      <3> QED BY <3>2, <3>3
    <2>2. \A b \in M : Full(b) \/ \A z \in Stores : Apart(tk, b.rows, B[z]) BY <1>1 DEF Grouping, Apart
    <2> QED BY <2>1, <2>2 DEF Grouping, Apart
  <1> QED BY <1>3, <1>4, <1>5

Store(F, G) == [x \in Stores |-> IF x[1] = "pos" THEN F[x[2]] ELSE G[x[2]]]
Sorted(F, G, tk, R, M, n) ==
    Partition(n, Store(F, G), R, M) /\ Placement(tk, Store(F, G), M) /\ Grouping(tk, Store(F, G), M)
SplitTypes ==
    /\ tokens \in Seq(Tokens \cup {NoToken}) /\ next \in Nat /\ 1 <= next /\ next <= Len(tokens) + 1
    /\ byPos \in [Batching!Positions -> Seq(Nat)] /\ byReplica \in [Batching!Keys -> Seq(Nat)]
    /\ large \in Batching!Positions \cup {0} /\ (large # 0 => byPos[large] # <<>>)
    /\ next <= Len(tokens) => batches = {} /\ large = 0 /\ \A c \in Batching!Keys : byReplica[c] = <<>>
SplitInv == \E F, G, tk, R, M, n :
    /\ F = byPos /\ G = byReplica /\ tk = tokens /\ R = unplaced /\ M = batches /\ n = next - 1
    /\ Sorted(F, G, tk, R, M, n)

LEMMA RingFacts ==
    ASSUME Batching!BatchesAssumption
    PROVE  /\ Len(Ring) \in Nat /\ Len(Ring) >= 1 /\ Batching!Positions = 1..Len(Ring)
           /\ \A p \in Batching!Positions : Ring[p] \in Int /\ p \in Nat /\ p # 0 /\ Replicas[p] \subseteq Batching!Hosts
           /\ \A t \in Tokens : Pos(t) \in Batching!Positions
           /\ \A t \in Tokens : (\A p \in Batching!Positions : Ring[p] # t) => Batching!Owners(t) = Replicas[Pos(t)]
  <1>1. Ring \in Seq(Int) /\ Ring # <<>> /\ DOMAIN Replicas = Batching!Positions /\ Tokens \subseteq Int
    BY DEF Batching!BatchesAssumption
  <1>2. Len(Ring) \in Nat /\ Len(Ring) >= 1 /\ Batching!Positions = 1..Len(Ring) BY <1>1 DEF Batching!Positions
  <1>3. \A p \in Batching!Positions : Ring[p] \in Int /\ p \in Nat /\ p # 0 BY <1>1, <1>2
  <1>4. ASSUME NEW p \in Batching!Positions PROVE Replicas[p] \subseteq Batching!Hosts
    BY <1>1 DEF Batching!Hosts, Batching!ToSet
  <1>5. ASSUME NEW t \in Tokens PROVE Pos(t) \in Batching!Positions
    <2>1. PICK after : after = {p \in Batching!Positions : Ring[p] > t} OBVIOUS
    <2>2. Pos(t) = IF after = {} THEN 1 ELSE Batching!Min(after) BY <2>1 DEF Pos, Batching!GetRingPos
    <2>3. CASE after = {} BY <1>2, <2>2, <2>3
    <2>4. CASE after # {}
      <3>1. after \in SUBSET Nat BY <1>3, <2>1
      <3>2. \E x \in after : \A y \in after : x <= y BY <2>4, <3>1, Least
      <3>3. Batching!Min(after) \in after BY <3>2 DEF Batching!Min
      <3> QED BY <2>1, <2>2, <2>4, <3>3
    <2> QED BY <2>3, <2>4
  <1>6. ASSUME NEW t \in Tokens, \A p \in Batching!Positions : Ring[p] # t PROVE Batching!Owners(t) = Replicas[Pos(t)]
    <2>1. t \in Int BY <1>1
    <2>2. \A p \in Batching!Positions : Ring[p] > t <=> Ring[p] >= t BY <1>3, <1>6, <2>1
    <2>3. {p \in Batching!Positions : Ring[p] > t} = {p \in Batching!Positions : Ring[p] >= t} BY <2>2
    <2> QED BY <2>3 DEF Batching!Owners, Pos, Batching!GetRingPos
  <1> QED BY <1>2, <1>3, <1>4, <1>5, <1>6

IsStore(A, F, G) ==
    /\ A \in [Stores -> Seq(Nat)]
    /\ \A p \in Batching!Positions : <<"pos", p>> \in Stores /\ A[<<"pos", p>>] = F[p]
    /\ \A c \in Batching!Keys : <<"rep", c>> \in Stores /\ A[<<"rep", c>>] = G[c]
    /\ \A x \in Stores : (\E p \in Batching!Positions : x = <<"pos", p>>) \/ (\E c \in Batching!Keys : x = <<"rep", c>>)

LEMMA StoreIs ==
    ASSUME NEW F \in [Batching!Positions -> Seq(Nat)], NEW G \in [Batching!Keys -> Seq(Nat)], NEW A, A = Store(F, G)
    PROVE  IsStore(A, F, G)
  <1>1. \A x \in Stores : (\E p \in Batching!Positions : x = <<"pos", p>>) \/ (\E c \in Batching!Keys : x = <<"rep", c>>)
    BY DEF Stores
  <1>2. \A p \in Batching!Positions : <<"pos", p>> \in Stores /\ A[<<"pos", p>>] = F[p] BY DEF Stores, Store
  <1>3. \A c \in Batching!Keys : <<"rep", c>> \in Stores /\ A[<<"rep", c>>] = G[c] BY DEF Stores, Store
  <1>4. A = [x \in Stores |-> A[x]] BY DEF Store
  <1>5. \A x \in Stores : A[x] \in Seq(Nat) BY <1>1, <1>2, <1>3
  <1> QED BY <1>1, <1>2, <1>3, <1>4, <1>5 DEF IsStore

LEMMA NoEls == Els(<<>>) = {} /\ Once(<<>>) /\ <<>> \in Seq(Nat)
  <1>1. Len(<<>>) = 0 /\ (\A i \in 1..0 : FALSE) OBVIOUS
  <1> QED BY <1>1 DEF Els, Once

LEMMA PlaceRowKeeps ==
    ASSUME Batching!BatchesAssumption, SplitTypes, SplitInv, Batching!PlaceRow
    PROVE  SplitTypes' /\ SplitInv'
  <1>1. PICK F, G, tk, R, M, n :
            /\ F = byPos /\ G = byReplica /\ tk = tokens /\ R = unplaced /\ M = batches /\ n = next - 1
            /\ Sorted(F, G, tk, R, M, n)
    BY DEF SplitInv
  <1>2. /\ F \in [Batching!Positions -> Seq(Nat)] /\ G \in [Batching!Keys -> Seq(Nat)] /\ tk \in Seq(Tokens \cup {NoToken})
        /\ n \in Nat /\ n + 1 = next /\ n + 1 <= Len(tk)
    BY <1>1 DEF SplitTypes, Batching!PlaceRow
  <1>3. n + 1 \in 1..Len(tk) /\ Len(tk) \in Nat BY <1>2
  <1>4. PICK t \in Tokens : t = tk[n + 1]
    <2>1. tk[n + 1] \in Tokens \cup {NoToken} BY <1>2, <1>3
    <2>2. tk[n + 1] # NoToken BY <1>1, <1>2 DEF Batching!PlaceRow
    <2> QED BY <2>1, <2>2
  <1>5. PICK p \in Batching!Positions : p = Pos(t) BY RingFacts
  <1>6. PICK H : H = [F EXCEPT ![p] = Append(F[p], n + 1)] OBVIOUS
  <1>7. byPos' = H /\ next' = n + 2 /\ UNCHANGED <<tokens, large, byReplica, unplaced, batches>>
    <2>1. byPos' = [byPos EXCEPT ![Batching!GetRingPos(tokens[next])] = Append(@, next)] /\ next' = next + 1
          /\ UNCHANGED <<tokens, large, byReplica, unplaced, batches>>
      BY DEF Batching!PlaceRow
    <2>2. Batching!GetRingPos(tokens[next]) = p BY <1>1, <1>2, <1>4, <1>5 DEF Pos
    <2>3. next + 1 = n + 2 BY <1>2
    <2> QED BY <1>1, <1>2, <1>6, <2>1, <2>2, <2>3
  <1>8. F[p] \in Seq(Nat) /\ n + 1 \in Nat BY <1>2
  <1>9. /\ Append(F[p], n + 1) \in Seq(Nat) /\ Els(Append(F[p], n + 1)) = Els(F[p]) \cup {n + 1}
        /\ Once(F[p]) /\ n + 1 \notin Els(F[p]) => Once(Append(F[p], n + 1))
    BY <1>8, AppendEls
  <1>10. H \in [Batching!Positions -> Seq(Nat)] /\ H[p] = Append(F[p], n + 1)
         /\ \A q \in Batching!Positions : q # p => H[q] = F[q]
    BY <1>2, <1>6, <1>9
  <1>11. PICK A, B, x : A = Store(F, G) /\ B = Store(H, G) /\ x = <<"pos", p>> OBVIOUS
  <1>a. IsStore(A, F, G) /\ IsStore(B, H, G) BY <1>2, <1>10, <1>11, StoreIs
  <1>12. Partition(n, A, R, M) /\ Placement(tk, A, M) /\ Grouping(tk, A, M) BY <1>1, <1>11 DEF Sorted
  <1>13. /\ x \in Stores /\ A[x] = F[p] /\ B[x] = H[p] /\ B \in [Stores -> Seq(Nat)] BY <1>11, <1>a DEF IsStore
  <1>14. M = {} /\ large = 0 /\ \A c \in Batching!Keys : G[c] = <<>>
    BY <1>1, <1>2 DEF SplitTypes
  <1>15. Differ(A, B, x)
    <2>1. \A y \in Stores : y # x => B[y] = A[y]
      <3> TAKE y \in Stores
      <3>1. CASE \E q \in Batching!Positions : y = <<"pos", q>>
        <4>1. PICK q \in Batching!Positions : y = <<"pos", q>> BY <3>1
        <4>2. A[y] = F[q] /\ B[y] = H[q] BY <1>a, <4>1 DEF IsStore
        <4>3. y # x => q # p BY <1>11, <4>1
        <4> QED BY <1>10, <4>2, <4>3
      <3>2. CASE \E c \in Batching!Keys : y = <<"rep", c>>
        <4>1. PICK c \in Batching!Keys : y = <<"rep", c>> BY <3>2
        <4>2. A[y] = G[c] /\ B[y] = G[c] BY <1>a, <4>1 DEF IsStore
        <4> QED BY <4>2
      <3> QED BY <1>a, <3>1, <3>2 DEF IsStore
    <2>2. Once(B[x])
      <3>1. Once(A[x]) /\ \A r \in Els(A[x]) : r \in 1..n BY <1>12, <1>13 DEF Partition
      <3>2. n + 1 \notin 1..n BY <1>2
      <3> QED BY <1>9, <1>10, <1>13, <3>1, <3>2
    <2> QED BY <1>13, <2>1, <2>2 DEF Differ
  <1>16. Belongs(tk, x, n + 1)
    <2>1. x[1] = "pos" /\ x[2] = p BY <1>11
    <2> QED BY <1>4, <1>5, <2>1 DEF Belongs
  <1>17. ASSUME NEW y \in Stores, y # x, NEW q \in Els(A[y]) PROVE Pos(tk[n + 1]) # Pos(tk[q])
    <2>1. CASE \E c \in Batching!Positions : y = <<"pos", c>>
      <3>1. PICK c \in Batching!Positions : y = <<"pos", c>> BY <2>1
      <3>2. c # p /\ y[1] = "pos" /\ y[2] = c BY <1>11, <1>17, <3>1
      <3>3. Pos(tk[q]) = c BY <1>12, <1>17, <3>2 DEF Placement, Belongs
      <3> QED BY <1>4, <1>5, <3>2, <3>3
    <2>2. CASE \E c \in Batching!Keys : y = <<"rep", c>>
      <3>1. A[y] = <<>> BY <1>a, <1>14, <2>2 DEF IsStore
      <3> QED BY <1>17, <3>1, NoEls
    <2> QED BY <1>a, <2>1, <2>2 DEF IsStore
  <1>18. Els(B[x]) = Els(A[x]) \cup {n + 1} BY <1>9, <1>10, <1>13
  <1>19. Partition(n + 1, B, R, M) /\ Placement(tk, B, M) /\ Grouping(tk, B, M)
    BY <1>12, <1>13, <1>14, <1>15, <1>16, <1>17, <1>18, PutKeeps
  <1>20. Sorted(H, G, tk, R, M, n + 1) BY <1>11, <1>19 DEF Sorted
  <1>21. SplitInv'
    <2>1. n + 1 = next' - 1 BY <1>2, <1>7
    <2> QED BY <1>1, <1>7, <1>20, <2>1 DEF SplitInv
  <1>22. SplitTypes'
    <2>1. next' \in Nat /\ 1 <= next' /\ next' <= Len(tokens') + 1 BY <1>1, <1>2, <1>3, <1>7
    <2> QED BY <1>1, <1>2, <1>7, <1>10, <1>14, <2>1 DEF SplitTypes
  <1> QED BY <1>21, <1>22

LEMMA ReportRowKeeps ==
    ASSUME Batching!BatchesAssumption, SplitTypes, SplitInv, Batching!ReportRow
    PROVE  SplitTypes' /\ SplitInv'
  <1>1. PICK F, G, tk, R, M, n :
            /\ F = byPos /\ G = byReplica /\ tk = tokens /\ R = unplaced /\ M = batches /\ n = next - 1
            /\ Sorted(F, G, tk, R, M, n)
    BY DEF SplitInv
  <1>2. n \in Nat /\ n + 1 = next /\ n + 1 <= Len(tk) /\ Len(tk) \in Nat BY <1>1 DEF SplitTypes, Batching!ReportRow
  <1>3. /\ unplaced' = unplaced \cup {next} /\ next' = next + 1
        /\ UNCHANGED <<tokens, byPos, large, byReplica, batches>>
    BY DEF Batching!ReportRow
  <1>4. Partition(n, Store(F, G), R, M) BY <1>1 DEF Sorted
  <1>5. Partition(n + 1, Store(F, G), R \cup {n + 1}, M) BY <1>4, ReportKeeps
  <1>6. Sorted(F, G, tk, R \cup {n + 1}, M, n + 1) BY <1>1, <1>5 DEF Sorted
  <1>7. unplaced' = R \cup {n + 1} /\ n + 1 = next' - 1 BY <1>1, <1>2, <1>3
  <1>8. SplitInv' BY <1>1, <1>3, <1>6, <1>7 DEF SplitInv
  <1>9. next' \in Nat /\ 1 <= next' /\ next' <= Len(tokens') + 1 BY <1>1, <1>2, <1>3
  <1>10. next <= Len(tokens) BY <1>1, <1>2
  <1> QED BY <1>3, <1>8, <1>9, <1>10 DEF SplitTypes

(* A batch of a store, and what is left of it.                             *)
Cut(F, G, H, K, tk, x, s, hosts) ==
    /\ F \in [Batching!Positions -> Seq(Nat)] /\ G \in [Batching!Keys -> Seq(Nat)]
    /\ H \in [Batching!Positions -> Seq(Nat)] /\ K \in [Batching!Keys -> Seq(Nat)]
    /\ x \in Stores /\ s = Store(F, G)[x] /\ s # <<>>
    /\ Store(H, K)[x] = Batching!Rest(s) /\ \A y \in Stores : y # x => Store(H, K)[y] = Store(F, G)[y]
    /\ \A r \in Els(s) : Belongs(tk, x, r) => hosts \subseteq Replicas[Pos(tk[r])]

LEMMA SendFrom ==
    ASSUME MaxBatch \in Nat \ {0}, NEW F, NEW G, NEW H, NEW K, NEW tk, NEW R, NEW M, NEW n, NEW x, NEW s, NEW hosts,
           Sorted(F, G, tk, R, M, n), Cut(F, G, H, K, tk, x, s, hosts),
           NEW b, b = [hosts |-> hosts, rows |-> Batching!Group(s)]
    PROVE  Sorted(H, K, tk, R, M \cup {b}, n)
  <1> USE DEF Cut
  <1>1. PICK A, B : A = Store(F, G) /\ B = Store(H, K) OBVIOUS
  <1>2. IsStore(A, F, G) /\ IsStore(B, H, K) BY <1>1, StoreIs
  <1>3. Partition(n, A, R, M) /\ Placement(tk, A, M) /\ Grouping(tk, A, M) BY <1>1 DEF Sorted
  <1>4. s \in Seq(Nat) /\ Once(s) /\ A[x] = s /\ B \in [Stores -> Seq(Nat)]
    BY <1>1, <1>2, <1>3 DEF IsStore, Partition
  <1>5. PICK g, rest : g = Batching!Group(s) /\ rest = Batching!Rest(s) OBVIOUS
  <1>6. /\ g \in Seq(Nat) /\ rest \in Seq(Nat) /\ Els(s) = Els(g) \cup Els(rest)
        /\ Len(g) \in 1..MaxBatch /\ (Len(g) # MaxBatch => rest = <<>>)
        /\ Once(s) => Once(g) /\ Once(rest) /\ \A r \in Els(g) : r \notin Els(rest)
    BY <1>4, <1>5, CutEls
  <1>7. b.rows = g /\ b.hosts = hosts /\ B[x] = rest BY <1>1, <1>5
  <1>8. Differ(A, B, x) BY <1>1, <1>4, <1>6, <1>7 DEF Differ
  <1>9. Full(b) \/ Els(B[x]) = {} BY <1>6, <1>7, NoEls DEF Full
  <1>10. Partition(n, B, R, M \cup {b}) /\ Placement(tk, B, M \cup {b}) /\ Grouping(tk, B, M \cup {b})
    <2>1. b.rows \in Seq(Nat) /\ Once(b.rows) /\ Len(b.rows) \in 1..MaxBatch BY <1>4, <1>6, <1>7
    <2>2. Els(A[x]) = Els(b.rows) \cup Els(B[x]) /\ \A r \in Els(b.rows) : r \notin Els(B[x]) BY <1>4, <1>6, <1>7
    <2>3. \A r \in Els(A[x]) : Belongs(tk, x, r) => b.hosts \subseteq Replicas[Pos(tk[r])] BY <1>4, <1>7
    <2> QED BY <1>3, <1>8, <1>9, <2>1, <2>2, <2>3, SendKeeps
  <1> QED BY <1>1, <1>10 DEF Sorted

LEMMA SendLargeKeeps ==
    ASSUME Batching!BatchesAssumption, SplitTypes, SplitInv, Batching!SendLarge
    PROVE  SplitTypes' /\ SplitInv'
  <1>1. PICK F, G, tk, R, M, n :
            /\ F = byPos /\ G = byReplica /\ tk = tokens /\ R = unplaced /\ M = batches /\ n = next - 1
            /\ Sorted(F, G, tk, R, M, n)
    BY DEF SplitInv
  <1>2. PICK p \in Batching!Positions : p = large /\ F[p] # <<>> BY <1>1 DEF SplitTypes, Batching!SendLarge
  <1>3. PICK s, hosts, b, H : /\ s = F[p] /\ hosts = Batching!FilterReplicas(p)
                              /\ b = [hosts |-> hosts, rows |-> Batching!Group(s)]
                              /\ H = [F EXCEPT ![p] = Batching!Rest(s)]
    OBVIOUS
  <1>4. F \in [Batching!Positions -> Seq(Nat)] /\ G \in [Batching!Keys -> Seq(Nat)] BY <1>1 DEF SplitTypes
  <1>5. MaxBatch \in Nat \ {0} BY DEF Batching!BatchesAssumption
  <1>6. s \in Seq(Nat) /\ s # <<>> BY <1>2, <1>3, <1>4
  <1>7. Batching!Rest(s) \in Seq(Nat) BY <1>5, <1>6, CutEls
  <1>8. /\ H \in [Batching!Positions -> Seq(Nat)] /\ H[p] = Batching!Rest(s)
        /\ \A q \in Batching!Positions : q # p => H[q] = F[q]
    BY <1>3, <1>4, <1>7
  <1>9. batches' = M \cup {b} /\ byPos' = H /\ large' = (IF H[p] = <<>> THEN 0 ELSE p)
        /\ UNCHANGED <<tokens, next, byReplica, unplaced>>
    <2>1. /\ batches' = batches \cup {[hosts |-> Batching!FilterReplicas(large), rows |-> Batching!Group(byPos[large])]}
          /\ byPos' = [byPos EXCEPT ![large] = Batching!Rest(@)]
          /\ large' = IF byPos'[large] = <<>> THEN 0 ELSE large
          /\ UNCHANGED <<tokens, next, byReplica, unplaced>>
      BY DEF Batching!SendLarge
    <2>2. byPos' = H BY <1>1, <1>2, <1>3, <2>1
    <2>3. batches' = M \cup {b} BY <1>1, <1>2, <1>3, <2>1
    <2> QED BY <1>2, <2>1, <2>2, <2>3
  <1>10. PICK A, B, x : A = Store(F, G) /\ B = Store(H, G) /\ x = <<"pos", p>> OBVIOUS
  <1>11. IsStore(A, F, G) /\ IsStore(B, H, G) BY <1>4, <1>8, <1>10, StoreIs
  <1>12. x \in Stores /\ A[x] = s /\ B[x] = Batching!Rest(s) BY <1>3, <1>8, <1>10, <1>11 DEF IsStore
  <1>13. \A y \in Stores : y # x => B[y] = A[y]
    <2> TAKE y \in Stores
    <2>1. CASE \E q \in Batching!Positions : y = <<"pos", q>>
      <3>1. PICK q \in Batching!Positions : y = <<"pos", q>> BY <2>1
      <3>2. A[y] = F[q] /\ B[y] = H[q] BY <1>11, <3>1 DEF IsStore
      <3>3. y # x => q # p BY <1>10, <3>1
      <3> QED BY <1>8, <3>2, <3>3
    <2>2. CASE \E c \in Batching!Keys : y = <<"rep", c>>
      <3>1. PICK c \in Batching!Keys : y = <<"rep", c>> BY <2>2
      <3>2. A[y] = G[c] /\ B[y] = G[c] BY <1>11, <3>1 DEF IsStore
      <3> QED BY <3>2
    <2> QED BY <1>11, <2>1, <2>2 DEF IsStore
  <1>14. \A r \in Els(s) : Belongs(tk, x, r) => hosts \subseteq Replicas[Pos(tk[r])]
    <2>1. x[1] = "pos" /\ x[2] = p BY <1>10
    <2>2. hosts \subseteq Replicas[p] BY <1>3 DEF Batching!FilterReplicas
    <2> QED BY <2>1, <2>2 DEF Belongs
  <1>15. Sorted(H, G, tk, R, M \cup {b}, n)
    <2>1. s = Store(F, G)[x] /\ Store(H, G)[x] = Batching!Rest(s)
          /\ \A y \in Stores : y # x => Store(H, G)[y] = Store(F, G)[y]
      BY <1>10, <1>12, <1>13
    <2>2. Cut(F, G, H, G, tk, x, s, hosts) BY <1>4, <1>6, <1>8, <1>12, <1>14, <2>1 DEF Cut
    <2> QED BY <1>1, <1>3, <1>5, <2>2, SendFrom
  <1>16. SplitInv' BY <1>1, <1>9, <1>15 DEF SplitInv
  <1>17. SplitTypes'
    <2>1. ~(next <= Len(tokens)) BY <1>2, RingFacts DEF SplitTypes
    <2>2. large' \in Batching!Positions \cup {0} /\ (large' # 0 => byPos'[large'] # <<>>) BY <1>2, <1>9
    <2> QED BY <1>8, <1>9, <2>1, <2>2 DEF SplitTypes
  <1> QED BY <1>16, <1>17

LEMMA SendByReplicaKeeps ==
    ASSUME Batching!BatchesAssumption, SplitTypes, SplitInv, NEW c \in Batching!Keys, Batching!SendByReplica(c)
    PROVE  SplitTypes' /\ SplitInv'
  <1>1. PICK F, G, tk, R, M, n :
            /\ F = byPos /\ G = byReplica /\ tk = tokens /\ R = unplaced /\ M = batches /\ n = next - 1
            /\ Sorted(F, G, tk, R, M, n)
    BY DEF SplitInv
  <1>3. PICK s, b, K : /\ s = G[c] /\ b = [hosts |-> c, rows |-> Batching!Group(s)]
                       /\ K = [G EXCEPT ![c] = Batching!Rest(s)]
    OBVIOUS
  <1>4. F \in [Batching!Positions -> Seq(Nat)] /\ G \in [Batching!Keys -> Seq(Nat)] BY <1>1 DEF SplitTypes
  <1>5. MaxBatch \in Nat \ {0} BY DEF Batching!BatchesAssumption
  <1>6. s \in Seq(Nat) /\ s # <<>> BY <1>1, <1>3, <1>4 DEF Batching!SendByReplica
  <1>7. Batching!Rest(s) \in Seq(Nat) BY <1>5, <1>6, CutEls
  <1>8. /\ K \in [Batching!Keys -> Seq(Nat)] /\ K[c] = Batching!Rest(s)
        /\ \A d \in Batching!Keys : d # c => K[d] = G[d]
    BY <1>3, <1>4, <1>7
  <1>9. batches' = M \cup {b} /\ byReplica' = K /\ UNCHANGED <<tokens, next, byPos, large, unplaced>>
    BY <1>1, <1>3 DEF Batching!SendByReplica
  <1>10. PICK A, B, x : A = Store(F, G) /\ B = Store(F, K) /\ x = <<"rep", c>> OBVIOUS
  <1>11. IsStore(A, F, G) /\ IsStore(B, F, K) BY <1>4, <1>8, <1>10, StoreIs
  <1>12. x \in Stores /\ A[x] = s /\ B[x] = Batching!Rest(s) BY <1>3, <1>8, <1>10, <1>11 DEF IsStore
  <1>13. \A y \in Stores : y # x => B[y] = A[y]
    <2> TAKE y \in Stores
    <2>1. CASE \E q \in Batching!Positions : y = <<"pos", q>> BY <1>11, <2>1 DEF IsStore
    <2>2. CASE \E d \in Batching!Keys : y = <<"rep", d>>
      <3>1. PICK d \in Batching!Keys : y = <<"rep", d>> BY <2>2
      <3>2. A[y] = G[d] /\ B[y] = K[d] BY <1>11, <3>1 DEF IsStore
      <3>3. y # x => d # c BY <1>10, <3>1
      <3> QED BY <1>8, <3>2, <3>3
    <2> QED BY <1>11, <2>1, <2>2 DEF IsStore
  <1>14. \A r \in Els(s) : Belongs(tk, x, r) => c \subseteq Replicas[Pos(tk[r])]
    <2>1. x[1] = "rep" /\ x[2] = c BY <1>10
    <2> QED BY <2>1 DEF Belongs
  <1>15. Sorted(F, K, tk, R, M \cup {b}, n)
    <2>1. s = Store(F, G)[x] /\ Store(F, K)[x] = Batching!Rest(s)
          /\ \A y \in Stores : y # x => Store(F, K)[y] = Store(F, G)[y]
      BY <1>10, <1>12, <1>13
    <2>2. Cut(F, G, F, K, tk, x, s, c) BY <1>4, <1>6, <1>8, <1>12, <1>14, <2>1 DEF Cut
    <2> QED BY <1>1, <1>3, <1>5, <2>2, SendFrom
  <1>16. SplitInv' BY <1>1, <1>9, <1>15 DEF SplitInv
  <1>17. SplitTypes'
    <2>1. ~(next <= Len(tokens))
      <3>1. Batching!Placed BY DEF Batching!SendByReplica
      <3> QED BY <3>1 DEF Batching!Placed, SplitTypes
    <2> QED BY <1>8, <1>9, <2>1 DEF SplitTypes
  <1> QED BY <1>16, <1>17

LEMMA AddToReplicaKeeps ==
    ASSUME Batching!BatchesAssumption, SplitTypes, SplitInv, NEW p \in Batching!Positions, Batching!AddToReplica(p)
    PROVE  SplitTypes' /\ SplitInv'
  <1>1. PICK F, G, tk, R, M, n :
            /\ F = byPos /\ G = byReplica /\ tk = tokens /\ R = unplaced /\ M = batches /\ n = next - 1
            /\ Sorted(F, G, tk, R, M, n)
    BY DEF SplitInv
  <1>2. PICK c \in Batching!FirstReplica(p) : byReplica' = [byReplica EXCEPT ![c] = @ \o byPos[p]]
    BY DEF Batching!AddToReplica
  <1>3. c \subseteq Replicas[p] /\ c \in Batching!Keys
    <2>1. CASE Batching!FilterReplicas(p) = {}
      <3>1. c = {} BY <1>2, <2>1 DEF Batching!FirstReplica
      <3> QED BY <3>1 DEF Batching!Keys
    <2>2. CASE Batching!FilterReplicas(p) # {}
      <3>1. PICK h \in Batching!FilterReplicas(p) : c = {h} BY <1>2, <2>2 DEF Batching!FirstReplica
      <3>2. h \in Replicas[p] /\ h \in Batching!Hosts BY RingFacts DEF Batching!FilterReplicas
      <3> QED BY <3>1, <3>2 DEF Batching!Keys
    <2> QED BY <2>1, <2>2
  <1>4. F \in [Batching!Positions -> Seq(Nat)] /\ G \in [Batching!Keys -> Seq(Nat)] BY <1>1 DEF SplitTypes
  <1>5. PICK s \in Seq(Nat), t \in Seq(Nat) : s = F[p] /\ t = G[c] BY <1>3, <1>4
  <1>6. PICK H, K : H = [F EXCEPT ![p] = <<>>] /\ K = [G EXCEPT ![c] = t \o s] OBVIOUS
  <1>7. t \o s \in Seq(Nat) /\ Els(t \o s) = Els(t) \cup Els(s)
        /\ (Once(t) /\ Once(s) /\ (\A r \in Els(t) : r \notin Els(s)) => Once(t \o s))
    BY ConcatEls
  <1>8. /\ H \in [Batching!Positions -> Seq(Nat)] /\ H[p] = <<>>
        /\ \A q \in Batching!Positions : q # p => H[q] = F[q]
    BY <1>4, <1>6, NoEls
  <1>9. /\ K \in [Batching!Keys -> Seq(Nat)] /\ K[c] = t \o s
        /\ \A d \in Batching!Keys : d # c => K[d] = G[d]
    BY <1>3, <1>4, <1>6, <1>7
  <1>10. byPos' = H /\ byReplica' = K /\ large = 0 /\ UNCHANGED <<tokens, next, large, unplaced, batches>>
    <2>1. byPos' = [byPos EXCEPT ![p] = <<>>] /\ large = 0 /\ UNCHANGED <<tokens, next, large, unplaced, batches>>
      BY DEF Batching!AddToReplica
    <2>2. byReplica' = K BY <1>1, <1>2, <1>5, <1>6
    <2> QED BY <1>1, <1>6, <2>1, <2>2
  <1>11. PICK A, B, x, y : A = Store(F, G) /\ B = Store(H, K) /\ x = <<"pos", p>> /\ y = <<"rep", c>> OBVIOUS
  <1>12. IsStore(A, F, G) /\ IsStore(B, H, K) BY <1>4, <1>8, <1>9, <1>11, StoreIs
  <1>13. /\ x \in Stores /\ y \in Stores /\ A[x] = s /\ A[y] = t /\ B[x] = <<>> /\ B[y] = t \o s
         /\ B \in [Stores -> Seq(Nat)]
    BY <1>3, <1>5, <1>8, <1>9, <1>11, <1>12 DEF IsStore
  <1>14. x # y
    <2>1. x[1] = "pos" /\ y[1] = "rep" BY <1>11
    <2> QED BY <2>1
  <1>15. Partition(n, A, R, M) /\ Placement(tk, A, M) /\ Grouping(tk, A, M) BY <1>1, <1>11 DEF Sorted
  <1>16. \A z \in Stores : z # x /\ z # y => B[z] = A[z]
    <2> TAKE z \in Stores
    <2>1. CASE \E q \in Batching!Positions : z = <<"pos", q>>
      <3>1. PICK q \in Batching!Positions : z = <<"pos", q>> BY <2>1
      <3>2. A[z] = F[q] /\ B[z] = H[q] BY <1>12, <3>1 DEF IsStore
      <3>3. z # x => q # p BY <1>11, <3>1
      <3> QED BY <1>8, <3>2, <3>3
    <2>2. CASE \E d \in Batching!Keys : z = <<"rep", d>>
      <3>1. PICK d \in Batching!Keys : z = <<"rep", d>> BY <2>2
      <3>2. A[z] = G[d] /\ B[z] = K[d] BY <1>12, <3>1 DEF IsStore
      <3>3. z # y => d # c BY <1>11, <3>1
      <3> QED BY <1>9, <3>2, <3>3
    <2> QED BY <1>12, <2>1, <2>2 DEF IsStore
  <1>17. Once(B[y])
    <2>1. Once(s) /\ Once(t) /\ \A r \in Els(t) : r \notin Els(s) BY <1>13, <1>14, <1>15 DEF Partition
    <2> QED BY <1>7, <1>13, <2>1
  <1>18. \A r \in Els(A[x]) : Belongs(tk, x, r) => Belongs(tk, y, r)
    <2>1. x[1] = "pos" /\ x[2] = p /\ y[1] = "rep" /\ y[2] = c BY <1>11
    <2> QED BY <1>3, <2>1 DEF Belongs
  <1>19. Partition(n, B, R, M) /\ Placement(tk, B, M) /\ Grouping(tk, B, M)
    <2>1. Once(B[x]) /\ Els(B[x]) = {} /\ Els(B[y]) = Els(A[y]) \cup Els(A[x]) BY <1>7, <1>13, NoEls
    <2>2. Poured(tk, A, B, x, y) BY <1>13, <1>14, <1>16, <1>17, <1>18, <2>1 DEF Poured
    <2> QED BY <1>15, <2>2, PourKeeps
  <1>20. Sorted(H, K, tk, R, M, n) BY <1>11, <1>19 DEF Sorted
  <1>21. SplitInv' BY <1>1, <1>10, <1>20 DEF SplitInv
  <1>22. SplitTypes'
    <2>1. ~(next <= Len(tokens))
      <3>1. Batching!Placed BY DEF Batching!AddToReplica
      <3> QED BY <3>1 DEF Batching!Placed, SplitTypes
    <2> QED BY <1>8, <1>9, <1>10, <2>1 DEF SplitTypes
  <1> QED BY <1>21, <1>22

LEMMA SplitStart ==
    ASSUME Batching!BatchesAssumption, Batching!Init
    PROVE  SplitTypes /\ SplitInv
  <1>1. PICK m \in 1..ChunkRows : tokens \in [1..m -> Tokens \cup {NoToken}] BY DEF Batching!Init
  <1>2. tokens \in Seq(Tokens \cup {NoToken}) /\ Len(tokens) \in Nat
    <2>1. m \in Nat BY <1>1 DEF Batching!BatchesAssumption
    <2> QED BY <1>1, <2>1
  <1>3. PICK F, G : F = [p \in Batching!Positions |-> <<>>] /\ G = [c \in Batching!Keys |-> <<>>] OBVIOUS
  <1>4. byPos = F /\ byReplica = G /\ next = 1 /\ large = 0 /\ unplaced = {} /\ batches = {}
    BY <1>3 DEF Batching!Init
  <1>5. F \in [Batching!Positions -> Seq(Nat)] /\ G \in [Batching!Keys -> Seq(Nat)] BY <1>3, NoEls
  <1>6. SplitTypes
    <2>1. 1 \in Nat /\ 1 <= 1 /\ 1 <= Len(tokens) + 1 BY <1>2
    <2>2. \A c \in Batching!Keys : G[c] = <<>> BY <1>3
    <2> QED BY <1>2, <1>4, <1>5, <2>1, <2>2 DEF SplitTypes
  <1>7. PICK A, tk : A = Store(F, G) /\ tk = tokens OBVIOUS
  <1>8. IsStore(A, F, G) BY <1>5, <1>7, StoreIs
  <1>9. \A x \in Stores : A[x] = <<>> BY <1>3, <1>8 DEF IsStore
  <1>10. \A x \in Stores : Els(A[x]) = {} /\ Once(A[x]) BY <1>9, NoEls
  <1>11. (\A r \in 1..0 : FALSE) /\ 0 \in Nat OBVIOUS
  <1>12. Partition(0, A, {}, {}) BY <1>8, <1>10, <1>11 DEF Partition, IsStore
  <1>13. Placement(tk, A, {}) /\ Grouping(tk, A, {}) BY <1>10 DEF Placement, Grouping, Apart
  <1>14. Sorted(F, G, tk, {}, {}, 0) BY <1>7, <1>12, <1>13 DEF Sorted
  <1>15. 0 = next - 1 BY <1>4
  <1>16. SplitInv BY <1>4, <1>7, <1>14, <1>15 DEF SplitInv
  <1> QED BY <1>6, <1>16

LEMMA SplitNext ==
    ASSUME Batching!BatchesAssumption, SplitTypes, SplitInv, [Batching!Next]_Batching!vars
    PROVE  SplitTypes' /\ SplitInv'
  <1>1. ASSUME UNCHANGED <<tokens, next, byPos, byReplica, unplaced, batches>>,
               UNCHANGED large \/ (next > Len(tokens) /\ large' \in Batching!Positions /\ byPos[large'] # <<>>)
        PROVE  SplitTypes' /\ SplitInv'
    <2>1. SplitInv' BY <1>1 DEF SplitInv
    <2>2. SplitTypes' BY <1>1 DEF SplitTypes
    <2> QED BY <2>1, <2>2
  <1>2. CASE \E p \in Batching!Positions : Batching!TakeLarge(p)
    <2>1. PICK p \in Batching!Positions : Batching!TakeLarge(p) BY <1>2
    <2>2. next > Len(tokens) /\ large' = p /\ byPos[p] # <<>> /\ UNCHANGED <<tokens, next, byPos, byReplica, unplaced, batches>>
      BY <2>1 DEF Batching!TakeLarge, Batching!Placed, Batching!Waiting
    <2> QED BY <1>1, <2>2
  <1>3. CASE \E h \in Batching!Hosts : Batching!Change(h) BY <1>1, <1>3 DEF Batching!Change
  <1>4. CASE UNCHANGED Batching!vars BY <1>1, <1>4 DEF Batching!vars
  <1>5. CASE Batching!PlaceRow BY <1>5, PlaceRowKeeps
  <1>6. CASE Batching!ReportRow BY <1>6, ReportRowKeeps
  <1>7. CASE Batching!SendLarge BY <1>7, SendLargeKeeps
  <1>8. CASE \E p \in Batching!Positions : Batching!AddToReplica(p) BY <1>8, AddToReplicaKeeps
  <1>9. CASE \E c \in Batching!Keys : Batching!SendByReplica(c) BY <1>9, SendByReplicaKeeps
  <1> QED BY <1>2, <1>3, <1>4, <1>5, <1>6, <1>7, <1>8, <1>9 DEF Batching!Next

LEMMA SplitAlways ==
    ASSUME Batching!BatchesAssumption
    PROVE  Batching!Spec => [](SplitTypes /\ SplitInv)
  <1>1. Batching!Init => SplitTypes /\ SplitInv BY SplitStart
  <1>2. SplitTypes /\ SplitInv /\ [Batching!Next]_Batching!vars => (SplitTypes /\ SplitInv)' BY SplitNext
  <1> QED BY <1>1, <1>2, PTL DEF Batching!Spec

LEMMA SeqFacts ==
    ASSUME NEW s \in Seq(Nat)
    PROVE  Batching!ToSet(s) = Els(s) /\ (Once(s) => Batching!IsInjective(s))
  <1>1. DOMAIN s = 1..Len(s) OBVIOUS
  <1> QED BY <1>1 DEF Batching!ToSet, Els, Once, Batching!IsInjective

(* However the rows fall on the ring and whichever hosts go down and come  *)
(* back between the batches: each row is in one batch, or reported; none   *)
(* is sent twice or left out (ImportConversion's split_into_batches).      *)
THEOREM RowsInOneBatch ==
    ASSUME Batching!BatchesAssumption
    PROVE  Batching!Spec => []Batching!RowsPartitioned
  <1>1. SplitTypes /\ SplitInv => Batching!RowsPartitioned
    <2> SUFFICES ASSUME SplitTypes, SplitInv PROVE Batching!RowsPartitioned OBVIOUS
    <2>1. PICK F, G, tk, R, M, n :
            /\ F = byPos /\ G = byReplica /\ tk = tokens /\ R = unplaced /\ M = batches /\ n = next - 1
            /\ Sorted(F, G, tk, R, M, n)
      BY DEF SplitInv
    <2>2. PICK A : A = Store(F, G) OBVIOUS
    <2>3. Partition(n, A, R, M) BY <2>1, <2>2 DEF Sorted
    <2>4. \A b \in M : b.rows \in Seq(Nat) /\ Batching!ToSet(b.rows) = Els(b.rows) /\ Batching!IsInjective(b.rows)
      BY <2>3, SeqFacts DEF Partition
    <2>5. \A b \in M : R \cap Batching!ToSet(b.rows) = {}
      <3>1. \A b \in M : \A r \in Els(b.rows) : r \notin R BY <2>3 DEF Partition
      <3> QED BY <2>4, <3>1
    <2>6. \A b, d \in M : b # d => Batching!ToSet(b.rows) \cap Batching!ToSet(d.rows) = {}
      <3>1. \A b, d \in M : b # d => \A r \in Els(b.rows) : r \notin Els(d.rows) BY <2>3 DEF Partition
      <3> SUFFICES ASSUME NEW b \in M, NEW d \in M, b # d
                   PROVE  Batching!ToSet(b.rows) \cap Batching!ToSet(d.rows) = {}
        OBVIOUS
      <3>2. Batching!ToSet(b.rows) = Els(b.rows) /\ Batching!ToSet(d.rows) = Els(d.rows) BY <2>4
      <3>3. \A r \in Els(b.rows) : r \notin Els(d.rows) BY <3>1
      <3> QED BY <3>2, <3>3
    <2>7. ASSUME Batching!Done PROVE DOMAIN tk = R \cup UNION {Batching!ToSet(b.rows) : b \in M}
      <3>1. n = Len(tk) /\ DOMAIN tk = 1..n BY <2>1, <2>7 DEF Batching!Done, Batching!Placed, SplitTypes
      <3>2. F \in [Batching!Positions -> Seq(Nat)] /\ G \in [Batching!Keys -> Seq(Nat)] BY <2>1 DEF SplitTypes
      <3>3. IsStore(A, F, G) BY <2>2, <3>2, StoreIs
      <3>4. (\A p \in Batching!Positions : F[p] = <<>>) /\ \A c \in Batching!Keys : G[c] = <<>>
        BY <2>1, <2>7 DEF Batching!Done, Batching!Waiting
      <3>5. \A x \in Stores : A[x] = <<>> BY <3>3, <3>4 DEF IsStore
      <3>6. \A x \in Stores : Els(A[x]) = {} BY <3>5, NoEls
      <3>7. \A r \in 1..n : r \in R \/ \E b \in M : r \in Els(b.rows) BY <2>3, <3>6 DEF Partition
      <3>8. R \subseteq 1..n /\ \A b \in M : \A r \in Els(b.rows) : r \in 1..n BY <2>3 DEF Partition
      <3>9. \A r \in 1..n : r \in R \cup UNION {Batching!ToSet(b.rows) : b \in M} BY <2>4, <3>7
      <3>10. \A r \in R \cup UNION {Batching!ToSet(b.rows) : b \in M} : r \in 1..n BY <2>4, <3>8
      <3> QED BY <3>1, <3>9, <3>10
    <2> QED BY <2>1, <2>4, <2>5, <2>6, <2>7 DEF Batching!RowsPartitioned
  <1> QED BY <1>1, SplitAlways, PTL

(* The host a batch goes to has the range of all its rows, unless the      *)
(* token of a row is that of a position (split_into_batches: "to guarantee *)
(* common replicas across partition keys").                                *)
THEOREM HostsHaveTheRows ==
    ASSUME Batching!BatchesAssumption, \A t \in Tokens : \A p \in Batching!Positions : Ring[p] # t
    PROVE  Batching!Spec => []Batching!CommonReplicas
  <1>1. SplitTypes /\ SplitInv => Batching!CommonReplicas
    <2> SUFFICES ASSUME SplitTypes, SplitInv PROVE Batching!CommonReplicas OBVIOUS
    <2>1. PICK F, G, tk, R, M, n :
            /\ F = byPos /\ G = byReplica /\ tk = tokens /\ R = unplaced /\ M = batches /\ n = next - 1
            /\ Sorted(F, G, tk, R, M, n)
      BY DEF SplitInv
    <2>2. PICK A : A = Store(F, G) OBVIOUS
    <2>3. Partition(n, A, R, M) /\ Placement(tk, A, M) BY <2>1, <2>2 DEF Sorted
    <2>4. \A b \in M : Batching!ToSet(b.rows) = Els(b.rows) BY <2>3, SeqFacts DEF Partition
    <2>5. \A b \in M : \A r \in Els(b.rows) : tk[r] \in Tokens /\ b.hosts \subseteq Replicas[Pos(tk[r])]
      BY <2>3 DEF Placement
    <2>6. \A b \in M : \A r \in Els(b.rows) : b.hosts \subseteq Batching!Owners(tk[r]) BY <2>5, RingFacts
    <2> QED BY <2>1, <2>4, <2>6 DEF Batching!CommonReplicas
  <1> QED BY <1>1, SplitAlways, PTL

(* No batch is empty or too large, and of two batches with rows of one     *)
(* position one is full (split_into_batches, batch_rows).                  *)
THEOREM BatchesFewAndFull ==
    ASSUME Batching!BatchesAssumption
    PROVE  Batching!Spec => []Batching!FewAndFull
  <1>1. SplitTypes /\ SplitInv => Batching!FewAndFull
    <2> SUFFICES ASSUME SplitTypes, SplitInv PROVE Batching!FewAndFull OBVIOUS
    <2>1. PICK F, G, tk, R, M, n :
            /\ F = byPos /\ G = byReplica /\ tk = tokens /\ R = unplaced /\ M = batches /\ n = next - 1
            /\ Sorted(F, G, tk, R, M, n)
      BY DEF SplitInv
    <2>2. PICK A : A = Store(F, G) OBVIOUS
    <2>3. Partition(n, A, R, M) /\ Grouping(tk, A, M) BY <2>1, <2>2 DEF Sorted
    <2>4. \A b \in M : Batching!ToSet(b.rows) = Els(b.rows) BY <2>3, SeqFacts DEF Partition
    <2>5. ASSUME NEW b \in M, NEW d \in M, b # d,
                 {Batching!GetRingPos(tk[r]) : r \in Batching!ToSet(b.rows)}
                 \cap {Batching!GetRingPos(tk[r]) : r \in Batching!ToSet(d.rows)} # {}
          PROVE  Len(b.rows) = MaxBatch \/ Len(d.rows) = MaxBatch
      <3>1. PICK r \in Els(b.rows), q \in Els(d.rows) : Batching!GetRingPos(tk[r]) = Batching!GetRingPos(tk[q])
        BY <2>4, <2>5
      <3>2. ~Apart(tk, b.rows, d.rows) BY <3>1 DEF Apart, Pos
      <3> QED BY <2>3, <2>5, <3>2 DEF Grouping, Full
    <2>6. Batching!FewBatches BY <2>1, <2>5 DEF Batching!FewBatches
    <2>7. Batching!BatchesFit BY <2>1, <2>3 DEF Batching!BatchesFit, Grouping
    <2> QED BY <2>6, <2>7 DEF Batching!FewAndFull
  <1> QED BY <1>1, SplitAlways, PTL

-----------------------------------------------------------------------------
(* Numbers put in their order: there is one way, whatever the set.         *)
Ordered(S, f) == /\ f \in [1..Cardinality(S) -> S] /\ \A x \in S : \E i \in 1..Cardinality(S) : f[i] = x
                 /\ \A i, j \in 1..Cardinality(S) : i < j => f[i] < f[j]

LEMMA UpToFinite ==
    ASSUME NEW n \in Nat, NEW S, S \subseteq 1..n
    PROVE  IsFiniteSet(S) /\ Cardinality(S) \in Nat
  <1>1. IsFiniteSet(1..n) BY FS_Interval
  <1>2. IsFiniteSet(S) BY <1>1, FS_Subset
  <1> QED BY <1>2, FS_CardinalityType

LEMMA OrderedAdd ==
    ASSUME NEW S, NEW n \in Nat, S \subseteq 1..n, NEW f, Ordered(S, f), NEW Q, Q = S \cup {n + 1}
    PROVE  \E g : Ordered(Q, g)
  <1>1. IsFiniteSet(S) /\ Cardinality(S) \in Nat BY UpToFinite
  <1>2. PICK m \in Nat : m = Cardinality(S) BY <1>1
  <1>3. Cardinality(Q) = m + 1
    <2>1. n + 1 \notin S OBVIOUS
    <2> QED BY <1>1, <1>2, <2>1, FS_AddElement
  <1>4. PICK g : g = [i \in 1..(m + 1) |-> IF i = m + 1 THEN n + 1 ELSE f[i]] OBVIOUS
  <1>5. f \in [1..m -> S] /\ (\A x \in S : \E i \in 1..m : f[i] = x) /\ \A i, j \in 1..m : i < j => f[i] < f[j]
    BY <1>2 DEF Ordered
  <1>6. \A i \in 1..(m + 1) : i # m + 1 => i \in 1..m /\ f[i] \in S BY <1>5
  <1>7. g \in [1..(m + 1) -> Q] BY <1>4, <1>6
  <1>8. ASSUME NEW x \in Q PROVE \E i \in 1..(m + 1) : g[i] = x
    <2>1. CASE x = n + 1
      <3>1. m + 1 \in 1..(m + 1) OBVIOUS
      <3> QED BY <1>4, <2>1, <3>1
    <2>2. CASE x \in S
      <3>1. PICK i \in 1..m : f[i] = x BY <1>5, <2>2
      <3>2. i \in 1..(m + 1) /\ i # m + 1 OBVIOUS
      <3> QED BY <1>4, <3>1, <3>2
    <2> QED BY <2>1, <2>2
  <1>9. ASSUME NEW i \in 1..(m + 1), NEW j \in 1..(m + 1), i < j PROVE g[i] < g[j]
    <2>1. i # m + 1 /\ i \in 1..m BY <1>9
    <2>2. g[i] = f[i] /\ f[i] \in S BY <1>4, <1>5, <2>1
    <2>3. CASE j = m + 1
      <3>1. g[j] = n + 1 BY <1>4, <2>3
      <3>2. f[i] \in 1..n BY <2>2
      <3> QED BY <2>2, <3>1, <3>2
    <2>4. CASE j # m + 1
      <3>1. j \in 1..m BY <2>4
      <3>2. g[j] = f[j] BY <1>4, <2>4
      <3> QED BY <1>5, <1>9, <2>1, <2>2, <3>1, <3>2
    <2> QED BY <2>3, <2>4
  <1> QED BY <1>3, <1>7, <1>8, <1>9 DEF Ordered

LEMMA OrderExists ==
    ASSUME NEW n \in Nat, NEW S, S \subseteq 1..n
    PROVE  \E f : Ordered(S, f)
  <1> DEFINE Fine(m) == \A Q \in SUBSET (1..m) : \E f : Ordered(Q, f)
  <1>1. PICK B : B = {m \in Nat : ~Fine(m)} OBVIOUS
  <1>2. SUFFICES ASSUME B # {} PROVE FALSE
    <2> HIDE DEF Fine
    <2>1. CASE B = {}
      <3>1. Fine(n) BY <1>1, <2>1
      <3> QED BY <3>1 DEF Fine
    <2> QED BY <2>1
  <1>3. PICK m \in B : \A k \in B : m <= k BY <1>1, <1>2, Least
  <1>4. m \in Nat /\ ~Fine(m)
    <2> HIDE DEF Fine
    <2> QED BY <1>1, <1>3
  <1>5. CASE m = 0
    <2>1. \A Q \in SUBSET (1..0) : Q = {} OBVIOUS
    <2>2. PICK f : f = [i \in 1..0 |-> 0] OBVIOUS
    <2>3. Cardinality({}) = 0 BY FS_EmptySet
    <2>4. Ordered({}, f) BY <2>2, <2>3 DEF Ordered
    <2> QED BY <1>4, <1>5, <2>1, <2>4
  <1>6. CASE m # 0
    <2>1. PICK l \in Nat : m = l + 1 /\ ~(m <= l) BY <1>4, <1>6
    <2>2. Fine(l)
      <3> HIDE DEF Fine
      <3>1. l \notin B BY <1>3, <2>1
      <3> QED BY <1>1, <3>1
    <2>3. ASSUME NEW Q \in SUBSET (1..m) PROVE \E f : Ordered(Q, f)
      <3>1. CASE m \notin Q
        <4>1. Q \in SUBSET (1..l) BY <2>1, <3>1
        <4> QED BY <2>2, <4>1
      <3>2. CASE m \in Q
        <4>1. PICK P : P = Q \ {m} OBVIOUS
        <4>2. P \in SUBSET (1..l) /\ Q = P \cup {l + 1} BY <2>1, <3>2, <4>1
        <4>3. PICK f : Ordered(P, f) BY <2>2, <4>2
        <4> HIDE DEF Fine
        <4> QED BY <4>2, <4>3, OrderedAdd
      <3> QED BY <3>1, <3>2
    <2> QED BY <1>4, <2>3
  <1> QED BY <1>5, <1>6

-----------------------------------------------------------------------------
(* Which host a batch is sent to (QueryPlan), whose variables are its own. *)
CONSTANTS Nearby, Others, MaxInFlight, MaxBackoff, Load
VARIABLES inFlight, plan, round, place, offered, asked
Planning == INSTANCE QueryPlan WITH Replicas <- Nearby, k <- place, stage <- asked

LEMMA NumbersInOrder ==
    ASSUME NEW n \in Nat, NEW S, S \subseteq 1..n
    PROVE  Ordered(S, Planning!InOrder(S))
  <1> DEFINE Fits(f) == Planning!ToSet(f) = S /\ \A i, j \in DOMAIN f : i < j => f[i] < f[j]
  <1>1. PICK f : Ordered(S, f) BY OrderExists
  <1>2. f \in [1..Cardinality(S) -> S] /\ Fits(f) BY <1>1 DEF Ordered, Planning!ToSet
  <1>3. PICK g : g = Planning!InOrder(S) OBVIOUS
  <1>4. g \in [1..Cardinality(S) -> S] /\ Fits(g) 
    <2>0. Planning!Cardinality(S) = Cardinality(S) BY DEF Planning!Cardinality, Cardinality
    <2>1. g = CHOOSE h \in [1..Cardinality(S) -> S] : Fits(h) BY <1>3, <2>0 DEF Planning!InOrder
    <2> HIDE DEF Fits
    <2> QED BY <1>2, <2>1
  <1>5. Ordered(S, g) BY <1>4 DEF Ordered, Planning!ToSet
  <1> QED BY <1>3, <1>5

(* The plan has the replicas first, and no host twice.                     *)
Planned(p) == /\ p \in Seq(Planning!Hosts) /\ \A i, j \in 1..Len(p) : p[i] = p[j] => i = j
              /\ \A i \in 1..Len(p) : p[i] \notin Planning!ToSet(Nearby) => i > Len(Nearby)

LEMMA PlanIsPlanned ==
    ASSUME Planning!QueryPlanAssumption
    PROVE  Planned(Planning!MakePlan)
  <1>1. /\ Nearby \in Seq(Planning!Hosts) /\ Others \in Seq(Planning!Hosts)
        /\ \A i, j \in 1..Len(Nearby) : Nearby[i] = Nearby[j] => i = j
        /\ \A i, j \in 1..Len(Others) : Others[i] = Others[j] => i = j
    BY DEF Planning!QueryPlanAssumption, Planning!Hosts, Planning!IsInjective
  <1>2. PICK n \in Nat, m \in Nat : n = Len(Nearby) /\ m = Len(Others) /\ DOMAIN Others = 1..m /\ DOMAIN Nearby = 1..n
    BY <1>1
  <1>3. PICK S : S = {i \in DOMAIN Others : Others[i] \notin Planning!ToSet(Nearby)} OBVIOUS
  <1>4. PICK rest : rest = Planning!InOrder(S) OBVIOUS
  <1>5. S \subseteq 1..m BY <1>2, <1>3
  <1>6. Ordered(S, rest) BY <1>4, <1>5, NumbersInOrder
  <1>7. PICK l \in Nat : l = Cardinality(S) BY <1>2, <1>5, UpToFinite
  <1>8. rest \in [1..l -> S] /\ DOMAIN rest = 1..l BY <1>6, <1>7 DEF Ordered
  <1>9. PICK t : t = [i \in 1..l |-> Others[rest[i]]] OBVIOUS
  <1>10. t \in Seq(Planning!Hosts) /\ Len(t) = l
    <2>1. \A i \in 1..l : rest[i] \in 1..m BY <1>5, <1>8
    <2>2. \A i \in 1..l : t[i] \in Planning!Hosts BY <1>1, <1>2, <1>9, <2>1
    <2> QED BY <1>9, <2>2
  <1>11. \A i, j \in 1..l : rest[i] = rest[j] => i = j
    <2>1. \A i, j \in 1..l : i < j => rest[i] < rest[j] BY <1>6, <1>7 DEF Ordered
    <2>2. \A i \in 1..l : rest[i] \in Nat
      <3>1. \A i \in 1..l : rest[i] \in 1..m BY <1>5, <1>8
      <3> QED BY <3>1
    <2> QED BY <2>1, <2>2
  <1>12. \A i, j \in 1..l : t[i] = t[j] => i = j
    <2>1. \A i \in 1..l : rest[i] \in 1..m /\ t[i] = Others[rest[i]] BY <1>5, <1>8, <1>9
    <2> QED BY <1>1, <1>2, <1>11, <2>1
  <1>13. \A i \in 1..l : t[i] \notin Planning!ToSet(Nearby) BY <1>3, <1>8, <1>9
  <1>14. PICK p : p = Nearby \o t OBVIOUS
  <1>15. Planning!MakePlan = p BY <1>3, <1>4, <1>8, <1>9, <1>14 DEF Planning!MakePlan
  <1>16. p \in Seq(Planning!Hosts) /\ Len(p) = n + l
    <2>1. \A a, b \in Seq(Planning!Hosts) : a \o b \in Seq(Planning!Hosts) /\ Len(a \o b) = Len(a) + Len(b) OBVIOUS
    <2> QED BY <1>1, <1>2, <1>10, <1>14, <2>1
  <1>17. \A i \in 1..(n + l) : (i <= n => i \in 1..n /\ p[i] = Nearby[i]) /\ (i > n => i - n \in 1..l /\ p[i] = t[i - n])
    BY <1>1, <1>2, <1>10, <1>14
  <1>18. \A i \in 1..n : Nearby[i] \in Planning!ToSet(Nearby) BY <1>2 DEF Planning!ToSet
  <1>19. ASSUME NEW i \in 1..(n + l), NEW j \in 1..(n + l), p[i] = p[j] PROVE i = j
    <2>1. CASE i <= n /\ j <= n BY <1>1, <1>2, <1>17, <1>19, <2>1
    <2>2. CASE i > n /\ j > n
      <3>1. i - n = j - n BY <1>12, <1>17, <1>19, <2>2
      <3> QED BY <3>1
    <2>3. CASE (i <= n /\ j > n) \/ (i > n /\ j <= n) BY <1>13, <1>17, <1>18, <1>19, <2>3
    <2> QED BY <2>1, <2>2, <2>3
  <1>20. \A i \in 1..(n + l) : p[i] \notin Planning!ToSet(Nearby) => i > n BY <1>17, <1>18
  <1> QED BY <1>2, <1>15, <1>16, <1>19, <1>20 DEF Planned

(* What was offered in a round is what was looked at in it.                *)
PlanInv == /\ Planned(plan) /\ place \in 0..Len(plan)
           /\ \A h \in offered : \E i \in 1..place : plan[i] = h

LEMMA PlanNext ==
    ASSUME PlanInv, [Planning!Next]_Planning!vars
    PROVE  PlanInv'
  <1>1. Len(plan) \in Nat /\ place \in Nat BY DEF PlanInv, Planned
  <1>2. CASE Planning!Skip
    <2>1. plan' = plan /\ offered' = offered /\ place' = place + 1 /\ place < Len(plan) BY <1>2 DEF Planning!Skip
    <2>2. place' \in 0..Len(plan) /\ \A i \in 1..place : i \in 1..place' BY <1>1, <2>1
    <2> QED BY <2>1, <2>2 DEF PlanInv, Planned
  <1>3. CASE Planning!Offer
    <2>1. /\ plan' = plan /\ offered' = offered \cup {plan[place + 1]} /\ place' = place + 1 /\ place < Len(plan)
      BY <1>3 DEF Planning!Offer, Planning!Here
    <2>2. place' \in 0..Len(plan) /\ place + 1 \in 1..place' /\ \A i \in 1..place : i \in 1..place' BY <1>1, <2>1
    <2> QED BY <2>1, <2>2 DEF PlanInv, Planned
  <1>4. CASE Planning!Wake
    <2>1. plan' = plan /\ offered' = {} /\ place' = 0 BY <1>4 DEF Planning!Wake
    <2>2. 0 \in 0..Len(plan) BY <1>1
    <2> QED BY <2>1, <2>2 DEF PlanInv, Planned
  <1>5. CASE UNCHANGED <<plan, place, offered>> BY <1>5 DEF PlanInv, Planned
  <1>6. CASE Planning!Accept \/ Planning!Refuse \/ Planning!Sleep \/ Planning!GiveUp
    BY <1>5, <1>6 DEF Planning!Accept, Planning!Refuse, Planning!Sleep, Planning!GiveUp
  <1>7. ASSUME NEW h \in Planning!Hosts, Planning!Begin(h) \/ Planning!Leave(h) PROVE PlanInv'
    BY <1>5, <1>7 DEF Planning!Begin, Planning!Leave
  <1>8. CASE UNCHANGED Planning!vars BY <1>5, <1>8 DEF Planning!vars
  <1> QED BY <1>2, <1>3, <1>4, <1>6, <1>7, <1>8 DEF Planning!Next, Planning!Step

(* In a round no host is offered twice, and one without the rows only      *)
(* after every replica was offered or too busy, however the load of the    *)
(* connections changes meanwhile (FastTokenAwarePolicy.make_query_plan).   *)
THEOREM ReplicasComeFirst ==
    ASSUME Planning!QueryPlanAssumption
    PROVE  Planning!Spec => Planning!ReplicasFirst
  <1>1. Planning!Init => PlanInv
    <2> SUFFICES ASSUME Planning!Init PROVE PlanInv OBVIOUS
    <2>1. Planned(plan) BY PlanIsPlanned DEF Planning!Init
    <2>2. Len(plan) \in Nat BY <2>1 DEF Planned
    <2>3. place = 0 /\ offered = {} BY DEF Planning!Init
    <2> QED BY <2>1, <2>2, <2>3 DEF PlanInv
  <1>2. PlanInv /\ [Planning!Next]_Planning!vars => PlanInv' BY PlanNext
  <1>3. PlanInv => Planning!OffersInOrder
    <2> SUFFICES ASSUME PlanInv, Planning!Offer PROVE Planning!OffersInOrder BY DEF Planning!OffersInOrder
    <2>1. PICK n \in Nat, m \in Nat : n = Len(plan) /\ m = Len(Nearby) /\ place \in Nat /\ place < n
      BY DEF PlanInv, Planned, Planning!Offer, Planning!QueryPlanAssumption
    <2>2. place + 1 \in 1..n /\ \A i \in 1..place : i \in 1..n /\ i # place + 1 BY <2>1
    <2>3. plan[place + 1] \notin offered BY <2>1, <2>2 DEF PlanInv, Planned
    <2>4. plan[place + 1] \notin Planning!ToSet(Nearby) => place + 1 > m BY <2>1, <2>2 DEF PlanInv, Planned
    <2>5. place + 1 > m => place >= m BY <2>1
    <2> QED BY <2>1, <2>3, <2>4, <2>5 DEF Planning!OffersInOrder, Planning!Here
  <1>4. Planning!Spec => []PlanInv BY <1>1, <1>2, PTL DEF Planning!Spec
  <1> QED BY <1>2, <1>3, <1>4, PTL DEF Planning!Spec, Planning!ReplicasFirst

-----------------------------------------------------------------------------
(* What is stored of the rows of a batch (ImportRows), whose variables are *)
(* its own.                                                                *)
CONSTANTS Columns, SkipColumns, PartitionKey, Clustering, TextColumns, Mode, NullField, InsertNull, Fields,
          MaxRowsRead, Null, Unset, Invalid, Old
VARIABLES lines, stage, values, reported, table
Importing == INSTANCE ImportRows WITH Texts <- TextColumns, MaxRows <- MaxRowsRead, file <- lines

(* Where a column of the table is in the values of a row.                  *)
KeptAt(k) == Importing!Index(Columns[k])
ColumnFacts ==
    /\ \A k \in DOMAIN Columns : Columns[k] \notin SkipColumns =>
          /\ KeptAt(k) \in DOMAIN Importing!Kept /\ Importing!Kept[KeptAt(k)] = k
          /\ Importing!Valid[KeptAt(k)] = Columns[k]
    /\ \A n \in DOMAIN Importing!Kept : /\ Importing!Kept[n] \in DOMAIN Columns
                                        /\ Columns[Importing!Kept[n]] \notin SkipColumns
                                        /\ Importing!Valid[n] = Columns[Importing!Kept[n]]
                                        /\ KeptAt(Importing!Kept[n]) = n
    /\ DOMAIN Importing!Valid = DOMAIN Importing!Kept
    /\ DOMAIN Importing!Kept = 1..Len(Importing!Valid) /\ Len(Importing!Valid) \in Nat
    /\ Len(Importing!Valid) = Cardinality(DOMAIN Columns \ Importing!Skipped)
    /\ \A c \in Importing!Primary : \E k \in DOMAIN Columns : c = Columns[k] /\ c \notin SkipColumns

LEMMA ColumnsKept ==
    ASSUME Importing!ImportRowsAssumption
    PROVE  ColumnFacts
  <1>1. PICK n \in Nat : n = Len(Columns) /\ DOMAIN Columns = 1..n BY DEF Importing!ImportRowsAssumption
  <1>2. PICK S : S = DOMAIN Columns \ Importing!Skipped OBVIOUS
  <1>3. S \subseteq 1..n /\ \A k \in DOMAIN Columns : k \in S <=> Columns[k] \notin SkipColumns
    BY <1>1, <1>2 DEF Importing!Skipped
  <1>4. PICK f : f = Importing!Kept OBVIOUS
  <1>5. Ordered(S, f)
    <2> DEFINE Fits(g) == Importing!ToSet(g) = S /\ \A i, j \in DOMAIN g : i < j => g[i] < g[j]
    <2>1. PICK g : Ordered(S, g) BY <1>1, <1>3, OrderExists
    <2>2. g \in [1..Cardinality(S) -> S] /\ Fits(g) BY <2>1 DEF Ordered, Importing!ToSet
    <2>3. Importing!Cardinality(S) = Cardinality(S) BY DEF Importing!Cardinality, Cardinality
    <2>4. f = CHOOSE h \in [1..Cardinality(S) -> S] : Fits(h)
      BY <1>2, <1>4, <2>3 DEF Importing!Kept, Importing!InOrder
    <2>5. f \in [1..Cardinality(S) -> S] /\ Fits(f)
      <3> HIDE DEF Fits
      <3> QED BY <2>2, <2>4
    <2> QED BY <2>5 DEF Ordered, Importing!ToSet
  <1>6. PICK m \in Nat : m = Cardinality(S) BY <1>1, <1>3, UpToFinite
  <1>7. /\ f \in [1..m -> S] /\ DOMAIN f = 1..m /\ \A x \in S : \E i \in 1..m : f[i] = x
        /\ \A i, j \in 1..m : i < j => f[i] < f[j]
    BY <1>5, <1>6 DEF Ordered
  <1>8. \A i, j \in 1..m : f[i] = f[j] => i = j
    <2>1. \A i \in 1..m : f[i] \in 1..n BY <1>3, <1>7
    <2>2. \A i \in 1..m : f[i] \in Nat BY <2>1
    <2> QED BY <1>7, <2>2
  <1>9. DOMAIN Importing!Valid = 1..m /\ \A i \in 1..m : Importing!Valid[i] = Columns[f[i]]
    BY <1>4, <1>7 DEF Importing!Valid
  <1>10. \A i, j \in 1..n : Columns[i] = Columns[j] => i = j
    BY <1>1 DEF Importing!ImportRowsAssumption, Importing!IsInjective
  <1>11. ASSUME NEW i \in 1..m PROVE Importing!Index(Columns[f[i]]) = i
    <2>1. \A j \in 1..m : Importing!Valid[j] = Columns[f[i]] => j = i
      <3>1. \A j \in 1..m : f[j] \in 1..n BY <1>3, <1>7
      <3> QED BY <1>8, <1>9, <1>10, <3>1
    <2>2. PICK c : c = Columns[f[i]] OBVIOUS
    <2>3. Importing!Index(c) = CHOOSE j \in 1..m : Importing!Valid[j] = c BY <1>9 DEF Importing!Index
    <2> QED BY <1>9, <2>1, <2>2, <2>3
  <1>12. ASSUME NEW k \in DOMAIN Columns, Columns[k] \notin SkipColumns
         PROVE  KeptAt(k) \in 1..m /\ f[KeptAt(k)] = k /\ Importing!Valid[KeptAt(k)] = Columns[k]
    <2>1. PICK i \in 1..m : f[i] = k BY <1>3, <1>7, <1>12
    <2>2. KeptAt(k) = i BY <1>11, <2>1 DEF KeptAt
    <2> QED BY <1>9, <2>1, <2>2
  <1>13. ASSUME NEW i \in 1..m
         PROVE  /\ f[i] \in DOMAIN Columns /\ Columns[f[i]] \notin SkipColumns
                /\ Importing!Valid[i] = Columns[f[i]] /\ KeptAt(f[i]) = i
    BY <1>1, <1>3, <1>7, <1>9, <1>11 DEF KeptAt
  <1>14. ASSUME NEW c \in Importing!Primary
         PROVE  \E k \in DOMAIN Columns : c = Columns[k] /\ c \notin SkipColumns
    BY DEF Importing!ImportRowsAssumption, Importing!ToSet
  <1>15. Len(Importing!Valid) = m
    <2>1. \A i \in 1..m : Importing!Valid[i] \in Importing!ToSet(Columns) BY <1>9, <1>13 DEF Importing!ToSet
    <2>2. Importing!Valid = [i \in 1..m |-> Importing!Valid[i]]
      BY <1>9, <1>4, <1>7 DEF Importing!Valid
    <2>3. Importing!Valid \in Seq(Importing!ToSet(Columns)) BY <2>1, <2>2
    <2> QED BY <1>9, <2>3
  <1> QED BY <1>2, <1>4, <1>6, <1>7, <1>9, <1>12, <1>13, <1>14, <1>15 DEF ColumnFacts

-----------------------------------------------------------------------------
Words == {"one", "junk", "empty", "marker"}
Field(r, k) == lines[r][k]

(* A row that is on its way: its values are its fields, converted.         *)
RowConverted(r) ==
    /\ r \in DOMAIN lines /\ DOMAIN values[r] = DOMAIN Importing!Kept
    /\ \A k \in DOMAIN Columns : Columns[k] \notin SkipColumns =>
          /\ Field(r, k) \in Words
          /\ values[r][KeptAt(k)] = Importing!Converted(Columns[k], Field(r, k))
          /\ values[r][KeptAt(k)] # Invalid
          /\ Columns[k] \in Importing!Primary => Field(r, k) # NullField

StagesOfBatch == {"read", "converted", "routed", "done"}
ImportInv ==
    /\ stage \in StagesOfBatch /\ \A r \in DOMAIN lines : lines[r] \in Importing!Row
    /\ stage # "done" => \A r \in DOMAIN lines : \A k \in DOMAIN Columns : table[r][Columns[k]] = Old
    /\ stage \in {"converted", "routed"} =>
          DOMAIN values = DOMAIN lines \ reported /\ \A r \in DOMAIN values : RowConverted(r)
    /\ stage = "routed" => \A r \in DOMAIN values : Importing!Routed(values[r])
    /\ Importing!StoredAsRead

(* A row of the right length has a field for each column that is not       *)
(* skipped, and no other.                                                  *)
LEMMA WholeRow ==
    ASSUME Importing!ImportRowsAssumption, ColumnFacts, NEW row \in Importing!Row, ~Importing!BadLength(row)
    PROVE  /\ DOMAIN row \ Importing!Skipped = DOMAIN Columns \ Importing!Skipped
           /\ \A k \in DOMAIN Columns : Columns[k] \notin SkipColumns => row[k] \in Words
  <1>1. PICK n \in Nat : n = Len(Columns) /\ n # 0 /\ DOMAIN Columns = 1..n
    BY DEF Importing!ImportRowsAssumption
  <1>2. PICK S, T : S = DOMAIN Columns \ Importing!Skipped /\ T = DOMAIN row \ Importing!Skipped OBVIOUS
  <1>3. Cardinality(S) = Cardinality(T)
    <2>1. Importing!Cardinality(T) = Cardinality(T) BY DEF Importing!Cardinality, Cardinality
    <2> QED BY <1>2, <2>1 DEF Importing!BadLength, ColumnFacts
  <1>4. \A k \in DOMAIN Columns : Columns[k] \notin SkipColumns => k \in S BY <1>2 DEF Importing!Skipped
  <1>5. CASE row \in [DOMAIN Columns -> Fields]
    <2>1. \A k \in DOMAIN Columns : row[k] \in Words BY <1>5 DEF Importing!ImportRowsAssumption, Words
    <2> QED BY <1>2, <1>5, <2>1
  <1>6. CASE row = [k \in 1..(n - 1) |-> "one"]
    <2>1. T \subseteq S /\ S \subseteq 1..n BY <1>1, <1>2, <1>6
    <2>2. IsFiniteSet(S) BY <1>1, <2>1, UpToFinite
    <2>3. T = S BY <1>3, <2>1, <2>2, FS_Subset
    <2>4. \A k \in T : row[k] \in Words BY <1>2, <1>6 DEF Words
    <2> QED BY <1>2, <1>4, <2>3, <2>4
  <1>7. CASE row = [k \in 1..(n + 1) |-> "one"]
    <2>1. S \subseteq T /\ T \subseteq 1..(n + 1) /\ n + 1 \in Nat BY <1>1, <1>2, <1>7
    <2>2. IsFiniteSet(T) BY <2>1, UpToFinite
    <2>3. S = T BY <1>3, <2>1, <2>2, FS_Subset
    <2>4. \A k \in T : row[k] \in Words BY <1>2, <1>7 DEF Words
    <2> QED BY <1>2, <1>4, <2>3, <2>4
  <1> QED BY <1>1, <1>5, <1>6, <1>7 DEF Importing!Row

(* The values of a row before they are looked at.                          *)
LEMMA FieldsConverted ==
    ASSUME ColumnFacts, NEW row, DOMAIN row \ Importing!Skipped = DOMAIN Columns \ Importing!Skipped,
           NEW vs, vs = Importing!ConvertRow(Importing!FilterRowValues(row))
    PROVE  /\ DOMAIN vs = DOMAIN Importing!Kept
           /\ \A k \in DOMAIN Columns : Columns[k] \notin SkipColumns =>
                 /\ vs[KeptAt(k)] = Importing!Converted(Columns[k], row[k])
                 /\ Importing!FilterRowValues(row)[KeptAt(k)] = row[k]
  <1>1. PICK kept : kept = Importing!FilterRowValues(row) OBVIOUS
  <1>2. DOMAIN kept = DOMAIN Importing!Kept /\ \A n \in DOMAIN kept : kept[n] = row[Importing!Kept[n]]
    BY <1>1 DEF Importing!FilterRowValues, Importing!Kept
  <1>3. DOMAIN vs = DOMAIN kept /\ \A n \in DOMAIN kept : vs[n] = Importing!Converted(Importing!Valid[n], kept[n])
    BY <1>1 DEF Importing!ConvertRow
  <1>4. ASSUME NEW k \in DOMAIN Columns, Columns[k] \notin SkipColumns
        PROVE  vs[KeptAt(k)] = Importing!Converted(Columns[k], row[k]) /\ kept[KeptAt(k)] = row[k]
    <2>1. /\ KeptAt(k) \in DOMAIN Importing!Kept /\ Importing!Kept[KeptAt(k)] = k
          /\ Importing!Valid[KeptAt(k)] = Columns[k]
      BY <1>4 DEF ColumnFacts
    <2> QED BY <1>2, <1>3, <2>1
  <1> QED BY <1>1, <1>2, <1>3, <1>4

LEMMA ConvertRowsKeeps ==
    ASSUME Importing!ImportRowsAssumption, ColumnFacts, ImportInv, Importing!ConvertRows
    PROVE  ImportInv'
  <1>1. /\ stage = "read" /\ stage' = "converted" /\ lines' = lines /\ table' = table
        /\ reported' = {r \in DOMAIN lines : Importing!Fails(lines[r])}
        /\ values' = [r \in DOMAIN lines \ reported' |-> Importing!ConvertRow(Importing!FilterRowValues(lines[r]))]
    BY DEF Importing!ConvertRows
  <1>2. DOMAIN values' = DOMAIN lines' \ reported' BY <1>1
  <1>3. ASSUME NEW r \in DOMAIN values' PROVE RowConverted(r)'
    <2>1. PICK row : row = lines[r] OBVIOUS
    <2>2. PICK vs : vs = Importing!ConvertRow(Importing!FilterRowValues(row)) OBVIOUS
    <2>3. r \in DOMAIN lines /\ ~Importing!Fails(row) /\ row \in Importing!Row /\ values'[r] = vs
      BY <1>1, <1>3, <2>1, <2>2 DEF ImportInv
    <2>4. PICK kept : kept = Importing!FilterRowValues(row) OBVIOUS
    <2>5. ~Importing!BadLength(row) /\ ~Importing!NullKey(kept) /\ Invalid \notin Importing!ToSet(vs)
      BY <2>2, <2>3, <2>4 DEF Importing!Fails
    <2>6. /\ DOMAIN row \ Importing!Skipped = DOMAIN Columns \ Importing!Skipped
          /\ \A k \in DOMAIN Columns : Columns[k] \notin SkipColumns => row[k] \in Words
      BY <2>3, <2>5, WholeRow
    <2>7. /\ DOMAIN vs = DOMAIN Importing!Kept
          /\ \A k \in DOMAIN Columns : Columns[k] \notin SkipColumns =>
                vs[KeptAt(k)] = Importing!Converted(Columns[k], row[k]) /\ kept[KeptAt(k)] = row[k]
      BY <2>2, <2>4, <2>6, FieldsConverted
    <2>8. ASSUME NEW k \in DOMAIN Columns, Columns[k] \notin SkipColumns
          PROVE  vs[KeptAt(k)] # Invalid /\ (Columns[k] \in Importing!Primary => row[k] # NullField)
      <3>1. KeptAt(k) \in DOMAIN vs BY <2>7, <2>8 DEF ColumnFacts
      <3>2. vs[KeptAt(k)] # Invalid BY <2>5, <3>1 DEF Importing!ToSet
      <3>3. Columns[k] \in Importing!Primary => row[k] # NullField
        BY <2>5, <2>7, <2>8 DEF Importing!NullKey, KeptAt
      <3> QED BY <3>2, <3>3
    <2>9. Field(r, 0)' = lines'[r][0] /\ lines'[r] = row BY <1>1, <2>1 DEF Field
    <2> QED BY <1>1, <2>1, <2>3, <2>6, <2>7, <2>8 DEF RowConverted, Field
  <1>4. \A r \in DOMAIN lines' : lines'[r] \in Importing!Row BY <1>1 DEF ImportInv
  <1>5. \A r \in DOMAIN lines' : \A k \in DOMAIN Columns : table'[r][Columns[k]] = Old BY <1>1 DEF ImportInv
  <1>6. Importing!StoredAsRead' BY <1>1 DEF Importing!StoredAsRead
  <1> QED BY <1>1, <1>2, <1>3, <1>4, <1>5, <1>6 DEF ImportInv, StagesOfBatch

LEMMA RoutingKeeps ==
    ASSUME ImportInv, Importing!SplitIntoBatches
    PROVE  ImportInv'
  <1>1. PICK bad : bad = {r \in DOMAIN values : ~Importing!Routed(values[r])} OBVIOUS
  <1>2. /\ stage = "converted" /\ stage' = "routed" /\ lines' = lines /\ table' = table
        /\ reported' = reported \cup bad /\ values' = [r \in DOMAIN values \ bad |-> values[r]]
    BY <1>1 DEF Importing!SplitIntoBatches
  <1>3. DOMAIN values' = DOMAIN lines' \ reported' BY <1>1, <1>2 DEF ImportInv
  <1>4. ASSUME NEW r \in DOMAIN values' PROVE RowConverted(r)' /\ Importing!Routed(values'[r])
    <2>1. r \in DOMAIN values /\ values'[r] = values[r] /\ Importing!Routed(values[r]) BY <1>1, <1>2
    <2>2. RowConverted(r) BY <1>2, <2>1 DEF ImportInv
    <2> QED BY <1>2, <2>1, <2>2 DEF RowConverted, Field
  <1>5. \A r \in DOMAIN lines' : lines'[r] \in Importing!Row BY <1>2 DEF ImportInv
  <1>6. \A r \in DOMAIN lines' : \A k \in DOMAIN Columns : table'[r][Columns[k]] = Old BY <1>2 DEF ImportInv
  <1>7. Importing!StoredAsRead' BY <1>2 DEF Importing!StoredAsRead
  <1>8. \A r \in DOMAIN values' : Importing!Routed(values'[r]) BY <1>4
  <1> QED BY <1>2, <1>3, <1>4, <1>5, <1>6, <1>7, <1>8 DEF ImportInv, StagesOfBatch, Importing!Routed

(* What the server takes of a field is what the user wanted.               *)
LEMMA CellWanted ==
    ASSUME Importing!ImportRowsAssumption, NEW c, NEW field \in Words, NEW v, v = Importing!Converted(c, field),
           v # Invalid, Importing!Accepts(c, v)
    PROVE  Importing!Cell(Old, v) = Importing!Wanted(c, field)
  <1>1. /\ Mode \in {"prepared", "plain", "counter"} /\ NullField \in {"empty", "marker"} /\ InsertNull \in BOOLEAN
        /\ {Null, Unset, Invalid, Old} \cap {"one", "junk", "empty", "marker", "zero"} = {}
        /\ Null # Unset
    BY DEF Importing!ImportRowsAssumption, Importing!IsInjective
  <1>2. field \notin {Null, Unset, Invalid, Old, "zero"} BY <1>1 DEF Words
  <1>3. CASE field = NullField
    <2>1. v = Importing!GetNullVal /\ Importing!Absent(c, field)
      BY <1>3 DEF Importing!Converted, Importing!Absent
    <2>2. CASE Mode = "prepared" /\ InsertNull
      BY <1>1, <2>1, <2>2 DEF Importing!GetNullVal, Importing!Cell, Importing!Wanted
    <2>3. CASE Mode = "prepared" /\ ~InsertNull
      BY <1>1, <2>1, <2>3 DEF Importing!GetNullVal, Importing!Cell, Importing!Wanted
    <2>4. CASE Mode = "plain" BY <1>1, <2>1, <2>4 DEF Importing!GetNullVal, Importing!Cell, Importing!Wanted
    <2>5. CASE Mode = "counter" BY <1>1, <2>1, <2>5 DEF Importing!GetNullVal, Importing!Cell, Importing!Wanted
    <2> QED BY <1>1, <2>2, <2>3, <2>4, <2>5
  <1>4. CASE field # NullField /\ Mode = "prepared"
    <2>1. v = Importing!Prepared(c, field) BY <1>4 DEF Importing!Converted
    <2>2. CASE Importing!Understood(c, field)
      <3>1. v = field BY <2>1, <2>2 DEF Importing!Prepared
      <3>2. ~Importing!Absent(c, field) BY <1>4, <2>2 DEF Importing!Absent, Importing!Understood
      <3> QED BY <1>2, <3>1, <3>2 DEF Importing!Cell, Importing!Wanted
    <2>3. CASE ~Importing!Understood(c, field) /\ field = "empty"
      <3>1. v = Importing!GetNullVal BY <2>1, <2>3 DEF Importing!Prepared
      <3>2. Importing!Absent(c, field) BY <2>3 DEF Importing!Absent, Importing!Understood
      <3> QED BY <1>1, <1>4, <3>1, <3>2 DEF Importing!GetNullVal, Importing!Cell, Importing!Wanted
    <2>4. CASE ~Importing!Understood(c, field) /\ field # "empty" BY <2>1, <2>4 DEF Importing!Prepared
    <2> QED BY <2>2, <2>3, <2>4
  <1>5. CASE field # NullField /\ Mode # "prepared"
    <2>1. v = field BY <1>5 DEF Importing!Converted, Importing!Protected
    <2>2. Importing!Understood(c, field)
      <3>1. CASE c \in Importing!Primary BY <2>1, <3>1 DEF Importing!Accepts
      <3>2. CASE c \notin Importing!Primary BY <1>2, <2>1, <3>2 DEF Importing!Accepts
      <3> QED BY <3>1, <3>2
    <2>3. ~Importing!Absent(c, field) BY <1>5, <2>2 DEF Importing!Absent, Importing!Understood
    <2> QED BY <1>2, <2>1, <2>3 DEF Importing!Cell, Importing!Wanted
  <1> QED BY <1>3, <1>4, <1>5

LEMMA StoreKeeps ==
    ASSUME Importing!ImportRowsAssumption, ColumnFacts, ImportInv, Importing!Store
    PROVE  ImportInv'
  <1>1. /\ stage = "routed" /\ stage' = "done" /\ lines' = lines /\ reported' = reported /\ values' = values
        /\ Importing!Accepted
        /\ table' = [r \in DOMAIN lines |-> IF r \in DOMAIN values THEN Importing!Write(r) ELSE table[r]]
    BY DEF Importing!Store
  <1>2. ASSUME NEW r \in DOMAIN lines, NEW k \in DOMAIN Columns
        PROVE  table'[r][Columns[k]] = IF r \in reported \/ Columns[k] \in SkipColumns THEN Old
                                       ELSE Importing!Wanted(Columns[k], lines[r][k])
    <2>1. table[r][Columns[k]] = Old /\ DOMAIN values = DOMAIN lines \ reported BY <1>1 DEF ImportInv
    <2>2. CASE r \in reported BY <1>1, <2>1, <2>2
    <2>3. CASE r \notin reported
      <3>1. r \in DOMAIN values /\ table'[r] = Importing!Write(r) BY <1>1, <2>1, <2>3
      <3>2. Columns[k] \in Importing!ToSet(Columns) BY DEF Importing!ToSet
      <3>3. CASE Columns[k] \in SkipColumns BY <2>1, <3>1, <3>2, <3>3 DEF Importing!Write
      <3>4. CASE Columns[k] \notin SkipColumns
        <4>1. table'[r][Columns[k]] = Importing!Cell(Old, values[r][KeptAt(k)])
          BY <2>1, <3>1, <3>2, <3>4 DEF Importing!Write, KeptAt
        <4>2. RowConverted(r) BY <1>1, <3>1 DEF ImportInv
        <4>3. PICK v : v = values[r][KeptAt(k)] OBVIOUS
        <4>4. v = Importing!Converted(Columns[k], lines[r][k]) /\ v # Invalid /\ lines[r][k] \in Words
          BY <3>4, <4>2, <4>3 DEF RowConverted, Field
        <4>5. KeptAt(k) \in DOMAIN Importing!Valid /\ Importing!Valid[KeptAt(k)] = Columns[k]
          BY <3>4 DEF ColumnFacts
        <4>6. Importing!Accepts(Columns[k], v) BY <1>1, <3>1, <4>3, <4>5 DEF Importing!Accepted
        <4>7. Importing!Cell(Old, v) = Importing!Wanted(Columns[k], lines[r][k]) BY <4>4, <4>6, CellWanted
        <4> QED BY <2>3, <3>4, <4>1, <4>3, <4>7
      <3> QED BY <3>3, <3>4
    <2> QED BY <2>2, <2>3
  <1>3. Importing!StoredAsRead' BY <1>1, <1>2 DEF Importing!StoredAsRead, Importing!Wanted, Importing!Absent
  <1> QED BY <1>1, <1>3 DEF ImportInv, StagesOfBatch

LEMMA RejectKeeps ==
    ASSUME ImportInv, Importing!Reject
    PROVE  ImportInv'
  <1>1. /\ stage = "routed" /\ stage' = "done" /\ lines' = lines /\ table' = table
        /\ reported' = reported \cup DOMAIN values
    BY DEF Importing!Reject
  <1>2. \A r \in DOMAIN lines : r \in reported' /\ \A k \in DOMAIN Columns : table[r][Columns[k]] = Old
    BY <1>1 DEF ImportInv
  <1>3. Importing!StoredAsRead' BY <1>1, <1>2 DEF Importing!StoredAsRead
  <1> QED BY <1>1, <1>3 DEF ImportInv, StagesOfBatch

LEMMA ImportStart ==
    ASSUME Importing!Init
    PROVE  ImportInv
  <1>1. stage = "read" BY DEF Importing!Init
  <1>2. PICK n \in 1..MaxRowsRead : lines \in [1..n -> Importing!Row] BY DEF Importing!Init
  <1>3. \A r \in DOMAIN lines : lines[r] \in Importing!Row BY <1>2
  <1>4. \A r \in DOMAIN lines : \A k \in DOMAIN Columns : table[r][Columns[k]] = Old
    BY DEF Importing!Init, Importing!ToSet
  <1> QED BY <1>1, <1>3, <1>4 DEF ImportInv, StagesOfBatch, Importing!StoredAsRead

LEMMA ImportNext ==
    ASSUME Importing!ImportRowsAssumption, ColumnFacts, ImportInv, [Importing!Next]_Importing!vars
    PROVE  ImportInv'
  <1>1. CASE UNCHANGED Importing!vars
    BY <1>1 DEF Importing!vars, ImportInv, RowConverted, Field, Importing!Routed, Importing!StoredAsRead,
                Importing!Wanted, Importing!Absent
  <1> QED BY <1>1, ConvertRowsKeeps, RoutingKeeps, StoreKeeps, RejectKeeps DEF Importing!Next

(* A row that was not reported holds in the table what its fields say, one *)
(* that was reported is as it was, and columns that were skipped are too:  *)
(* for any columns, keys and rows, with and without prepared statements    *)
(* and counters (ImportConversion.convert_row,                             *)
(* make_prepared_batch_statement).                                         *)
THEOREM RowsStoredAsRead ==
    ASSUME Importing!ImportRowsAssumption
    PROVE  Importing!Spec => []Importing!StoredAsRead
  <1>1. ColumnFacts BY ColumnsKept
  <1>2. Importing!Init => ImportInv BY ImportStart
  <1>3. ImportInv /\ [Importing!Next]_Importing!vars => ImportInv' BY <1>1, ImportNext
  <1>4. ImportInv => Importing!StoredAsRead BY DEF ImportInv
  <1> QED BY <1>2, <1>3, <1>4, PTL DEF Importing!Spec

-----------------------------------------------------------------------------
(* Only the null value of the command is looked for in keys: with prepared *)
(* statements, an empty field of a number is null after its conversion.    *)
KeysReadable == Mode = "prepared" => NullField = "empty" \/ Importing!ToSet(Clustering) \subseteq TextColumns

(* What is sent for a column, and for a key.                               *)
LEMMA SentValue ==
    ASSUME Importing!ImportRowsAssumption, NEW c, NEW field \in Words, NEW v, v = Importing!Converted(c, field),
           v # Invalid
    PROVE  /\ Mode = "prepared" => v \in {Null, Unset} \/ (v = field /\ Importing!Understood(c, v))
           /\ field # NullField =>
                 \/ v = field
                 \/ /\ Mode = "prepared" /\ field = "empty" /\ c \notin TextColumns /\ v \in {Null, Unset}
  <1>1. /\ Mode \in {"prepared", "plain", "counter"} /\ InsertNull \in BOOLEAN
    BY DEF Importing!ImportRowsAssumption
  <1>2. Mode = "prepared" => Importing!GetNullVal \in {Null, Unset} BY <1>1 DEF Importing!GetNullVal
  <1>3. CASE field = NullField
    <2>1. v = Importing!GetNullVal BY <1>3 DEF Importing!Converted
    <2> QED BY <1>2, <1>3, <2>1
  <1>4. CASE field # NullField /\ Mode = "prepared"
    <2>1. v = Importing!Prepared(c, field) BY <1>4 DEF Importing!Converted
    <2>2. CASE Importing!Understood(c, field)
      <3>1. v = field BY <2>1, <2>2 DEF Importing!Prepared
      <3> QED BY <2>2, <3>1
    <2>3. CASE ~Importing!Understood(c, field) /\ field = "empty"
      <3>1. v = Importing!GetNullVal BY <2>1, <2>3 DEF Importing!Prepared
      <3>2. c \notin TextColumns BY <2>3 DEF Importing!Understood
      <3> QED BY <1>2, <1>4, <2>3, <3>1, <3>2
    <2>4. CASE ~Importing!Understood(c, field) /\ field # "empty" BY <2>1, <2>4 DEF Importing!Prepared
    <2> QED BY <2>2, <2>3, <2>4
  <1>5. CASE field # NullField /\ Mode # "prepared"
    <2>1. v = field BY <1>5 DEF Importing!Converted, Importing!Protected
    <2> QED BY <1>5, <2>1
  <1> QED BY <1>3, <1>4, <1>5

(* No statement is sent without a value for each column of the key         *)
(* (convert_row, get_null_primary_key_message), unless an empty field of a *)
(* clustering column is no null value of the command.                      *)
THEOREM KeysArePresent ==
    ASSUME Importing!ImportRowsAssumption, KeysReadable
    PROVE  Importing!Spec => []Importing!KeysPresent
  <1>1. ColumnFacts BY ColumnsKept
  <1>2. Importing!Init => ImportInv BY ImportStart
  <1>3. ImportInv /\ [Importing!Next]_Importing!vars => ImportInv' BY <1>1, ImportNext
  <1>4. ImportInv => Importing!KeysPresent
    <2> SUFFICES ASSUME ImportInv, stage = "routed", NEW r \in DOMAIN values, NEW c \in Importing!Primary
                 PROVE  values[r][Importing!Index(c)] \notin {Null, Unset, "zero"}
      BY DEF Importing!KeysPresent
    <2>1. RowConverted(r) /\ Importing!Routed(values[r]) BY DEF ImportInv
    <2>2. PICK k \in DOMAIN Columns : c = Columns[k] /\ c \notin SkipColumns BY <1>1 DEF ColumnFacts
    <2>3. PICK v, field : v = values[r][KeptAt(k)] /\ field = Field(r, k) OBVIOUS
    <2>4. /\ v = Importing!Converted(c, field) /\ v # Invalid /\ field \in Words /\ field # NullField
          /\ Importing!Index(c) = KeptAt(k)
      BY <2>1, <2>2, <2>3 DEF RowConverted, KeptAt
    <2>5. {Null, Unset, Invalid, Old} \cap {"one", "junk", "empty", "marker", "zero"} = {}
      BY DEF Importing!ImportRowsAssumption
    <2>6. CASE v = field BY <2>3, <2>4, <2>5, <2>6 DEF Words
    <2>7. CASE Mode = "prepared" /\ field = "empty" /\ c \notin TextColumns /\ v \in {Null, Unset}
      <3>1. c \in Importing!ToSet(PartitionKey) BY <2>4, <2>7 DEF KeysReadable, Importing!Primary
      <3>2. v \notin {Null, Unset} BY <2>1, <2>3, <2>4, <3>1 DEF Importing!Routed, Importing!Serializes
      <3> QED BY <2>7, <3>2
    <2>8. v = field \/ (Mode = "prepared" /\ field = "empty" /\ c \notin TextColumns /\ v \in {Null, Unset})
      BY <2>4, SentValue
    <2> QED BY <2>6, <2>7, <2>8
  <1> QED BY <1>2, <1>3, <1>4, PTL DEF Importing!Spec

-----------------------------------------------------------------------------
(* What is sent with prepared statements is what the server takes.         *)
KeysStorable == /\ Mode = "prepared"
                /\ NullField = "empty" \/ /\ Importing!ToSet(Clustering) \subseteq TextColumns
                                          /\ \A c \in TextColumns : PartitionKey # <<c>>
GoodKept == stage # "read" => \A r \in DOMAIN lines : Importing!Good(lines[r]) => r \notin reported

LEMMA GoodFields ==
    ASSUME Importing!ImportRowsAssumption, ColumnFacts, Mode = "prepared", NEW row \in Importing!Row, Importing!Good(row),
           NEW k \in DOMAIN Columns, Columns[k] \notin SkipColumns
    PROVE  /\ Importing!Converted(Columns[k], row[k]) # Invalid
           /\ Columns[k] \in Importing!Primary =>
                 row[k] = "one" /\ row[k] # NullField /\ Importing!Converted(Columns[k], row[k]) = "one"
  <1>1. /\ NullField \in {"empty", "marker"} /\ InsertNull \in BOOLEAN /\ Null # Invalid /\ Unset # Invalid
        /\ {Null, Unset, Invalid, Old} \cap {"one", "junk", "empty", "marker", "zero"} = {}
    BY DEF Importing!ImportRowsAssumption, Importing!IsInjective
  <1>2. row[k] \in Words BY WholeRow DEF Importing!Good
  <1>3. /\ Importing!Absent(Columns[k], row[k]) \/ Importing!Understood(Columns[k], row[k])
        /\ Columns[k] \in Importing!Primary => row[k] = "one"
    BY DEF Importing!Good
  <1>4. Importing!GetNullVal # Invalid BY <1>1 DEF Importing!GetNullVal
  <1>5. CASE row[k] = NullField
    <2>1. Importing!Converted(Columns[k], row[k]) = Importing!GetNullVal BY <1>5 DEF Importing!Converted
    <2> QED BY <1>1, <1>3, <1>4, <1>5, <2>1
  <1>6. CASE row[k] # NullField
    <2>1. Importing!Converted(Columns[k], row[k]) = Importing!Prepared(Columns[k], row[k])
      BY <1>6 DEF Importing!Converted
    <2>2. CASE Importing!Understood(Columns[k], row[k])
      <3>1. Importing!Prepared(Columns[k], row[k]) = row[k] BY <2>2 DEF Importing!Prepared
      <3>2. row[k] # Invalid BY <1>1, <1>2 DEF Words
      <3> QED BY <1>3, <1>6, <2>1, <3>1, <3>2
    <2>3. CASE ~Importing!Understood(Columns[k], row[k])
      <3>1. row[k] = "empty" /\ row[k] # "one" BY <1>3, <1>6, <2>3 DEF Importing!Absent
      <3>2. Importing!Prepared(Columns[k], row[k]) = Importing!GetNullVal BY <2>3, <3>1 DEF Importing!Prepared
      <3> QED BY <1>3, <1>4, <2>1, <3>1, <3>2
    <2> QED BY <2>2, <2>3
  <1> QED BY <1>5, <1>6

LEMMA GoodConverts ==
    ASSUME Importing!ImportRowsAssumption, ColumnFacts, Mode = "prepared", NEW row \in Importing!Row,
           Importing!Good(row)
    PROVE  ~Importing!Fails(row)
  <1>1. PICK kept, vs : kept = Importing!FilterRowValues(row) /\ vs = Importing!ConvertRow(kept) OBVIOUS
  <1>2. /\ DOMAIN vs = DOMAIN Importing!Kept
        /\ \A k \in DOMAIN Columns : Columns[k] \notin SkipColumns =>
              vs[KeptAt(k)] = Importing!Converted(Columns[k], row[k]) /\ kept[KeptAt(k)] = row[k]
    <2>1. DOMAIN row \ Importing!Skipped = DOMAIN Columns \ Importing!Skipped BY WholeRow DEF Importing!Good
    <2> QED BY <1>1, <2>1, FieldsConverted
  <1>3. ~Importing!BadLength(row) BY DEF Importing!Good
  <1>4. ASSUME NEW n \in DOMAIN vs PROVE vs[n] # Invalid
    <2>1. PICK k \in DOMAIN Columns : Columns[k] \notin SkipColumns /\ KeptAt(k) = n BY <1>2 DEF ColumnFacts
    <2> QED BY <1>2, <2>1, GoodFields
  <1>5. ASSUME NEW c \in Importing!Primary PROVE kept[Importing!Index(c)] # NullField
    <2>1. PICK k \in DOMAIN Columns : c = Columns[k] /\ c \notin SkipColumns BY DEF ColumnFacts
    <2>2. kept[KeptAt(k)] = row[k] /\ row[k] # NullField BY <1>2, <2>1, GoodFields
    <2> QED BY <2>1, <2>2 DEF KeptAt
  <1>6. Invalid \notin Importing!ToSet(vs) BY <1>4 DEF Importing!ToSet
  <1> QED BY <1>1, <1>3, <1>5, <1>6 DEF Importing!Fails, Importing!NullKey

LEMMA GoodRoutes ==
    ASSUME Importing!ImportRowsAssumption, ColumnFacts, Mode = "prepared", NEW r, RowConverted(r),
           lines[r] \in Importing!Row, Importing!Good(lines[r])
    PROVE  Importing!Routed(values[r])
  <1> SUFFICES ASSUME NEW c \in Importing!ToSet(PartitionKey)
               PROVE  Importing!Serializes(Importing!Index(c), values[r][Importing!Index(c)])
    BY DEF Importing!Routed
  <1>1. c \in Importing!Primary BY DEF Importing!Primary
  <1>2. PICK k \in DOMAIN Columns : c = Columns[k] /\ c \notin SkipColumns BY <1>1 DEF ColumnFacts
  <1>3. PICK n : n = KeptAt(k) /\ n = Importing!Index(c) BY <1>2 DEF KeptAt
  <1>4. values[r][n] = "one" BY <1>1, <1>2, <1>3, GoodFields DEF RowConverted, Field
  <1>5. n \in 1..Len(Importing!Valid) /\ Importing!Valid[n] = c /\ Len(Importing!Valid) \in Nat
    BY <1>2, <1>3 DEF ColumnFacts
  <1>6. {Null, Unset, Invalid, Old} \cap {"one", "junk", "empty", "marker", "zero"} = {}
    BY DEF Importing!ImportRowsAssumption
  <1>7. Importing!TypesKnown = Importing!Valid BY DEF Importing!TypesKnown
  <1>8. n <= Len(Importing!Valid) BY <1>5
  <1>9. "one" \in {"one", "junk", "empty", "marker", "zero"} OBVIOUS
  <1>10. "one" \notin {Null, Unset} BY <1>6, <1>9
  <1>11. Importing!Understood(Importing!Valid[n], "one") BY DEF Importing!Understood
  <1>12. Importing!Serializes(n, "one") BY <1>7, <1>8, <1>10, <1>11 DEF Importing!Serializes
  <1> QED BY <1>3, <1>4, <1>12

LEMMA AllAccepted ==
    ASSUME Importing!ImportRowsAssumption, ColumnFacts, KeysStorable, ImportInv, stage = "routed"
    PROVE  Importing!Accepted
  <1> SUFFICES ASSUME NEW r \in DOMAIN values, NEW n \in DOMAIN Importing!Valid
               PROVE  Importing!Accepts(Importing!Valid[n], values[r][n])
    BY DEF Importing!Accepted
  <1>1. RowConverted(r) /\ Importing!Routed(values[r]) BY DEF ImportInv
  <1>2. PICK k \in DOMAIN Columns :
           Columns[k] \notin SkipColumns /\ KeptAt(k) = n /\ Importing!Valid[n] = Columns[k]
    BY DEF ColumnFacts
  <1>3. PICK c, v, field : c = Columns[k] /\ v = values[r][n] /\ field = Field(r, k) OBVIOUS
  <1>4. /\ v = Importing!Converted(c, field) /\ v # Invalid /\ field \in Words
        /\ c \in Importing!Primary => field # NullField
    BY <1>1, <1>2, <1>3 DEF RowConverted
  <1>5. v \in {Null, Unset} \/ (v = field /\ Importing!Understood(c, v)) BY <1>4, SentValue DEF KeysStorable
  <1>6. CASE c \notin Importing!Primary BY <1>2, <1>3, <1>5, <1>6 DEF Importing!Accepts
  <1>7. CASE c \in Importing!Primary
    <2>1. {Null, Unset, Invalid, Old} \cap {"one", "junk", "empty", "marker", "zero"} = {}
      BY DEF Importing!ImportRowsAssumption
    <2>2. ASSUME c \in Importing!ToSet(PartitionKey) PROVE v \notin {Null, Unset}
      <3>1. Importing!Index(c) = n BY <1>2, <1>3 DEF KeptAt
      <3> QED BY <1>1, <1>3, <2>2, <3>1 DEF Importing!Routed, Importing!Serializes
    <2>3. v \notin {Null, Unset}
      <3>1. v = field \/ (field = "empty" /\ c \notin TextColumns) BY <1>4, <1>7, SentValue
      <3>2. v = field => v \notin {Null, Unset} BY <1>4, <2>1 DEF Words
      <3>3. (field = "empty" /\ c \notin TextColumns) => c \in Importing!ToSet(PartitionKey)
        BY <1>4, <1>7 DEF KeysStorable, Importing!Primary
      <3> QED BY <2>2, <3>1, <3>2, <3>3
    <2>4. v = field /\ Importing!Understood(c, v) /\ v # "zero" BY <1>4, <1>5, <2>3 DEF Words
    <2>5. <<c>> = PartitionKey => v # "empty"
      <3>1. v = "empty" => NullField # "empty" /\ c \in TextColumns
        BY <1>4, <1>7, <2>4 DEF Importing!Understood
      <3> QED BY <3>1 DEF KeysStorable
    <2> QED BY <1>2, <1>3, <1>7, <2>3, <2>4, <2>5 DEF Importing!Accepts
  <1> QED BY <1>6, <1>7

LEMMA GoodNext ==
    ASSUME Importing!ImportRowsAssumption, ColumnFacts, KeysStorable, ImportInv, GoodKept,
           [Importing!Next]_Importing!vars
    PROVE  GoodKept'
  <1>1. CASE Importing!ConvertRows
    <2>1. lines' = lines /\ reported' = {r \in DOMAIN lines : Importing!Fails(lines[r])}
      BY <1>1 DEF Importing!ConvertRows
    <2>2. \A r \in DOMAIN lines : Importing!Good(lines[r]) => ~Importing!Fails(lines[r])
      BY GoodConverts DEF ImportInv, KeysStorable
    <2> QED BY <2>1, <2>2 DEF GoodKept
  <1>2. CASE Importing!SplitIntoBatches
    <2>1. /\ lines' = lines /\ stage = "converted"
          /\ reported' = reported \cup {r \in DOMAIN values : ~Importing!Routed(values[r])}
      BY <1>2 DEF Importing!SplitIntoBatches
    <2>2. \A r \in DOMAIN values : RowConverted(r) /\ lines[r] \in Importing!Row
      BY <2>1 DEF ImportInv, RowConverted
    <2>3. \A r \in DOMAIN values : Importing!Good(lines[r]) => Importing!Routed(values[r])
      BY <2>2, GoodRoutes DEF KeysStorable
    <2> QED BY <2>1, <2>3 DEF GoodKept
  <1>3. CASE Importing!Store BY <1>3 DEF Importing!Store, GoodKept
  <1>4. CASE Importing!Reject BY <1>4, AllAccepted DEF Importing!Reject
  <1>5. CASE UNCHANGED Importing!vars BY <1>5 DEF Importing!vars, GoodKept
  <1> QED BY <1>1, <1>2, <1>3, <1>4, <1>5 DEF Importing!Next

(* With prepared statements a row with nothing wrong in it is stored,      *)
(* whatever else is in its batch, when no empty field can be a key that    *)
(* only the server refuses, with the whole batch (convert_row,             *)
(* split_into_batches).                                                    *)
THEOREM GoodRowsAreStored ==
    ASSUME Importing!ImportRowsAssumption, KeysStorable
    PROVE  Importing!Spec => []Importing!GoodRowsStored
  <1>1. ColumnFacts BY ColumnsKept
  <1>2. Importing!Init => ImportInv /\ GoodKept BY ImportStart DEF Importing!Init, GoodKept
  <1>3. ImportInv /\ GoodKept /\ [Importing!Next]_Importing!vars => (ImportInv /\ GoodKept)'
    BY <1>1, ImportNext, GoodNext
  <1>4. GoodKept => Importing!GoodRowsStored BY DEF GoodKept, Importing!GoodRowsStored
  <1> QED BY <1>2, <1>3, <1>4, PTL DEF Importing!Spec

=============================================================================
