------------------------------ MODULE Batches -------------------------------
(***************************************************************************)
(* How an import worker splits the rows of a chunk into batches             *)
(* (split_into_batches, TokenMap): by position on the ring where a position  *)
(* has enough rows, by replica otherwise.  It is a generator: each batch is  *)
(* on its way before the next one is made, and hosts go down and come back   *)
(* in between.                                                              *)
(***************************************************************************)
EXTENDS Integers, Sequences, SequencesExt, FiniteSetsExt

CONSTANTS Ring,         \* the tokens of the ring, increasing
          Replicas,     \* for each of them the hosts that have its range
          Local,        \* the hosts of the local data center
          Tokens,       \* the tokens a row may have
          Bad,          \* stands for a row whose key has no token
          MinBatch, MaxBatch,   \* minbatchsize, maxbatchsize
          MaxRows,      \* rows of the chunk
          Changes       \* how often a host may go down or come back

Hosts == UNION ToSet(Replicas)
Positions == DOMAIN Ring
BatchesAssumption ==
    /\ Ring \in Seq(Int) /\ Tokens \subseteq Int /\ Bad \notin Tokens
    /\ Ring # <<>> /\ DOMAIN Replicas = Positions /\ \A p \in Positions, q \in Positions : p < q => Ring[p] < Ring[q]
    /\ MaxBatch \in Nat \ {0} /\ MinBatch \in Nat /\ MaxRows \in Nat /\ Changes \in Nat

VARIABLES rows,         \* the chunk: the token of each row, or Bad
          next,         \* the row to be placed
          byPos,        \* rows_by_ring_pos
          large,        \* the position whose rows are being sent, or 0
          byReplica,    \* rows_by_replica: rows for a set of no or one host
          reported,     \* rows reported as failed
          batches,      \* the batches made: their hosts and rows
          up,           \* the hosts that are up
          changes
vars == <<rows, next, byPos, large, byReplica, reported, batches, up, changes>>

Keys == {{}} \cup {{h} : h \in Hosts}

Init == /\ rows \in UNION {[1..n -> Tokens \cup {Bad}] : n \in 1..MaxRows}
        /\ next = 1 /\ large = 0 /\ reported = {} /\ batches = {}
        /\ byPos = [p \in Positions |-> <<>>] /\ byReplica = [c \in Keys |-> <<>>]
        /\ up = Hosts /\ changes = 0

-----------------------------------------------------------------------------
(* Mutant of GetRingPos: the end of the ring is its last position.              *)
GetRingPosLast(t) == LET after == {p \in Positions : Ring[p] > t}
                     IN IF after = {} THEN Len(Ring) ELSE Min(after)
(* get_ring_pos: bisect_right, with the first position after the last.          *)
GetRingPos(t) == LET after == {p \in Positions : Ring[p] > t}
                 IN IF after = {} THEN 1 ELSE Min(after)

PlaceRow ==
    /\ next <= Len(rows) /\ rows[next] # Bad
    /\ byPos' = [byPos EXCEPT ![GetRingPos(rows[next])] = Append(@, next)]
    /\ next' = next + 1
    /\ UNCHANGED <<rows, large, byReplica, reported, batches, up, changes>>

ReportRow ==
    /\ next <= Len(rows) /\ rows[next] = Bad
    /\ reported' = reported \cup {next} /\ next' = next + 1
    /\ UNCHANGED <<rows, byPos, large, byReplica, batches, up, changes>>

-----------------------------------------------------------------------------
FilterReplicas(p) == Replicas[p] \cap Local \cap up

Placed == next > Len(rows)
Waiting == {p \in Positions : byPos[p] # <<>>}

(* The rows of one position, taken up in any order of positions.               *)
TakeLarge(p) ==
    /\ Placed /\ large = 0 /\ p \in Waiting /\ Len(byPos[p]) > MinBatch
    /\ large' = p
    /\ UNCHANGED <<rows, next, byPos, byReplica, reported, batches, up, changes>>

Group(rs) == SubSeq(rs, 1, Min({MaxBatch, Len(rs)}))
Rest(rs) == SubSeq(rs, MaxBatch + 1, Len(rs))

(* Its groups, each with the replicas that are up at the time.                  *)
SendLarge ==
    /\ large # 0
    /\ batches' = batches \cup {[hosts |-> FilterReplicas(large), rows |-> Group(byPos[large])]}
    /\ byPos' = [byPos EXCEPT ![large] = Rest(@)]
    /\ large' = IF byPos'[large] = <<>> THEN 0 ELSE large
    /\ UNCHANGED <<rows, next, byReplica, reported, up, changes>>

(* The first of the shuffled replicas, if there is any.                         *)
FirstReplica(p) == IF FilterReplicas(p) = {} THEN {{}} ELSE {{h} : h \in FilterReplicas(p)}

AddToReplica(p) ==
    /\ Placed /\ large = 0 /\ p \in Waiting /\ Len(byPos[p]) <= MinBatch
    /\ \E c \in FirstReplica(p) : byReplica' = [byReplica EXCEPT ![c] = @ \o byPos[p]]
    /\ byPos' = [byPos EXCEPT ![p] = <<>>]
    /\ UNCHANGED <<rows, next, large, reported, batches, up, changes>>

SendByReplica(c) ==
    /\ Placed /\ large = 0 /\ Waiting = {} /\ byReplica[c] # <<>>
    /\ batches' = batches \cup {[hosts |-> c, rows |-> Group(byReplica[c])]}
    /\ byReplica' = [byReplica EXCEPT ![c] = Rest(@)]
    /\ UNCHANGED <<rows, next, byPos, large, reported, up, changes>>

Change(h) ==
    /\ changes < Changes /\ changes' = changes + 1
    /\ up' = IF h \in up THEN up \ {h} ELSE up \cup {h}
    /\ UNCHANGED <<rows, next, byPos, large, byReplica, reported, batches>>

Next == \/ PlaceRow \/ ReportRow \/ SendLarge
        \/ \E p \in Positions : TakeLarge(p) \/ AddToReplica(p)
        \/ \E c \in Keys : SendByReplica(c)
        \/ \E h \in Hosts : Change(h)
Spec == Init /\ [][Next]_vars

-----------------------------------------------------------------------------
Done == Placed /\ large = 0 /\ Waiting = {} /\ \A c \in Keys : byReplica[c] = <<>>

(* Each row is in one batch, or reported: none is sent twice or left out.      *)
RowsPartitioned ==
    /\ \A b \in batches : IsInjective(b.rows) /\ reported \cap ToSet(b.rows) = {}
    /\ \A b, d \in batches : b # d => ToSet(b.rows) \cap ToSet(d.rows) = {}
    /\ Done => DOMAIN rows = reported \cup UNION {ToSet(b.rows) : b \in batches}

(* The host a batch is sent to has the range of all its rows                   *)
(* (split_into_batches: "to guarantee common replicas across partition keys").  *)
(* A position has the tokens up to and including its own.                       *)
Owners(t) == LET from == {p \in Positions : Ring[p] >= t}
             IN Replicas[IF from = {} THEN 1 ELSE Min(from)]
CommonReplicas == \A b \in batches : \A r \in ToSet(b.rows) : b.hosts \subseteq Owners(rows[r])

(* Rows that could share a batch do: a batch that is not full is the only one   *)
(* of its kind, by position or by replica, or holds the rest of it.             *)
FewBatches == \A b, d \in batches :
    b # d /\ {GetRingPos(rows[r]) : r \in ToSet(b.rows)} \cap {GetRingPos(rows[r]) : r \in ToSet(d.rows)} # {} =>
        Len(b.rows) = MaxBatch \/ Len(d.rows) = MaxBatch
BatchesFit == \A b \in batches : Len(b.rows) \in 1..MaxBatch
FewAndFull == FewBatches /\ BatchesFit
=============================================================================
