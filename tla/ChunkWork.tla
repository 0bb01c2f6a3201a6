----------------------------- MODULE ChunkWork -----------------------------
(***************************************************************************)
(* What a worker process of COPY FROM promises its parent: every row of a  *)
(* chunk it takes is settled, that is stored or given up, and a chunk is   *)
(* reported after all its rows are.  MaxReports says how often; one is     *)
(* what the parent counts on.                                              *)
(***************************************************************************)
EXTENDS Naturals, FiniteSets

CONSTANTS
    Rows,           \* the rows of all chunks
    ChunkOf,        \* ChunkOf[r]: the chunk row r is sent in
    MaxReports      \* how often a chunk may be reported

VARIABLES
    settled,        \* rows stored or given up
    reports         \* reports[c]: results sent for chunk c

chunkVars == <<settled, reports>>

Chunks == {ChunkOf[r] : r \in Rows}
RowsOf(c) == {r \in Rows : ChunkOf[r] = c}

Init == settled = {} /\ reports = [c \in Chunks |-> 0]

Settle(R) ==
    /\ settled' = settled \cup R
    /\ UNCHANGED reports

Report(c) ==
    /\ RowsOf(c) \subseteq settled
    /\ reports[c] < MaxReports
    /\ reports' = [reports EXCEPT ![c] = @ + 1]
    /\ UNCHANGED settled

Next == (\E R \in SUBSET Rows : Settle(R)) \/ (\E c \in Chunks : Report(c))

Spec == Init /\ [][Next]_chunkVars
=============================================================================
