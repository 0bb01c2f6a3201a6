---------------------------- MODULE LedgerProofs ----------------------------
(***************************************************************************)
(* Theorems about Ledger, for any number of browsers, any forms and any    *)
(* seed rows: types, fresh transaction ids, unique users, true pages, and  *)
(* the append-only store the handlers implement.                           *)
(***************************************************************************)
EXTENDS Ledger, FiniteSetTheorems, TLAPS

\* A thread that has drawn an id and not committed it yet.
Holding(c) == thread[c].phase \in {"inserting", "inserted"} /\ Kind(c) = "txn"

\* What a thread carries fits what its request is.
ThreadsFit ==
    \A c \in Clients :
        /\ thread[c].phase # "idle" \/ "retry" \in browser[c].shown => browser[c].form \in Forms
        /\ thread[c].phase \in {"inserting", "inserted", "committed"} =>
              thread[c].row \in Rows(Kind(c))
        /\ thread[c].phase = "inserting" => thread[c].entries < Len(Indexes(Kind(c)))
        /\ thread[c].phase \in {"idle", "received", "connected"} => thread[c].entries = 0

\* No id in use is ahead of the sequence that gives them out.
IdsBehindSequence ==
    /\ \A r \in table["txn"] : r.transaction_id <= seq["txn"]
    /\ \A c \in Clients : Holding(c) => thread[c].row.transaction_id <= seq["txn"]

TypeInv == TypeOK /\ ThreadsFit
IdInv == IdsBehindSequence /\ FreshTransactionIds

-----------------------------------------------------------------------------
(* Forms, what Row makes of them, and the number of unique indexes.         *)
LEMMA FormFits ==
    ASSUME NEW f \in Forms
    PROVE  f.kind \in Kinds /\ f.quality \in Qualities
  BY FormsAssumption DEF UserForms, TxnForms, Kinds

LEMMA RowFits ==
    ASSUME NEW f \in Forms, NEW n \in Nat, NEW by \in Submissions
    PROVE  /\ Row(f, n, by) \in Rows(f.kind)
           /\ f.kind = "txn" => Row(f, n, by).transaction_id = n
  BY FormsAssumption DEF Row, Rows, UserForms, TxnForms, UserRows, TxnRows

LEMMA IndexCount == Len(Indexes("user")) = 4 /\ Len(Indexes("txn")) = 1
  BY DEF Indexes

-----------------------------------------------------------------------------
(* Type correctness: rows only reach the table they fit, ids and statuses   *)
(* are what the handlers produce.                                           *)
LEMMA TypeInvInit == Init => TypeInv
  <1> SUFFICES ASSUME Init PROVE TypeInv
    OBVIOUS
  <1> USE DEF Init, Kinds, Rows
  <1>1. Cardinality(SeedTxns) \in Nat
    BY SeedAssumption, FS_CardinalityType
  <1>2. TypeOK
    BY <1>1, SeedAssumption DEF TypeOK, Threads, Browsers, Idle, Serving, Phases
  <1>3. ThreadsFit
    BY DEF ThreadsFit, Idle, Serving
  <1> QED BY <1>2, <1>3 DEF TypeInv

LEMMA TypeInvStep == TypeInv /\ [Next]_vars => TypeInv'
  <1> SUFFICES ASSUME TypeInv, [Next]_vars PROVE TypeInv'
    OBVIOUS
  <1> USE DEF Phases, Serving, Replying
  <1>t. thread \in [Clients -> Threads]
    BY DEF TypeInv, TypeOK
  <1>b. browser \in [Clients -> Browsers]
    BY DEF TypeInv, TypeOK
  <1>d. /\ table \in [Kinds -> SUBSET (UserRows \cup TxnRows)]
        /\ \A k \in Kinds : table[k] \subseteq Rows(k)
        /\ seq \in [Kinds -> Nat]
    BY DEF TypeInv, TypeOK
  <1>f. ThreadsFit
    BY DEF TypeInv
  <1>i. ASSUME thread' \in [Clients -> Threads], browser' \in [Clients -> Browsers],
               UNCHANGED <<table, seq>>, ThreadsFit'
        PROVE  TypeInv'
    BY <1>d, <1>i DEF TypeInv, TypeOK
  <1>1. ASSUME NEW c \in Clients, Submit(c) PROVE TypeInv'
    <2>1. PICK f \in Forms :
             browser' = [browser EXCEPT ![c] = [form |-> f, sub |-> @.sub + 1, tries |-> 1,
                                                shown |-> {}]]
      BY <1>1 DEF Submit
    <2>2. browser[c].sub + 1 \in Nat
      BY <1>b DEF Browsers
    <2>3. browser' \in [Clients -> Browsers]
      BY <1>b, <2>1, <2>2 DEF Browsers
    <2>4. thread' \in [Clients -> Threads]
      BY <1>1, <1>t DEF Submit, Step, Threads
    <2>5. ThreadsFit'
      BY <1>1, <2>1, <1>t, <1>b, <1>f DEF Submit, Step, Threads, Browsers, ThreadsFit, Kind
    <2> QED BY <1>1, <2>3, <2>4, <2>5, <1>i DEF Submit
  <1>2. ASSUME NEW c \in Clients, Resubmit(c) PROVE TypeInv'
    <2>1. browser[c].tries + 1 \in Nat
      BY <1>b DEF Browsers
    <2>2. browser' \in [Clients -> Browsers]
      BY <1>2, <1>b, <2>1 DEF Resubmit, Browsers
    <2>3. thread' \in [Clients -> Threads]
      <3>1. thread' = [thread EXCEPT ![c].phase = "received"]
        BY <1>2 DEF Resubmit, Step
      <3> QED BY <3>1, <1>t DEF Threads
    <2>4. ThreadsFit'
      BY <1>2, <1>t, <1>b, <1>f DEF Resubmit, Step, Threads, Browsers, ThreadsFit, Kind
    <2> QED BY <1>2, <2>2, <2>3, <2>4, <1>i DEF Resubmit
  <1>3. ASSUME NEW c \in Clients, Deliver(c) \/ LoseReply(c) PROVE TypeInv'
    <2>1. PICK s \in SUBSET Words :
             browser' = [browser EXCEPT ![c].shown = s]
      BY <1>3 DEF Deliver, LoseReply, Words
    <2>2. /\ thread' = [thread EXCEPT ![c] = Idle] /\ UNCHANGED <<table, seq>>
          /\ thread[c].phase = "reply"
      BY <1>3 DEF Deliver, LoseReply
    <2>3. browser' \in [Clients -> Browsers]
      BY <1>b, <2>1 DEF Browsers
    <2>4. thread' \in [Clients -> Threads]
      BY <1>t, <2>2 DEF Idle, Threads
    <2>5. ThreadsFit'
      BY <2>1, <2>2, <1>t, <1>b, <1>f DEF Idle, Browsers, ThreadsFit, Kind
    <2> QED BY <2>2, <2>3, <2>4, <2>5, <1>i
  <1>4. ASSUME NEW c \in Clients,
               MissingTxnField(c) \/ ConnectFails(c) \/ RefuseEarly(c) \/ RefuseNull(c)
                 \/ UniqueViolation(c) \/ Acknowledge(c) \/ LoseConnection(c)
        PROVE  TypeInv'
    <2>1. PICK status \in {201, 400, 500} : Respond(c, status)
      BY <1>4 DEF MissingTxnField, ConnectFails, RefuseEarly, RefuseNull,
                  UniqueViolation, Acknowledge, LoseConnection
    <2>2. UNCHANGED <<table, seq, browser>> /\ thread[c].phase # "idle"
      BY <1>4 DEF MissingTxnField, ConnectFails, RefuseEarly, RefuseNull,
                  UniqueViolation, Acknowledge, LoseConnection
    <2>3. thread' \in [Clients -> Threads]
      BY <1>t, <2>1 DEF Respond, Threads
    <2>4. ThreadsFit'
      BY <2>1, <2>2, <1>t, <1>f DEF Respond, ThreadsFit, Kind
    <2> QED BY <2>2, <2>3, <2>4, <1>b, <1>i
  <1>5. ASSUME NEW c \in Clients, Connect(c) PROVE TypeInv'
    <2>1. thread' \in [Clients -> Threads]
      BY <1>5, <1>t DEF Connect, Step, Threads
    <2>2. ThreadsFit'
      BY <1>5, <1>t, <1>f DEF Connect, Step, Threads, ThreadsFit, Kind
    <2> QED BY <1>5, <2>1, <2>2, <1>b, <1>i DEF Connect
  <1>6. ASSUME NEW c \in Clients, Draw(c) PROVE TypeInv'
    <2> DEFINE new == Row(browser[c].form, seq[Kind(c)] + 1, Submission(c))
    <2>1. browser[c].form \in Forms
      BY <1>6, <1>f DEF Draw, ThreadsFit
    <2>2. Kind(c) \in Kinds
      BY <2>1, FormFits DEF Kind
    <2>3. seq[Kind(c)] + 1 \in Nat
      BY <1>d, <2>2
    <2>4. Submission(c) \in Submissions
      BY <1>b DEF Submission, Submissions, Browsers
    <2>5. new \in Rows(Kind(c))
      BY <2>1, <2>3, <2>4, RowFits DEF Kind
    <2>6. new \in UserRows \cup TxnRows
      BY <2>2, <2>5 DEF Rows, Kinds
    <2>7. seq' \in [Kinds -> Nat]
      BY <1>6, <1>d, <2>2, <2>3 DEF Draw
    <2>8. /\ thread' = [thread EXCEPT ![c] = Serving("inserting", new, 0)]
          /\ UNCHANGED <<table, browser>>
      BY <1>6 DEF Draw
    <2>9. 0 < Len(Indexes(Kind(c)))
      BY <2>2, IndexCount DEF Kinds
    <2> HIDE DEF new
    <2>10. thread' \in [Clients -> Threads]
      BY <1>t, <2>6, <2>8 DEF Threads
    <2>11. ThreadsFit'
      BY <2>1, <2>5, <2>8, <2>9, <1>t, <1>f DEF ThreadsFit, Kind
    <2> QED BY <2>7, <2>8, <2>10, <2>11, <1>b, <1>d DEF TypeInv, TypeOK
  <1>7. ASSUME NEW c \in Clients, EnterIndex(c) PROVE TypeInv'
    <2> DEFINE i == thread[c].entries + 1
               end == Len(Indexes(Kind(c)))
    <2>1. UNCHANGED <<table, seq, browser>> /\ thread[c].phase = "inserting"
      BY <1>7 DEF EnterIndex
    <2>2. Kind(c) \in Kinds
      BY <2>1, <1>f, FormFits DEF ThreadsFit, Kind
    <2>3. end \in 1 .. 4
      BY <2>2, IndexCount DEF Kinds
    <2>4. thread[c].entries \in Nat /\ thread[c].row \in UserRows \cup TxnRows \cup {NoRow}
      BY <1>t DEF Threads
    <2>5. i \in 0 .. 4 /\ (i < end \/ i = end)
      <3>1. thread[c].entries < end
        BY <2>1, <1>f DEF ThreadsFit
      <3> HIDE DEF end
      <3> QED BY <3>1, <2>3, <2>4
    <2>6. thread' = [thread EXCEPT ![c] =
                       Serving(IF i = end THEN "inserted" ELSE "inserting", @.row, i)]
      BY <1>7 DEF EnterIndex
    <2> HIDE DEF i
    <2>7. thread' \in [Clients -> Threads]
      BY <1>t, <2>4, <2>5, <2>6 DEF Threads
    <2>8. ThreadsFit'
      BY <2>1, <2>5, <2>6, <1>t, <1>f DEF ThreadsFit, Kind
    <2> QED BY <2>1, <2>7, <2>8, <1>b, <1>i
  <1>8. ASSUME NEW c \in Clients, Commit(c) PROVE TypeInv'
    <2>1. Kind(c) \in Kinds /\ thread[c].row \in Rows(Kind(c))
      BY <1>8, <1>f, FormFits DEF Commit, ThreadsFit, Kind
    <2>2. thread[c].row \in UserRows \cup TxnRows
      BY <2>1 DEF Rows, Kinds
    <2>3. /\ table' \in [Kinds -> SUBSET (UserRows \cup TxnRows)]
          /\ \A k \in Kinds : table'[k] \subseteq Rows(k)
      BY <1>8, <1>d, <2>1, <2>2 DEF Commit
    <2>4. UNCHANGED <<seq, browser>> /\ thread' \in [Clients -> Threads]
      BY <1>8, <1>t DEF Commit, Step, Threads
    <2>5. ThreadsFit'
      BY <1>8, <1>t, <1>f DEF Commit, Step, Threads, ThreadsFit, Kind
    <2> QED BY <2>3, <2>4, <2>5, <1>b, <1>d DEF TypeInv, TypeOK
  <1>9. CASE Restart
    <2>1. thread' \in [Clients -> Threads]
      BY <1>9 DEF Restart, Idle, Threads
    <2>2. browser' \in [Clients -> Browsers]
      BY <1>9, <1>b DEF Restart, Browsers, Words
    <2>3. ThreadsFit'
      <3> SUFFICES ASSUME NEW c \in Clients, "retry" \in browser'[c].shown
                   PROVE  browser'[c].form \in Forms
        BY <1>9 DEF Restart, Idle, ThreadsFit
      <3>1. thread[c].phase # "idle" \/ "retry" \in browser[c].shown
        BY <1>9, <1>b DEF Restart
      <3>2. browser'[c].form = browser[c].form
        BY <1>9, <1>b DEF Restart, Browsers
      <3> QED BY <3>1, <3>2, <1>f DEF ThreadsFit
    <2> QED BY <1>9, <2>1, <2>2, <2>3, <1>i DEF Restart
  <1>10. CASE UNCHANGED vars
    BY <1>10 DEF vars, TypeInv, TypeOK, ThreadsFit, Kind
  <1> QED BY <1>1, <1>2, <1>3, <1>4, <1>5, <1>6, <1>7, <1>8, <1>9, <1>10
          DEF Next, Serve, Fail

\* Every variable of the ledger keeps its type, and each table its own rows.
THEOREM TypeCorrect == Spec => []TypeOK
  <1>1. TypeInv => TypeOK
    BY DEF TypeInv
  <1> QED BY TypeInvInit, TypeInvStep, <1>1, PTL DEF Spec

-----------------------------------------------------------------------------
(* The steps that leave the tables alone and no open insert in their thread. *)
Closes(c) ==
    \/ Resubmit(c) \/ Deliver(c) \/ LoseReply(c) \/ MissingTxnField(c) \/ ConnectFails(c)
    \/ RefuseEarly(c) \/ RefuseNull(c) \/ UniqueViolation(c) \/ Acknowledge(c)
    \/ LoseConnection(c) \/ Connect(c)

LEMMA ClosesInsertsNothing ==
    ASSUME TypeInv, NEW c \in Clients, Closes(c)
    PROVE  /\ \A d \in Clients : Kind(d)' = Kind(d)
           /\ UNCHANGED <<table, seq>>
           /\ thread'[c].phase \notin {"inserting", "inserted"}
           /\ \A d \in Clients \ {c} : thread'[d] = thread[d]
  <1> USE DEF Closes, Resubmit, Deliver, LoseReply, MissingTxnField, ConnectFails, RefuseEarly,
              RefuseNull, UniqueViolation, Acknowledge, LoseConnection, Connect
  <1>t. thread \in [Clients -> Threads] /\ browser \in [Clients -> Browsers]
    BY DEF TypeInv, TypeOK
  <1>1. /\ \A d \in Clients : Kind(d)' = Kind(d)
        /\ UNCHANGED <<table, seq>>
    BY <1>t DEF Kind, Browsers
  <1>2. thread'[c].phase \notin {"inserting", "inserted"}
    BY <1>t DEF Respond, Step, Idle, Serving, Replying, Threads
  <1>3. \A d \in Clients \ {c} : thread'[d] = thread[d]
    BY <1>t DEF Respond, Step, Idle, Serving, Replying
  <1> QED BY <1>1, <1>2, <1>3

-----------------------------------------------------------------------------
(* Freshness: an id is drawn once and stays behind the sequence.            *)
LEMMA IdInvInit == Init => IdInv
  <1> SUFFICES ASSUME Init PROVE IdInv
    OBVIOUS
  <1>1. Cardinality(SeedTxns) \in Nat
    BY SeedAssumption, FS_CardinalityType
  <1>2. \A c \in Clients : thread[c].phase = "idle"
    BY DEF Init, Idle, Serving
  <1>3. \A r \in SeedTxns : r.transaction_id <= Cardinality(SeedTxns)
    BY <1>1, SeedAssumption
  <1>4. table["txn"] = SeedTxns /\ seq["txn"] = Cardinality(SeedTxns)
    BY DEF Init, Kinds
  <1> QED BY <1>2, <1>3, <1>4 DEF IdInv, IdsBehindSequence, FreshTransactionIds, Holding

LEMMA IdInvStep == TypeInv /\ IdInv /\ [Next]_vars => IdInv'
  <1> SUFFICES ASSUME TypeInv, IdInv, [Next]_vars PROVE IdInv'
    OBVIOUS
  <1> USE DEF Serving, Replying
  <1>t. thread \in [Clients -> Threads] /\ browser \in [Clients -> Browsers]
    BY DEF TypeInv, TypeOK
  <1>n. seq["txn"] \in Nat /\ seq \in [Kinds -> Nat] /\ table["txn"] \subseteq TxnRows
        /\ table \in [Kinds -> SUBSET (UserRows \cup TxnRows)]
    BY DEF TypeInv, TypeOK, Kinds, Rows
  <1>h. \A c \in Clients : Holding(c) => thread[c].row \in TxnRows
    BY DEF TypeInv, ThreadsFit, Holding, Rows
  \* It is enough that no thread comes to hold an id.
  <1>i. ASSUME \A c \in Clients : Holding(c)' => Holding(c) /\ thread'[c].row = thread[c].row,
               table'["txn"] = table["txn"], seq'["txn"] = seq["txn"]
        PROVE  IdInv'
    BY <1>i DEF IdInv, IdsBehindSequence, FreshTransactionIds, Holding
  <1>1. ASSUME NEW c \in Clients, Submit(c) PROVE IdInv'
    <2>1. \A d \in Clients \ {c} : browser'[d] = browser[d] /\ thread'[d] = thread[d]
      BY <1>1, <1>t DEF Submit, Step
    <2>2. thread'[c].phase = "received"
      BY <1>1, <1>t DEF Submit, Step, Threads
    <2> QED BY <1>1, <2>1, <2>2, <1>i DEF Submit, Holding, Kind
  <1>2. ASSUME NEW c \in Clients, Closes(c) PROVE IdInv'
    BY <1>2, <1>i, ClosesInsertsNothing DEF Holding
  <1>3. ASSUME NEW c \in Clients, Draw(c) PROVE IdInv'
    <2> DEFINE new == Row(browser[c].form, seq[Kind(c)] + 1, Submission(c))
    <2>1. browser[c].form \in Forms
      BY <1>3 DEF Draw, TypeInv, ThreadsFit
    <2>2. /\ \A d \in Clients \ {c} : thread'[d] = thread[d]
          /\ thread'[c].row = new
          /\ UNCHANGED <<table, browser>>
          /\ \A d \in Clients : Kind(d)' = Kind(d)
      BY <1>3, <1>t DEF Draw, Kind
    <2>3. CASE Kind(c) = "txn"
      <3>1. new.transaction_id = seq["txn"] + 1
        <4>1. Submission(c) \in Submissions
          BY <1>t DEF Submission, Submissions, Browsers
        <4> QED BY <2>1, <2>3, <4>1, <1>n, RowFits DEF Kind
      <3>2. seq'["txn"] = seq["txn"] + 1
        BY <1>3, <2>3, <1>n DEF Draw, Kinds
      <3>3. \A r \in table["txn"] : r.transaction_id \in Nat
        BY <1>n DEF TxnRows
      <3>4. \A d \in Clients : Holding(d) => thread[d].row.transaction_id \in Nat
        BY <1>h DEF TxnRows
      <3>5. ~Holding(c)
        BY <1>3 DEF Draw, Holding
      <3> HIDE DEF new
      <3>6. \A d \in Clients \ {c} : Holding(d)' = Holding(d)
        BY <2>2 DEF Holding
      <3>7. IdsBehindSequence'
        BY <3>1, <3>2, <3>3, <3>4, <3>6, <2>2, <1>n DEF IdInv, IdsBehindSequence
      <3>8. FreshTransactionIds'
        BY <3>1, <3>3, <3>4, <3>6, <2>2, <1>n
           DEF IdInv, IdsBehindSequence, FreshTransactionIds, Holding
      <3> QED BY <3>7, <3>8 DEF IdInv
    <2>4. CASE Kind(c) = "user"
      <3>1. seq'["txn"] = seq["txn"]
        BY <1>3, <2>4, <1>n DEF Draw, Kinds
      <3> QED BY <2>2, <2>4, <3>1, <1>i DEF Holding
    <2> QED BY <2>1, <2>3, <2>4, FormFits DEF Kind, Kinds
  <1>4. ASSUME NEW c \in Clients, EnterIndex(c) PROVE IdInv'
    <2>1. \A d \in Clients : thread'[d].row = thread[d].row
      BY <1>4, <1>t DEF EnterIndex
    <2>2. \A d \in Clients : thread'[d].phase = thread[d].phase \/ thread[d].phase = "inserting"
      BY <1>4, <1>t DEF EnterIndex
    <2>3. UNCHANGED <<table, seq, browser>>
      BY <1>4 DEF EnterIndex
    <2> QED BY <2>1, <2>2, <2>3, <1>i DEF Holding, Kind
  <1>5. ASSUME NEW c \in Clients, Commit(c) PROVE IdInv'
    <2>1. /\ \A d \in Clients \ {c} : thread'[d] = thread[d]
          /\ thread'[c].phase = "committed"
          /\ thread[c].phase = "inserted"
          /\ UNCHANGED <<seq, browser>>
      BY <1>5, <1>t DEF Commit, Step, Threads
    <2>2. \A d \in Clients : Holding(d)' => d # c /\ Holding(d) /\ thread'[d].row = thread[d].row
      BY <2>1 DEF Holding, Kind
    <2>3. CASE Kind(c) = "txn"
      <3>1. table'["txn"] = table["txn"] \cup {thread[c].row}
        BY <1>5, <2>3, <1>n DEF Commit, Kinds
      <3>2. Holding(c)
        BY <2>1, <2>3 DEF Holding
      <3> QED BY <2>1, <2>2, <3>1, <3>2
              DEF IdInv, IdsBehindSequence, FreshTransactionIds, Holding
    <2>4. CASE Kind(c) # "txn"
      <3>1. table'["txn"] = table["txn"]
        BY <1>5, <2>4, <1>n DEF Commit, Kinds
      <3> QED BY <2>1, <2>2, <3>1, <1>i
    <2> QED BY <2>3, <2>4
  <1>6. CASE Restart
    BY <1>6, <1>i DEF Restart, Idle, Holding
  <1>7. CASE UNCHANGED vars
    BY <1>7, <1>i DEF vars, Holding, Kind
  <1> QED BY <1>1, <1>2, <1>3, <1>4, <1>5, <1>6, <1>7 DEF Next, Serve, Fail, Closes

\* No two handlers ever hold the same transaction id, and no handler holds
\* one that is stored, for any number of browsers and any seed rows.
THEOREM TransactionIdsFresh == Spec => []FreshTransactionIds
  <1>1. Init => TypeInv /\ IdInv
    BY TypeInvInit, IdInvInit
  <1>2. TypeInv /\ IdInv /\ [Next]_vars => (TypeInv /\ IdInv)'
    BY TypeInvStep, IdInvStep
  <1>3. IdInv => FreshTransactionIds
    BY DEF IdInv
  <1> QED BY <1>1, <1>2, <1>3, PTL DEF Spec

-----------------------------------------------------------------------------
(* Uniqueness: a row holds its entries in the unique indexes from the time   *)
(* it makes them, so whoever makes the same entry has to look at it first.   *)
Building(c) == thread[c].phase \in {"inserting", "inserted"} /\ Kind(c) = "user"

\* An entry made by an open insert is in no stored row and in no other open
\* insert, and an insert that is done has made all four.
EntriesAreUnique ==
    \A c \in Clients : Building(c) =>
        /\ thread[c].phase = "inserted" => thread[c].entries = 4
        /\ \A i \in 1 .. 4 : i <= thread[c].entries =>
            /\ \A r \in table["user"] : r[Indexes("user")[i]] # thread[c].row[Indexes("user")[i]]
            /\ \A d \in Clients \ {c} : Building(d) /\ i <= thread[d].entries =>
                  thread[d].row[Indexes("user")[i]] # thread[c].row[Indexes("user")[i]]

UniqueInv == UsersAreUnique /\ EntriesAreUnique

LEMMA UniqueInvInit == Init => UniqueInv
  <1> SUFFICES ASSUME Init PROVE UniqueInv
    OBVIOUS
  <1>1. table["user"] = SeedUsers
    BY DEF Init, Kinds
  <1>2. \A c \in Clients : ~Building(c)
    BY DEF Init, Idle, Serving, Building
  <1> QED BY <1>1, <1>2, SeedAssumption DEF UniqueInv, UsersAreUnique, EntriesAreUnique

LEMMA UniqueInvStep == TypeInv /\ UniqueInv /\ [Next]_vars => UniqueInv'
  <1> SUFFICES ASSUME TypeInv, UniqueInv, [Next]_vars PROVE UniqueInv'
    OBVIOUS
  <1> DEFINE Column(i) == Indexes("user")[i]
  <1>t. thread \in [Clients -> Threads] /\ table \in [Kinds -> SUBSET (UserRows \cup TxnRows)]
    BY DEF TypeInv, TypeOK
  <1>n. \A c \in Clients : thread[c].entries \in 0 .. 4
    BY <1>t DEF Threads
  <1>u. /\ \A i \in 1 .. 4 : \A r, s \in table["user"] : r[Column(i)] = s[Column(i)] => r = s
        /\ EntriesAreUnique
    BY DEF UniqueInv, UsersAreUnique
  <1> HIDE DEF Column
  \* It is enough that no insert of a user starts or moves on.
  <1>i. ASSUME \A c \in Clients : Building(c)' => Building(c) /\ thread'[c] = thread[c],
               table'["user"] = table["user"]
        PROVE  UniqueInv'
    BY <1>i DEF UniqueInv, UsersAreUnique, EntriesAreUnique
  <1>1. ASSUME NEW c \in Clients, Submit(c) PROVE UniqueInv'
    <2>1. \A d \in Clients \ {c} : browser'[d] = browser[d] /\ thread'[d] = thread[d]
      BY <1>1, <1>t DEF Submit, Step
    <2>2. thread'[c].phase = "received" /\ table' = table
      BY <1>1, <1>t DEF Submit, Step, Threads
    <2> QED BY <2>1, <2>2, <1>i DEF Building, Kind
  <1>2. ASSUME NEW c \in Clients, Closes(c) PROVE UniqueInv'
    BY <1>2, <1>i, ClosesInsertsNothing DEF Building
  <1>3. ASSUME NEW c \in Clients, Draw(c) PROVE UniqueInv'
    <2>1. /\ \A d \in Clients \ {c} : thread'[d] = thread[d]
          /\ thread'[c].entries = 0 /\ thread'[c].phase = "inserting"
          /\ table' = table /\ browser' = browser
      BY <1>3, <1>t DEF Draw, Serving
    <2>2. \A d \in Clients \ {c} : Building(d)' = Building(d)
      BY <2>1 DEF Building, Kind
    <2>3. EntriesAreUnique'
      BY <2>1, <2>2, <1>u, <1>n DEF EntriesAreUnique
    <2> QED BY <2>1, <2>3 DEF UniqueInv, UsersAreUnique
  <1>4. ASSUME NEW c \in Clients, EnterIndex(c) PROVE UniqueInv'
    <2> DEFINE j == thread[c].entries + 1
    <2>1. /\ \A d \in Clients \ {c} : thread'[d] = thread[d]
          /\ thread'[c].entries = j /\ thread'[c].row = thread[c].row
          /\ thread[c].phase = "inserting"
          /\ thread'[c].phase = IF j = Len(Indexes(Kind(c))) THEN "inserted" ELSE "inserting"
          /\ table' = table /\ browser' = browser
          /\ ~Stored(c, j) /\ ~HeldByOther(c, j)
      BY <1>4, <1>t DEF EnterIndex, Serving
    <2>2. \A d \in Clients \ {c} : Building(d)' = Building(d)
      BY <2>1 DEF Building, Kind
    <2>3. CASE Kind(c) = "user"
      <3>1. j \in 1 .. 5
        BY <1>n
      <3>2. \A r \in table["user"] : r[Column(j)] # thread[c].row[Column(j)]
        BY <2>1, <2>3 DEF Stored, Entry, Column
      <3>3. \A d \in Clients \ {c} : Building(d) /\ j <= thread[d].entries =>
                                       thread[d].row[Column(j)] # thread[c].row[Column(j)]
        BY <2>1, <2>3 DEF HeldByOther, Entry, Building, Column
      <3>4. Building(c)
        BY <2>1, <2>3 DEF Building
      <3>5. thread'[c].phase = "inserted" => j = 4
        BY <2>1, <2>3, IndexCount
      <3> HIDE DEF j
      <3>6. \A i \in 1 .. 4 : i <= j => i = j \/ i <= thread[c].entries
        BY <3>1, <1>n DEF j
      <3>u. \A d \in Clients : Building(d) =>
               /\ thread[d].phase = "inserted" => thread[d].entries = 4
               /\ \A i \in 1 .. 4 : i <= thread[d].entries =>
                    /\ \A r \in table["user"] : r[Column(i)] # thread[d].row[Column(i)]
                    /\ \A e \in Clients \ {d} : Building(e) /\ i <= thread[e].entries =>
                          thread[e].row[Column(i)] # thread[d].row[Column(i)]
        BY <1>u DEF EntriesAreUnique, Column
      <3>7. /\ thread'[c].phase = "inserted" => thread'[c].entries = 4
            /\ \A i \in 1 .. 4 : i <= thread'[c].entries =>
                 /\ \A r \in table'["user"] : r[Column(i)] # thread'[c].row[Column(i)]
                 /\ \A e \in Clients \ {c} : Building(e)' /\ i <= thread'[e].entries =>
                       thread'[e].row[Column(i)] # thread'[c].row[Column(i)]
        BY <2>1, <2>2, <3>2, <3>3, <3>4, <3>5, <3>6, <3>u
      <3>8. ASSUME NEW d \in Clients \ {c}, Building(d)'
            PROVE  /\ thread'[d].phase = "inserted" => thread'[d].entries = 4
                   /\ \A i \in 1 .. 4 : i <= thread'[d].entries =>
                        /\ \A r \in table'["user"] : r[Column(i)] # thread'[d].row[Column(i)]
                        /\ \A e \in Clients \ {d} : Building(e)' /\ i <= thread'[e].entries =>
                              thread'[e].row[Column(i)] # thread'[d].row[Column(i)]
        <4>1. Building(d) /\ thread'[d] = thread[d] /\ table' = table
          BY <3>8, <2>1, <2>2
        <4>2. ASSUME NEW i \in 1 .. 4, i <= thread'[d].entries,
                     NEW e \in Clients \ {d}, Building(e)', i <= thread'[e].entries
              PROVE  thread'[e].row[Column(i)] # thread'[d].row[Column(i)]
          <5>1. CASE e = c
            BY <4>1, <4>2, <5>1, <3>7, <3>8
          <5>2. CASE e # c
            BY <4>1, <4>2, <5>2, <3>u, <2>1, <2>2
          <5> QED BY <5>1, <5>2
        <4> QED BY <4>1, <4>2, <3>u
      <3>9. EntriesAreUnique'
        BY <3>7, <3>8 DEF EntriesAreUnique, Column
      <3> QED BY <2>1, <3>9 DEF UniqueInv, UsersAreUnique
    <2>4. CASE Kind(c) # "user"
      BY <2>1, <2>2, <2>4, <1>i DEF Building, Kind
    <2> QED BY <2>3, <2>4
  <1>5. ASSUME NEW c \in Clients, Commit(c) PROVE UniqueInv'
    <2>1. /\ \A d \in Clients \ {c} : thread'[d] = thread[d]
          /\ thread'[c].phase = "committed" /\ thread[c].phase = "inserted"
          /\ browser' = browser
      BY <1>5, <1>t DEF Commit, Step, Threads
    <2>2. \A d \in Clients : Building(d)' => d # c /\ Building(d) /\ thread'[d] = thread[d]
      BY <2>1 DEF Building, Kind
    <2>3. CASE Kind(c) = "user"
      <3>1. table'["user"] = table["user"] \cup {thread[c].row}
        BY <1>5, <2>3, <1>t DEF Commit, Kinds
      <3>2. Building(c) /\ thread[c].entries = 4
        BY <2>1, <2>3, <1>u DEF Building, EntriesAreUnique
      <3>3. \A i \in 1 .. 4 : \A r \in table["user"] : r[Column(i)] # thread[c].row[Column(i)]
        BY <3>2, <1>u DEF EntriesAreUnique, Column
      <3>4. \A i \in 1 .. 4 : \A d \in Clients \ {c} :
               Building(d) /\ i <= thread[d].entries =>
                 thread[d].row[Column(i)] # thread[c].row[Column(i)]
        BY <3>2, <1>u DEF EntriesAreUnique, Column
      <3>5. UsersAreUnique'
        BY <3>1, <3>3, <1>u DEF UsersAreUnique, Column
      <3>6. EntriesAreUnique'
        BY <2>2, <3>1, <3>4, <1>u DEF EntriesAreUnique, Column
      <3> QED BY <3>5, <3>6 DEF UniqueInv
    <2>4. CASE Kind(c) # "user"
      <3>1. table'["user"] = table["user"]
        BY <1>5, <2>4, <1>t DEF Commit, Kinds
      <3> QED BY <2>2, <3>1, <1>i
    <2> QED BY <2>3, <2>4
  <1>6. CASE Restart
    BY <1>6, <1>i DEF Restart, Idle, Serving, Building
  <1>7. CASE UNCHANGED vars
    BY <1>7, <1>i DEF vars, Building, Kind
  <1> QED BY <1>1, <1>2, <1>3, <1>4, <1>5, <1>6, <1>7 DEF Next, Serve, Fail, Closes

\* Two stored users differ in every column declared UNIQUE, for any number of
\* browsers inserting side by side and any forms they fill in.
THEOREM UniqueColumnsHold == Spec => []UsersAreUnique
  <1>1. Init => TypeInv /\ UniqueInv
    BY TypeInvInit, UniqueInvInit
  <1>2. TypeInv /\ UniqueInv /\ [Next]_vars => (TypeInv /\ UniqueInv)'
    BY TypeInvStep, UniqueInvStep
  <1>3. UniqueInv => UsersAreUnique
    BY DEF UniqueInv
  <1> QED BY <1>1, <1>2, <1>3, PTL DEF Spec

-----------------------------------------------------------------------------
(* Reports: a row carries the submission it was made for, a submission has   *)
(* rows only once its thread has committed, and the answer comes after that. *)
AllRows == table["user"] \cup table["txn"]
HasRow(c) == \E r \in AllRows : r.by = Submission(c)
Answering(c, status) == thread[c].phase = "reply" /\ thread[c].status = status

RowsBearTheirSubmission(c) ==
    /\ thread[c].phase \in {"inserting", "inserted"} => thread[c].row.by = Submission(c)
    /\ \A r \in AllRows : r.by.client = c => r.by.sub <= browser[c].sub

PageWaits(c) ==
    /\ thread[c].phase # "idle" => browser[c].shown = {} /\ browser[c].tries >= 1
    /\ "retry" \in browser[c].shown => browser[c].tries >= 1

IdHasRow(c) ==
    thread[c].phase = "committed" \/ Answering(c, 201) \/ "id" \in browser[c].shown
        => HasRow(c)

\* Until the first posting of a form commits, nothing stands for it.
ErrorHasNone(c) ==
    /\ browser[c].tries = 1
    /\ \/ thread[c].phase \in {"received", "connected", "inserting", "inserted"}
       \/ Answering(c, 400) \/ "error" \in browser[c].shown
    => ~HasRow(c)

ReportOK(c) ==
    RowsBearTheirSubmission(c) /\ PageWaits(c) /\ IdHasRow(c) /\ ErrorHasNone(c)
ReportInv == \A c \in Clients : ReportOK(c)

LEMMA ReportInvInit == Init => ReportInv
  <1> SUFFICES ASSUME Init, NEW c \in Clients PROVE ReportOK(c)
    BY DEF ReportInv
  <1>1. AllRows = SeedUsers \cup SeedTxns
    BY DEF Init, Kinds, AllRows
  <1>2. thread[c].phase = "idle" /\ browser[c].shown = {} /\ browser[c].tries = 0
    BY DEF Init, Idle, Serving
  <1>3. RowsBearTheirSubmission(c)
    BY <1>1, <1>2, SeedAssumption DEF RowsBearTheirSubmission
  <1> QED BY <1>2, <1>3 DEF ReportOK, PageWaits, IdHasRow, ErrorHasNone, Answering

\* What c does leaves the other pages and their submissions alone.
LEMMA OthersReported ==
    ASSUME NEW c \in Clients, NEW d \in Clients \ {c}, ReportOK(d),
           thread'[d] = thread[d], browser'[d] = browser[d],
           AllRows \subseteq AllRows',
           \A r \in AllRows' : r \in AllRows \/ r.by = Submission(c)
    PROVE  ReportOK(d)'
  <1>1. Submission(d)' = Submission(d)
    BY DEF Submission
  <1>2. \A r : r.by = Submission(c) => r.by.client # d
    BY DEF Submission
  <1>3. Submission(d).client = d
    BY DEF Submission
  <1>4. HasRow(d)' = HasRow(d)
    BY <1>1, <1>2, <1>3 DEF HasRow
  <1>5. RowsBearTheirSubmission(d)'
    BY <1>1, <1>2 DEF ReportOK, RowsBearTheirSubmission
  <1>6. PageWaits(d)'
    BY DEF ReportOK, PageWaits
  <1>7. IdHasRow(d)' /\ ErrorHasNone(d)'
    BY <1>4 DEF ReportOK, IdHasRow, ErrorHasNone, Answering
  <1> QED BY <1>5, <1>6, <1>7 DEF ReportOK

\* The tables as they are, c's form the same: c's rows stand for it as before.
LEMMA SameFormSameRows ==
    ASSUME NEW c \in Clients, table' = table, browser'[c].sub = browser[c].sub
    PROVE  /\ AllRows' = AllRows /\ Submission(c)' = Submission(c) /\ HasRow(c)' = HasRow(c)
           /\ /\ RowsBearTheirSubmission(c)
              /\ thread'[c].phase \in {"inserting", "inserted"} =>
                    /\ thread[c].phase \in {"inserting", "inserted"}
                    /\ thread'[c].row = thread[c].row
              => RowsBearTheirSubmission(c)'
  <1>1. AllRows' = AllRows /\ Submission(c)' = Submission(c)
    BY DEF AllRows, Submission
  <1> QED BY <1>1 DEF HasRow, RowsBearTheirSubmission

LEMMA ReportInvStep == TypeInv /\ ReportInv /\ [Next]_vars => ReportInv'
  <1> SUFFICES ASSUME TypeInv, ReportInv, [Next]_vars PROVE ReportInv'
    OBVIOUS
  <1>t. thread \in [Clients -> Threads] /\ browser \in [Clients -> Browsers]
        /\ table \in [Kinds -> SUBSET (UserRows \cup TxnRows)]
    BY DEF TypeInv, TypeOK
  <1>r. \A c \in Clients : ReportOK(c)
    BY DEF ReportInv
  <1>n. \A c \in Clients : browser[c].sub \in Nat /\ browser[c].tries \in Nat
    BY <1>t DEF Browsers
  \* A step of c: enough to look at c when the others keep what they have.
  <1>i. ASSUME NEW c \in Clients, ReportOK(c)', table' = table,
               \A d \in Clients \ {c} : thread'[d] = thread[d] /\ browser'[d] = browser[d]
        PROVE  ReportInv'
    <2>1. AllRows' = AllRows
      BY <1>i DEF AllRows
    <2> QED BY <1>i, <1>r, <2>1, OthersReported DEF ReportInv
  <1>1. ASSUME NEW c \in Clients, Submit(c) PROVE ReportInv'
    <2>1. /\ thread'[c].phase = "received"
          /\ browser'[c].sub = browser[c].sub + 1 /\ browser'[c].tries = 1
          /\ browser'[c].shown = {} /\ table' = table
      BY <1>1, <1>t DEF Submit, Step, Threads
    <2>2. \A d \in Clients \ {c} : browser'[d] = browser[d] /\ thread'[d] = thread[d]
      BY <1>1, <1>t DEF Submit, Step
    <2>3. \A r \in AllRows : r.by.client = c => r.by.sub <= browser[c].sub
      BY <1>r DEF ReportOK, RowsBearTheirSubmission
    <2>4. AllRows' = AllRows
      BY <2>1 DEF AllRows
    <2>5. \A r \in AllRows : r.by.sub \in Nat
      BY <1>t DEF AllRows, Kinds, UserRows, TxnRows, Submissions
    <2>6. ~HasRow(c)'
      <3>1. Submission(c)' = [sub |-> browser[c].sub + 1, client |-> c]
        BY <2>1 DEF Submission
      <3> QED BY <2>3, <2>4, <2>5, <3>1, <1>n DEF HasRow
    <2>7. RowsBearTheirSubmission(c)'
      BY <2>1, <2>3, <2>4, <2>5, <1>n DEF RowsBearTheirSubmission
    <2>8. ReportOK(c)'
      BY <2>1, <2>6, <2>7 DEF ReportOK, PageWaits, IdHasRow, ErrorHasNone, Answering
    <2> QED BY <2>1, <2>2, <2>8, <1>i
  <1>2. ASSUME NEW c \in Clients, Resubmit(c) PROVE ReportInv'
    <2>1. /\ thread'[c].phase = "received"
          /\ browser'[c].sub = browser[c].sub /\ browser'[c].tries = browser[c].tries + 1
          /\ browser'[c].shown = {} /\ "retry" \in browser[c].shown /\ table' = table
      BY <1>2, <1>t DEF Resubmit, Step, Threads
    <2>2. \A d \in Clients \ {c} : browser'[d] = browser[d] /\ thread'[d] = thread[d]
      BY <1>2, <1>t DEF Resubmit, Step
    <2>3. RowsBearTheirSubmission(c)'
      BY <2>1, <1>r, SameFormSameRows DEF ReportOK
    <2>4. browser'[c].tries >= 1 /\ browser'[c].tries # 1
      BY <2>1, <1>r, <1>n DEF ReportOK, PageWaits
    <2>5. ReportOK(c)'
      BY <2>1, <2>3, <2>4 DEF ReportOK, PageWaits, IdHasRow, ErrorHasNone, Answering
    <2> QED BY <2>1, <2>2, <2>5, <1>i
  <1>3. ASSUME NEW c \in Clients, Deliver(c) \/ LoseReply(c) PROVE ReportInv'
    <2>1. /\ thread[c].phase = "reply" /\ thread'[c].phase = "idle" /\ table' = table
          /\ browser'[c].sub = browser[c].sub /\ browser'[c].tries = browser[c].tries
          /\ \/ browser'[c].shown = {"retry"}
             \/ browser'[c].shown = {"added", "id"} /\ thread[c].status = 201
             \/ browser'[c].shown = {"added", "error"} /\ thread[c].status = 400
      BY <1>3, <1>t DEF Deliver, LoseReply, Idle, Serving, Browsers
    <2>2. \A d \in Clients \ {c} : browser'[d] = browser[d] /\ thread'[d] = thread[d]
      BY <1>3, <1>t DEF Deliver, LoseReply
    <2>3. RowsBearTheirSubmission(c)' /\ HasRow(c)' = HasRow(c)
      BY <2>1, <1>r, SameFormSameRows DEF ReportOK
    <2>4. ReportOK(c)'
      BY <2>1, <2>3, <1>r DEF ReportOK, PageWaits, IdHasRow, ErrorHasNone, Answering
    <2> QED BY <2>1, <2>2, <2>4, <1>i
  <1>4. ASSUME NEW c \in Clients,
               MissingTxnField(c) \/ ConnectFails(c) \/ RefuseEarly(c) \/ RefuseNull(c)
                 \/ UniqueViolation(c) \/ Acknowledge(c) \/ LoseConnection(c)
        PROVE  ReportInv'
    <2>1. /\ thread'[c].phase = "reply" /\ UNCHANGED <<table, browser>>
          /\ \/ thread'[c].status = 500 /\ thread[c].phase # "idle"
             \/ thread'[c].status = 400 /\ thread[c].phase \in {"connected", "inserting"}
             \/ thread'[c].status = 201 /\ thread[c].phase = "committed"
      BY <1>4, <1>t DEF MissingTxnField, ConnectFails, RefuseEarly, RefuseNull, UniqueViolation,
           Acknowledge, LoseConnection, Respond, Replying
    <2>2. \A d \in Clients \ {c} : browser'[d] = browser[d] /\ thread'[d] = thread[d]
      BY <1>4, <1>t DEF MissingTxnField, ConnectFails, RefuseEarly, RefuseNull, UniqueViolation,
           Acknowledge, LoseConnection, Respond
    <2>3. RowsBearTheirSubmission(c)' /\ HasRow(c)' = HasRow(c)
      BY <2>1, <1>r, SameFormSameRows DEF ReportOK
    <2>4. ReportOK(c)'
      BY <2>1, <2>3, <1>r DEF ReportOK, PageWaits, IdHasRow, ErrorHasNone, Answering
    <2> QED BY <2>1, <2>2, <2>4, <1>i
  <1>5. ASSUME NEW c \in Clients, Connect(c) \/ EnterIndex(c) PROVE ReportInv'
    <2>1. /\ UNCHANGED <<table, browser>>
          /\ \/ thread[c].phase = "received" /\ thread'[c].phase = "connected"
             \/ /\ thread[c].phase = "inserting" /\ thread'[c].row = thread[c].row
                /\ thread'[c].phase \in {"inserting", "inserted"}
      BY <1>5, <1>t DEF Connect, EnterIndex, Step, Serving, Threads
    <2>2. \A d \in Clients \ {c} : browser'[d] = browser[d] /\ thread'[d] = thread[d]
      BY <1>5, <1>t DEF Connect, EnterIndex, Step
    <2>3. RowsBearTheirSubmission(c)' /\ HasRow(c)' = HasRow(c)
      BY <2>1, <1>r, SameFormSameRows DEF ReportOK
    <2>4. ReportOK(c)'
      BY <2>1, <2>3, <1>r DEF ReportOK, PageWaits, IdHasRow, ErrorHasNone, Answering
    <2> QED BY <2>1, <2>2, <2>4, <1>i
  <1>6. ASSUME NEW c \in Clients, Draw(c) PROVE ReportInv'
    <2>1. /\ UNCHANGED <<table, browser>>
          /\ thread[c].phase = "connected" /\ thread'[c].phase = "inserting"
          /\ thread'[c].row = Row(browser[c].form, seq[Kind(c)] + 1, Submission(c))
      BY <1>6, <1>t DEF Draw, Serving
    <2>2. \A d \in Clients \ {c} : browser'[d] = browser[d] /\ thread'[d] = thread[d]
      BY <1>6, <1>t DEF Draw
    <2>3. thread'[c].row.by = Submission(c)
      BY <2>1 DEF Row
    <2>4. AllRows' = AllRows /\ Submission(c)' = Submission(c) /\ HasRow(c)' = HasRow(c)
      BY <2>1, SameFormSameRows
    <2>5. RowsBearTheirSubmission(c)'
      BY <2>1, <2>3, <2>4, <1>r DEF ReportOK, RowsBearTheirSubmission
    <2>6. ReportOK(c)'
      BY <2>1, <2>4, <2>5, <1>r DEF ReportOK, PageWaits, IdHasRow, ErrorHasNone, Answering
    <2> QED BY <2>1, <2>2, <2>6, <1>i
  <1>7. ASSUME NEW c \in Clients, Commit(c) PROVE ReportInv'
    <2>1. /\ thread[c].phase = "inserted" /\ thread'[c].phase = "committed"
          /\ browser' = browser
      BY <1>7, <1>t DEF Commit, Step, Threads
    <2>2. \A d \in Clients \ {c} : browser'[d] = browser[d] /\ thread'[d] = thread[d]
      BY <1>7, <1>t DEF Commit, Step
    <2>3. Kind(c) \in Kinds
      BY <1>7, FormFits DEF Commit, Kind, TypeInv, ThreadsFit
    <2>4. AllRows' = AllRows \cup {thread[c].row}
      BY <1>7, <1>t, <2>3 DEF Commit, AllRows, Kinds
    <2>5. thread[c].row.by = Submission(c)
      BY <1>r, <2>1 DEF ReportOK, RowsBearTheirSubmission
    <2>6. Submission(c)' = Submission(c) /\ Submission(c).sub = browser[c].sub
      BY <2>1 DEF Submission
    <2>7. HasRow(c)'
      BY <2>4, <2>5, <2>6 DEF HasRow
    <2>8. RowsBearTheirSubmission(c)'
      BY <2>1, <2>4, <2>5, <2>6, <1>r, <1>n DEF ReportOK, RowsBearTheirSubmission
    <2>9. ReportOK(c)'
      BY <2>1, <2>7, <2>8, <1>r DEF ReportOK, PageWaits, IdHasRow, ErrorHasNone, Answering
    <2>10. \A d \in Clients \ {c} : ReportOK(d)'
      BY <2>2, <2>4, <2>5, <1>r, OthersReported
    <2> QED BY <2>9, <2>10 DEF ReportInv
  <1>8. CASE Restart
    <2> SUFFICES ASSUME NEW c \in Clients PROVE ReportOK(c)'
      BY DEF ReportInv
    <2>1. /\ table' = table /\ thread'[c].phase = "idle"
          /\ browser'[c].sub = browser[c].sub /\ browser'[c].tries = browser[c].tries
          /\ \/ thread[c].phase # "idle" /\ browser'[c].shown = {"retry"}
             \/ browser'[c] = browser[c]
      BY <1>8, <1>t DEF Restart, Idle, Serving, Browsers
    <2>2. RowsBearTheirSubmission(c)' /\ HasRow(c)' = HasRow(c)
      BY <2>1, <1>r, SameFormSameRows DEF ReportOK
    <2> QED BY <2>1, <2>2, <1>r DEF ReportOK, PageWaits, IdHasRow, ErrorHasNone, Answering
  <1>9. CASE UNCHANGED vars
    BY <1>9 DEF vars, ReportInv, ReportOK, RowsBearTheirSubmission, PageWaits, IdHasRow,
                ErrorHasNone, Answering, HasRow, AllRows, Submission
  <1> QED BY <1>1, <1>2, <1>3, <1>4, <1>5, <1>6, <1>7, <1>8, <1>9 DEF Next, Serve, Fail

\* An id on a page means that a row of this submission is stored, and a form
\* answered with an error at its first posting left none, whatever threads,
\* restarts and lost answers come in between, for any number of browsers.
THEOREM PagesTellTheTruth == Spec => []ReportsAreTrue
  <1>1. Init => TypeInv /\ ReportInv
    BY TypeInvInit, ReportInvInit
  <1>2. TypeInv /\ ReportInv /\ [Next]_vars => (TypeInv /\ ReportInv)'
    BY TypeInvStep, ReportInvStep
  <1>3. ReportInv => ReportsAreTrue
    BY DEF ReportInv, ReportOK, IdHasRow, ErrorHasNone, ReportsAreTrue, RowsOf, HasRow, AllRows
  <1> QED BY <1>1, <1>2, <1>3, PTL DEF Spec

-----------------------------------------------------------------------------
(* Refinement: every step of the handlers is a step of Store or leaves its  *)
(* variables alone.  The store's open inserts are the rows of the holders.  *)

Opened == {thread[c].row : c \in {d \in Clients :
              Kind(d) = "txn" /\ thread[d].phase \in {"inserting", "inserted"}}}

\* A request in flight is one of the forms its browser may fill in.
SubsCounted ==
    \A c \in Clients :
        /\ browser[c].sub <= MaxSubs
        /\ thread[c].phase # "idle" \/ "retry" \in browser[c].shown => browser[c].sub > 0

LEMMA SubsCountedInit == Init => SubsCounted
  BY BoundsAssumption DEF Init, SubsCounted, Idle, Serving

LEMMA SubsCountedStep == TypeInv /\ SubsCounted /\ [Next]_vars => SubsCounted'
  <1> SUFFICES ASSUME TypeInv, SubsCounted, [Next]_vars PROVE SubsCounted'
    OBVIOUS
  <1>t. thread \in [Clients -> Threads] /\ browser \in [Clients -> Browsers]
    BY DEF TypeInv, TypeOK
  <1> USE DEF Serving, Replying, SubsCounted
  <1>1. ASSUME NEW c \in Clients, Submit(c) PROVE SubsCounted'
    <2>1. \A d \in Clients \ {c} : browser'[d] = browser[d] /\ thread'[d] = thread[d]
      BY <1>1, <1>t DEF Submit, Step
    <2>2. browser'[c].sub = browser[c].sub + 1 /\ browser[c].sub < MaxSubs
      BY <1>1, <1>t DEF Submit
    <2>3. browser[c].sub \in Nat /\ MaxSubs \in Nat
      BY <1>t, BoundsAssumption DEF Browsers
    <2> QED BY <2>1, <2>2, <2>3
  <1>2. ASSUME NEW c \in Clients, Resubmit(c) PROVE SubsCounted'
    BY <1>2, <1>t DEF Resubmit, Step
  <1>3. ASSUME NEW c \in Clients, Deliver(c) \/ LoseReply(c) PROVE SubsCounted'
    <2>1. /\ \A d \in Clients : browser'[d].sub = browser[d].sub
          /\ \A d \in Clients \ {c} : browser'[d] = browser[d] /\ thread'[d] = thread[d]
          /\ thread[c].phase = "reply"
      BY <1>3, <1>t DEF Deliver, LoseReply, Browsers
    <2> QED BY <2>1
  <1>4. ASSUME NEW c \in Clients,
               MissingTxnField(c) \/ Connect(c) \/ RefuseEarly(c) \/ Draw(c) \/ RefuseNull(c)
                 \/ EnterIndex(c) \/ UniqueViolation(c) \/ Commit(c) \/ Acknowledge(c)
                 \/ ConnectFails(c) \/ LoseConnection(c)
        PROVE  SubsCounted'
    <2>1. /\ browser' = browser /\ thread[c].phase # "idle"
          /\ \A d \in Clients \ {c} : thread'[d] = thread[d]
      BY <1>4, <1>t DEF MissingTxnField, Connect, RefuseEarly, Draw, RefuseNull, EnterIndex,
           UniqueViolation, Commit, Acknowledge, ConnectFails, LoseConnection, Respond, Step
    <2> QED BY <2>1
  <1>5. CASE Restart
    <2>1. \A d \in Clients : browser'[d].sub = browser[d].sub
      BY <1>5, <1>t DEF Restart, Browsers
    <2>2. \A d \in Clients : thread'[d].phase = "idle"
      BY <1>5 DEF Restart, Idle
    <2>3. \A d \in Clients : "retry" \in browser'[d].shown =>
                               thread[d].phase # "idle" \/ "retry" \in browser[d].shown
      BY <1>5, <1>t DEF Restart, Browsers
    <2> QED BY <2>1, <2>2, <2>3
  <1>6. CASE UNCHANGED vars
    BY <1>6 DEF vars
  <1> QED BY <1>1, <1>2, <1>3, <1>4, <1>5, <1>6 DEF Next, Serve, Fail

LEMMA StoreStep ==
    TypeInv /\ IdInv /\ SubsCounted /\ [Next]_vars => [Abstract!Next]_(Abstract!vars)
  <1> SUFFICES ASSUME TypeInv, IdInv, SubsCounted, [Next]_vars
               PROVE  Abstract!Next \/ UNCHANGED Abstract!vars
    OBVIOUS
  <1> USE DEF Serving, Replying
  <1>t. thread \in [Clients -> Threads] /\ browser \in [Clients -> Browsers]
    BY DEF TypeInv, TypeOK
  <1>n. seq["txn"] \in Nat /\ seq \in [Kinds -> Nat]
        /\ table \in [Kinds -> SUBSET (UserRows \cup TxnRows)]
    BY DEF TypeInv, TypeOK, Kinds
  \* Rows of different holders differ, since their ids do.
  <1>d. \A c, d \in Clients : Holding(c) /\ Holding(d) /\ c # d => thread[c].row # thread[d].row
    BY DEF IdInv, FreshTransactionIds, Holding
  <1>o. Opened = {thread[c].row : c \in {d \in Clients : Holding(d)}}
    BY DEF Opened, Holding
  <1>o2. Opened' = {thread'[c].row : c \in {d \in Clients : Holding(d)'}}
    BY DEF Opened, Holding
  <1>s. ASSUME Opened' = Opened, table'["txn"] = table["txn"], seq'["txn"] = seq["txn"]
        PROVE  UNCHANGED Abstract!vars
    BY <1>s DEF Abstract!vars, Opened
  \* The disjuncts of the store's next-state relation.
  <1>x. \A rows \in SUBSET Opened :
           rows # {} /\ Opened' = Opened \ rows /\ UNCHANGED <<table["txn"], seq["txn"]>>
           => Abstract!Next
    BY Zenon DEF Abstract!Next, Abstract!Abort, Opened
  <1>y. \A r \in Opened :
           table'["txn"] = table["txn"] \cup {r} /\ Opened' = Opened \ {r}
             /\ seq'["txn"] = seq["txn"]
           => Abstract!Next
    BY Zenon DEF Abstract!Next, Abstract!Commit, Opened
  <1>z. \A b \in [user_id : {g.user_id : g \in Forms \cap TxnForms},
                 by : [sub : 1 .. MaxSubs, client : Clients]] :
           seq'["txn"] = seq["txn"] + 1 /\ table'["txn"] = table["txn"]
             /\ Opened' = Opened \cup {Abstract!Row(seq["txn"] + 1, b)}
           => Abstract!Next
    BY Zenon DEF Abstract!Next, Abstract!Draw, Opened
  \* A thread that ends without committing aborts what it holds.
  <1>a. ASSUME NEW c \in Clients, ~Holding(c)',
               \A d \in Clients \ {c} : Holding(d)' = Holding(d) /\ thread'[d] = thread[d],
               table'["txn"] = table["txn"], seq'["txn"] = seq["txn"]
        PROVE  Abstract!Next \/ UNCHANGED Abstract!vars
    <2>1. CASE ~Holding(c)
      <3>1. Opened' = Opened
        BY <1>a, <2>1, <1>o, <1>o2
      <3> QED BY <1>a, <3>1, <1>s
    <2>2. CASE Holding(c)
      <3>1. Opened' = Opened \ {thread[c].row} /\ thread[c].row \in Opened
        BY <1>a, <2>2, <1>o, <1>o2, <1>d
      <3>2. {thread[c].row} \in SUBSET Opened /\ {thread[c].row} # {}
        BY <3>1
      <3> QED BY <1>a, <3>1, <3>2, <1>x
    <2> QED BY <2>1, <2>2
  <1>1. ASSUME NEW c \in Clients, Submit(c) PROVE UNCHANGED Abstract!vars
    <2>1. \A d \in Clients \ {c} : browser'[d] = browser[d] /\ thread'[d] = thread[d]
      BY <1>1, <1>t DEF Submit, Step
    <2>2. thread[c].phase = "idle" /\ thread'[c].phase = "received" /\ UNCHANGED <<table, seq>>
      BY <1>1, <1>t DEF Submit, Step, Threads
    <2>3. Opened' = Opened
      BY <2>1, <2>2, <1>o, <1>o2 DEF Holding, Kind
    <2> QED BY <2>2, <2>3, <1>s
  <1>2. ASSUME NEW c \in Clients, Closes(c) PROVE Abstract!Next \/ UNCHANGED Abstract!vars
    BY <1>2, <1>a, ClosesInsertsNothing DEF Holding
  <1>3. ASSUME NEW c \in Clients, Draw(c) PROVE Abstract!Next \/ UNCHANGED Abstract!vars
    <2> DEFINE f == browser[c].form
               new == Row(f, seq[Kind(c)] + 1, Submission(c))
               body == [user_id |-> f.user_id, by |-> Submission(c)]
    <2>1. f \in Forms
      BY <1>3 DEF Draw, TypeInv, ThreadsFit
    <2>2. /\ \A d \in Clients \ {c} : thread'[d] = thread[d]
          /\ thread'[c] = Serving("inserting", new, 0)
          /\ table' = table
          /\ \A d \in Clients : Kind(d)' = Kind(d)
      BY <1>3, <1>t DEF Draw, Kind
    <2>3. ~Holding(c)
      BY <1>3 DEF Draw, Holding
    <2>4. CASE Kind(c) = "txn"
      <3>1. Holding(c)' /\ thread'[c].row = new
        BY <2>2, <2>4 DEF Holding
      <3>2. \A d \in Clients \ {c} : Holding(d)' = Holding(d)
        BY <2>2 DEF Holding
      <3>3. Opened' = Opened \cup {new}
        <4> HIDE DEF new
        <4> QED BY <3>1, <3>2, <2>2, <2>3, <1>o, <1>o2
      <3>4. seq'["txn"] = seq["txn"] + 1
        BY <1>3, <2>4, <1>n DEF Draw, Kinds
      <3>5. new = Abstract!Row(seq["txn"] + 1, body)
        BY <2>4 DEF Row, Abstract!Row, Kind
      <3>6. Submission(c) \in [sub : 1 .. MaxSubs, client : Clients]
        <4>1. browser[c].sub \in Nat /\ browser[c].sub <= MaxSubs /\ browser[c].sub > 0
          BY <1>3, <1>t DEF Draw, SubsCounted, Browsers
        <4>2. browser[c].sub \in 1 .. MaxSubs
          BY <4>1, BoundsAssumption
        <4> QED BY <4>2 DEF Submission
      <3>7. f \in TxnForms
        BY <2>1, <2>4, FormsAssumption DEF UserForms, Kind
      <3>8. body \in [user_id : {g.user_id : g \in Forms \cap TxnForms},
                      by : [sub : 1 .. MaxSubs, client : Clients]]
        BY <2>1, <3>6, <3>7
      <3> HIDE DEF new, body
      <3> QED BY <2>2, <3>3, <3>4, <3>5, <3>8, <1>z
    <2>5. CASE Kind(c) # "txn"
      <3>1. seq'["txn"] = seq["txn"]
        BY <1>3, <2>5, <1>n DEF Draw, Kinds
      <3>2. \A d \in Clients : Holding(d)' = Holding(d)
        BY <2>2, <2>3, <2>5 DEF Holding
      <3> QED BY <2>2, <2>3, <3>1, <3>2, <1>a
    <2> QED BY <2>4, <2>5
  <1>4. ASSUME NEW c \in Clients, EnterIndex(c) PROVE UNCHANGED Abstract!vars
    <2>1. \A d \in Clients : thread'[d].row = thread[d].row
      BY <1>4, <1>t DEF EnterIndex
    <2>2. UNCHANGED <<table, seq, browser>>
      BY <1>4 DEF EnterIndex
    <2>3. \A d \in Clients : Holding(d)' = Holding(d)
      <3>1. \A d \in Clients \ {c} : thread'[d] = thread[d]
        BY <1>4, <1>t DEF EnterIndex
      <3>2. thread[c].phase = "inserting" /\ thread'[c].phase \in {"inserting", "inserted"}
        BY <1>4, <1>t DEF EnterIndex
      <3> QED BY <2>2, <3>1, <3>2 DEF Holding, Kind
    <2>4. Opened' = Opened
      BY <2>1, <2>3, <1>o, <1>o2
    <2> QED BY <2>2, <2>4, <1>s
  <1>5. ASSUME NEW c \in Clients, Commit(c) PROVE Abstract!Next \/ UNCHANGED Abstract!vars
    <2>1. /\ \A d \in Clients \ {c} : thread'[d] = thread[d]
          /\ thread'[c].phase = "committed"
          /\ thread[c].phase = "inserted"
          /\ UNCHANGED <<seq, browser>>
      BY <1>5, <1>t DEF Commit, Step, Threads
    <2>2. ~Holding(c)' /\ \A d \in Clients \ {c} : Holding(d)' = Holding(d)
      BY <2>1 DEF Holding, Kind
    <2>3. CASE Kind(c) = "txn"
      <3>1. table'["txn"] = table["txn"] \cup {thread[c].row}
        BY <1>5, <2>3, <1>n DEF Commit, Kinds
      <3>2. Holding(c)
        BY <2>1, <2>3 DEF Holding
      <3>3. Opened' = Opened \ {thread[c].row} /\ thread[c].row \in Opened
        BY <2>1, <2>2, <3>2, <1>o, <1>o2, <1>d
      <3> QED BY <2>1, <3>1, <3>3, <1>y
    <2>4. CASE Kind(c) # "txn"
      <3>1. table'["txn"] = table["txn"]
        BY <1>5, <2>4, <1>n DEF Commit, Kinds
      <3> QED BY <2>1, <2>2, <3>1, <1>a
    <2> QED BY <2>3, <2>4
  <1>6. CASE Restart
    <2>1. \A c \in Clients : ~Holding(c)'
      BY <1>6 DEF Restart, Idle, Holding
    <2>2. Opened' = {} /\ UNCHANGED <<table, seq>>
      BY <1>6, <2>1, <1>o2 DEF Restart
    <2>3. CASE Opened = {}
      BY <2>2, <2>3, <1>s
    <2>4. CASE Opened # {}
      <3>1. Opened \in SUBSET Opened /\ Opened' = Opened \ Opened
        BY <2>2
      <3> QED BY <2>2, <2>4, <3>1, <1>x
    <2> QED BY <2>3, <2>4
  <1>7. CASE UNCHANGED vars
    BY <1>7, <1>s DEF vars, Opened, Kind
  <1> QED BY <1>1, <1>2, <1>3, <1>4, <1>5, <1>6, <1>7 DEF Next, Serve, Fail, Closes

\* The handlers over their database implement the append-only store the rest
\* of the pipeline relies on, for any number of browsers and any forms.
THEOREM LedgerImplementsStore == Spec => ImplementsStore
  <1>1. Init => Abstract!Init
    BY DEF Init, Abstract!Init, Idle, Serving, Kinds
  <1>2. Init => TypeInv /\ IdInv /\ SubsCounted
    BY TypeInvInit, IdInvInit, SubsCountedInit
  <1>3. TypeInv /\ IdInv /\ SubsCounted /\ [Next]_vars => (TypeInv /\ IdInv /\ SubsCounted)'
    BY TypeInvStep, IdInvStep, SubsCountedStep
  <1> QED BY <1>1, <1>2, <1>3, StoreStep, PTL DEF Spec, ImplementsStore, Abstract!Spec
=============================================================================
