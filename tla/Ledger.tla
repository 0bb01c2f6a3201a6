------------------------------- MODULE Ledger -------------------------------
(***************************************************************************)
(* The front end (frontend/app.py, frontend/templates/index.html) over the *)
(* bank's PostgreSQL database (postgres/init.sql).                         *)
(*                                                                         *)
(* Browsers post a form, Flask serves every request on a thread of its     *)
(* own, and the thread runs one INSERT ... RETURNING inside a transaction  *)
(* of its own connection.  What the handlers share is the database: the    *)
(* committed rows, the SERIAL sequences, which are drawn outside every     *)
(* transaction and never given back, and the entries that open             *)
(* transactions hold in the unique indexes.                                *)
(***************************************************************************)
EXTENDS Naturals, Sequences, FiniteSets

CONSTANTS
    Clients,    \* browsers, each with at most one request in flight
    Forms,      \* the forms a browser may fill in, a set of Form records
    SeedUsers,  \* the rows init.sql puts into users, with explicit ids
    SeedTxns,   \* the rows init.sql puts into transactions, drawing ids
    MaxSubs,    \* bound: forms a browser fills in
    MaxTries    \* bound: times it posts one form

VARIABLES
    table,      \* table[k]: the committed rows of kind k
    seq,        \* seq[k]: the last id the SERIAL sequence of k has given out
    thread,     \* thread[c]: the Flask thread serving c's request
    browser     \* browser[c]: the form of c and what the page tells its user

vars == <<table, seq, thread, browser>>

-----------------------------------------------------------------------------
(* Forms and rows.  A form is abstracted to its kind, the columns some rule *)
(* looks at, and how well it is filled in: "missing" lacks a key or has an  *)
(* unreadable date, "invalid" holds a literal the database cannot read,     *)
(* "null" violates a NOT NULL constraint.                                   *)

Kinds     == {"user", "txn"}
Qualities == {"ok", "missing", "invalid", "null"}

\* The unique indexes of a table, in the order PostgreSQL maintains them.
Indexes(k) == IF k = "user" THEN <<"user_id", "username", "email", "phone">>
                            ELSE <<"transaction_id">>

\* Submissions; those of client "init.sql" stand for the seed rows.
Submissions == [sub : Nat, client : Clients \cup {"init.sql"}]

UserForms == [kind : {"user"}, quality : Qualities, username : STRING,
              email : STRING, phone : STRING]
TxnForms  == [kind : {"txn"}, quality : Qualities, user_id : Nat]

UserRows == [user_id : Nat, username : STRING, email : STRING, phone : STRING,
             by : Submissions]
TxnRows  == [transaction_id : Nat, user_id : Nat, by : Submissions]

Rows(k) == IF k = "user" THEN UserRows ELSE TxnRows

\* The row a handler inserts for form f once the sequence has given out id n.
\* "by" is the submission it stands for; no column holds it.
Row(f, n, by) ==
    IF f.kind = "user"
    THEN [user_id |-> n, username |-> f.username, email |-> f.email,
          phone |-> f.phone, by |-> by]
    ELSE [transaction_id |-> n, user_id |-> f.user_id, by |-> by]

ASSUME FormsAssumption == Forms \subseteq UserForms \cup TxnForms
ASSUME SeedAssumption ==
    /\ SeedUsers \subseteq UserRows
    /\ SeedTxns \subseteq TxnRows
    /\ \A i \in 1 .. 4 : \A r, s \in SeedUsers :
          r[Indexes("user")[i]] = s[Indexes("user")[i]] => r = s
    /\ \A r \in SeedUsers \cup SeedTxns : r.by.client \notin Clients
    /\ IsFiniteSet(SeedTxns)
    /\ {r.transaction_id : r \in SeedTxns} = 1 .. Cardinality(SeedTxns)
ASSUME BoundsAssumption == MaxSubs \in Nat /\ MaxTries \in Nat \ {0}

-----------------------------------------------------------------------------
NoRow  == [by |-> "none"]
NoForm == [kind |-> "none"]

\* A thread with the row it inserts and the number of index entries made so
\* far, and one that has its answer.
Serving(phase, row, entries) ==
    [phase |-> phase, row |-> row, entries |-> entries, status |-> 0]
Replying(status) ==
    [phase |-> "reply", row |-> NoRow, entries |-> 0, status |-> status]

Idle == Serving("idle", NoRow, 0)

Phases == {"idle", "received", "connected", "inserting", "inserted",
           "committed", "reply"}

Threads == [phase : Phases, row : UserRows \cup TxnRows \cup {NoRow},
            entries : 0 .. 4, status : {0, 201, 400, 500}]

\* What a page may say: that the form was added, the id of its row, that there
\* was an error, that the user should try again.
Words == {"added", "id", "error", "retry"}

Browsers == [form : Forms \cup {NoForm}, sub : Nat, tries : Nat,
             shown : SUBSET Words]

TypeOK ==
    /\ table \in [Kinds -> SUBSET (UserRows \cup TxnRows)]
    /\ \A k \in Kinds : table[k] \subseteq Rows(k)
    /\ seq \in [Kinds -> Nat]
    /\ thread \in [Clients -> Threads]
    /\ browser \in [Clients -> Browsers]

Init ==
    /\ table = [k \in Kinds |-> IF k = "user" THEN SeedUsers ELSE SeedTxns]
    \* Only the rows inserted without an id advance their sequence.
    /\ seq = [k \in Kinds |-> IF k = "user" THEN 0 ELSE Cardinality(SeedTxns)]
    /\ thread = [c \in Clients |-> Idle]
    /\ browser = [c \in Clients |-> [form |-> NoForm, sub |-> 0, tries |-> 0,
                                     shown |-> {}]]

Kind(c) == browser[c].form.kind
Quality(c) == browser[c].form.quality
Submission(c) == [sub |-> browser[c].sub, client |-> c]

\* The value c's row has in the i-th unique index of its table.
Entry(c, i) == thread[c].row[Indexes(Kind(c))[i]]

Step(c, phase) == thread' = [thread EXCEPT ![c].phase = phase]
Respond(c, status) == thread' = [thread EXCEPT ![c] = Replying(status)]

-----------------------------------------------------------------------------
(* The browser: index.html.                                                 *)

\* A user fills in a form and posts it.
Submit(c) ==
    /\ thread[c].phase = "idle"
    /\ browser[c].sub < MaxSubs
    /\ \E f \in Forms :
          browser' = [browser EXCEPT ![c] = [form |-> f, sub |-> @.sub + 1, tries |-> 1,
                                             shown |-> {}]]
    /\ Step(c, "received")
    /\ UNCHANGED <<table, seq>>

\* A user told "Please try again" posts the same form once more.
Resubmit(c) ==
    /\ thread[c].phase = "idle"
    /\ "retry" \in browser[c].shown
    /\ browser[c].tries < MaxTries
    /\ browser' = [browser EXCEPT ![c] = [form |-> @.form, sub |-> @.sub,
                                          tries |-> @.tries + 1, shown |-> {}]]
    /\ Step(c, "received")
    /\ UNCHANGED <<table, seq>>

\* The page never looks at the status.  Its first line is the reply's message
\* and, where there is none, "... added successfully!", which is what a 400
\* gets; its second line is the id or the error.  A 500 is an HTML page:
\* parsing it throws and the page asks the user to try again.
Deliver(c) ==
    /\ thread[c].phase = "reply"
    /\ browser' = [browser EXCEPT ![c].shown =
                      CASE thread[c].status = 201 -> {"added", "id"}
                        [] thread[c].status = 400 -> {"added", "error"}
                        [] OTHER -> {"retry"}]
    /\ thread' = [thread EXCEPT ![c] = Idle]
    /\ UNCHANGED <<table, seq>>

\* The reply never arrives: fetch throws and the page asks to try again.
LoseReply(c) ==
    /\ thread[c].phase = "reply"
    /\ browser' = [browser EXCEPT ![c].shown = {"retry"}]
    /\ thread' = [thread EXCEPT ![c] = Idle]
    /\ UNCHANGED <<table, seq>>

-----------------------------------------------------------------------------
(* The handlers: add_user and add_transaction.                              *)

\* add_transaction reads every field before it connects, outside any try.
MissingTxnField(c) ==
    /\ thread[c].phase = "received"
    /\ Kind(c) = "txn" /\ Quality(c) = "missing"
    /\ Respond(c, 500)
    /\ UNCHANGED <<table, seq, browser>>

Connect(c) ==
    /\ thread[c].phase = "received"
    /\ ~(Kind(c) = "txn" /\ Quality(c) = "missing")
    /\ Step(c, "connected")
    /\ UNCHANGED <<table, seq, browser>>

\* get_db_connection raises, in both handlers outside the try.
ConnectFails(c) ==
    /\ thread[c].phase = "received"
    /\ ~(Kind(c) = "txn" /\ Quality(c) = "missing")
    /\ Respond(c, 500)
    /\ UNCHANGED <<table, seq, browser>>

\* add_user reads its fields inside the try; the database refuses a literal
\* before it runs the statement.  Either way: rollback and 400, no id drawn.
RefuseEarly(c) ==
    /\ thread[c].phase = "connected"
    /\ Quality(c) \in {"missing", "invalid"}
    /\ Respond(c, 400)
    /\ UNCHANGED <<table, seq, browser>>

\* Mutant of Draw: the id is computed from the rows stored so far.
DrawFromTable(c) ==
    /\ thread[c].phase = "connected"
    /\ Quality(c) \in {"ok", "null"}
    /\ seq' = [seq EXCEPT ![Kind(c)] = @ + 1]
    /\ thread' = [thread EXCEPT ![c] =
                     Serving("inserting",
                             Row(browser[c].form, Cardinality(table[Kind(c)]) + 1,
                                 Submission(c)), 0)]
    /\ UNCHANGED <<table, browser>>

\* The INSERT starts: the column default draws the next id of the sequence.
Draw(c) ==
    /\ thread[c].phase = "connected"
    /\ Quality(c) \in {"ok", "null"}
    /\ seq' = [seq EXCEPT ![Kind(c)] = @ + 1]
    /\ thread' = [thread EXCEPT ![c] =
                     Serving("inserting",
                             Row(browser[c].form, seq[Kind(c)] + 1, Submission(c)), 0)]
    /\ UNCHANGED <<table, browser>>

\* Mutant of RefuseNull: the rollback gives the id back to the sequence.
RefuseNullReturningId(c) ==
    /\ thread[c].phase = "inserting"
    /\ Quality(c) = "null"
    /\ Respond(c, 400)
    /\ seq' = [seq EXCEPT ![Kind(c)] = @ - 1]
    /\ UNCHANGED <<table, browser>>

\* A NOT NULL column was left empty: rollback and 400, and the id is burnt.
RefuseNull(c) ==
    /\ thread[c].phase = "inserting"
    /\ Quality(c) = "null"
    /\ Respond(c, 400)
    /\ UNCHANGED <<table, seq, browser>>

\* Who has the value c needs next: committed rows and open transactions.
Stored(c, i) == \E r \in table[Kind(c)] : r[Indexes(Kind(c))[i]] = Entry(c, i)
HeldByOther(c, i) ==
    \E d \in Clients \ {c} :
        /\ thread[d].phase \in {"inserting", "inserted"}
        /\ Kind(d) = Kind(c)
        /\ thread[d].entries >= i
        /\ Entry(d, i) = Entry(c, i)

\* Mutant of EnterIndex: only committed rows are looked at.
EnterIndexUnchecked(c) ==
    /\ thread[c].phase = "inserting"
    /\ Quality(c) = "ok"
    /\ LET i == thread[c].entries + 1 IN
       /\ ~Stored(c, i)
       /\ thread' = [thread EXCEPT ![c] =
                        Serving(IF i = Len(Indexes(Kind(c))) THEN "inserted" ELSE "inserting",
                                @.row, i)]
    /\ UNCHANGED <<table, seq, browser>>

\* The row enters its next unique index.  Another open transaction that
\* holds the same value makes the INSERT wait for its end.
EnterIndex(c) ==
    /\ thread[c].phase = "inserting"
    /\ Quality(c) = "ok"
    /\ LET i == thread[c].entries + 1 IN
       /\ ~Stored(c, i)
       /\ ~HeldByOther(c, i)
       /\ thread' = [thread EXCEPT ![c] =
                        Serving(IF i = Len(Indexes(Kind(c))) THEN "inserted" ELSE "inserting",
                                @.row, i)]
    /\ UNCHANGED <<table, seq, browser>>

\* Mutant of UniqueViolation: only a clash in the primary key is an error.
UniqueViolationOfKey(c) ==
    /\ thread[c].phase = "inserting"
    /\ Quality(c) = "ok"
    /\ thread[c].entries = 0 /\ Stored(c, 1)
    /\ Respond(c, 400)
    /\ UNCHANGED <<table, seq, browser>>

\* A committed row has the value already: rollback and 400.
UniqueViolation(c) ==
    /\ thread[c].phase = "inserting"
    /\ Quality(c) = "ok"
    /\ Stored(c, thread[c].entries + 1)
    /\ Respond(c, 400)
    /\ UNCHANGED <<table, seq, browser>>

\* Mutant of Commit: the row lands in the other table.
CommitElsewhere(c) ==
    /\ thread[c].phase = "inserted"
    /\ table' = [table EXCEPT !["txn"] = @ \cup {thread[c].row}]
    /\ Step(c, "committed")
    /\ UNCHANGED <<seq, browser>>

\* The server commits; from here on the row is visible to every reader.
Commit(c) ==
    /\ thread[c].phase = "inserted"
    /\ table' = [table EXCEPT ![Kind(c)] = @ \cup {thread[c].row}]
    /\ Step(c, "committed")
    /\ UNCHANGED <<seq, browser>>

\* Mutant of Acknowledge: the handler answers when the INSERT returns.
AcknowledgeEarly(c) ==
    /\ thread[c].phase \in {"inserted", "committed"}
    /\ Respond(c, 201)
    /\ UNCHANGED <<table, seq, browser>>

\* conn.commit() returns and the handler answers 201.
Acknowledge(c) ==
    /\ thread[c].phase = "committed"
    /\ Respond(c, 201)
    /\ UNCHANGED <<table, seq, browser>>

\* The connection breaks: the statement raises, rollback raises again on the
\* closed connection, and Flask answers 500.  Before the commit the server
\* aborts the transaction; after it the row stays.
LoseConnection(c) ==
    /\ thread[c].phase \in {"connected", "inserting", "inserted", "committed"}
    /\ Respond(c, 500)
    /\ UNCHANGED <<table, seq, browser>>

\* The server process restarts (the reloader of debug=True, a new container):
\* every request in flight ends, its open transaction is aborted.
Restart ==
    /\ \E c \in Clients : thread[c].phase # "idle"
    /\ browser' = [c \in Clients |-> IF thread[c].phase = "idle" THEN browser[c]
                                     ELSE [browser[c] EXCEPT !.shown = {"retry"}]]
    /\ thread' = [c \in Clients |-> Idle]
    /\ UNCHANGED <<table, seq>>

-----------------------------------------------------------------------------
\* What the program does by itself once a request has been posted.
Serve(c) ==
    \/ MissingTxnField(c) \/ Connect(c) \/ RefuseEarly(c) \/ Draw(c)
    \/ RefuseNull(c) \/ EnterIndex(c) \/ UniqueViolation(c) \/ Commit(c)
    \/ Acknowledge(c) \/ Deliver(c)

Fail(c) == ConnectFails(c) \/ LoseConnection(c) \/ LoseReply(c)

Next ==
    \/ \E c \in Clients : Submit(c) \/ Resubmit(c) \/ Serve(c) \/ Fail(c)
    \/ Restart

Spec == Init /\ [][Next]_vars

\* A thread that can take a step takes it; users and failures owe nothing.
FairSpec == Spec /\ \A c \in Clients : WF_vars(Serve(c))

-----------------------------------------------------------------------------
\* The rows that stand for submission s.
RowsOf(s) == {r \in table["user"] \cup table["txn"] : r.by = s}

\* The second line of a page is true of the database, whatever its first line
\* says: an id means a row of this submission is stored, and a form answered
\* with an error at its first posting left nothing behind (app.py answers 201
\* after commit and 400 after rollback).
ReportsAreTrue ==
    \A c \in Clients :
        /\ "id" \in browser[c].shown => RowsOf(Submission(c)) # {}
        /\ "error" \in browser[c].shown /\ browser[c].tries = 1
              => RowsOf(Submission(c)) = {}

\* The ids given to transactions are fresh: two handlers never hold the same
\* one, and none inserts an id that is stored (transaction_id SERIAL).
FreshTransactionIds ==
    \A c \in Clients :
        thread[c].phase \in {"inserting", "inserted"} /\ Kind(c) = "txn" =>
            /\ \A r \in table["txn"] : r.transaction_id # thread[c].row.transaction_id
            /\ \A d \in Clients \ {c} :
                  thread[d].phase \in {"inserting", "inserted"} /\ Kind(d) = "txn" =>
                      thread[d].row.transaction_id # thread[c].row.transaction_id

\* Two stored users differ in every column declared UNIQUE, whatever handlers
\* were inserting side by side (init.sql, lines 2 to 5).
UsersAreUnique ==
    \A i \in 1 .. 4 : \A r, s \in table["user"] :
        r[Indexes("user")[i]] = s[Indexes("user")[i]] => r = s

\* Every request is answered: handlers that wait for each other's unique
\* entries never wait in a circle.
Answered ==
    \A c \in Clients : thread[c].phase # "idle" ~> thread[c].phase = "idle"

\* The ledger keeps what Store promises: a row shows up whole or not at all,
\* and no failure gives an id back.
Abstract == INSTANCE Store WITH
    Bodies <- [user_id : {f.user_id : f \in Forms \cap TxnForms},
               by : [sub : 1 .. MaxSubs, client : Clients]],
    SeedLast <- Cardinality(SeedTxns),
    txns <- table["txn"], last <- seq["txn"],
    open <- {thread[c].row : c \in {d \in Clients :
                /\ Kind(d) = "txn" /\ thread[d].phase \in {"inserting", "inserted"}}}

ImplementsStore == Abstract!Spec

\* What the comment at app.py:58 says, "user_id is auto-incremented": a new
\* user with a name, an email and a phone of his own is not refused.
AutoIncrementAdmits ==
    \A c \in Clients :
        (thread[c].phase = "reply" /\ thread[c].status = 400
           /\ Kind(c) = "user" /\ Quality(c) = "ok")
        => \E r \in table["user"] : \/ r.username = browser[c].form.username
                                    \/ r.email = browser[c].form.email
                                    \/ r.phone = browser[c].form.phone

\* What index.html:124 says, "Error adding transaction. Please try again.":
\* a form may be posted again until it is added, and is then stored once.
TryAgainStoresOnce == \A c \in Clients : Cardinality(RowsOf(Submission(c))) <= 1
=============================================================================
