# Verification of the fraud detection pipeline

TLA+ modules, TLC runs and TLAPS proofs about the program in this repository:
a bank's web front end writes users and transactions to PostgreSQL, a NiFi flow
moves new transactions to Kafka, a Spark job scores them and writes alerts and
results, and a second NiFi flow mails the alerts. Paths below are relative to
the repository's root.

Run `tlc -config <cfg> <module>` for a run of the tables below and
`tlapm <module>` for a proof module. `PROJECT.json` lists for every definition
the lines of code it stands for, and for every property a mutation of the code
that breaks it.

## 1. Inventory

### The pipeline

| part | state it keeps | operations | talks to |
|---|---|---|---|
| Front end: `frontend/app.py`, `frontend/templates/index.html` | none of its own; a connection and an open transaction per request | `add_user`, `add_transaction`; in the page: submit, show the answer | browser (HTTP), PostgreSQL |
| Bank database: `postgres/init.sql` | tables `users`, `transactions`, a SERIAL sequence for each, unique indexes | INSERT, COMMIT, ROLLBACK, SELECT | front end, NiFi |
| NiFi flow `combineUsersAndTransactions.json` | highest id seen, flow files in four connections | QueryDatabaseTable, SplitAvro, LookupRecord, PublishKafkaRecord, PutFile | reads PostgreSQL, writes Kafka `transactions`, an error directory |
| Kafka: `kafka/create-topics.sh` | topics `transactions`, `processed_transactions`, `fraud_alerts`; group offsets | append, read, commit an offset | NiFi, Spark |
| Spark job: `FraudDetector.scala`, `KafkaIntegration.scala`, `CassandraIntegration.scala` | checkpoint directories on disk, three streaming queries | start the queries, plan/run/commit a batch, wait | reads `transactions`, writes two topics and Cassandra |
| NiFi flow `sendEmailAboutFraud.json` | consumer group offset, flow files in two connections | ConsumeKafka, EvaluateJsonPath, PutEmail | reads `fraud_alerts`, writes SMTP |
| Cassandra: `cassandra/init.cql`, `cassandra/entrypoint.sh` | table `transactions`, a lock file | COPY of the training data, upserts | Spark, trainer, Grafana |
| Model training: `FraudDetectionModelTrainer.scala` | the model directory | read Cassandra, fit, overwrite | Cassandra, Spark job |
| Start-up: `nifi/scripts/*.sh`, `docker-compose.yaml` | what is imported and enabled | import flows, enable services, start processors | NiFi's REST interface |

What is hard in it, and what makes each part correct:

- **Front end and database.** Flask serves every request on a thread of its
  own. Ids are drawn when an INSERT starts, outside the transaction, and rows
  become visible at COMMIT, so order of ids and order of appearance differ. An
  INSERT waits for another open transaction that holds the same unique value.
  A connection may break before or after the commit takes effect, a reply may be
  lost, the page asks to try again. Correct means: what the page reports in its
  second line, an id or an error, is true of the database, ids are fresh, users are unique, every request is answered.
- **Intake.** The flow takes rows above the highest id it has seen. A stop
  between a session's commit and the state update, or between a producer's
  commit and the removal of the flow file, repeats work; relationships that are
  auto-terminated drop work; ids appear out of order; back pressure makes processors wait for each other.
  Correct means: what is stored is read, what is read is accounted for, repeats
  come from restarts only, the flow drains.
- **Detector.** Two queries are given the same checkpoint directory and Spark
  takes them for two runs of one query; the third has no checkpoint. Queries
  fail one by one and `main` watches one of them. Correct means: what a
  checkpoint counts as done was written, flagged rows are alerted and stored.
- **Alert mail.** Flow files are stored before the offset is committed; mails
  are sent before the flow file is removed; failures are auto-terminated. Correct
  means: every alert behind the offset is accounted for, mails repeat after a
  fault only.
- **Start-up.** Fixed waits, one attempt, look-ups by name.

### The bundled cqlsh

`python2.7/cqlsh-5.1.34` is mounted into the Spark container; it is the program that
reads `cassandra/init.cql`, whose `COPY ... FROM` loads the training data. It is by
far the largest program here.

| part | state it keeps | operations | talks to |
|---|---|---|---|
| shell: `bin/cqlsh.py` | the lines typed so far, keyspace, consistency, paging, tracing, expansion, capture, connection | read a line, cut statements, run, `SOURCE`, `LOGIN`, `CAPTURE`, `DESCRIBE`, completion | the driver's session, files, terminal |
| grammar and completion: `pylexotron.py`, `cqlhandling.py`, `cqlshhandling.py`, `cql3handling.py` | none; bindings while a line is matched | lex, cut statements, match, complete | shell |
| start: `read_options`, `main`, `setup_cqlruleset`, ... | options, encoding, time zone | read cqlshrc, environment, arguments | shell |
| `copyutil.py`, `CopyTask` | options, pipes, child processes | read options, start, feed, stop | shell, children |
| `copyutil.py`, COPY FROM: `ImportTask`, `FeedingProcess`, `ImportProcess` | chunks sent and received, counts of a chunk, errors, requests in flight | read rows, cut chunks, convert, batch, send, retry, report | pipes, driver callbacks and timers, error file |
| `copyutil.py`, COPY TO: `ExportTask`, `ExportProcess`, `ExportWriter` | ranges with attempts, requests in flight, rows of the file | cut the ring, query, page, retry, write | pipes, driver callbacks, files |
| values: `formatting.py`, `ImportConversion` | none | format a value, convert a text | both directions of COPY |
| DSE additions: `bin/dsecqlsh.py`, `dselib` | time-out of the profile, proxy user | search statements, `EXECUTE AS` | shell |

What is hard in it, and what makes each part correct:

- **COPY FROM** is a parent, a feeder and workers joined by pipes; in a worker the
  driver's event loop, timers and the main thread share a chunk's count without a lock.
  Children die, answers are late, rows fail at any of five places. Correct means:
  every row of the input is sent to one worker; a chunk is reported only after all its
  rows are stored or reported as failed, and a worker's threads report it once or the parent's
  totals are off by just what was counted again; what is stored is what the file says; the
  command ends and leaves no process.
- **COPY TO**: ranges must cover the ring once; a page may be written by one thread while
  the next is asked for by another; a range may be queried again only as long as
  nothing of it was written. Correct means: without a warning every page is in the
  files once, but for those that two threads race to write; the files are full, the command ends.
- **Values** in CSV are text inside text: what is written must be read as it was.
- **The shell** cuts statements by looking for semicolons in a lexer's output over several
  lines, with comments, strings, batches and one-line commands among them; its settings live in
  the shell, in the driver's session and in profiles, and shells nest (`SOURCE`).
  Correct means: what runs is what was written; the settings in force are those
  asked for last; TAB offers what the grammar takes; nothing stays open.

### Hazards

`PROJECT.json` "hazards" lists, at its line, each thing that can go wrong here
and that a test would hardly reach, with the properties that would catch it;
the one without a property says why.

## 2. The modules

    Ledger  --implements-->  Store  <--INSTANCE--  Intake  --INSTANCE-->  Ingest
    Detector           MCAlertMail: AlertMail, ImportFlow
    ImportWorker  --implements-->  ChunkWork  <--INSTANCE--  CopyFrom
    MCCopyFrom: ImportWorker, CopyFrom, Feeder, ImportRows, Batches, QueryPlan
    MCCqlsh: ExportRanges, CopyTo, ExportFiles, CsvValues, Timestamps, Durations,
             Statements, CommandRules <- CommandLine, Shell, CopyTask, Startup

| module | models | proofs |
|---|---|---|
| `Ledger` | front end over the bank database, handler by handler | `LedgerProofs` |
| `Store` | what the front end promises: an append-only table with ids drawn before rows appear | |
| `Ingest` | the NiFi flow from the table to the topic | |
| `Intake` | `Store` and `Ingest` over the same tables | `IntakeProofs` |
| `Detector` | the Spark job | `DetectorProofs` |
| `AlertMail` | the NiFi flow from alerts to mails | `AlertMailProofs` |
| `ImportFlow` | `setup.sh` and `import-flow.sh`, which bring both flows into NiFi | `ImportFlowProofs` |
| `ChunkWork` | what a worker of COPY FROM promises its parent | |
| `ImportWorker` | one worker process, its threads, retries and counts | `ImportWorkerProofs` |
| `CopyFrom` | parent, feeder, workers, pipes and pills; the workers are `ChunkWork` | `CopyFromProofs` |
| `Feeder` | the readers of files and STDIN, chunks, the rate | `CopyFromProofs` |
| `ImportRows` | from fields to statements to the table | `CopyFromProofs` |
| `Batches` | how rows become batches by ring position and replica | `CopyFromProofs` |
| `QueryPlan` | which host a batch goes to, and how it waits | `CopyFromProofs` |
| `ExportRanges` | the walk over the ring | `CqlshProofs` |
| `CopyTo` | parent and workers of an export, pages, retries, faults | `CqlshProofs` |
| `ExportFiles` | rows cut into files | `CqlshProofs` |
| `CsvValues`, `Durations` | values to text and back | |
| `Timestamps` | instants to text and back | `CqlshProofs` |
| `Statements` | from lines to statements | `CqlshProofs` |
| `CommandRules`, `CommandLine` | the grammar of the shell's own commands, matching, completion, `DESCRIBE` | |
| `Shell` | settings, sessions and connections of nested shells | `CqlshProofs` |
| `CopyTask` | options, pipes and processes of both directions | `CqlshProofs` |
| `Startup` | options, input encoding, time zone | `CqlshProofs` |
| `MCLedger`, `MCIntake`, `MCAlertMail`, `MCCopyFrom`, `MCCqlsh` | values of the constants for the runs | |

`MCAlertMail`, `MCCopyFrom` and `MCCqlsh` check several modules in one run: the variable `part` is
chosen at the start and names the module instance the behaviour is about; the
variables of the others keep one fixed value, so the states add up and do not multiply.
A property of such a run is, for each part, a property of its module.

### Ledger

`thread[c]` is the Flask thread that serves browser `c`: its phase is the place
in `add_user` or `add_transaction`, `row` the row its INSERT builds, `entries`
the number of unique indexes the row has entered, `status` the HTTP status.
`table` and `seq` are the database. `browser[c]` is the form and what the page
shows: the page takes an answer of 400 for an addition in its first line, as it has no
`message`, and shows the error in the second. A form is reduced to its kind, the columns some rule looks at, and how
well it is filled in: "missing" (a key is absent or the date unreadable),
"invalid" (a literal PostgreSQL refuses), "null" (a NOT NULL column is empty).

| action | code |
|---|---|
| `Submit`, `Resubmit`, `Deliver`, `LoseReply` | `index.html`, the submit handlers: fetch, `response.json()`, catch |
| `MissingTxnField` | `add_transaction` reads its fields outside the `try`: 500 |
| `Connect`, `ConnectFails` | `get_db_connection`, outside the `try` in both handlers |
| `RefuseEarly` | fields read inside the `try` of `add_user`; literals the database refuses: 400, no id drawn |
| `Draw`, `RefuseNull`, `EnterIndex`, `UniqueViolation` | `cursor.execute`: the default draws an id, constraints are checked, the unique indexes entered one by one |
| `Commit`, `Acknowledge` | the server commits; `conn.commit()` returns and the handler answers 201 |
| `LoseConnection` | the statement raises, `rollback()` raises on the closed connection: 500 |
| `Restart` | the server process ends with the requests in flight |

`Store` has three actions (draw, commit, abort). `Ledger` implements it: the open
rows of `Store` are the rows of the threads that hold one.

### Ingest and Intake

`qdt` is QueryDatabaseTable: `task` where it is, `cursor` the highest id it has
read, `state` what it has stored of that, `polls` the number of polls, which names the flow files of one poll as the
attribute `filename` does. `connection` holds the flow files of the four
connections; they have no prioritizer, so they are sets. `sent` is the flow file
whose producer transaction has committed and which is still queued. `captured`,
`failed`, `crashes` and, in `Intake`, `overtaken` are history.

`Poll`, `SaveState` are QueryDatabaseTable, whose first run reads all rows; `Split`, `SplitFails` SplitAvro;
`LookupMatched`, `LookupUnmatched` LookupRecord; `PutFile`, `PutFileFails`
PutFile; `Publish`, `PublishDone`, `PublishFails` PublishKafkaRecord with
transactions and "Route to Failure"; `Crash` a stop of NiFi, whose queues and
state are on disk (`autoResumeState`, write-ahead repository). `Intake` adds
`Insert`, `EndInsert` (steps of `Store`) and `SignUp`.

### Detector

A row is its offset in the topic; whether the model flags it is chosen when it is
produced. `checkpoint["shared"]` is `/home/spark_checkpoint`,
`checkpoint["temporary"]` the directory Spark makes for the Cassandra query and
removes: `start` the offset found when the source was first opened, `done` the end
of the last batch in the commit log, `to` the end of the last in the offset log.
`query[q]` is a query's phase and the rows its batch still has to write;
`out[q]` what its sink has received. `StartFirst`, `StartSecond`, `StartThird`,
`Await`, `Exit` are `main`, `Recover`, `Plan`, `Write`, `Commit`, `Fail` a
micro-batch query. That Spark stops the running query of the same identity when
a second one is started from its checkpoint, and waits for its end, is
`spark.sql.streaming.stopActiveRunOnRestart` of Spark 3.0.1, true by default; the
identity is read from the checkpoint directory. The Kafka partitions, the
columns a row keeps and the five-second trigger are left out.

### AlertMail and ImportFlow

`consumer` is the lease of ConsumeKafka: where it is, its position, the records
it holds and has not stored yet. `group` is the offset the broker keeps. A mail
to an empty address fails in PutEmail; `failure` is auto-terminated. The text of
the mail is not modelled. (It refers to `${json_content}`, an attribute the flow
never sets, so a mail names no transaction.)

`ImportFlow` is `setup.sh` and `import-flow.sh`, a request at a time: `pc` is the place in
the scripts, `nifi` whether NiFi answers yet, `groups` the process groups it has,
`saved` what of them is on disk. No answer is looked at, so a request NiFi does not answer
is a step without effect. `Stop` and `Setup` stop the container and start it again:
the flows are uploaded a second time, and the name they are looked up by is then
the name of two groups, whose ids do not make an address.

### COPY FROM

`CopyFrom` has the processes and what is between them: `pending` the feeder's queue for a
worker, `wlock` the lock of the pipe that parent and feeder both write, `pipe`, `outbox` and
`results` the way to the worker and back, `hand` the chunks a worker has. Workers settle
rows and report chunks as `ChunkWork` allows.

`ImportWorker` shows that a worker does: `thread[t]` is what the main thread, the driver's
event loop and the retry timer do in `update_chunk`, split into load, store and the
second load that decides (`Load`, `Store`, `Check`); `requests` are the batches with their attempts;
`Apply` is the database, which may apply a batch at any time, before the answer or after it was given
up. `FalseTimeout` is a time-out of a request that was answered.

| module | actions | code |
|---|---|---|
| `Feeder` | `Start`, `ReadLine`, `EndOfSource`, `BeyondLast`, `ChunkFull`, `Begin`, `Wait`, `Tick`, `Report`, `TakePill` | `FilesReader`, `PipeReader`, `RateMeter`, `FeedingProcess.inner_run` |
| `ImportRows` | `ConvertRows`, `SplitIntoBatches`, `Store`, `Reject` | `ImportConversion`, `make_statement` and its variants |
| `Batches` | `PlaceRow`, `ReportRow`, `TakeLarge`, `SendLarge`, `SendByReplica`, `Change` | `split_into_batches`, `TokenMap`; hosts go down in between |
| `QueryPlan` | `Skip`, `Offer`, `Accept`, `Refuse`, `Sleep`, `Wake`, `GiveUp` | `FastTokenAwarePolicy.make_query_plan` |

### COPY TO

`CopyTo`: `info` is what the parent knows of each range, `work` and `results` the channels, `main` and `loop`
what the two threads of a worker do; `requests` the queries with the page each asks for.
`Write`, `Retry`, `GiveUp`, `Finished`, `ChildDied`, `ChildTimeout`, `Close` are
`export_records`, `Take`, `TakePill`, `Attach` `inner_run`, and the callback steps
`attach_callbacks`: `Complete` or `FetchNext` first, `WriteRows` after it. An answer that is there when a callback is
attached is dealt with by the worker's own thread (`AttachAnswered`, `ErrbackAnswered`), and what comes later by the event loop.
The page which the first of them then writes after it asked for the next is in `raced`. `ExportRanges` is one action per turn of the
loop of `get_ranges`; Python's truth of a token, for which zero is false, is `Given`.
`ExportFiles` is `ExportWriter` with `_write_with_split` a line at a time.

`CsvValues` formats a value with `Format`, as `formatting.py` does, and reads it with
`Conv`, as `_get_converter` does: `Split` cuts at separators outside quotes and inner parentheses. It has
`RECURSIVE` operators, for values nest. `Timestamps` and `Durations` are the same for instants
and durations; the decoder of the protocol's integers, `decode_vint`, is there to
be read against an encoder, and has no caller in this version of the shell.

### The shell

`Statements`: a line is a sequence of tokens that matter to where it is cut: words, a semicolon, a quote,
a comment, `BEGIN BATCH`, `APPLY BATCH`, one-line commands, and a character the lexer does not know.
`Lex`, `Massage`, `SplitStatements` are `cql_split_statements`, `OneCmd` is `onecmd`, `ReadLine`, `HandleEof`, `Interrupt`, `Execute`
the ways into it. `log` is what has run.

`CommandRules` is the grammar of the shell's own commands (`cqlsh_syntax_rules`) with the completers, and `Match` the matcher
of `pylexotron.py`, which takes a grammar, the tokens and a set of completions found on the way.
`CommandLine` types a command token by token, with TAB or without, enters it, and shows what
`DESCRIBE` makes of it. The grammar is checked against a reference reading of it (`Sentence`), derivation token by token.

`Shell`: `stack` are the shells, `SOURCE` puts one on top; `sessions`, `conns`, `profiles` are
the driver's objects. `wish` and `cut` are history: what the user asked for, and what an exception or Ctrl-C left
behind. `CopyTask` is the constructor, `run`, `start_processes` and `close` of both
directions, with one dictionary of parameters changed for each child. `Startup` is `read_options` and `main`.

## 3. The runs

Passing runs:

| run | instance | shows |
|---|---|---|
| `ledger` | 2 browsers, one form each out of nine that clash with each other in every way, 2 tries; 71,159 states | `TypeOK`; `ReportsAreTrue`; `FreshTransactionIds`; `UsersAreUnique`; `ImplementsStore`; `Answered` |
| `intake` | 1 handler at a time, 3 ids, a user who signs up late, queues of one flow file, 1 restart; 1,002,612 states | `CursorLeavesNoGap`, `CapturedOnce`, `PublishedOnce`, `CapturesAccountedFor`, `OvershootOfOnePoll`, `FlowDrains` |
| `intake_writers` | 2 handlers, 3 ids, 1 restart; 210,496 states | `GapsWereOpen` |
| `detector` | 2 rows, 2 submissions; 283,425 states | `CommittedIsWritten`, `OneQueryPerCheckpoint`, `OncePerRun`, `FlaggingCatchesUp` |
| `alert_mail` | the flow: 2 alerts, 2 faults, queues of one flow file; the start: 2 flows, 2 stops; 78,881 states | `AlertsAccountedFor`, `MailedOnce`, `AlertsDrain`; `FlowsStarted`: each flow runs in one group at most, and a first start that found NiFi up starts all of it |
| `copy_from` | 15 parts, 507,467 states | see below |
| `cqlsh` | 20 parts, 741,751 states | see below |

| property of `copy_from` | parts | shows |
|---|---|---|
| `KeepsPromise` | two chunks with unparsable rows and errors of the database; one chunk with racing counts | a worker implements `ChunkWork`: each chunk is reported after its rows are settled, once when nothing races, else at most once by each thread |
| `NoRowForgotten` | the same, and every fault once | a worker that has nothing more to do has stored or reported every row |
| `CompletedMeansSettled` | two chunks, each reported once or twice, and two workers; a death; a time-out | an import that completes has settled every row and filed those it gave up, except as many as it counted again |
| `SentIsWanted` | up to three files of three lines, one of which may not be there, and STDIN | rows sent are the rows asked for, with headers, SKIPROWS, MAXROWS, at the rate; a file that cannot be opened is reported and takes with it the chunk in hand and the files after it |
| `StoredAsRead` | two rows with too few, enough or too many of four columns, some skipped, four ways to make statements | the table holds what the fields say, good rows are stored beside bad ones (not claimed for literal statements and counters, whose batches the server refuses whole) |
| `BatchesFollowTheRing` | four rows, three ring positions, hosts that change | rows are partitioned into batches, each for hosts that have all its rows, few and full |
| `ReplicasFirst` | two replicas, two more hosts, three rounds | no host twice in a round, replicas first |
| `ImportEnds` | all parts that must end | every chunk is reported, the command ends, no process is left, a plan ends |

| property of `cqlsh` | parts | shows |
|---|---|---|
| `EachTokenOnce` | all rings of up to four tokens out of eight, all limits but zero | each token asked for is in one range, and that goes to its replicas |
| `CompletedMeansExported` | two ranges and two workers, without and with a fault of four kinds; a range and two faults; three ranges, one worker and a page that cannot be formatted; answers before and after their callbacks are attached | without a warning each page is in the file, and no page is there twice, but for pages that raced |
| `Throttled` | all of these but the range with two faults | the count of requests is that of the requests, at most one above `maxrequests` |
| `FilesKeepRows` | pages of 1, 2, 5, 7 rows into files of 3 | rows in order, once, files full |
| `RoundTrip` | texts of up to three of eight characters, alone and in lists, sets, maps, tuples, user types; instants; durations | what is written is read back; an instant of another program in zone -2, 0 or 1 is off by twice the zone |
| `ReadAsMeant` | three lines of seventeen kinds at a terminal, in a file, given to `-e`; eight sessions of commands | statements are cut as written, the prompt tells what is expected; commands are understood exactly if derived, TAB offers what may come next, `DESCRIBE` shows what its help says |
| `SettingsHold` | four commands in two shells; options of COPY; the start | keyspace and tracing are those asked for last; options come from the nearest place |
| `NothingLeftOpen` | the same | a shell works on an open connection of its session; COPY leaves no process, pipe or file |
| `ExportEnds` | the parts of CopyTo with two workers | an export ends |

Runs that end in a counterexample, one property each:

| run | line it contradicts | what happens |
|---|---|---|
| `ledger_seed` | `app.py:58` "user_id is auto-incremented" | the seed users carry ids 101 to 110 and leave the sequence at 0: the hundred-and-first sign-up is refused |
| `ledger_retry` | `index.html:124` "Please try again." | the server process restarts after the commit and before its answer; the second try stores the transaction twice |
| `intake_gap` | `README.md:37`, Kafka as "source of truth for all incoming data" | the later id commits first and is polled; the earlier row is never read |
| `detector_alerts` | `FraudDetector.scala:51` "Write flagged transactions to Kafka" | `fraud_detection` commits a batch before `flagging` takes its place; the flagged row in it gets no alert |
| `detector_stored` | `FraudDetector.scala:55` "Write flagged transactions to Cassandra" | the Cassandra query opens its source after the row arrived; `flagging` alerts it, Cassandra never has it |

The same comment, `FraudDetector.scala:55`, says *flagged* transactions and the code
writes all of them; no run is spent on that.

**Bounds.** `MaxSubs`, `MaxTries` (Ledger), `MaxId`, `Writers`, `MaxCrashes`
(Intake), `MaxRows`, `MaxRuns` (Detector), `MaxAlerts`, `MaxFaults` (AlertMail), `MaxStops` (ImportFlow),
`MaxFaults`, `MaxDeaths`, `MaxTimeouts` (COPY), `MaxLines` (Statements), `MaxCommands`, `MaxDepth` (Shell)
bound the counters; they sit in the guards of the environment's actions
(a form filled in, an id drawn, a row produced, a crash). Two browsers are enough
for every clash of two open transactions; nine forms cover each unique
column, a null, a missing field and an invalid literal. `BackPressure` is 10000 in
the flow; the runs take 1, so that a poll of two rows overshoots and every queue
fills. One restart reaches every place where work is repeated, and
`PublishedOnce` is tight there: three messages of one row after one restart.
Two submissions of the job let the second meet what the first left in the
checkpoint. In COPY two workers suffice for one to die, finish or be slow while the other
goes on; two chunks for one to be counted early or twice; chunks of two and three rows for a batch that is
full, one that is not, and a row that fails in each place. A ring of four tokens has a first, a last, two
between and every position of the limits. Zones west and east of UTC show the sign of an offset. Three lines are enough for a string, a comment or a
batch to be opened, continued and closed on different lines; four commands for a setting to be
changed, a shell to be entered and left, and the setting to be looked at. Texts of three characters hold a
quote, a separator and a parenthesis in any order. Deadlock is not checked: all these systems stop when the environment's
bounds are used up.

**Fairness.** `Ledger`: a thread that can take a step takes it (the operating system
schedules Flask's threads; the wait for another transaction is a disabled
`EnterIndex`). Nobody has to submit a form and nothing has to fail.
`Intake`, `AlertMail`: NiFi schedules every processor again and again, one
fairness condition for the source and one for the rest; faults owe nothing.
`Detector`: `main` and the threads of the queries run; `StartFirst` is left out, as
nobody has to submit the job. `Answered` needs the order in which a row enters the
unique indexes to be the same for all handlers; `FlowDrains` needs every queue to
have a way out; both fail for a mutant that breaks just that. `MCCopyFrom`, `MCCqlsh`: processes and threads run, the
database answers or the driver times out, time passes; conditions of the same kind
are gathered over the parts, as a behaviour has one part. Nothing has to fail. The shell owes nothing: a user may stop typing.

## 4. What is proved

All proofs hold for every value of the constants that meets the named assumptions
of the modules, which the theorems name. What these say is the code's
doing: the seed rows of `init.sql` are finite, were stored by no browser, bear the ids the
sequence gave them and respect the unique columns they were inserted under; a worker gets every chunk
from the feeder once; an input has finitely many rows, in chunks numbered from 1; the tokens of a ring
are sorted, as `get_ranges` sorts them (`TokensAssumption`, `BatchesAssumption`); workers are
numbered from 1 and a range has at least one page (`ExportAssumption`); columns have different names, and the key
is among those read (`ImportRowsAssumption`); a file
with a mark begins with that of its encoding, and one without is UTF-8 (`StartupAssumption`). Model values stay what they are:
`None` is no Boolean, no switch and no exception.

`CopyFromProofs` and `CqlshProofs` take in several modules: each of those is an `INSTANCE` whose variables
are declared in the proof module, and its theorems are about its own specification.

Some theorems about COPY have more hypotheses, and say so:

- `NoDoubleAnswers`, for `NoCountInvented` and `RacyPromiseKept`: the driver does not time out a request that was answered, and `split_batches`
  raises nothing between two batches. Otherwise rows are counted twice, which hazard
  `copyutil.py:2721` is about.
- `0 \notin Limits`, for the walk over the ring: Python takes a token of zero for one that was not given. And, for
  `WalkReadsReplicas`, no row has the lowest token, which the partitioner gives to none.
- No row has the token of a ring position, for `HostsHaveTheRows`: such a row goes to the neighbour.
- `FilesReadable`, for `FilesSentAsWanted`: all files are there and none lacks the header, or rows of the chunk being read are lost.
  `StdinPlain`, for `StdinSentAsWanted`: no `SKIPROWS` or `MAXROWS`, which the reader of the pipe counts in its own way. `InputsFit` says what a file is.
- `KeysReadable`, `KeysStorable`: with prepared statements an empty field of a number becomes null only when it is converted, after
  the check of the key; a statement then lacks a key, and the server refuses the whole batch.

Two kinds of theorem about COPY have an exception in what they say, instead of a hypothesis, since the code has it:

- Two threads of a worker that add to `chunk['imported']` without a lock may both report the chunk (`copyutil.py:2752-2755`), and
  the parent counts its rows again. `CompletedMeansAllSettled` and `CompletedMeansErrorsFiled` hold of an import in which no chunk
  was counted again, whatever else happened; `MissingCountedAgain` says for all others that no more rows are missing than were counted
  again, so the totals are off by that and nothing else.
- A worker's own thread that finds the answer there when it attaches the callback asks for the next page before it writes this
  one (`copyutil.py:1763-1770`); the event loop may write the rest of the range and end it meanwhile, and a page that arrives after
  the end of its range is lost, or is there twice when the range is tried again. `ExportsOnce` and `ExportsWhole` except just these pages (`Raced`), which are
  written while `add_callbacks` runs. A page that cannot be formatted does not end its range, which then is counted twice or tried again while it goes on
  (`Marred`); both say nothing of an export that has asked for one. `ExportThrottled` has neither exception.

| theorem | argument |
|---|---|
| `LedgerProofs!TypeCorrect` | `TypeOK` with, for each phase, what the thread's row is: `Commit` puts the row in the table its form names, so a thread must hold a row of that kind (`ThreadsFit`). |
| `LedgerProofs!TransactionIdsFresh` | `FreshTransactionIds` is not inductive: nothing in it says that the next id is new. `IdInv` adds that the sequence is at or above every id stored or held. |
| `LedgerProofs!UniqueColumnsHold` | `UsersAreUnique` says nothing of inserts not committed yet. `EntriesAreUnique` adds that each entry an open insert has made is in no stored user and in no other open insert, and that an insert that is done has made all four; `EnterIndex` looks before it enters. |
| `LedgerProofs!PagesTellTheTruth` | About the second line of the page, the id or the error; its first says "added" of a refusal too. `ReportInv` carries `ReportsAreTrue` back to where it becomes true: from the commit on there is a row of this submission (`AddedHasRow`), until the first commit there is none (`RefusedHasNone`), an answer goes to a page that waits for it (`PageWaits`), and rows bear the submission that made them, never one to come. |
| `LedgerProofs!LedgerImplementsStore` | Every step of `Next` is a draw, a commit, an abort or a stutter of `Store`. Needs `IdInv`, for the rows of two holders must differ for one to be taken out of the set of open rows, and `SubsCounted`, for the row drawn must be one of `Store`'s bodies. |
| `IntakeProofs!GapsAreOvertaken` | The cursor only moves over rows read in the same step (`CursorKeepsPace`), so a gap can only come from a row that commits behind it. `GapInv` adds to `GapsWereOpen` what makes it inductive: ids are at most `last`, the cursor stays behind `last` (`CursorBehind`), and an open row behind the cursor is noted in `overtaken` (`PassedOpenNoted`). |
| `IntakeProofs!OneWriterLeavesNoGap` | With one writer the only open row has the highest id drawn, so it is ahead of the cursor (`OpenIsAhead`); with `GapInv` no row commits behind it. |
| `IntakeProofs!TypesHold`, `NothingIsLost` | `FileInv`: a flow file is in one place, bears a poll that was made, and is in `captured`; what LookupRecord matched has its user, so that no action finds a value missing; what is about to be removed was published. Each action then moves a file from one of the named places to another (`Kept`), and `PutFile` refuses only when the poll has another error file. |
| `IntakeProofs!ReadOncePerStart` | `CopiesCounted`: a row ahead of the cursor was read once for each restart at most, one behind it once more. The cursor falls back only in a restart, as at rest it is what was stored (`CursorAtRest`). |
| `IntakeProofs!PublishedAtMost` | Each publication needs a copy of the row that has got past the publisher, or a restart that put one back: `PublicationsCounted` bounds the messages by the copies that wait no more (`Done`) and the restarts; `CopiesCounted` bounds the copies. |
| `IntakeProofs!OvershootIsOnePoll` | `Split` looks at its queue before it adds a poll (`SplitsBounded`); all other actions only take from the queue. |
| `DetectorProofs!NothingPassesUnwritten` | `CommittedIsWritten` with `BatchInv` (a row of the running batch is either left to write or written), `MainInv` (only one query per directory is active, by where `main` is) and `OffsetInv` (no batch ends beyond the topic). |
| `DetectorProofs!QueriesTakeTurns` | `MainInv`. |
| `DetectorProofs!TypesHold` | `TypeOK` says that what is planned and written lies within the topic. `TodoInv` adds that what is left to write lies in the batch the checkpoint has planned, and `OffsetInv` that this batch ends within the topic. |
| `DetectorProofs!WrittenOncePerRun` | `WritesCounted`: a row that a query may still write in this run (`May`: the query is not started, or the row is ahead of it) has been written in earlier runs only. Only `StartFirst`, which counts a run, makes a written row writable again. |
| `AlertMailProofs!TypeCorrect` | `TypeOK` is inductive, as alerts and faults only grow in number, and with them the flow files there may be (`FilesGrow`). |
| `AlertMailProofs!NoAlertVanishes` | `AlertsAccountedFor` speaks of the committed offset only. What makes it inductive is the same for the position of the consumer (`PassedIsHeld`: an alert passed is settled or held), that after `Store` nothing is held, so `CommitOffset` may raise the offset, and that a flow file about to be removed has been mailed (`SentIsMailed`). |
| `AlertMailProofs!MailedAtMost` | As for `PublishedAtMost`: `MailsCounted` bounds the mails of an alert by its flow files past `PutEmail` (`Done`) and the faults, and there is one file for every lease (`InOnePlace`, `QueuedAreRead`). |
| `ImportFlowProofs!NoFlowRunsTwice` | `StartedOnce` says nothing of the groups about to be started. `ScriptInv` follows what was looked up: what is left to start is in the only group of its flow (`Only`), for the ids found are all of that name and just one makes an address. It holds of the saved groups too, which `Stop` brings back. |
| `ImportFlowProofs!FirstStartIsComplete` | `FirstInv`, for a first start that found NiFi up: the groups uploaded so far, services enabled or still to be (`EnableInv`), ids, processors running or still to be (`RunInv`), one part for each loop of the script. |
| `ImportWorkerProofs!TypesHold`, `NothingForgotten` | `NoRowLost`: each row is in a chunk to come, with the main thread, in a batch without an answer, or settled. `MainInv` and `BatchInv` say what the main thread and a batch can hold; a failure of any kind puts the rows of just that chunk or batch among the failed ones. |
| `ImportWorkerProofs!NoCountInvented` | A count may be lost between `Load` and `Store`, so an invariant that equates counts and rows is false. `CountInv` bounds both the count and what a thread has loaded by the rows settled and in no other place (`Counted`); `OnePlaceInv` says that a row is in one place, so that the rows a thread adds are new. |
| `ImportWorkerProofs!RacyPromiseKept` | The refinement of `ChunkWork`, step by step: each step settles rows, reports a chunk or stutters. A chunk is reported by a thread that read its full count, so by `CountInv` all its rows are settled; `ReportInv` allows one report for each thread. |
| `CopyFromProofs!TypesHold` | `TypeOK` with `LockInv` and `OwnerInv` (a chunk is on its way to one worker). |
| `CopyFromProofs!MissingCountedAgain`, `CompletedMeansAllSettled`, `CompletedMeansErrorsFiled` | The parent compares two numbers, rows sent and rows imported; which chunks the second one stands for is written nowhere. `LabelInv` says that there is always a way to label the results on the wires with different reports of chunks (chunk and number of the report), and a set of reports already received, such that the parent's total is the number of their rows. `SentInv` says that the other number is that of all rows, so when they are equal the rows of chunks not received are matched by rows of second reports; without second reports all chunks were received, all reported (`ChunkInv`), all rows settled. A row given up and not filed is of a chunk whose error message is on the same wire before the result (`Carried`, `Names`), so at the end there is none. |
| `CopyFromProofs!RateIsKept` | `RateInv`: the rows of the chunk being read and those it may still take fit into a chunk, and with what the meter has counted into the rate; it is so when the chunk begins, for its size is cut to what the meter has room for. |
| `CopyFromProofs!FilesSentAsWanted` | `FilesInv` lays all files of the input, without their headers, end to end. `ReadSoFar`: the files left, the place in the text of the one being read, and the rows sent and kept are the stretch of that text from `SKIPROWS` to the last row read or `MAXROWS`. That `FlattenSeq` lays them so is an induction over the files, done by the least file for which it fails (`Least`). |
| `CopyFromProofs!StdinSentAsWanted` | `PipeInv`, the same for the pipe: what is left in it is the rest of the text and the end, once. |
| `CopyFromProofs!RowsInOneBatch`, `HostsHaveTheRows`, `BatchesFewAndFull` | `SplitInv` gives the rows one home each: not placed yet, a ring position, a group of hosts, a batch, or the report (`Partition`). A row waits where its token or a host of it says (`Placement`), and all rows of a position move at once, or leave full batches behind (`Grouping`). The hosts may change between any two steps. |
| `CopyFromProofs!ReplicasComeFirst` | An action property. `Planned`: the plan has no host twice and its replicas come before the rest. `PlanInv`: what was offered in a round lies before the place the round has reached. |
| `CopyFromProofs!RowsStoredAsRead`, `KeysArePresent`, `GoodRowsAreStored` | `ImportInv`: a row on its way has the converted fields of the columns kept (`RowConverted`), all valid; until a batch is answered the table is as it was. The columns kept are an increasing list of indexes (`InOrder`), so that a column is found at the place its value has; a row is as long as it or fails, whatever skipped fields it lacks. `GoodKept`: a row with nothing wrong is not reported, for no statement of its batch can be refused. |
| `CqlshProofs!WalkCutsOnce`, `WalkReadsReplicas` | `WalkInv`: the ranges so far select each token up to the last one taken once, and none beyond it (`CutSoFar`); where no range was taken every token seen is below `BEGINTOKEN` or the lowest. `OwnersSoFar`: a range was given the replicas of its upper end. |
| `CqlshProofs!ExportsOnce`, `ExportsWhole` | `ExportInv` follows a range: it is queued for one worker, or a live query has it, or a word on the wire to the parent tells its end, or the parent has it (`QueuedOnce`, `LiveOnce`, `WordOnce`, and each apart from the others). Of a range only the pages that did not race are followed (`Kept`): such a page is on the wire or in the file once, only pages behind its query are (`LiveAhead`, `LiveBehind`), and the end of a range comes after all of them (`WordsLast`, `EndsWhole`). A query may be in the hands of both threads of its worker at once; then one of them only has a raced page left to write, or `err_callback` to attach (`Together`), so one of them is the hand that counts (`Hand`, `Due`). A range is tried again only while the parent has no row of it, and what was on the wire before the error has arrived, so it is clean (`QueuedClean`). Like the parent of COPY FROM, this one counts and does not name what it counts: `lab` and `Got` label its number with ranges. All of this until a page that cannot be formatted is asked for. |
| `CqlshProofs!ExportThrottled` | `ThrottleInv`: the sum over the sessions of a worker is the number of its requests under way, session by session (`Balanced`); `WorkerTypes` says what the two threads can hold at once, and that they never both end a request. The sum is stated as a disjoint union, which needs no induction over hosts. |
| `CqlshProofs!FilesHoldTheRows` | `FileInv`: laid end to end the files hold the header and the rows written so far (`Held`), all but the last are full (`Sized`), and while a page is split its next switch lies ahead, at `remaining`, or the last one at `lastSwitch` (`PageInv`), so that the count kept for the next page is right. |
| `CqlshProofs!ShellsConnected`, `KeyspacesShown`, `SettingsAsChosen` | `ShellInv`, about all shells of the stack, as `SOURCE` ends with the one below: only the first owns its connection, and under DSE what its `CONSISTENCY` changes is another profile than that connection's (`FirstOwn`); a session is of one shell; settings are as wished, or were cut short (`AsWished`). `LOGIN` replaces session and connection together, or neither. |
| `CqlshProofs!NothingIsLeft`, `PipesFit` | `TaskInv`: processes begin only after all were made, and their pipes are those of their number although one dictionary serves all (`ProcessesFit`, `StartsLast`). |
| `CqlshProofs!MostSpecialFirst` | `OptionsInv`: options are what `ReadOptions` makes of the command. Four sections, so four updates: the last that gives a value gave it. |
| `CqlshProofs!PromptIsTrue` | `PromptInv` is `PromptTells` with the type of the text that waits; each way out of `onecmd` sets the prompt and the text together. |
| `CqlshProofs!StartsAsAsked` | `BeginInv`: what was chosen is settled when the options are read, and later steps only use it. Of the marks the first that fits is taken (`Min`), and only the mark of UTF-16 with the low byte first begins another one, that of UTF-32. |
| `CqlshProofs!TimesRoundTrip`, `ReadOffByTwiceTheZone` | `TextInv` says what the text is for each kind of instant; its reading adds the zone back that its writing took away. `ReadInv`: a text of another program is moved by twice its zone. |

Model-checked only:

- The liveness properties (`Answered`, `FlowDrains`, `FlaggingCatchesUp`, `AlertsDrain`,
  `ImportEnds`, `ExportEnds`), which are out of this prover's reach.
- `RoundTrip` and `ReadAsMeant` where they are about `CsvValues`, `CommandRules` and `CommandLine`:
  their `RECURSIVE` operators keep the prover's arithmetic away, and what they compute is an
  induction over the text.
- `FlowsStarted`, which puts `StartedOnce` and `StartedAll` together for two ways to start; these two are proved.
- `RoundTrip` for durations (`Durations`): the decoder is a loop over bits, an induction over the number.
- That statements run as they are written (`RunAsWritten` of `Statements`): cutting a text is an induction over it.
- `SentIsWanted` for STDIN is neither checked nor proved with `SKIPROWS` or `MAXROWS`: it is false there (section 6).
- The properties of a run put those of its parts together, `part = ... => ...`; the theorems are about the parts. Of
  `SettingsHold`, `NothingLeftOpen`, `EachTokenOnce`, `Throttled`, `FilesKeepRows`, `StoredAsRead`, `BatchesFollowTheRing` and
  `ReplicasFirst` every part is proved, under the hypotheses above.

## 5. What is not modelled

- The grammar of CQL statements (`cql3handling.py`) and of DSE's search statements: the
  server parses them again, the shell only completes with them. The layout of
  results on the screen (`displaying.py`, `wcwidth.py`, column widths, colours).
- The text of floating point numbers, blobs, UUIDs and addresses in CSV files, which Python's own
  conversions write and read.
- `cassandra/entrypoint.sh`: the Dockerfile and `docker-compose.yaml` use the entry
  point of the image, so nothing runs it.
- The model's scores and the training program, the geolocation client and the fraud
  intelligence stub (nothing calls them), the dashboards, the container
  descriptions, the backup flow that is not installed, and the wording of pages and
  mails.
- Containers that are created anew, with empty volumes.

Kafka, PostgreSQL, Cassandra and its driver, Spark's engine, NiFi's framework and SMTP are modelled as
far as the code uses them and marked external where no line of this repository
decides what they do. `PROJECT.json` gives the reason for each part.

## 6. Disagreements seen while modelling

Behaviour of the code that differs from what a reader or a user may expect. The modules have it,
so the properties above are stated in a form that is true with it; no run is
spent on showing it.

*Front end.* An answer of 400 has no `message`, so the first line of the page says that the user or transaction was "added
successfully!" (`index.html:90`, `:118`) above the error; nothing was stored.

*Intake.* The flow asks for "Start at Current Maximum Values" (`combineUsersAndTransactions.json:449`, `initial-load-strategy`). NiFi 1.14.0, which
`nifi/Dockerfile:2` installs, has no such property of QueryDatabaseTable and ignores it: the first poll reads all rows.

*COPY.* The constructor moves an earlier error file away even when it then refuses to go on.
An export that cannot start one of its processes leaves the others running and the file open.
Counts of a chunk are added to without a lock, so a chunk may be reported twice and an import end without all its rows; a time-out of a batch
that was answered is counted again, and its chunk is reported with another batch outstanding
(`FalseTimeout`). Some counts are of lines and some of rows. Errors that arrive after the last
result are lost; `report_error` gives all rows of a chunk as failed, those already sent included.
A key that only becomes null when it is converted passes the check for null keys. Token limits of
zero count as not given. A page is asked for before the one before it is written, so the first page may arrive after the end of its
range and be lost without a warning, or be written twice; a page that cannot
be formatted does not end its range, which is then counted twice. From standard input a header counts as one of the `SKIPROWS`, one row fewer is skipped than asked for, and beyond `MAXROWS`
the feeder takes the next row for the poison pill. A file that is missing or empty loses the rows of the chunk that was being read.
A row whose token is that of a ring position goes to the neighbour.
Values: instants before 1900 in Python 2, instants of another program in any zone but UTC (`copyutil.py:2104`, `:2109` add the offset), an empty duration, line
breaks in texts, a thousands separator inside collections, and boolean styles are not read back as written.

*Shell.* In the DSE shell `CONSISTENCY` changes a profile of its own and not the one its connection was made with
(`dsecqlsh.py:347-368`, `cqlsh.py:510-519`, `:1997`), so before a `LOGIN` it does not reach requests that are sent without a level: `USE` and
the query of `DESCRIBE SEARCH INDEX`. `a; b` at the end of the input, without the last semicolon, runs neither and says only "Incomplete statement";
`-e` with an unfinished batch or string does nothing and exits with 0. A character the lexer does not know, inside a batch,
lets the rest of the batch run outside it. `help -- x` waits for another line, for the comment
takes the newline with it. An interrupted SELECT from `system_traces` leaves tracing
off. A sourced file prints to the screen while output is captured, and starts with the default
paging, expansion and consistency; its errors do not change the exit status. `LOGIN` never closes the
connection before it. The rest of a line runs after `EXIT`. A time-out made longer for a search
statement stays so after an exception. `no_file_io` of cqlshrc is read and never used. A mark of UTF-32LE
is taken for UTF-16LE. `DESCRIBE` goes by the word typed, so a keyspace or table called `type`,
`function` or `tables` is not shown unless it is quoted. The completion of `SOURCE` and `CAPTURE` gives file names
without quotes, and that of `CAPTURE` hides `OFF`. Results that do not go to a terminal are only the first page.

*Start-up.* `import-flow.sh:78` says "All processors have been started." also when NiFi did not answer, and
when the flows were uploaded a second time and none was started.

## 7. Plan

1. `Pipeline`: `Intake`, `Detector` and `AlertMail` over common topics, implementing an
   abstract `Delivery`: a stored transaction is, in the end, missed for one of the
   named reasons, or scored, and if flagged mailed. The reasons are the findings
   above; the abstract specification states that there are no others.
2. Proofs: `ExportsOnce` and `ExportsWhole` where a page cannot be formatted, which needs a statement of what such a range may
   still lose; the cutting of statements, if its text is ever modelled by positions instead of sequences.
