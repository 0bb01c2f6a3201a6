------------------------------ MODULE AlertMail ------------------------------
(***************************************************************************)
(* The NiFi flow sendEmailAboutFraud: ConsumeKafka reads the topic         *)
(* fraud_alerts as the group frauds_alerting, EvaluateJsonPath takes the   *)
(* address out of each alert, PutEmail mails it.  The consumer stores flow *)
(* files first and commits its offset after that; a group without a        *)
(* committed offset starts at the end of the topic.  An alert is its       *)
(* offset in the topic; partitions are left out.                           *)
(***************************************************************************)
EXTENDS Naturals, Sequences, FiniteSets

CONSTANTS
    BackPressure,   \* flow files a connection holds before its source stops
    MaxAlerts,      \* bound: alerts in the topic
    MaxFaults       \* bound: restarts of NiFi and failed offset commits

ASSUME BoundsAssumption ==
    BackPressure \in Nat \ {0} /\ MaxAlerts \in Nat /\ MaxFaults \in Nat

VARIABLES
    alerts,     \* the topic: whether each alert has an e-mail address
    group,      \* the offset the broker keeps for the group
    consumer,   \* the consumer's lease: phase, position, records not stored yet
    connection, \* the flow files between the processors
    sent,       \* the flow file PutEmail has sent, not removed
    mails,      \* the mails the SMTP server has accepted
    dropped,    \* history: flow files that ended in an auto-terminated failure
    start,      \* history: where the group was last told to start
    faults      \* history: restarts and failed offset commits so far

vars == <<alerts, group, consumer, connection, sent, mails, dropped, start, faults>>

\* A flow file: an alert, and the faults before it was read, which tell the
\* flow files of one alert apart.
Files == [alert : 1 .. Len(alerts), after : 0 .. faults]

Closed == [phase |-> "closed", position |-> 0, held |-> {}]

TypeOK ==
    /\ alerts \in Seq(BOOLEAN)
    /\ group \in [committed : BOOLEAN, offset : 0 .. Len(alerts)]
    /\ consumer.phase \in {"closed", "polling", "stored"}
    /\ consumer.position \in 0 .. Len(alerts) /\ consumer.held \subseteq Files
    /\ connection \in [{"success", "matched"} -> SUBSET Files]
    /\ sent \subseteq connection["matched"]
    /\ mails \in Seq(Files)
    /\ dropped \subseteq Files
    /\ start \in 0 .. Len(alerts)
    /\ faults \in 0 .. MaxFaults

Init ==
    /\ alerts = << >>
    /\ group = [committed |-> FALSE, offset |-> 0]
    /\ consumer = Closed
    /\ connection = [q \in {"success", "matched"} |-> {}]
    /\ sent = {} /\ mails = << >> /\ dropped = {} /\ start = 0 /\ faults = 0

\* Spark writes an alert; to_json leaves an unknown address out.
Alert ==
    /\ Len(alerts) < MaxAlerts
    /\ \E address \in BOOLEAN : alerts' = Append(alerts, address)
    /\ UNCHANGED <<group, consumer, connection, sent, mails, dropped, start, faults>>

Room(q) == Cardinality(connection[q]) < BackPressure

-----------------------------------------------------------------------------
(* ConsumeKafka_2_0                                                         *)

\* A new lease subscribes; auto.offset.reset is latest.
Join ==
    /\ consumer.phase = "closed"
    /\ LET from == IF group.committed THEN group.offset ELSE Len(alerts) IN
       /\ consumer' = [phase |-> "polling", position |-> from, held |-> {}]
       /\ start' = IF group.committed THEN start ELSE from
    /\ UNCHANGED <<alerts, group, connection, sent, mails, dropped, faults>>

\* Poll some of the records that are there.  A trigger polls again and again
\* before it stores; only its start looks at the queue.
Poll ==
    /\ consumer.phase = "polling"
    /\ consumer.held = {} => Room("success")
    /\ \E n \in consumer.position + 1 .. Len(alerts) :
          consumer' = [phase |-> "polling", position |-> n,
                       held |-> consumer.held
                                  \cup [alert : consumer.position + 1 .. n, after : {faults}]]
    /\ UNCHANGED <<alerts, group, connection, sent, mails, dropped, start, faults>>

\* Mutant of Store: the session is rolled back and the offset committed.
StoreNothing ==
    /\ consumer.phase = "polling" /\ consumer.held # {}
    /\ consumer' = [phase |-> "stored", position |-> consumer.position, held |-> {}]
    /\ UNCHANGED <<alerts, group, connection, sent, mails, dropped, start, faults>>

\* The session commits: the held records become flow files.
Store ==
    /\ consumer.phase = "polling" /\ consumer.held # {}
    /\ connection' = [connection EXCEPT !["success"] = @ \cup consumer.held]
    /\ consumer' = [phase |-> "stored", position |-> consumer.position, held |-> {}]
    /\ UNCHANGED <<alerts, group, sent, mails, dropped, start, faults>>

\* The consumer's offset is committed after the session.
CommitOffset ==
    /\ consumer.phase = "stored"
    /\ group' = [committed |-> TRUE, offset |-> consumer.position]
    /\ consumer' = [phase |-> "polling", position |-> consumer.position, held |-> {}]
    /\ UNCHANGED <<alerts, connection, sent, mails, dropped, start, faults>>

\* The broker refuses the offset: the lease is closed, the records come again.
CommitFails ==
    /\ consumer.phase = "stored" /\ faults < MaxFaults
    /\ consumer' = Closed
    /\ faults' = faults + 1
    /\ UNCHANGED <<alerts, group, connection, sent, mails, dropped, start>>

-----------------------------------------------------------------------------
(* EvaluateJsonPath and PutEmail                                            *)

\* A missing address is ignored: the attribute is empty, the file goes on.
Evaluate(f) ==
    /\ f \in connection["success"] /\ Room("matched")
    /\ connection' = [connection EXCEPT !["success"] = @ \ {f}, !["matched"] = @ \cup {f}]
    /\ UNCHANGED <<alerts, group, consumer, sent, mails, dropped, start, faults>>

Remove(f) == connection' = [connection EXCEPT !["matched"] = @ \ {f}]

\* The server has accepted the mail; the flow file is still queued.
Mail(f) ==
    /\ f \in connection["matched"] /\ sent = {}
    /\ alerts[f.alert]
    /\ mails' = Append(mails, f)
    /\ sent' = {f}
    /\ UNCHANGED <<alerts, group, consumer, connection, dropped, start, faults>>

\* Mutant of MailDone: success leads back to the queue.
MailDoneKept(f) ==
    /\ f \in sent
    /\ sent' = {}
    /\ Len(mails) < 8
    /\ UNCHANGED <<alerts, group, consumer, connection, mails, dropped, start, faults>>

MailDone(f) ==
    /\ f \in sent
    /\ Remove(f)
    /\ sent' = {}
    /\ UNCHANGED <<alerts, group, consumer, mails, dropped, start, faults>>

\* Mutant of NoAddress: failure leads back to the queue.
NoAddressAgain(f) ==
    /\ f \in connection["matched"] /\ sent = {}
    /\ ~alerts[f.alert]
    /\ UNCHANGED vars

\* A mail to nobody fails, and failure is auto-terminated.
NoAddress(f) ==
    /\ f \in connection["matched"] /\ sent = {}
    /\ ~alerts[f.alert]
    /\ Remove(f)
    /\ dropped' = dropped \cup {f}
    /\ UNCHANGED <<alerts, group, consumer, sent, mails, start, faults>>

\* The server refuses the mail, or takes it and its answer is lost.
MailFails(f) ==
    /\ f \in connection["matched"] /\ sent = {}
    /\ alerts[f.alert]
    /\ Remove(f)
    /\ mails' \in {mails, Append(mails, f)}
    /\ dropped' = dropped \cup {f}
    /\ UNCHANGED <<alerts, group, consumer, sent, start, faults>>

-----------------------------------------------------------------------------
\* NiFi stops: flow files stay, the lease and what it holds do not.
Crash ==
    /\ faults < MaxFaults
    /\ consumer' = Closed
    /\ sent' = {}
    /\ faults' = faults + 1
    /\ UNCHANGED <<alerts, group, connection, mails, dropped, start>>

Consume == Join \/ Poll \/ Store \/ CommitOffset
Work ==
    \/ \E f \in connection["success"] : Evaluate(f)
    \/ \E f \in connection["matched"] : Mail(f) \/ MailDone(f) \/ NoAddress(f)
Fault == CommitFails \/ Crash \/ \E f \in connection["matched"] : MailFails(f)

Next == Alert \/ Consume \/ Work \/ Fault

Spec == Init /\ [][Next]_vars

\* NiFi schedules every processor again and again.
FairSpec == Spec /\ WF_vars(Consume) /\ WF_vars(Work)

-----------------------------------------------------------------------------
Mailed(a) == \E i \in 1 .. Len(mails) : mails[i].alert = a

\* An alert the group will not be given again is mailed, dropped by a failure
\* nobody sees, or still in the flow.
AlertsAccountedFor ==
    group.committed =>
        \A a \in start + 1 .. group.offset :
            \/ Mailed(a)
            \/ \E f \in dropped \cup connection["success"] \cup connection["matched"] :
                  f.alert = a

\* A fault repeats at most two mails of an alert: one because the alert is
\* read again, one because a sent flow file is still queued.
MailedOnce ==
    \A a \in 1 .. Len(alerts) :
        Cardinality({i \in 1 .. Len(mails) : mails[i].alert = a}) <= 1 + 2 * faults

\* The flow catches up with the topic and drains.
AlertsDrain ==
    []<>(/\ consumer.phase = "polling" /\ consumer.held = {}
         /\ consumer.position = Len(alerts)
         /\ \A q \in {"success", "matched"} : connection[q] = {})
=============================================================================
