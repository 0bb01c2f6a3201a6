-------------------------- MODULE AlertMailProofs ---------------------------
(***************************************************************************)
(* Proofs about AlertMail, for every number of alerts and of faults.       *)
(***************************************************************************)
EXTENDS AlertMail, FiniteSetTheorems, TLAPS

\* The group will not be given alert a again for lack of it: it is mailed,
\* dropped or queued.
Settled(a) ==
    \/ Mailed(a)
    \/ \E f \in dropped \cup connection["success"] \cup connection["matched"] : f.alert = a

\* A consumer that has moved over an alert holds it or has stored it.
PassedIsHeld ==
    consumer.phase # "closed" =>
        \A a \in start + 1 .. consumer.position :
            Settled(a) \/ \E f \in consumer.held : f.alert = a

\* A consumer that has stored holds nothing.
StoredHoldsNothing == consumer.phase = "stored" => consumer.held = {}

\* What is about to be removed as sent has been mailed.
SentIsMailed == \A f \in sent : Mailed(f.alert)

IInv == TypeOK /\ PassedIsHeld /\ StoredHoldsNothing /\ SentIsMailed /\ AlertsAccountedFor

-----------------------------------------------------------------------------
(* Types                                                                    *)

\* Alerts and faults only grow in number, and with them the flow files there may be.
LEMMA FilesGrow == TypeOK /\ [Next]_vars => Files \subseteq Files'
  <1> SUFFICES ASSUME TypeOK, [Next]_vars PROVE Files \subseteq Files'
    OBVIOUS
  <1>1. alerts \in Seq(BOOLEAN) /\ Len(alerts) \in Nat /\ faults \in Nat
    BY DEF TypeOK
  <1>2. faults' \in {faults, faults + 1}
    BY DEF Next, Alert, Consume, Join, Poll, Store, CommitOffset, Work, Evaluate, Mail,
       MailDone, NoAddress, Fault, CommitFails, Crash, MailFails, vars
  <1>3. alerts' = alerts \/ \E b \in BOOLEAN : alerts' = Append(alerts, b)
    BY DEF Next, Alert, Consume, Join, Poll, Store, CommitOffset, Work, Evaluate, Mail,
       MailDone, NoAddress, Fault, CommitFails, Crash, MailFails, vars
  <1>4. Len(alerts') \in Nat /\ Len(alerts') >= Len(alerts)
    BY <1>1, <1>3
  <1> QED BY <1>1, <1>2, <1>4 DEF Files

LEMMA TypeStep == BoundsAssumption /\ TypeOK /\ [Next]_vars => TypeOK'
  <1> SUFFICES ASSUME BoundsAssumption, TypeOK, [Next]_vars PROVE TypeOK'
    OBVIOUS
  <1>0. Files \subseteq Files'
    BY FilesGrow
  <1>1. alerts \in Seq(BOOLEAN) /\ Len(alerts) \in Nat /\ faults \in 0 .. MaxFaults /\ MaxFaults \in Nat
    BY DEF TypeOK, BoundsAssumption
  <1>2. CASE Alert
    <2>1. PICK b \in BOOLEAN : alerts' = Append(alerts, b)
      BY <1>2 DEF Alert
    <2>2. alerts' \in Seq(BOOLEAN) /\ Len(alerts') = Len(alerts) + 1
      BY <1>1, <2>1
    <2> QED BY <1>0, <1>1, <1>2, <2>2 DEF Alert, TypeOK
  <1>3. CASE Join
    BY <1>0, <1>1, <1>3 DEF Join, TypeOK
  <1>4. CASE Poll
    <2>1. PICK k \in consumer.position + 1 .. Len(alerts) :
             consumer' = [phase |-> "polling", position |-> k,
                          held |-> consumer.held \cup [alert : consumer.position + 1 .. k, after : {faults}]]
      BY <1>4 DEF Poll
    <2>2. [alert : consumer.position + 1 .. k, after : {faults}] \subseteq Files
      BY <1>1 DEF TypeOK, Files
    <2> QED BY <1>0, <1>1, <1>4, <2>1, <2>2 DEF Poll, TypeOK
  <1>5. CASE Store
    BY <1>0, <1>1, <1>5 DEF Store, TypeOK
  <1>6. CASE CommitOffset
    BY <1>0, <1>1, <1>6 DEF CommitOffset, TypeOK
  <1>7. CASE CommitFails \/ Crash
    BY <1>0, <1>1, <1>7 DEF CommitFails, Crash, TypeOK, Closed
  <1>8. ASSUME NEW f \in connection["success"], Evaluate(f) PROVE TypeOK'
    BY <1>0, <1>1, <1>8 DEF Evaluate, TypeOK
  <1>9. ASSUME NEW f \in connection["matched"], Mail(f) PROVE TypeOK'
    BY <1>0, <1>1, <1>9 DEF Mail, TypeOK
  <1>10. ASSUME NEW f \in connection["matched"], MailDone(f) PROVE TypeOK'
    BY <1>0, <1>1, <1>10 DEF MailDone, Remove, TypeOK
  <1>11. ASSUME NEW f \in connection["matched"], NoAddress(f) PROVE TypeOK'
    <2>1. sent' \subseteq connection'["matched"]
      BY <1>11 DEF NoAddress, Remove, TypeOK
    <2> QED BY <1>0, <1>1, <1>11, <2>1 DEF NoAddress, Remove, TypeOK
  <1>12. ASSUME NEW f \in connection["matched"], MailFails(f) PROVE TypeOK'
    <2>1. sent' \subseteq connection'["matched"]
      BY <1>12 DEF MailFails, Remove, TypeOK
    <2>2. mails' \in Seq(Files) /\ dropped' \subseteq Files
      <3>1. f \in Files /\ mails \in Seq(Files) /\ dropped \subseteq Files
        BY <1>12 DEF TypeOK
      <3>2. mails' \in {mails, Append(mails, f)} /\ dropped' = dropped \cup {f}
        BY <1>12 DEF MailFails
      <3>3. Append(mails, f) \in Seq(Files)
        BY <3>1
      <3> QED BY <3>1, <3>2, <3>3
    <2>3. mails' \in Seq(Files')
      BY <1>0, <2>2
    <2>4. connection' \in [{"success", "matched"} -> SUBSET Files]
      BY <1>12 DEF MailFails, Remove, TypeOK
    <2>5. UNCHANGED <<alerts, group, consumer, start, faults>>
      BY <1>12 DEF MailFails
    <2> QED BY <1>0, <2>1, <2>2, <2>3, <2>4, <2>5 DEF TypeOK
  <1>13. CASE UNCHANGED vars
    BY <1>13 DEF vars, TypeOK, Files
  <1> QED BY <1>2, <1>3, <1>4, <1>5, <1>6, <1>7, <1>8, <1>9, <1>10, <1>11, <1>12, <1>13
          DEF Next, Consume, Work, Fault

-----------------------------------------------------------------------------
(* Accounting                                                               *)

\* What was mailed stays mailed: a step adds at most one mail at the end.
LEMMA MailsGrow ==
    ASSUME TypeOK, NEW m, mails' \in {mails, Append(mails, m)}
    PROVE  \A a : Mailed(a) => Mailed(a)'
  <1>1. mails \in Seq(Files) /\ Len(mails) \in Nat
    BY DEF TypeOK
  <1>2. \A i \in 1 .. Len(mails) : i \in 1 .. Len(mails') /\ mails'[i] = mails[i]
    BY <1>1
  <1> QED BY <1>2 DEF Mailed

\* A step that keeps mails and dropped flow files, and takes out of the flow only
\* what is mailed or dropped by then, leaves settled alerts settled.
LEMMA SettledStays ==
    ASSUME NEW f, \A a : Mailed(a) => Mailed(a)',
           dropped \subseteq dropped',
           connection["success"] \cup connection["matched"]
               \subseteq connection'["success"] \cup connection'["matched"] \cup {f},
           \/ Mailed(f.alert)'
           \/ f \in dropped' \cup connection'["success"] \cup connection'["matched"]
    PROVE  \A a : Settled(a) => Settled(a)'
  BY DEF Settled

LEMMA AccountingStep == IInv /\ [Next]_vars =>
    PassedIsHeld' /\ StoredHoldsNothing' /\ SentIsMailed' /\ AlertsAccountedFor'
  <1> SUFFICES ASSUME IInv, [Next]_vars
               PROVE  PassedIsHeld' /\ StoredHoldsNothing' /\ SentIsMailed' /\ AlertsAccountedFor'
    OBVIOUS
  <1>0. TypeOK /\ PassedIsHeld /\ StoredHoldsNothing /\ SentIsMailed /\ AlertsAccountedFor
    BY DEF IInv
  <1>2. group.committed => \A a \in start + 1 .. group.offset : Settled(a)
    BY <1>0 DEF AlertsAccountedFor, Settled
  <1>3. SUFFICES /\ PassedIsHeld' /\ StoredHoldsNothing' /\ SentIsMailed'
                 /\ group'.committed => \A a \in start' + 1 .. group'.offset : Settled(a)'
    BY DEF AlertsAccountedFor, Settled
  <1>4. CASE UNCHANGED <<group, consumer, connection, sent, mails, dropped, start>>
    BY <1>0, <1>2, <1>4 DEF PassedIsHeld, StoredHoldsNothing, SentIsMailed, Settled, Mailed
  <1>5. CASE Join
    <2>1. UNCHANGED <<connection, sent, mails, dropped, group>>
      BY <1>5 DEF Join
    <2>2. (\A a : Settled(a) <=> Settled(a)') /\ SentIsMailed'
      BY <1>0, <2>1 DEF Settled, Mailed, SentIsMailed
    <2>3. CASE group.committed
      BY <1>2, <1>5, <2>1, <2>2, <2>3 DEF Join, PassedIsHeld, StoredHoldsNothing
    <2>4. CASE ~group.committed
      <3>1. start' = consumer'.position /\ start' \in Nat
        BY <1>0, <1>5, <2>4 DEF Join, TypeOK
      <3>2. consumer'.phase = "polling" /\ start' + 1 .. consumer'.position = {}
        BY <1>5, <3>1 DEF Join
      <3> QED BY <2>1, <2>2, <2>4, <3>2 DEF PassedIsHeld, StoredHoldsNothing
    <2> QED BY <2>3, <2>4
  <1>6. CASE Poll
    <2>1. PICK k \in consumer.position + 1 .. Len(alerts) :
             consumer' = [phase |-> "polling", position |-> k,
                          held |-> consumer.held \cup [alert : consumer.position + 1 .. k, after : {faults}]]
      BY <1>6 DEF Poll
    <2>2. UNCHANGED <<group, connection, sent, mails, dropped, start>> /\ consumer.phase # "closed"
      BY <1>6 DEF Poll
    <2>3. (\A a : Settled(a) <=> Settled(a)') /\ SentIsMailed'
      BY <1>0, <2>2 DEF Settled, Mailed, SentIsMailed
    <2>4. start \in Nat /\ consumer.position \in Nat /\ k \in Nat
      BY <1>0, <2>1 DEF TypeOK
    <2>5. ASSUME NEW a \in start + 1 .. k PROVE Settled(a) \/ \E f \in consumer'.held : f.alert = a
      <3>1. CASE a <= consumer.position
        BY <1>0, <2>1, <2>2, <2>4, <2>5, <3>1 DEF PassedIsHeld
      <3>2. CASE a > consumer.position
        <4>1. a \in consumer.position + 1 .. k
          BY <2>4, <3>2
        <4>2. [alert |-> a, after |-> faults] \in consumer'.held
          BY <2>1, <4>1
        <4> QED BY <4>2
      <3> QED BY <2>4, <3>1, <3>2
    <2> QED BY <1>2, <2>1, <2>2, <2>3, <2>5 DEF PassedIsHeld, StoredHoldsNothing
  <1>7. CASE Store
    <2>1. /\ connection'["success"] = connection["success"] \cup consumer.held
          /\ connection'["matched"] = connection["matched"]
          /\ consumer' = [phase |-> "stored", position |-> consumer.position, held |-> {}]
          /\ UNCHANGED <<group, sent, mails, dropped, start>> /\ consumer.phase # "closed"
      BY <1>0, <1>7 DEF Store, TypeOK
    <2>2. SentIsMailed' /\ \A a : Settled(a) => Settled(a)'
      BY <1>0, <2>1 DEF Settled, Mailed, SentIsMailed
    <2>3. \A a : (\E f \in consumer.held : f.alert = a) => Settled(a)'
      BY <2>1 DEF Settled
    <2>4. PassedIsHeld'
      BY <1>0, <2>1, <2>2, <2>3 DEF PassedIsHeld
    <2> QED BY <1>2, <2>1, <2>2, <2>4 DEF StoredHoldsNothing
  <1>8. CASE CommitOffset
    <2>1. /\ group' = [committed |-> TRUE, offset |-> consumer.position]
          /\ consumer' = [phase |-> "polling", position |-> consumer.position, held |-> {}]
          /\ UNCHANGED <<connection, sent, mails, dropped, start>>
          /\ consumer.phase = "stored" /\ consumer.held = {}
      BY <1>0, <1>8 DEF CommitOffset, StoredHoldsNothing
    <2>2. (\A a : Settled(a) <=> Settled(a)') /\ SentIsMailed'
      BY <1>0, <2>1 DEF Settled, Mailed, SentIsMailed
    <2>3. \A a \in start + 1 .. consumer.position : Settled(a)
      BY <1>0, <2>1 DEF PassedIsHeld
    <2> QED BY <2>1, <2>2, <2>3 DEF PassedIsHeld, StoredHoldsNothing
  <1>9. CASE CommitFails \/ Crash
    <2>1. /\ consumer'.phase = "closed" /\ sent' \subseteq sent
          /\ UNCHANGED <<group, connection, mails, dropped, start>>
      BY <1>9 DEF CommitFails, Crash, Closed
    <2>2. (\A a : Settled(a) <=> Settled(a)') /\ SentIsMailed'
      BY <1>0, <2>1 DEF Settled, Mailed, SentIsMailed
    <2> QED BY <1>2, <2>1, <2>2 DEF PassedIsHeld, StoredHoldsNothing
  <1>10. ASSUME UNCHANGED <<group, consumer, start>>, SentIsMailed', \A a : Settled(a) => Settled(a)'
         PROVE  /\ PassedIsHeld' /\ StoredHoldsNothing' /\ SentIsMailed'
                /\ group'.committed => \A a \in start' + 1 .. group'.offset : Settled(a)'
    BY <1>0, <1>2, <1>10 DEF PassedIsHeld, StoredHoldsNothing
  <1>11. ASSUME NEW f \in connection["success"], Evaluate(f)
         PROVE  /\ UNCHANGED <<group, consumer, start>> /\ SentIsMailed'
                /\ \A a : Settled(a) => Settled(a)'
    <2>1. UNCHANGED <<mails, dropped, sent, group, consumer, start>>
      BY <1>11 DEF Evaluate
    <2>2. connection'["success"] \cup connection'["matched"] = connection["success"] \cup connection["matched"]
      BY <1>0, <1>11 DEF Evaluate, TypeOK
    <2> QED BY <1>0, <2>1, <2>2 DEF Settled, Mailed, SentIsMailed
  <1>12. ASSUME NEW f \in connection["matched"], Mail(f)
         PROVE  /\ UNCHANGED <<group, consumer, start>> /\ SentIsMailed'
                /\ \A a : Settled(a) => Settled(a)'
    <2>1. UNCHANGED <<group, consumer, start, connection, dropped>> /\ mails' = Append(mails, f) /\ sent' = {f}
      BY <1>12 DEF Mail
    <2>2. \A a : Mailed(a) => Mailed(a)'
      BY <1>0, <2>1, MailsGrow
    <2>3. mails' \in Seq(Files) /\ Len(mails') \in 1 .. Len(mails') /\ mails'[Len(mails')] = f
      BY <1>0, <2>1, <1>12 DEF TypeOK
    <2>4. Mailed(f.alert)'
      BY <2>3 DEF Mailed
    <2> QED BY <2>1, <2>2, <2>4 DEF Settled, SentIsMailed
  <1>13. ASSUME NEW f \in connection["matched"], MailDone(f)
         PROVE  /\ UNCHANGED <<group, consumer, start>> /\ SentIsMailed'
                /\ \A a : Settled(a) => Settled(a)'
    <2>1. /\ UNCHANGED <<group, consumer, start, mails, dropped>> /\ sent' = {} /\ f \in sent
          /\ connection'["success"] = connection["success"]
          /\ connection'["matched"] = connection["matched"] \ {f}
      BY <1>0, <1>13 DEF MailDone, Remove, TypeOK
    <2>2. \A a : Mailed(a) => Mailed(a)'
      BY <2>1 DEF Mailed
    <2>3. Mailed(f.alert)'
      BY <1>0, <2>1, <2>2 DEF SentIsMailed
    <2> QED BY <2>1, <2>2, <2>3, SettledStays DEF SentIsMailed
  <1>14. ASSUME NEW f \in connection["matched"], NoAddress(f) \/ MailFails(f)
         PROVE  /\ UNCHANGED <<group, consumer, start>> /\ SentIsMailed'
                /\ \A a : Settled(a) => Settled(a)'
    <2>1. /\ UNCHANGED <<group, consumer, start, sent>> /\ sent = {}
          /\ mails' \in {mails, Append(mails, f)} /\ dropped' = dropped \cup {f}
          /\ connection'["success"] = connection["success"]
          /\ connection'["matched"] = connection["matched"] \ {f}
      BY <1>0, <1>14 DEF NoAddress, MailFails, Remove, TypeOK
    <2>2. \A a : Mailed(a) => Mailed(a)'
      BY <1>0, <2>1, MailsGrow
    <2> QED BY <2>1, <2>2, SettledStays DEF SentIsMailed
  <1>15. CASE Alert \/ UNCHANGED vars
    BY <1>4, <1>15 DEF Alert, vars
  <1>16. CASE Work
    BY <1>10, <1>11, <1>12, <1>13, <1>14, <1>16 DEF Work
  <1>17. CASE Fault
    BY <1>9, <1>10, <1>14, <1>17 DEF Fault
  <1> QED BY <1>5, <1>6, <1>7, <1>8, <1>15, <1>16, <1>17 DEF Next, Consume

-----------------------------------------------------------------------------
LEMMA InvInit == BoundsAssumption /\ Init => IInv
  <1> SUFFICES ASSUME BoundsAssumption, Init PROVE IInv
    OBVIOUS
  <1>1. TypeOK
    BY DEF Init, TypeOK, Closed, BoundsAssumption
  <1>2. PassedIsHeld /\ StoredHoldsNothing /\ SentIsMailed /\ AlertsAccountedFor
    BY DEF Init, Closed, PassedIsHeld, StoredHoldsNothing, SentIsMailed, AlertsAccountedFor
  <1> QED BY <1>1, <1>2 DEF IInv

LEMMA Invariance == Spec => []IInv
  <1>1. Init => IInv
    BY InvInit, BoundsAssumption
  <1>2. IInv /\ [Next]_vars => IInv'
    BY TypeStep, AccountingStep, BoundsAssumption DEF IInv
  <1> QED BY <1>1, <1>2, PTL DEF Spec

\* Every variable keeps its type; a flow file names an alert of the topic, and
\* only what is still queued is about to be removed as sent (PutEmail).
THEOREM TypeCorrect == Spec => []TypeOK
  <1>1. IInv => TypeOK
    BY DEF IInv
  <1> QED BY <1>1, Invariance, PTL

\* Whatever restarts, refused offset commits and refused mails there are, an
\* alert behind the committed offset is mailed, in the flow, or dropped by one of
\* the failures the flow terminates (ConsumeKafka, PutEmail).
THEOREM NoAlertVanishes == Spec => []AlertsAccountedFor
  <1>1. IInv => AlertsAccountedFor
    BY DEF IInv
  <1> QED BY <1>1, Invariance, PTL

-----------------------------------------------------------------------------
(* Mails: a flow file of an alert is read once for each lease, mailed once,  *)
(* and mailed again only when NiFi stops between the mail and its removal.   *)

\* The lease of flow file f has still to read it.
Unread(f) == f.after = faults /\ (consumer.phase = "closed" \/ consumer.position < f.alert)

\* Flow file f has not got past PutEmail, or was put back.
Ahead(f) ==
    \/ Unread(f) \/ f \in consumer.held \/ f \in connection["success"]
    \/ f \in connection["matched"] \ sent

Done(a) == {f \in Files : f.alert = a /\ ~Ahead(f)}
Mails(a) == {i \in 1 .. Len(mails) : mails[i].alert = a}

InOnePlace ==
    /\ consumer.held \cap connection["success"] = {}
    /\ consumer.held \cap connection["matched"] = {}
    /\ connection["success"] \cap connection["matched"] = {}
    /\ \A f, g \in sent : f = g

QueuedAreRead ==
    \A f \in consumer.held \cup connection["success"] \cup connection["matched"] : ~Unread(f)

PlaceInv == InOnePlace /\ QueuedAreRead

MailsCounted == \A a \in 1 .. Len(alerts) : Cardinality(Mails(a)) <= Cardinality(Done(a)) + faults

\* The steps of the flow, as far as the places of flow files are concerned.
LEMMA Places ==
    ASSUME IInv, PlaceInv, [Next]_vars
    PROVE  /\ PlaceInv'
           /\ \A f \in Files : Ahead(f)' => Ahead(f) \/ (Crash /\ f \in sent)
  <1>t. /\ DOMAIN connection = {"success", "matched"} /\ sent \subseteq connection["matched"]
        /\ consumer.position \in Nat /\ faults \in Nat /\ Len(alerts) \in Nat
        /\ consumer.held \subseteq Files
        /\ connection["success"] \subseteq Files /\ connection["matched"] \subseteq Files
        /\ \A f \in Files : f.alert \in Nat /\ f.after \in Nat /\ f.after <= faults
    BY DEF IInv, TypeOK, Files
  <1>p. InOnePlace /\ QueuedAreRead
    BY DEF PlaceInv
  <1> DEFINE Goal == /\ PlaceInv'
                     /\ \A f \in Files : Ahead(f)' => Ahead(f) \/ (Crash /\ f \in sent)
  <1>1. CASE UNCHANGED <<consumer, connection, sent, faults>>
    BY <1>1, <1>p DEF PlaceInv, InOnePlace, QueuedAreRead, Unread, Ahead
  <1>2. CASE Join
    <2>1. /\ consumer.phase = "closed" /\ consumer'.held = {}
          /\ UNCHANGED <<connection, sent, faults>>
      BY <1>2 DEF Join
    <2> QED BY <1>p, <2>1 DEF PlaceInv, InOnePlace, QueuedAreRead, Unread, Ahead
  <1>3. CASE Poll
    <2>1. PICK n \in consumer.position + 1 .. Len(alerts) :
             consumer' = [phase |-> "polling", position |-> n,
                          held |-> consumer.held
                                     \cup [alert : consumer.position + 1 .. n, after : {faults}]]
      BY <1>3 DEF Poll
    <2> DEFINE new == [alert : consumer.position + 1 .. n, after : {faults}]
    <2>2. UNCHANGED <<connection, sent, faults>> /\ consumer.phase = "polling"
      BY <1>3 DEF Poll
    <2>3. n \in Nat /\ consumer.position < n
      BY <1>t
    <2>4. \A f \in new : f.after = faults /\ consumer.position < f.alert /\ f.alert <= n
                         /\ f.alert \in Nat
      BY <1>t
    <2>5. \A f \in new : Unread(f)
      BY <2>4 DEF Unread
    <2>6. consumer'.held = consumer.held \cup new /\ consumer'.position = n
          /\ consumer'.phase = "polling"
      BY <2>1
    <2> HIDE DEF new
    <2>7. InOnePlace'
      BY <1>p, <2>2, <2>5, <2>6 DEF InOnePlace, QueuedAreRead
    <2>8. QueuedAreRead'
      <3>1. \A f \in new : ~Unread(f)'
        BY <2>3, <2>4, <2>6 DEF Unread
      <3>2. \A f \in Files : ~Unread(f) => ~Unread(f)'
        BY <1>t, <2>2, <2>3, <2>6 DEF Unread
      <3> QED BY <1>t, <1>p, <2>2, <2>6, <3>1, <3>2 DEF QueuedAreRead
    <2>9. \A f \in Files : Ahead(f)' => Ahead(f)
      BY <1>t, <2>2, <2>3, <2>5, <2>6 DEF Ahead, Unread
    <2> QED BY <2>7, <2>8, <2>9 DEF PlaceInv
  <1>4. CASE Store
    <2>1. /\ connection'["success"] = connection["success"] \cup consumer.held
          /\ connection'["matched"] = connection["matched"]
          /\ consumer' = [phase |-> "stored", position |-> consumer.position, held |-> {}]
          /\ UNCHANGED <<sent, faults>> /\ consumer.phase = "polling"
      BY <1>t, <1>4 DEF Store
    <2>2. \A f : Unread(f)' => Unread(f)
      BY <2>1 DEF Unread
    <2> QED BY <1>p, <2>1, <2>2 DEF PlaceInv, InOnePlace, QueuedAreRead, Ahead
  <1>5. CASE CommitOffset
    <2>1. /\ consumer' = [phase |-> "polling", position |-> consumer.position, held |-> {}]
          /\ UNCHANGED <<connection, sent, faults>> /\ consumer.phase = "stored"
      BY <1>5 DEF CommitOffset
    <2>2. \A f : Unread(f)' => Unread(f)
      BY <2>1 DEF Unread
    <2> QED BY <1>p, <2>1, <2>2 DEF PlaceInv, InOnePlace, QueuedAreRead, Ahead
  \* A new lease starts: what there is was read by an earlier one.
  <1>6. CASE CommitFails \/ Crash
    <2>1. /\ faults' = faults + 1 /\ connection' = connection /\ consumer'.held = {}
          /\ sent' \in {sent, {}} /\ (sent' = sent \/ Crash)
      BY <1>6 DEF CommitFails, Crash, Closed
    <2>2. \A f \in Files : ~Unread(f)'
      BY <1>t, <2>1 DEF Unread
    <2> QED BY <1>t, <1>p, <2>1, <2>2 DEF PlaceInv, InOnePlace, QueuedAreRead, Ahead
  <1>7. ASSUME NEW f \in connection["success"], Evaluate(f) PROVE Goal
    <2>1. /\ connection'["success"] = connection["success"] \ {f}
          /\ connection'["matched"] = connection["matched"] \cup {f}
          /\ UNCHANGED <<consumer, sent, faults>>
      BY <1>t, <1>7 DEF Evaluate
    <2> QED BY <1>p, <2>1 DEF PlaceInv, InOnePlace, QueuedAreRead, Unread, Ahead
  <1>8. ASSUME NEW f \in connection["matched"], Mail(f) PROVE Goal
    <2>1. UNCHANGED <<consumer, connection, faults>> /\ sent = {} /\ sent' = {f}
      BY <1>8 DEF Mail
    <2> QED BY <1>p, <2>1 DEF PlaceInv, InOnePlace, QueuedAreRead, Unread, Ahead
  <1>9. ASSUME NEW f \in connection["matched"], MailDone(f) \/ NoAddress(f) \/ MailFails(f)
        PROVE  Goal
    <2>1. /\ connection'["success"] = connection["success"]
          /\ connection'["matched"] = connection["matched"] \ {f}
          /\ UNCHANGED <<consumer, faults>> /\ sent' = {} /\ sent \subseteq {f}
      BY <1>t, <1>p, <1>9 DEF MailDone, NoAddress, MailFails, Remove, InOnePlace
    <2> QED BY <1>p, <2>1 DEF PlaceInv, InOnePlace, QueuedAreRead, Unread, Ahead
  <1>10. CASE Alert \/ UNCHANGED vars
    BY <1>1, <1>10 DEF Alert, vars
  <1> QED BY <1>2, <1>3, <1>4, <1>5, <1>6, <1>7, <1>8, <1>9, <1>10
          DEF Next, Consume, Work, Fault

\* An alert has as many flow files as there have been leases, so far.
LEMMA FilesOfAlert ==
    ASSUME NEW a, NEW k \in Nat, NEW S, S \subseteq [alert : {a}, after : 0 .. k]
    PROVE  IsFiniteSet(S) /\ Cardinality(S) \in Nat /\ Cardinality(S) <= k + 1
  <1> DEFINE all == [alert : {a}, after : 0 .. k]
             file == [n \in 0 .. k |-> [alert |-> a, after |-> n]]
  <1>1. IsFiniteSet(0 .. k) /\ Cardinality(0 .. k) = k + 1
    BY FS_Interval
  <1>2. file \in [0 .. k -> all] /\ \A n \in 0 .. k : file[n].after = n
    OBVIOUS
  <1>3. \A f \in all : f.after \in 0 .. k /\ file[f.after] = f
    OBVIOUS
  <1>4. S \subseteq all
    OBVIOUS
  <1> HIDE DEF all, file
  <1>5. file \in Bijection(0 .. k, all)
    BY <1>2, <1>3 DEF Bijection, Injection, Surjection, IsInjective
  <1>6. ExistsBijection(0 .. k, all)
    BY <1>5 DEF ExistsBijection
  <1>7. IsFiniteSet(all) /\ Cardinality(all) = k + 1
    BY <1>1, <1>6, FS_Bijection
  <1> QED BY <1>4, <1>7, FS_Subset, FS_CardinalityType

LEMMA DoneFinite ==
    ASSUME TypeOK, NEW a
    PROVE  /\ IsFiniteSet(Done(a)) /\ Cardinality(Done(a)) \in Nat
           /\ Cardinality(Done(a)) <= faults + 1
  <1>1. faults \in Nat
    BY DEF TypeOK
  <1>2. Done(a) \subseteq [alert : {a}, after : 0 .. faults]
    BY DEF Done, Files
  <1> QED BY <1>1, <1>2, FilesOfAlert

LEMMA MailsFinite ==
    ASSUME TypeOK, NEW a
    PROVE  IsFiniteSet(Mails(a)) /\ Cardinality(Mails(a)) \in Nat
  <1>1. Len(mails) \in Nat
    BY DEF TypeOK
  <1>2. IsFiniteSet(1 .. Len(mails))
    BY <1>1, FS_Interval
  <1>3. IsFiniteSet(Mails(a))
    BY <1>2, FS_Subset DEF Mails
  <1> QED BY <1>3, FS_CardinalityType

LEMMA MailsStep == IInv /\ IInv' /\ PlaceInv /\ MailsCounted /\ [Next]_vars => MailsCounted'
  <1> SUFFICES ASSUME IInv, IInv', PlaceInv, MailsCounted, [Next]_vars,
                      NEW a \in 1 .. Len(alerts')
               PROVE  Cardinality(Mails(a)') <= Cardinality(Done(a)') + faults'
    BY DEF MailsCounted
  <1>t. /\ TypeOK /\ TypeOK' /\ faults \in Nat /\ faults' \in Nat
        /\ mails \in Seq(Files) /\ Len(mails) \in Nat /\ Len(alerts) \in Nat
    BY DEF IInv, TypeOK
  <1>f. Files \subseteq Files'
    BY <1>t, FilesGrow
  <1>s. \A S, T : IsFiniteSet(T) /\ S \subseteq T => Cardinality(S) <= Cardinality(T)
    BY FS_Subset
  <1>n. /\ IsFiniteSet(Done(a)) /\ Cardinality(Done(a)) \in Nat
        /\ IsFiniteSet(Mails(a)) /\ Cardinality(Mails(a)) \in Nat
    BY <1>t, DoneFinite, MailsFinite
  <1>m. IsFiniteSet(Done(a)') /\ Cardinality(Done(a)') \in Nat
    <2>1. Done(a)' \subseteq [alert : {a}, after : 0 .. faults']
      BY DEF Done, Files
    <2> QED BY <1>t, <2>1, FilesOfAlert
  <1>c. Cardinality(Mails(a)) <= Cardinality(Done(a)) + faults
    <2>1. CASE a \in 1 .. Len(alerts)
      BY <2>1 DEF MailsCounted
    <2>2. CASE a \notin 1 .. Len(alerts)
      <3>1. \A i \in 1 .. Len(mails) : mails[i] \in Files
        BY <1>t
      <3>2. Mails(a) = {}
        BY <2>2, <3>1 DEF Mails, Files
      <3> QED BY <1>t, <1>n, <3>2, FS_EmptySet
    <2> QED BY <2>1, <2>2
  <1>1. CASE ~Crash /\ mails' = mails /\ faults' >= faults
    <2>1. Done(a) \subseteq Done(a)'
      BY <1>1, <1>f, Places DEF Done
    <2>2. Cardinality(Done(a)) <= Cardinality(Done(a)')
      BY <1>s, <1>m, <2>1
    <2>3. Mails(a)' = Mails(a)
      BY <1>1 DEF Mails
    <2> QED BY <1>1, <1>t, <1>n, <1>m, <1>c, <2>2, <2>3
  <1>2. ASSUME NEW f \in Files, Ahead(f), ~Ahead(f)', ~Crash, faults' = faults,
               mails' = Append(mails, f)
        PROVE  Cardinality(Mails(a)') <= Cardinality(Done(a)') + faults'
    <2> DEFINE i == Len(mails) + 1
    <2>1. Done(a) \subseteq Done(a)'
      BY <1>2, <1>f, Places DEF Done
    <2>2. 1 .. Len(mails') = 1 .. Len(mails) \cup {i} /\ mails'[i] = f
          /\ \A j \in 1 .. Len(mails) : mails'[j] = mails[j]
      BY <1>2, <1>t
    <2>3. CASE f.alert # a
      <3>1. Mails(a)' = Mails(a)
        BY <2>2, <2>3 DEF Mails
      <3>2. Cardinality(Done(a)) <= Cardinality(Done(a)')
        BY <1>s, <1>m, <2>1
      <3> QED BY <1>2, <1>t, <1>n, <1>m, <1>c, <3>1, <3>2
    <2>4. CASE f.alert = a
      <3>1. Mails(a)' = Mails(a) \cup {i} /\ i \notin Mails(a)
        BY <1>t, <2>2, <2>4 DEF Mails
      <3>2. Cardinality(Mails(a)') = Cardinality(Mails(a)) + 1
        BY <1>n, <3>1, FS_AddElement
      <3>3. Done(a) \cup {f} \subseteq Done(a)' /\ f \notin Done(a)
        BY <1>2, <1>f, <2>1, <2>4 DEF Done
      <3>4. Cardinality(Done(a) \cup {f}) = Cardinality(Done(a)) + 1
        BY <1>n, <3>3, FS_AddElement
      <3>5. Cardinality(Done(a)) + 1 <= Cardinality(Done(a)')
        BY <1>s, <1>m, <3>3, <3>4
      <3> QED BY <1>2, <1>t, <1>n, <1>m, <1>c, <3>2, <3>5
    <2> QED BY <2>3, <2>4
  <1>3. CASE Crash
    <2>1. mails' = mails /\ faults' = faults + 1
      BY <1>3 DEF Crash
    <2>2. PICK f : sent \subseteq {f}
      BY DEF PlaceInv, InOnePlace
    <2>3. Done(a) \ {f} \subseteq Done(a)'
      <3>1. \A g \in Files : Ahead(g)' => Ahead(g) \/ g \in sent
        BY Places
      <3> QED BY <1>f, <2>2, <3>1 DEF Done
    <2>4. IsFiniteSet(Done(a) \ {f}) /\ Cardinality(Done(a) \ {f}) \in Nat
          /\ Cardinality(Done(a)) <= Cardinality(Done(a) \ {f}) + 1
      <3>1. IsFiniteSet(Done(a) \ {f})
        BY <1>n, FS_RemoveElement
      <3>2. Cardinality(Done(a) \ {f}) \in {Cardinality(Done(a)), Cardinality(Done(a)) - 1}
        BY <1>n, FS_RemoveElement
      <3>3. Cardinality(Done(a) \ {f}) \in Nat
        BY <3>1, FS_CardinalityType
      <3> QED BY <1>n, <3>1, <3>2, <3>3
    <2>5. Cardinality(Done(a) \ {f}) <= Cardinality(Done(a)')
      BY <1>s, <1>m, <2>3
    <2>6. Mails(a)' = Mails(a)
      BY <2>1 DEF Mails
    <2> QED BY <1>t, <1>n, <1>m, <1>c, <2>1, <2>4, <2>5, <2>6
  <1>4. ASSUME NEW f \in connection["matched"], Mail(f) \/ MailFails(f), ~Crash
        PROVE  Cardinality(Mails(a)') <= Cardinality(Done(a)') + faults'
    <2>1. sent = {} /\ UNCHANGED <<consumer, faults>> /\ mails' \in {mails, Append(mails, f)}
          /\ connection'["success"] = connection["success"]
          /\ (sent' = {f} \/ f \notin connection'["matched"])
      BY <1>4, <1>t DEF Mail, MailFails, Remove, TypeOK
    <2>2. f \in Files /\ Ahead(f)
      BY <1>t, <2>1 DEF TypeOK, Ahead
    <2>3. ~Ahead(f)'
      BY <2>1 DEF PlaceInv, InOnePlace, QueuedAreRead, Unread, Ahead
    <2> QED BY <1>1, <1>2, <1>4, <1>t, <2>1, <2>2, <2>3
  <1>5. CASE Alert \/ Consume \/ CommitFails \/ UNCHANGED vars
             \/ (\E f \in connection["success"] : Evaluate(f))
             \/ (\E f \in connection["matched"] : MailDone(f) \/ NoAddress(f))
    <2>1. mails' = mails /\ faults' >= faults
      BY <1>5, <1>t DEF Alert, Consume, Join, Poll, Store, CommitOffset, CommitFails, Evaluate,
                        MailDone, NoAddress, vars
    <2> QED BY <1>1, <1>3, <2>1
  <1> QED BY <1>3, <1>4, <1>5 DEF Next, Work, Fault

\* A fault repeats at most two mails of an alert, for any number of alerts and
\* faults (PutEmail and the consumer's lease).
THEOREM MailedAtMost == Spec => []MailedOnce
  <1> DEFINE Inv == IInv /\ PlaceInv /\ MailsCounted
  <1>1. Init => Inv
    <2> SUFFICES ASSUME Init PROVE PlaceInv /\ MailsCounted
      BY InvInit, BoundsAssumption
    <2> QED BY DEF Init, Closed, PlaceInv, InOnePlace, QueuedAreRead, MailsCounted
  <1>2. Inv /\ [Next]_vars => Inv'
    <2>1. IInv /\ [Next]_vars => IInv'
      BY TypeStep, AccountingStep, BoundsAssumption DEF IInv
    <2> QED BY <2>1, Places, MailsStep
  <1>3. Inv => MailedOnce
    <2> SUFFICES ASSUME Inv, NEW a \in 1 .. Len(alerts)
                 PROVE  Cardinality(Mails(a)) <= 1 + 2 * faults
      BY DEF MailedOnce, Mails
    <2>1. TypeOK /\ faults \in Nat
      BY DEF IInv, TypeOK
    <2>2. Cardinality(Mails(a)) \in Nat /\ Cardinality(Done(a)) \in Nat
          /\ Cardinality(Done(a)) <= faults + 1
          /\ Cardinality(Mails(a)) <= Cardinality(Done(a)) + faults
      BY <2>1, MailsFinite, DoneFinite DEF MailsCounted
    <2> QED BY <2>1, <2>2
  <1> QED BY <1>1, <1>2, <1>3, PTL DEF Spec

=============================================================================
