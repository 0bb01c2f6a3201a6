---------------------------- MODULE MCAlertMail ------------------------------
(***************************************************************************)
(* The alert flow, and the start of NiFi that puts it there, one at a time:    *)
(* `part` names what a behaviour is about.  While NiFi starts, the alert flow   *)
(* has joined its group and has nothing to do.                                 *)
(***************************************************************************)
EXTENDS AlertMail

VARIABLES part, nifi, groups, saved, pc, root, n, ids, todo, stops
startVars == <<nifi, groups, saved, pc, root, n, ids, todo, stops>>
allVars == <<part, vars, startVars>>

(* Two services and two processors of each flow; the alert flow has no service.  *)
Start == INSTANCE ImportFlow WITH
    Services <- [combineUsersAndTransactions |-> {"pool", "users"}, sendEmailAboutFraud |-> {}],
    Processors <- [combineUsersAndTransactions |-> {"lookup", "put"}, sendEmailAboutFraud |-> {"consume", "mail"}],
    Needs <- [p \in {"lookup", "put", "consume", "mail"} |-> IF p = "lookup" THEN {"pool", "users"} ELSE {}],
    MaxStops <- 2
ASSUME StartAssumption == Start!ImportFlowAssumption

NoStart == /\ nifi = "none" /\ groups = <<>> /\ saved = <<>> /\ pc = "none" /\ root = FALSE
           /\ n = 0 /\ ids = Start!NoIds /\ todo = {} /\ stops = 0
Idle == /\ alerts = <<>> /\ group = [committed |-> FALSE, offset |-> 0]
        /\ consumer = [phase |-> "polling", position |-> 0, held |-> {}]
        /\ connection = [q \in {"success", "matched"} |-> {}]
        /\ sent = {} /\ mails = <<>> /\ dropped = {} /\ start = 0 /\ faults = 0

InitOne == \/ part = "mail" /\ Init /\ NoStart
           \/ part = "start" /\ Start!Init /\ Idle
OnlyMail == part = "mail" /\ UNCHANGED <<part, startVars>>
OnlyStart == part = "start" /\ UNCHANGED <<part, vars>>
NextOne == \/ OnlyMail /\ Next
           \/ OnlyStart /\ Start!Next
SpecOne == /\ InitOne /\ [][NextOne]_allVars
           /\ WF_allVars(OnlyMail /\ Consume) /\ WF_allVars(OnlyMail /\ Work)

-----------------------------------------------------------------------------
(* Whenever the container stops and is started again, each flow runs in one      *)
(* group at most, and a first start that found NiFi up starts all of both.      *)
FlowsStarted == part = "start" => Start!StartedOnce /\ Start!StartedAll
=============================================================================
