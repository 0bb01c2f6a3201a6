----------------------------- MODULE ImportFlow ------------------------------
(***************************************************************************)
(* The start of the NiFi container: setup.sh starts NiFi, waits for a fixed    *)
(* time and runs import-flow.sh once, which uploads both flows, enables the    *)
(* services and starts the processors, each by a request that nobody looks at   *)
(* the answer of.  The container may stop at any point and be started again;   *)
(* NiFi then goes on with the flow it saved last (autoResumeState).            *)
(***************************************************************************)
EXTENDS Integers, Sequences, FiniteSets

CONSTANTS Services,     \* Services[f], Processors[f]: what flow f is made of
          Processors,
          Needs,        \* the services a processor needs
          MaxStops      \* bound: how often the container is stopped

Flows == <<"combineUsersAndTransactions", "sendEmailAboutFraud">>
Names == {Flows[i] : i \in DOMAIN Flows}
ImportFlowAssumption == MaxStops \in Nat /\ DOMAIN Services = Names /\ DOMAIN Processors = Names
                        /\ \A f \in Names : \A p \in Processors[f] : Needs[p] \subseteq Services[f]

VARIABLES nifi,         \* "down", "starting" or "up", when it answers
          groups,       \* the process groups: the flow of each, the services enabled
                        \* and the processors running in it
          saved,        \* the groups as NiFi has them on disk
          pc,           \* the place in the scripts
          root,         \* whether process_group_id was found
          n,            \* how many flows this step of the script has dealt with
          ids,          \* ETL_PROCESS_GROUP_ID and ALERT_PROCESS_GROUP_ID: the groups of that name
          todo,         \* what the loop has still to go through
          stops         \* how often the container was stopped
vars == <<nifi, groups, saved, pc, root, n, ids, todo, stops>>

Group(flow) == [flow |-> flow, enabled |-> {}, running |-> {}]
NoIds == [f \in Names |-> {}]

Init == /\ nifi = "down" /\ groups = <<>> /\ saved = <<>> /\ pc = "off" /\ root = FALSE
        /\ n = 0 /\ ids = NoIds /\ todo = {} /\ stops = 0

-----------------------------------------------------------------------------
Answers == nifi = "up"

(* setup.sh: nifi.sh start, and the countdown, whether NiFi is up by then or not. *)
Setup == /\ pc = "off"
         /\ nifi' = "starting" /\ pc' = "wait" /\ root' = FALSE /\ n' = 0 /\ ids' = NoIds /\ todo' = {}
         /\ UNCHANGED <<groups, saved, stops>>
ComeUp == /\ nifi = "starting" /\ nifi' = "up"
          /\ UNCHANGED <<groups, saved, pc, root, n, ids, todo, stops>>

(* import-flow.sh begins: the id of the root group, or nothing.                 *)
GetRoot == /\ pc = "wait" /\ pc' = "upload"
           /\ root' = Answers
           /\ UNCHANGED <<nifi, groups, saved, n, ids, todo, stops>>

(* A step of the script that deals with one flow after the other.               *)
Flow == Flows[n + 1]
ForEachFlow(step, next) == /\ pc = step
                           /\ n' = (n + 1) % Len(Flows)
                           /\ pc' = IF n' = 0 THEN next ELSE step

(* A flow is uploaded whether or not there is a group of its name already.      *)
Upload ==
    /\ ForEachFlow("upload", "services")
    /\ groups' = IF Answers /\ root THEN Append(groups, Group(Flow)) ELSE groups
    /\ UNCHANGED <<nifi, saved, root, ids, todo, stops>>

Parts(g, kind) == {<<g, c>> : c \in kind[groups[g].flow]}
(* The services of all groups.                                                *)
ListServices ==
    /\ pc = "services" /\ pc' = "enable"
    /\ todo' = IF Answers THEN UNION {Parts(g, Services) : g \in DOMAIN groups} ELSE {}
    /\ UNCHANGED <<nifi, groups, saved, root, n, ids, stops>>
(* NiFi enables a service that needs another one as soon as that is enabled, so   *)
(* their order is of no account; a second request is refused.                  *)
Enable(part) ==
    /\ pc = "enable" /\ part \in todo
    /\ todo' = todo \ {part}
    /\ groups' = IF Answers THEN [groups EXCEPT ![part[1]].enabled = @ \cup {part[2]}] ELSE groups
    /\ UNCHANGED <<nifi, saved, pc, root, n, ids, stops>>

(* Mutant of GroupsNamed: the group uploaded last.                             *)
LastNamed(flow) == LET named == {g \in DOMAIN groups : groups[g].flow = flow}
                   IN {g \in named : \A h \in named : h <= g}
GroupsNamed(flow) == {g \in DOMAIN groups : groups[g].flow = flow}
Enabled == /\ pc = "enable" /\ todo = {} /\ pc' = "find"
           /\ UNCHANGED <<nifi, groups, saved, root, n, ids, todo, stops>>
FindGroup ==
    /\ ForEachFlow("find", "list")
    /\ ids' = [ids EXCEPT ![Flow] = IF Answers THEN GroupsNamed(Flow) ELSE {}]
    /\ UNCHANGED <<nifi, groups, saved, root, todo, stops>>

(* The processors of the group: the address has its id, so none is found when    *)
(* there is no id, or more than one.                                           *)
ListProcessors ==
    /\ ForEachFlow("list", "run")
    /\ todo' = todo \cup IF Answers /\ Cardinality(ids[Flow]) = 1 THEN UNION {Parts(g, Processors) : g \in ids[Flow]} ELSE {}
    /\ UNCHANGED <<nifi, groups, saved, root, ids, stops>>
(* A processor is started unless it is not valid, as a service it needs is not   *)
(* enabled.                                                                   *)
Run(part) ==
    /\ pc = "run" /\ part \in todo
    /\ todo' = todo \ {part}
    /\ groups' = IF Answers /\ Needs[part[2]] \subseteq groups[part[1]].enabled
                 THEN [groups EXCEPT ![part[1]].running = @ \cup {part[2]}] ELSE groups
    /\ UNCHANGED <<nifi, saved, pc, root, n, ids, stops>>
(* "All processors have been started."                                        *)
Finish == /\ pc = "run" /\ todo = {} /\ pc' = "tail"
          /\ UNCHANGED <<nifi, groups, saved, root, n, ids, todo, stops>>

-----------------------------------------------------------------------------
(* NiFi writes its flow some time after each change; the container stops.       *)
Save == /\ Answers /\ saved # groups /\ saved' = groups
        /\ UNCHANGED <<nifi, groups, pc, root, n, ids, todo, stops>>
Stop == /\ pc # "off" /\ stops < MaxStops
        /\ pc' = "off" /\ nifi' = "down" /\ groups' = saved /\ stops' = stops + 1
        /\ UNCHANGED <<saved, root, n, ids, todo>>

Script == \/ Setup \/ GetRoot \/ Upload \/ ListServices \/ Enabled \/ FindGroup \/ ListProcessors \/ Finish
          \/ \E part \in todo : Enable(part) \/ Run(part)
Next == Script \/ ComeUp \/ Save \/ Stop
Spec == Init /\ [][Next]_vars

-----------------------------------------------------------------------------
(* However often the container is started, each flow runs once: in two groups it  *)
(* would read every transaction and mail every alert twice.  import-flow.sh        *)
(* uploads the flows again, and looks for what to start by their names.        *)
StartedOnce ==
    \A g, h \in DOMAIN groups :
        groups[g].flow = groups[h].flow /\ groups[g].running # {} /\ groups[h].running # {} => g = h

(* "All processors have been started": at the end of a first start that found      *)
(* NiFi up, services before processors and none of them left out.              *)
StartedAll ==
    pc = "tail" /\ stops = 0 /\ root =>
        \A f \in Names : \E g \in DOMAIN groups : groups[g].flow = f /\ groups[g].running = Processors[f]
=============================================================================
