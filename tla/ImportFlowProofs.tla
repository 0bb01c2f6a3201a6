-------------------------- MODULE ImportFlowProofs --------------------------
(***************************************************************************)
(* Proofs about ImportFlow, for all services and processors the flows may  *)
(* have and however often the container is stopped.                        *)
(***************************************************************************)
EXTENDS ImportFlow, FiniteSetTheorems, TLAPS

Components == UNION {Services[f] \cup Processors[f] : f \in Names}
ProcessGroups == [flow : Names, enabled : SUBSET Components, running : SUBSET Components]

TypeInv ==
    /\ groups \in Seq(ProcessGroups) /\ saved \in Seq(ProcessGroups)
    /\ n \in {0, 1} /\ root \in BOOLEAN
    /\ ids \in [Names -> SUBSET Nat]
    /\ todo \in SUBSET (Nat \X Components)

\* The script looks at groups that are there.
TodoKnown == pc # "off" => \A part \in todo : part[1] \in DOMAIN groups

OnceIn(gs) ==
    \A g, h \in DOMAIN gs :
        gs[g].flow = gs[h].flow /\ gs[g].running # {} /\ gs[h].running # {} => g = h

\* Group g is the only one of its flow.
Only(g) == \A h \in DOMAIN groups : groups[h].flow = groups[g].flow => h = g

\* The ids looked up: all the groups of that name, or nothing.
LookedUp(f) == ids[f] \in {{}, GroupsNamed(f)}

ScriptInv ==
    /\ pc \in {"services", "enable"} => n = 0
    /\ pc = "find" => todo = {} /\ (n = 1 => LookedUp(Flows[1]))
    /\ pc = "list" => \A f \in Names : LookedUp(f)
    /\ pc \in {"list", "run"} => \A part \in todo : Only(part[1])

IInv == TypeInv /\ TodoKnown /\ OnceIn(groups) /\ OnceIn(saved) /\ ScriptInv

-----------------------------------------------------------------------------
LEMMA TwoFlows == /\ DOMAIN Flows = {1, 2} /\ Len(Flows) = 2
                  /\ Names = {Flows[1], Flows[2]} /\ Flows[1] # Flows[2]
  <1>1. DOMAIN Flows = {1, 2} /\ Len(Flows) = 2
    BY DEF Flows
  <1>2. Flows[1] # Flows[2]
    BY DEF Flows
  <1> QED BY <1>1, <1>2 DEF Names

\* Where a step that goes through the flows leads.
LEMMA EachFlow ==
    ASSUME n \in {0, 1}, NEW step, NEW next, ForEachFlow(step, next)
    PROVE  /\ pc = step
           /\ n = 0 => n' = 1 /\ pc' = step
           /\ n = 1 => n' = 0 /\ pc' = next
           /\ Flow \in Names /\ Flow = Flows[n + 1] /\ n' \in {0, 1}
  BY TwoFlows DEF ForEachFlow, Flow

\* A step in one group: its flow and the other groups stay as they are.
LEMMA GroupChanged ==
    ASSUME groups \in Seq(ProcessGroups), NEW g \in DOMAIN groups,
           NEW r \in ProcessGroups, r.flow = groups[g].flow,
           groups' = [groups EXCEPT ![g] = r]
    PROVE  /\ groups' \in Seq(ProcessGroups)
           /\ DOMAIN groups' = DOMAIN groups
           /\ groups'[g] = r
           /\ \A h \in DOMAIN groups : groups'[h].flow = groups[h].flow
           /\ \A h \in DOMAIN groups : h # g => groups'[h] = groups[h]
  OBVIOUS

LEMMA EnableChanges ==
    ASSUME TypeInv, TodoKnown, NEW part \in todo, Enable(part), groups' # groups
    PROVE  /\ part[1] \in DOMAIN groups /\ part[2] \in Components
           /\ groups' = [groups EXCEPT ![part[1]] =
                  [flow |-> groups[part[1]].flow, running |-> groups[part[1]].running,
                   enabled |-> groups[part[1]].enabled \cup {part[2]}]]
  <1>1. part[1] \in DOMAIN groups /\ part[2] \in Components
    BY DEF TypeInv, TodoKnown, Enable
  <1>2. groups[part[1]] \in ProcessGroups
    BY <1>1 DEF TypeInv
  <1>3. groups' = [groups EXCEPT ![part[1]].enabled = @ \cup {part[2]}]
    BY DEF Enable
  <1>4. [groups[part[1]] EXCEPT !.enabled = @ \cup {part[2]}] =
            [flow |-> groups[part[1]].flow, running |-> groups[part[1]].running,
             enabled |-> groups[part[1]].enabled \cup {part[2]}]
    BY <1>2 DEF ProcessGroups
  <1> QED BY <1>1, <1>3, <1>4

LEMMA RunChanges ==
    ASSUME TypeInv, TodoKnown, NEW part \in todo, Run(part), groups' # groups
    PROVE  /\ part[1] \in DOMAIN groups /\ part[2] \in Components
           /\ groups' = [groups EXCEPT ![part[1]] =
                  [flow |-> groups[part[1]].flow, enabled |-> groups[part[1]].enabled,
                   running |-> groups[part[1]].running \cup {part[2]}]]
  <1>1. part[1] \in DOMAIN groups /\ part[2] \in Components
    BY DEF TypeInv, TodoKnown, Run
  <1>2. groups[part[1]] \in ProcessGroups
    BY <1>1 DEF TypeInv
  <1>3. groups' = [groups EXCEPT ![part[1]].running = @ \cup {part[2]}]
    BY DEF Run
  <1>4. [groups[part[1]] EXCEPT !.running = @ \cup {part[2]}] =
            [flow |-> groups[part[1]].flow, enabled |-> groups[part[1]].enabled,
             running |-> groups[part[1]].running \cup {part[2]}]
    BY <1>2 DEF ProcessGroups
  <1> QED BY <1>1, <1>3, <1>4

-----------------------------------------------------------------------------
LEMMA InvInit == Init => IInv
  <1> SUFFICES ASSUME Init PROVE IInv
    OBVIOUS
  <1>1. groups = <<>> /\ saved = <<>> /\ DOMAIN groups = {} /\ DOMAIN saved = {}
    BY DEF Init
  <1>2. ids \in [Names -> SUBSET Nat]
    BY DEF Init, NoIds
  <1>3. <<>> \in Seq(ProcessGroups)
    OBVIOUS
  <1>4. n = 0 /\ root = FALSE /\ todo = {}
    BY DEF Init
  <1>5. TypeInv
    BY <1>1, <1>2, <1>3, <1>4 DEF TypeInv
  <1> QED BY <1>1, <1>5 DEF Init, IInv, TodoKnown, OnceIn, ScriptInv

LEMMA InvStep == ImportFlowAssumption /\ IInv /\ [Next]_vars => IInv'
  <1> SUFFICES ASSUME ImportFlowAssumption, IInv, [Next]_vars PROVE IInv'
    OBVIOUS
  <1>0. TypeInv /\ TodoKnown /\ OnceIn(groups) /\ OnceIn(saved) /\ ScriptInv
    BY DEF IInv
  <1>1. CASE Setup
    BY <1>0, <1>1 DEF Setup, IInv, TypeInv, TodoKnown, OnceIn, ScriptInv, NoIds
  <1>2. CASE ComeUp \/ UNCHANGED vars
    BY <1>0, <1>2 DEF ComeUp, vars, IInv, TypeInv, TodoKnown, OnceIn, ScriptInv, LookedUp, Only, GroupsNamed
  <1>3. CASE GetRoot
    BY <1>0, <1>3 DEF GetRoot, Answers, IInv, TypeInv, TodoKnown, OnceIn, ScriptInv
  <1>4. CASE Upload
    <2>1. /\ pc = "upload" /\ pc' \in {"upload", "services"} /\ (pc' = "services" => n' = 0)
          /\ Flow \in Names /\ n' \in {0, 1}
      BY <1>0, <1>4, EachFlow DEF Upload, TypeInv
    <2>2. UNCHANGED <<saved, root, ids, todo>> /\ groups' \in {groups, Append(groups, Group(Flow))}
      BY <1>4 DEF Upload
    <2>3. Group(Flow) \in ProcessGroups /\ Group(Flow).running = {}
      BY <2>1 DEF Group, ProcessGroups
    <2>4. groups \in Seq(ProcessGroups) /\ Len(groups) \in Nat
      BY <1>0 DEF TypeInv
    <2>5. groups' \in Seq(ProcessGroups) /\ DOMAIN groups \subseteq DOMAIN groups'
      BY <2>2, <2>3, <2>4
    <2>6. \A g \in DOMAIN groups' : /\ g \in DOMAIN groups => groups'[g] = groups[g]
                                    /\ g \notin DOMAIN groups => groups'[g].running = {}
      BY <2>2, <2>3, <2>4
    <2>7. OnceIn(groups)'
      BY <1>0, <2>6 DEF OnceIn
    <2>8. TypeInv' /\ TodoKnown' /\ OnceIn(saved)' /\ ScriptInv'
      BY <1>0, <2>1, <2>2, <2>5 DEF TypeInv, TodoKnown, OnceIn, ScriptInv
    <2> QED BY <2>7, <2>8 DEF IInv
  <1>5. CASE ListServices
    <2>1. /\ pc = "services" /\ pc' = "enable" /\ UNCHANGED <<saved, groups, root, n, ids>>
          /\ todo' \subseteq UNION {Parts(g, Services) : g \in DOMAIN groups}
      BY <1>5 DEF ListServices
    <2>2. ASSUME NEW part \in todo' PROVE part \in Nat \X Components /\ part[1] \in DOMAIN groups
      <3>1. PICK g \in DOMAIN groups : part \in Parts(g, Services)
        BY <2>1, <2>2
      <3>2. g \in Nat /\ groups[g].flow \in Names
        <4>1. groups \in Seq(ProcessGroups)
          BY <1>0 DEF TypeInv
        <4>2. groups[g] \in ProcessGroups /\ g \in Nat
          BY <3>1, <4>1
        <4> QED BY <4>2 DEF ProcessGroups
      <3>3. PICK c \in Services[groups[g].flow] : part = <<g, c>>
        BY <3>1 DEF Parts
      <3>4. c \in Components
        BY <3>2, <3>3 DEF Components
      <3> QED BY <3>1, <3>2, <3>3, <3>4
    <2>3. TypeInv' /\ TodoKnown'
      BY <1>0, <2>1, <2>2 DEF TypeInv, TodoKnown
    <2> QED BY <1>0, <2>1, <2>3 DEF IInv, OnceIn, ScriptInv
  <1>6. ASSUME NEW part \in todo, Enable(part) PROVE IInv'
    <2>1. /\ pc = "enable" /\ UNCHANGED <<saved, pc, root, n, ids>> /\ todo' \subseteq todo
      BY <1>6 DEF Enable
    <2>2. CASE groups' = groups
      BY <1>0, <2>1, <2>2 DEF IInv, TypeInv, TodoKnown, OnceIn, ScriptInv
    <2>3. CASE groups' # groups
      <3>1. /\ part[1] \in DOMAIN groups /\ part[2] \in Components
            /\ groups' = [groups EXCEPT ![part[1]] =
                  [flow |-> groups[part[1]].flow, running |-> groups[part[1]].running,
                   enabled |-> groups[part[1]].enabled \cup {part[2]}]]
        BY <1>0, <1>6, <2>3, EnableChanges
      <3>2. groups \in Seq(ProcessGroups) /\ groups[part[1]] \in ProcessGroups
        BY <1>0, <3>1 DEF TypeInv
      <3>3. [flow |-> groups[part[1]].flow, running |-> groups[part[1]].running,
             enabled |-> groups[part[1]].enabled \cup {part[2]}] \in ProcessGroups
        BY <3>1, <3>2 DEF ProcessGroups
      <3>4. /\ groups' \in Seq(ProcessGroups) /\ DOMAIN groups' = DOMAIN groups
            /\ groups'[part[1]].running = groups[part[1]].running
            /\ \A h \in DOMAIN groups : groups'[h].flow = groups[h].flow
            /\ \A h \in DOMAIN groups : h # part[1] => groups'[h] = groups[h]
        BY <3>1, <3>2, <3>3, GroupChanged
      <3>5. OnceIn(groups)'
        BY <1>0, <3>4 DEF OnceIn
      <3>6. TypeInv' /\ TodoKnown' /\ OnceIn(saved)' /\ ScriptInv'
        BY <1>0, <2>1, <3>4 DEF TypeInv, TodoKnown, OnceIn, ScriptInv
      <3> QED BY <3>5, <3>6 DEF IInv
    <2> QED BY <2>2, <2>3
  <1>7. CASE Enabled
    BY <1>0, <1>7 DEF Enabled, IInv, TypeInv, TodoKnown, OnceIn, ScriptInv
  <1>8. CASE FindGroup
    <2>1. /\ pc = "find" /\ n' \in {0, 1} /\ Flow = Flows[n + 1] /\ Flow \in Names
          /\ n = 0 => n' = 1 /\ pc' = "find"
          /\ n = 1 => n' = 0 /\ pc' = "list"
      BY <1>0, <1>8, EachFlow DEF FindGroup, TypeInv
    <2>2. /\ UNCHANGED <<groups, saved, root, todo>>
          /\ ids' = [ids EXCEPT ![Flow] = IF Answers THEN GroupsNamed(Flow) ELSE {}]
      BY <1>8 DEF FindGroup
    <2>3. \A f : GroupsNamed(f) \subseteq Nat /\ GroupsNamed(f)' = GroupsNamed(f)
      BY <1>0, <2>2 DEF GroupsNamed, TypeInv
    <2>4. ids' \in [Names -> SUBSET Nat]
      BY <1>0, <2>1, <2>2, <2>3 DEF TypeInv
    <2>5. ASSUME NEW f \in Names, f = Flow \/ LookedUp(f) PROVE LookedUp(f)'
      <3>1. GroupsNamed(f)' = GroupsNamed(f) /\ ids \in [Names -> SUBSET Nat]
        BY <1>0, <2>3 DEF TypeInv
      <3>2. CASE f = Flow
        BY <2>1, <2>2, <3>1, <3>2 DEF LookedUp
      <3>3. CASE f # Flow
        BY <2>1, <2>2, <2>5, <3>1, <3>3 DEF LookedUp
      <3> QED BY <3>2, <3>3
    <2>6. ScriptInv'
      <3>1. CASE n = 0
        <4>1. LookedUp(Flows[1])'
          BY <2>1, <2>5, <3>1, TwoFlows
        <4> QED BY <1>0, <2>1, <2>2, <3>1, <4>1 DEF ScriptInv
      <3>2. CASE n = 1
        <4>1. LookedUp(Flows[1]) /\ Flow = Flows[2]
          BY <1>0, <2>1, <3>2 DEF ScriptInv
        <4>2. \A f \in Names : LookedUp(f)'
          BY <2>5, <4>1, TwoFlows
        <4> QED BY <1>0, <2>1, <2>2, <3>2, <4>2 DEF ScriptInv
      <3> QED BY <1>0, <3>1, <3>2 DEF TypeInv
    <2> QED BY <1>0, <2>1, <2>2, <2>4, <2>6 DEF IInv, TypeInv, TodoKnown, OnceIn
  <1>9. CASE ListProcessors
    <2>1. /\ pc = "list" /\ n' \in {0, 1} /\ pc' \in {"list", "run"} /\ Flow \in Names
      BY <1>0, <1>9, EachFlow DEF ListProcessors, TypeInv
    <2>2. UNCHANGED <<groups, saved, root, ids>>
      BY <1>9 DEF ListProcessors
    <2>3. \A part \in todo : part[1] \in DOMAIN groups /\ part \in Nat \X Components /\ Only(part[1])
      BY <1>0, <2>1 DEF TypeInv, TodoKnown, ScriptInv
    <2>4. ASSUME NEW part \in todo' \ todo
          PROVE  part[1] \in DOMAIN groups /\ part \in Nat \X Components /\ Only(part[1])
      <3>1. Cardinality(ids[Flow]) = 1 /\ \E g \in ids[Flow] : part \in Parts(g, Processors)
        BY <1>9, <2>4 DEF ListProcessors
      <3>2. PICK g \in ids[Flow] : part \in Parts(g, Processors)
        BY <3>1
      <3>3. ids[Flow] = GroupsNamed(Flow)
        BY <1>0, <2>1, <3>2 DEF ScriptInv, LookedUp
      <3>4. ids[Flow] \subseteq 1 .. Len(groups) /\ Len(groups) \in Nat
        BY <1>0, <3>3 DEF GroupsNamed, TypeInv
      <3>5. IsFiniteSet(ids[Flow])
        <4>1. IsFiniteSet(1 .. Len(groups))
          BY <3>4, FS_Interval
        <4> QED BY <3>4, <4>1, FS_Subset
      <3>6. PICK x : ids[Flow] = {x}
        BY <3>1, <3>5, FS_Singleton
      <3>7. g \in DOMAIN groups /\ groups[g].flow = Flow /\ g \in Nat
        BY <1>0, <3>2, <3>3, <3>4 DEF GroupsNamed
      <3>8. Only(g)
        BY <3>2, <3>3, <3>6, <3>7 DEF Only, GroupsNamed
      <3>9. PICK c \in Processors[Flow] : part = <<g, c>>
        BY <3>2, <3>7 DEF Parts
      <3>10. c \in Components
        BY <2>1, <3>9 DEF Components
      <3> QED BY <3>7, <3>8, <3>9, <3>10
    <2>5. \A part \in todo' : part[1] \in DOMAIN groups /\ part \in Nat \X Components /\ Only(part[1])
      BY <2>3, <2>4
    <2>6. TypeInv' /\ TodoKnown'
      BY <1>0, <2>1, <2>2, <2>5 DEF TypeInv, TodoKnown
    <2>7. ScriptInv'
      BY <1>0, <2>1, <2>2, <2>5 DEF ScriptInv, LookedUp, GroupsNamed, Only
    <2> QED BY <1>0, <2>2, <2>6, <2>7 DEF IInv, OnceIn
  <1>10. ASSUME NEW part \in todo, Run(part) PROVE IInv'
    <2>1. pc = "run" /\ UNCHANGED <<saved, pc, root, n, ids>> /\ todo' \subseteq todo
      BY <1>10 DEF Run
    <2>2. CASE groups' = groups
      BY <1>0, <2>1, <2>2 DEF IInv, TypeInv, TodoKnown, OnceIn, ScriptInv, Only
    <2>3. CASE groups' # groups
      <3>1. /\ part[1] \in DOMAIN groups /\ part[2] \in Components
            /\ groups' = [groups EXCEPT ![part[1]] =
                  [flow |-> groups[part[1]].flow, enabled |-> groups[part[1]].enabled,
                   running |-> groups[part[1]].running \cup {part[2]}]]
        BY <1>0, <1>10, <2>3, RunChanges
      <3>2. groups \in Seq(ProcessGroups) /\ groups[part[1]] \in ProcessGroups
        BY <1>0, <3>1 DEF TypeInv
      <3>3. [flow |-> groups[part[1]].flow, enabled |-> groups[part[1]].enabled,
             running |-> groups[part[1]].running \cup {part[2]}] \in ProcessGroups
        BY <3>1, <3>2 DEF ProcessGroups
      <3>4. /\ groups' \in Seq(ProcessGroups) /\ DOMAIN groups' = DOMAIN groups
            /\ \A h \in DOMAIN groups : groups'[h].flow = groups[h].flow
            /\ \A h \in DOMAIN groups : h # part[1] => groups'[h] = groups[h]
        BY <3>1, <3>2, <3>3, GroupChanged
      <3>5. Only(part[1])
        BY <1>0, <2>1 DEF ScriptInv
      <3>6. OnceIn(groups)'
        BY <1>0, <3>1, <3>4, <3>5 DEF OnceIn, Only
      <3>7. \A g \in DOMAIN groups : Only(g) => Only(g)'
        BY <3>4 DEF Only
      <3>8. TypeInv' /\ TodoKnown' /\ OnceIn(saved)' /\ ScriptInv'
        BY <1>0, <2>1, <3>4, <3>7 DEF TypeInv, TodoKnown, OnceIn, ScriptInv
      <3> QED BY <3>6, <3>8 DEF IInv
    <2> QED BY <2>2, <2>3
  <1>11. CASE Finish
    BY <1>0, <1>11 DEF Finish, IInv, TypeInv, TodoKnown, OnceIn, ScriptInv
  <1>12. CASE Save
    BY <1>0, <1>12 DEF Save, IInv, TypeInv, TodoKnown, OnceIn, ScriptInv, LookedUp, GroupsNamed, Only
  <1>13. CASE Stop
    BY <1>0, <1>13 DEF Stop, IInv, TypeInv, TodoKnown, OnceIn, ScriptInv
  <1> QED BY <1>1, <1>2, <1>3, <1>4, <1>5, <1>6, <1>7, <1>8, <1>9, <1>10, <1>11, <1>12, <1>13
          DEF Next, Script

\* However often the container is stopped and started again, and whatever of it
\* NiFi has saved, no flow runs in two process groups (import-flow.sh).
THEOREM NoFlowRunsTwice == ASSUME ImportFlowAssumption PROVE Spec => []StartedOnce
  <1>1. Init => IInv
    BY InvInit
  <1>2. IInv /\ [Next]_vars => IInv'
    BY InvStep
  <1>3. IInv => StartedOnce
    BY DEF IInv, OnceIn, StartedOnce
  <1> QED BY <1>1, <1>2, <1>3, PTL DEF Spec

-----------------------------------------------------------------------------
(* The first start                                                          *)

HasFlows(k) == Len(groups) = k /\ \A g \in 1 .. k : groups[g].flow = Flows[g]

UploadInv ==
    /\ pc = "upload" => HasFlows(n)
    /\ pc \in {"services", "enable", "find", "list", "run", "tail"} => HasFlows(2)

\* A service is enabled or still to be; after the loop they are all enabled.
EnableInv ==
    /\ pc = "enable" =>
          \A g \in {1, 2} : \A c \in Services[Flows[g]] : c \in groups[g].enabled \/ <<g, c>> \in todo
    /\ pc \in {"find", "list", "run", "tail"} =>
          \A g \in {1, 2} : Services[Flows[g]] \subseteq groups[g].enabled

FindInv ==
    /\ pc = "find" /\ n = 1 => ids[Flows[1]] = {1}
    /\ pc = "list" => ids[Flows[1]] = {1} /\ ids[Flows[2]] = {2}

\* A processor runs or is still to be started; after the loop they all run.
RunInv ==
    /\ pc = "list" /\ n = 1 => \A p \in Processors[Flows[1]] : <<1, p>> \in todo
    /\ pc = "run" =>
          \A g \in {1, 2} : \A p \in Processors[Flows[g]] : p \in groups[g].running \/ <<g, p>> \in todo
    /\ pc = "tail" => \A g \in {1, 2} : Processors[Flows[g]] \subseteq groups[g].running

\* Only processors are started.
FitInv ==
    /\ \A g \in DOMAIN groups : groups[g].running \subseteq Processors[groups[g].flow]
    /\ pc \in {"list", "run"} => \A part \in todo : part[2] \in Processors[groups[part[1]].flow]

First == stops = 0 /\ root

FirstInv ==
    /\ stops \in Nat
    /\ stops = 0 /\ pc \in {"off", "wait"} => groups = <<>> /\ n = 0 /\ ~root
    /\ First => nifi = "up" /\ UploadInv /\ EnableInv /\ FindInv /\ RunInv /\ FitInv

LEMMA FirstStep == ImportFlowAssumption /\ IInv /\ FirstInv /\ [Next]_vars => FirstInv'
  <1> SUFFICES ASSUME ImportFlowAssumption, IInv, FirstInv, [Next]_vars PROVE FirstInv'
    OBVIOUS
  <1>0. TypeInv /\ TodoKnown /\ ScriptInv
    BY DEF IInv
  <1>a. /\ stops \in Nat
        /\ stops = 0 /\ pc \in {"off", "wait"} => groups = <<>> /\ n = 0 /\ ~root
        /\ First => nifi = "up" /\ UploadInv /\ EnableInv /\ FindInv /\ RunInv /\ FitInv
    BY DEF FirstInv
  <1>1. CASE Setup
    BY <1>a, <1>1 DEF Setup, FirstInv, First
  <1>2. CASE Stop
    BY <1>a, <1>2 DEF Stop, FirstInv, First
  <1>3. CASE ComeUp \/ Save \/ UNCHANGED vars
    BY <1>a, <1>3 DEF ComeUp, Save, vars, Answers, FirstInv, First, UploadInv, EnableInv, FindInv,
       RunInv, FitInv, HasFlows
  <1>4. CASE GetRoot
    <2>1. /\ pc = "wait" /\ pc' = "upload" /\ root' = (nifi = "up")
          /\ UNCHANGED <<nifi, groups, n, ids, todo, stops>>
      BY <1>4 DEF GetRoot, Answers
    <2>2. SUFFICES ASSUME stops = 0 PROVE HasFlows(n)' /\ FitInv'
      BY <1>a, <2>1 DEF FirstInv, First, UploadInv, EnableInv, FindInv, RunInv
    <2>3. groups' = <<>> /\ n' = 0 /\ Len(groups') = 0 /\ DOMAIN groups' = {}
      BY <1>a, <2>1, <2>2
    <2> QED BY <2>1, <2>3 DEF HasFlows, FitInv
  <1>5. ASSUME UNCHANGED <<stops, root, nifi>>, pc \notin {"off", "wait"}, pc' \notin {"off", "wait"},
               First => UploadInv' /\ EnableInv' /\ FindInv' /\ RunInv' /\ FitInv'
        PROVE  FirstInv'
    BY <1>a, <1>5 DEF FirstInv, First
  <1>6. CASE ~First /\ ~Setup /\ ~Stop /\ ~ComeUp /\ ~Save /\ ~GetRoot
    <2>1. UNCHANGED <<stops, root>> /\ (~UNCHANGED vars => pc' \notin {"off", "wait"})
      BY <1>6, [Next]_vars DEF Next, Script, Upload, ListServices, Enable, Enabled, FindGroup, ListProcessors,
         Run, Finish, ForEachFlow, vars
    <2> QED BY <1>a, <1>3, <1>6, <2>1 DEF FirstInv, First
  <1>7. SUFFICES ASSUME First, ~Setup, ~Stop, ~ComeUp, ~Save, ~GetRoot, ~UNCHANGED vars PROVE FirstInv'
    BY <1>1, <1>2, <1>3, <1>4, <1>6
  <1>b. nifi = "up" /\ Answers /\ root /\ UploadInv /\ EnableInv /\ FindInv /\ RunInv /\ FitInv
    BY <1>a, <1>7 DEF Answers, First
  <1>8. CASE Upload
    <2>1. /\ pc = "upload" /\ n \in {0, 1} /\ Flow = Flows[n + 1] /\ Flow \in Names
          /\ n = 0 => n' = 1 /\ pc' = "upload"
          /\ n = 1 => n' = 0 /\ pc' = "services"
      BY <1>0, <1>8, EachFlow DEF Upload, TypeInv
    <2>2. groups' = Append(groups, Group(Flow)) /\ UNCHANGED <<nifi, root, ids, todo, stops>>
      BY <1>8, <1>b DEF Upload
    <2>3. groups \in Seq(ProcessGroups) /\ Len(groups) = n /\ \A g \in 1 .. n : groups[g].flow = Flows[g]
      BY <1>0, <1>b, <2>1 DEF TypeInv, UploadInv, HasFlows
    <2>4. Group(Flow).flow = Flow /\ Group(Flow).running = {} /\ Group(Flow) \in ProcessGroups
      BY <2>1 DEF Group, ProcessGroups
    <2>5. /\ Len(groups') = n + 1 /\ groups'[n + 1] = Group(Flow)
          /\ DOMAIN groups' = 1 .. n + 1
          /\ \A g \in 1 .. n : groups'[g] = groups[g]
      BY <2>1, <2>2, <2>3, <2>4
    <2>6. \A g \in 1 .. n + 1 : g = n + 1 \/ g \in 1 .. n
      BY <2>1
    <2>7. Len(groups') = n + 1 /\ \A g \in 1 .. n + 1 : groups'[g].flow = Flows[g]
      BY <2>1, <2>3, <2>4, <2>5, <2>6
    <2>8. \A g \in DOMAIN groups' : groups'[g].running \subseteq Processors[groups'[g].flow]
      <3>1. DOMAIN groups = 1 .. n
        BY <2>1, <2>3
      <3> QED BY <1>b, <2>4, <2>5, <2>6, <3>1 DEF FitInv
    <2>9. UploadInv'
      BY <2>1, <2>7 DEF UploadInv, HasFlows
    <2> QED BY <1>5, <2>1, <2>2, <2>8, <2>9 DEF EnableInv, FindInv, RunInv, FitInv
  <1>9. SUFFICES ASSUME ~Upload PROVE FirstInv'
    BY <1>8
  <1>c. /\ pc \in {"services", "enable", "find", "list", "run"}
        /\ pc' \in {"services", "enable", "find", "list", "run", "tail"}
        /\ UNCHANGED <<nifi, root, stops>>
    BY <1>7, <1>9, [Next]_vars DEF Next, Script, ListServices, Enable, Enabled, FindGroup, ListProcessors,
       Run, Finish, ForEachFlow
  <1>d. /\ groups \in Seq(ProcessGroups) /\ Len(groups) = 2 /\ DOMAIN groups = {1, 2}
        /\ groups[1].flow = Flows[1] /\ groups[2].flow = Flows[2]
        /\ groups[1] \in ProcessGroups /\ groups[2] \in ProcessGroups
    <2>1. groups \in Seq(ProcessGroups) /\ HasFlows(2)
      BY <1>0, <1>b, <1>c DEF UploadInv, TypeInv
    <2>2. Len(groups) = 2 /\ 1 \in 1 .. 2 /\ 2 \in 1 .. 2
      BY <2>1 DEF HasFlows
    <2>3. DOMAIN groups = {1, 2}
      BY <2>1, <2>2
    <2>4. groups[1].flow = Flows[1] /\ groups[2].flow = Flows[2]
      BY <2>1, <2>2 DEF HasFlows
    <2>5. groups \in [1 .. Len(groups) -> ProcessGroups]
      BY <2>1
    <2>6. groups[1] \in ProcessGroups /\ groups[2] \in ProcessGroups
      BY <2>2, <2>5
    <2> QED BY <2>1, <2>2, <2>3, <2>4, <2>6
  <1>10. ASSUME UNCHANGED groups, EnableInv', FindInv', RunInv',
                pc' \in {"list", "run"} => \A part \in todo' : part[2] \in Processors[groups[part[1]].flow]
         PROVE  FirstInv'
    <2>1. UploadInv'
      BY <1>b, <1>c, <1>10 DEF UploadInv, HasFlows
    <2>2. FitInv'
      BY <1>b, <1>10 DEF FitInv
    <2> QED BY <1>5, <1>c, <1>10, <2>1, <2>2
  <1>11. CASE ListServices
    <2>1. /\ pc' = "enable" /\ UNCHANGED <<groups, n, ids>>
          /\ todo' = UNION {Parts(g, Services) : g \in DOMAIN groups}
      BY <1>11, <1>b DEF ListServices
    <2>2. ASSUME NEW g \in {1, 2}, NEW c \in Services[Flows[g]] PROVE <<g, c>> \in todo'
      <3>1. <<g, c>> \in Parts(g, Services)
        BY <1>d DEF Parts
      <3> QED BY <1>d, <2>1, <3>1
    <2> QED BY <1>10, <2>1, <2>2 DEF EnableInv, FindInv, RunInv
  <1>12. ASSUME NEW part \in todo, Enable(part) PROVE FirstInv'
    <2>1. /\ pc = "enable" /\ UNCHANGED <<pc, n, ids>> /\ todo' = todo \ {part}
          /\ groups' = [groups EXCEPT ![part[1]].enabled = @ \cup {part[2]}]
      BY <1>12, <1>b DEF Enable
    <2>2. part[1] \in {1, 2} /\ part \in Nat \X Components
      BY <1>0, <1>d, <2>1 DEF TodoKnown, TypeInv
    <2>3. /\ DOMAIN groups' = {1, 2} /\ Len(groups') = 2
          /\ \A g \in {1, 2} : /\ groups'[g].flow = groups[g].flow
                               /\ groups'[g].running = groups[g].running
                               /\ groups[g].enabled \subseteq groups'[g].enabled
          /\ part[2] \in groups'[part[1]].enabled
      <3>1. DOMAIN groups' = {1, 2} /\ Len(groups') = 2
        BY <1>d, <2>1
      <3>2. \A g \in {1, 2} : groups'[g] = IF g = part[1] THEN [groups[g] EXCEPT !.enabled = @ \cup {part[2]}]
                                                          ELSE groups[g]
        BY <1>d, <2>1
      <3>3. \A g \in {1, 2} : /\ groups[g] \in ProcessGroups
        BY <1>d
      <3> QED BY <2>2, <3>1, <3>2, <3>3 DEF ProcessGroups
    <2>4. ASSUME NEW g \in {1, 2}, NEW c \in Services[Flows[g]] PROVE c \in groups'[g].enabled \/ <<g, c>> \in todo'
      <3>1. CASE part = <<g, c>>
        BY <2>3, <3>1
      <3>2. CASE part # <<g, c>>
        BY <1>b, <2>1, <2>3, <3>2 DEF EnableInv
      <3> QED BY <3>1, <3>2
    <2>5. UploadInv' /\ EnableInv'
      BY <1>d, <2>1, <2>3, <2>4 DEF UploadInv, HasFlows, EnableInv
    <2>6. FindInv' /\ RunInv' /\ FitInv'
      BY <1>b, <1>d, <2>1, <2>3 DEF FindInv, RunInv, FitInv
    <2> QED BY <1>5, <1>c, <2>5, <2>6
  <1>13. CASE Enabled
    <2>1. n = 0 /\ pc = "enable" /\ todo = {} /\ pc' = "find" /\ UNCHANGED <<groups, n, ids, todo>>
      BY <1>0, <1>13 DEF Enabled, ScriptInv
    <2>2. \A g \in {1, 2} : Services[Flows[g]] \subseteq groups[g].enabled
      BY <1>b, <2>1 DEF EnableInv
    <2> QED BY <1>10, <2>1, <2>2 DEF EnableInv, FindInv, RunInv
  <1>14. CASE FindGroup
    <2>1. /\ pc = "find" /\ n \in {0, 1} /\ Flow = Flows[n + 1] /\ Flow \in Names
          /\ n = 0 => n' = 1 /\ pc' = "find"
          /\ n = 1 => n' = 0 /\ pc' = "list"
      BY <1>0, <1>14, EachFlow DEF FindGroup, TypeInv
    <2>2. UNCHANGED <<groups, todo>> /\ ids' = [ids EXCEPT ![Flow] = GroupsNamed(Flow)] /\ ids \in [Names -> SUBSET Nat]
      BY <1>0, <1>14, <1>b DEF FindGroup, TypeInv
    <2>3. GroupsNamed(Flows[1]) = {1} /\ GroupsNamed(Flows[2]) = {2}
      BY <1>d, TwoFlows DEF GroupsNamed
    <2>4. FindInv'
      <3>1. CASE n = 0
        BY <2>1, <2>2, <2>3, <3>1 DEF FindInv
      <3>2. CASE n = 1
        BY <1>b, <2>1, <2>2, <2>3, <3>2, TwoFlows DEF FindInv
      <3> QED BY <2>1, <3>1, <3>2
    <2>5. todo' = {}
      BY <1>0, <2>1, <2>2 DEF ScriptInv
    <2>6. EnableInv' /\ RunInv'
      BY <1>b, <2>1, <2>2 DEF EnableInv, RunInv
    <2> QED BY <1>10, <2>2, <2>4, <2>5, <2>6
  <1>15. CASE ListProcessors
    <2>1. /\ pc = "list" /\ n \in {0, 1} /\ Flow = Flows[n + 1] /\ Flow \in Names
          /\ n = 0 => n' = 1 /\ pc' = "list"
          /\ n = 1 => n' = 0 /\ pc' = "run"
      BY <1>0, <1>15, EachFlow DEF ListProcessors, TypeInv
    <2>2. ids[Flow] = {n + 1} /\ n + 1 \in {1, 2} /\ groups[n + 1].flow = Flow
      BY <1>b, <1>d, <2>1 DEF FindInv
    <2>3. Cardinality(ids[Flow]) = 1
      <3>1. IsFiniteSet({n + 1}) /\ Cardinality({n + 1}) = 1
        BY FS_Singleton
      <3> QED BY <2>2, <3>1
    <2>4. UNCHANGED <<groups, ids>> /\ todo' = todo \cup Parts(n + 1, Processors)
      BY <1>15, <1>b, <2>2, <2>3 DEF ListProcessors
    <2>5. Parts(n + 1, Processors) = {<<n + 1, c>> : c \in Processors[Flow]}
      BY <2>2 DEF Parts
    <2>6. \A part \in todo' : part[2] \in Processors[groups[part[1]].flow]
      BY <1>b, <2>1, <2>2, <2>4, <2>5 DEF FitInv
    <2>7. RunInv'
      <3>1. CASE n = 0
        BY <2>1, <2>4, <2>5, <3>1 DEF RunInv
      <3>2. CASE n = 1
        BY <1>b, <2>1, <2>4, <2>5, <3>2 DEF RunInv
      <3> QED BY <2>1, <3>1, <3>2
    <2>8. EnableInv' /\ FindInv'
      BY <1>b, <2>1, <2>4 DEF EnableInv, FindInv
    <2> QED BY <1>10, <2>4, <2>6, <2>7, <2>8
  <1>16. ASSUME NEW part \in todo, Run(part) PROVE FirstInv'
    <2>1. pc = "run" /\ UNCHANGED <<pc, n, ids>> /\ todo' = todo \ {part}
      BY <1>16 DEF Run
    <2>2. part[1] \in {1, 2} /\ part \in Nat \X Components /\ part[2] \in Processors[groups[part[1]].flow]
      BY <1>0, <1>b, <1>d, <2>1 DEF TodoKnown, TypeInv, FitInv
    <2>3. groups[part[1]].flow \in Names /\ groups[part[1]].flow = Flows[part[1]]
      BY <1>d, <2>2, TwoFlows
    <2>4. Needs[part[2]] \subseteq groups[part[1]].enabled
      BY <1>b, <2>1, <2>2, <2>3 DEF ImportFlowAssumption, EnableInv
    <2>5. groups' = [groups EXCEPT ![part[1]].running = @ \cup {part[2]}]
      BY <1>16, <1>b, <2>4 DEF Run
    <2>6. /\ DOMAIN groups' = {1, 2} /\ Len(groups') = 2
          /\ \A g \in {1, 2} : /\ groups'[g].flow = groups[g].flow
                               /\ groups'[g].enabled = groups[g].enabled
                               /\ groups[g].running \subseteq groups'[g].running
                               /\ groups'[g].running \subseteq Processors[groups[g].flow]
          /\ part[2] \in groups'[part[1]].running
      <3>1. DOMAIN groups' = {1, 2} /\ Len(groups') = 2
        BY <1>d, <2>5
      <3>2. \A g \in {1, 2} : groups'[g] = IF g = part[1] THEN [groups[g] EXCEPT !.running = @ \cup {part[2]}]
                                                          ELSE groups[g]
        BY <1>d, <2>5
      <3>3. \A g \in {1, 2} : groups[g] \in ProcessGroups /\ groups[g].running \subseteq Processors[groups[g].flow]
        BY <1>b, <1>d DEF FitInv
      <3> QED BY <2>2, <3>1, <3>2, <3>3 DEF ProcessGroups
    <2>7. ASSUME NEW g \in {1, 2}, NEW p \in Processors[Flows[g]] PROVE p \in groups'[g].running \/ <<g, p>> \in todo'
      <3>1. CASE part = <<g, p>>
        BY <2>6, <3>1
      <3>2. CASE part # <<g, p>>
        BY <1>b, <2>1, <2>6, <3>2 DEF RunInv
      <3> QED BY <3>1, <3>2
    <2>8. UploadInv' /\ RunInv'
      BY <1>d, <2>1, <2>6, <2>7 DEF UploadInv, HasFlows, RunInv
    <2>9. EnableInv' /\ FindInv'
      BY <1>b, <2>1, <2>6 DEF EnableInv, FindInv
    <2>10. FitInv'
      <3>1. \A q \in todo : q[1] \in {1, 2}
        BY <1>0, <1>d, <2>1 DEF TodoKnown
      <3> QED BY <1>b, <2>1, <2>6, <3>1 DEF FitInv
    <2> QED BY <1>5, <1>c, <2>8, <2>9, <2>10
  <1>17. CASE Finish
    <2>1. pc = "run" /\ todo = {} /\ pc' = "tail" /\ UNCHANGED <<groups, n, ids, todo>>
      BY <1>17 DEF Finish
    <2>2. RunInv'
      BY <1>b, <2>1 DEF RunInv
    <2> QED BY <1>10, <1>b, <2>1, <2>2 DEF EnableInv, FindInv
  <1> QED BY <1>7, <1>9, <1>11, <1>12, <1>13, <1>14, <1>15, <1>16, <1>17, [Next]_vars DEF Next, Script

\* "All processors have been started." (import-flow.sh) is true at the end of a first
\* start that found NiFi up: all of both flows run, and nothing else does.
THEOREM FirstStartIsComplete == ASSUME ImportFlowAssumption PROVE Spec => []StartedAll
  <1>1. Init => IInv /\ FirstInv
    <2>1. Init => FirstInv
      BY DEF Init, FirstInv, First
    <2> QED BY <2>1, InvInit
  <1>2. IInv /\ FirstInv /\ [Next]_vars => (IInv /\ FirstInv)'
    BY InvStep, FirstStep
  <1>3. FirstInv => StartedAll
    <2> SUFFICES ASSUME FirstInv, pc = "tail", stops = 0, root, NEW f \in Names
                 PROVE  \E g \in DOMAIN groups : groups[g].flow = f /\ groups[g].running = Processors[f]
      BY DEF StartedAll
    <2>1. UploadInv /\ RunInv /\ FitInv
      BY DEF FirstInv, First
    <2>2. HasFlows(2)
      BY <2>1 DEF UploadInv
    <2>3. PICK g \in {1, 2} : f = Flows[g]
      BY TwoFlows
    <2>4. g \in DOMAIN groups /\ groups[g].flow = f
      BY <2>2, <2>3 DEF HasFlows
    <2> QED BY <2>1, <2>3, <2>4 DEF RunInv, FitInv
  <1> QED BY <1>1, <1>2, <1>3, PTL DEF Spec
=============================================================================
