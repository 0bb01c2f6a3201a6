----------------------------- MODULE QueryPlan ------------------------------
(***************************************************************************)
(* Which host an import worker sends a batch to (FastTokenAwarePolicy,       *)
(* ConnectionWrapper): the driver takes one host after the other from the    *)
(* plan until one accepts the request.  Other threads add requests to the    *)
(* connections and take them off meanwhile, so that a host may be busy when  *)
(* it is looked at and free when the next one is, or the other way round.    *)
(***************************************************************************)
EXTENDS Integers, FiniteSets, Sequences, SequencesExt, FiniteSetsExt

CONSTANTS Replicas,     \* query.replicas, in order
          Others,       \* the plan of DCAwareRoundRobinPolicy
          MaxInFlight,  \* the smaller of max_request_id and maxinflightmessages
          MaxBackoff,   \* maxbackoffattempts
          Load          \* bound: requests on a connection

QueryPlanAssumption == /\ MaxInFlight \in Nat \ {0} /\ MaxBackoff \in Nat \ {0} /\ Load \in Nat
                              /\ Replicas \in Seq(ToSet(Replicas)) /\ IsInjective(Replicas)
                              /\ Others \in Seq(ToSet(Others)) /\ IsInjective(Others)

Hosts == ToSet(Replicas) \cup ToSet(Others)

VARIABLES inFlight,     \* in_flight of each connection
          plan,         \* the hosts of the plan
          round,        \* i: rounds begun
          k,            \* the host looked at last in this round
          offered,      \* hosts given to the driver in this round
          stage         \* "look", "offered", "asleep", "sent" or "failed"
vars == <<inFlight, plan, round, k, offered, stage>>

(* Mutant of MakePlan: hosts of both lists are there twice.                     *)
MakePlanAll == Replicas \o Others
(* Numbers in their order.                                                       *)
InOrder(S) == CHOOSE f \in [1..Cardinality(S) -> S] :
                  ToSet(f) = S /\ \A i, j \in DOMAIN f : i < j => f[i] < f[j]
MakePlan == LET left == InOrder({n \in DOMAIN Others : Others[n] \notin ToSet(Replicas)})
            IN  Replicas \o [n \in DOMAIN left |-> Others[left[n]]]

Init == /\ inFlight \in [Hosts -> 0..Load]
        /\ plan = MakePlan /\ round = 1 /\ k = 0 /\ offered = {}
        /\ stage = IF plan = <<>> THEN "failed" ELSE "look"

-----------------------------------------------------------------------------
Overloaded(h) == inFlight[h] >= MaxInFlight
Here == plan[k + 1]

Skip == /\ stage = "look" /\ k < Len(plan) /\ Overloaded(Here)
        /\ k' = k + 1
        /\ UNCHANGED <<inFlight, plan, round, offered, stage>>

Offer == /\ stage = "look" /\ k < Len(plan) /\ ~Overloaded(Here)
         /\ offered' = offered \cup {Here} /\ k' = k + 1 /\ stage' = "offered"
         /\ UNCHANGED <<inFlight, plan, round>>

(* The driver: the connection takes the request, or the next host is asked for. *)
Accept == /\ stage = "offered" /\ inFlight[plan[k]] < Load
          /\ inFlight' = [inFlight EXCEPT ![plan[k]] = @ + 1]
          /\ stage' = "sent"
          /\ UNCHANGED <<plan, round, k, offered>>

Refuse == /\ stage = "offered" /\ stage' = "look"
          /\ UNCHANGED <<inFlight, plan, round, k, offered>>

(* After each round, whether a host was offered in it or not.                    *)
Sleep == /\ stage = "look" /\ k = Len(plan)
         /\ stage' = "asleep"
         /\ UNCHANGED <<inFlight, plan, round, k, offered>>

(* Mutant of Wake: the rounds are not counted.                                   *)
WakeAgain == /\ stage = "asleep" /\ k' = 0 /\ offered' = {} /\ stage' = "look"
             /\ UNCHANGED <<inFlight, plan, round>>
Wake == /\ stage = "asleep" /\ round < MaxBackoff
        /\ round' = round + 1 /\ k' = 0 /\ offered' = {} /\ stage' = "look"
        /\ UNCHANGED <<inFlight, plan>>

GiveUp == /\ stage = "asleep" /\ round = MaxBackoff /\ stage' = "failed"
          /\ UNCHANGED <<inFlight, plan, round, k, offered>>

(* The other requests of the worker.                                             *)
Begin(h) == /\ inFlight[h] < Load
            /\ inFlight' = [inFlight EXCEPT ![h] = @ + 1]
            /\ UNCHANGED <<plan, round, k, offered, stage>>
Leave(h) == /\ inFlight[h] > 0
            /\ inFlight' = [inFlight EXCEPT ![h] = @ - 1]
            /\ UNCHANGED <<plan, round, k, offered, stage>>

Step == Skip \/ Offer \/ Accept \/ Refuse \/ Sleep \/ Wake \/ GiveUp
Next == Step \/ \E h \in Hosts : Begin(h) \/ Leave(h)
(* The generator is run by the thread that sends the request; sleep ends.        *)
Spec == Init /\ [][Next]_vars /\ WF_vars(Step)

-----------------------------------------------------------------------------
(* A host is offered at most once in a round, and one that does not have the     *)
(* rows only after each replica was offered in it or busy when it was looked at  *)
(* ("send to any replicas attached to the query, or else fall back").            *)
OffersInOrder == Offer => /\ Here \notin offered
                          /\ Here \notin ToSet(Replicas) => k >= Len(Replicas)
ReplicasFirst == [][OffersInOrder]_vars

=============================================================================
