------------------------------ MODULE Cluster ------------------------------
(***************************************************************************)
(* What surrounds the controller: one TrafficScenario name on the API      *)
(* server with the Deployment and the ConfigMap derived from it, the       *)
(* garbage collector, the runner Pods and the Redis keys they write.       *)
(* Kubernetes and Redis are external; they are modelled as far as the      *)
(* controller relies on them.  A TrafficScenario that is deleted and       *)
(* created again has a new UID.                                            *)
(***************************************************************************)
EXTENDS Integers, FiniteSets

CONSTANTS
  Configs,         \* scenario configurations, numbered
  RedisConfigs,    \* those for which requiresRedis holds
  InvalidConfigs,  \* those validateScenario rejects
  MaxUID,          \* bound: incarnations of the scenario
  MaxGeneration,   \* bound: generations of one incarnation
  MaxFaults,       \* bound: failed calls, crashes and failed rollouts
  Verbs            \* what users do besides creating: a subset of AllVerbs

AllVerbs == {"edit", "revert", "suspend", "delete", "takeName"}

ASSUME ClusterAssumption ==
  /\ Configs \subseteq Nat \ {0}
  /\ RedisConfigs \subseteq Configs /\ InvalidConfigs \subseteq Configs
  /\ MaxUID \in Nat /\ MaxGeneration \in Nat \ {0} /\ MaxFaults \in Nat
  /\ Verbs \subseteq AllVerbs

VARIABLES
  scenario,    \* the TrafficScenario on the API server
  deployment,  \* the Deployment with the runner's name
  configMap,   \* the ConfigMap with the runner's name
  pods,        \* running runner Pods
  keys,        \* UIDs in whose scope Redis holds keys
  lastUID,     \* UIDs handed out so far
  expired,     \* UIDs whose cleanup grace period is over
  faults       \* faults so far

cluster == <<scenario, deployment, configMap, pods, keys, lastUID,
             expired, faults>>

UIDs == 1 .. MaxUID
Nobody == 0
Other == -1        \* the owner of a Deployment that is not a scenario's

NoStatus == [phase |-> "", observed |-> 0,
             conditions |-> [reason |-> "", observed |-> 0]]
NoScenario == [uid |-> Nobody, config |-> 0, suspend |-> FALSE, generation |-> 0,
               deleting |-> FALSE, finalizer |-> FALSE, status |-> NoStatus]
NoDeployment == [owner |-> Nobody, config |-> 0, deleting |-> FALSE,
                 rollout |-> ""]
NoConfigMap == [owner |-> Nobody, config |-> 0]

\* A Pod the Deployment asks for; the others are on their way out.
Wanted(p) ==
  /\ p.owner = deployment.owner /\ ~deployment.deleting
  /\ p.template = deployment.config

ClusterInit ==
  /\ scenario = NoScenario
  /\ deployment = NoDeployment
  /\ configMap = NoConfigMap
  /\ pods = {}
  /\ keys = {}
  /\ lastUID = 0
  /\ expired = {}
  /\ faults = 0

----------------------------------------------------------------------------
\* The user's three verbs on the TrafficScenario.
CreateScenario ==
  /\ scenario = NoScenario
  /\ lastUID < MaxUID
  /\ lastUID' = lastUID + 1
  /\ \E c \in Configs, s \in BOOLEAN :
       /\ s => "suspend" \in Verbs
       /\ scenario' = [NoScenario EXCEPT !.uid = lastUID + 1, !.config = c,
                                         !.suspend = s, !.generation = 1]
  /\ UNCHANGED <<deployment, configMap, pods, keys, expired, faults>>

EditScenario ==
  /\ scenario # NoScenario /\ ~scenario.deleting
  /\ scenario.generation < MaxGeneration
  /\ \E c \in Configs, s \in BOOLEAN :
       /\ <<c, s>> # <<scenario.config, scenario.suspend>>
       /\ c > scenario.config => "edit" \in Verbs
       /\ c < scenario.config => "revert" \in Verbs
       /\ s # scenario.suspend => "suspend" \in Verbs
       /\ scenario' = [scenario EXCEPT !.config = c, !.suspend = s,
                                       !.generation = @ + 1]
  /\ UNCHANGED <<deployment, configMap, pods, keys, lastUID, expired,
                 faults>>

\* Deletion waits for the finalizer; without one the object is gone at once.
DeleteScenario ==
  /\ "delete" \in Verbs
  /\ scenario # NoScenario /\ ~scenario.deleting
  /\ scenario' = IF scenario.finalizer
                 THEN [scenario EXCEPT !.deleting = TRUE] ELSE NoScenario
  /\ UNCHANGED <<deployment, configMap, pods, keys, lastUID, expired,
                 faults>>

GraceExpires ==
  /\ scenario.deleting /\ scenario.uid \notin expired
  /\ expired' = expired \cup {scenario.uid}
  /\ UNCHANGED <<scenario, deployment, configMap, pods, keys, lastUID,
                 faults>>

----------------------------------------------------------------------------
(* The garbage collector: dependents of a scenario that is gone, and a     *)
(* Deployment deleted in the foreground once its Pods are gone.            *)
CollectDeployment ==
  /\ IF deployment.deleting THEN \A p \in pods : p.owner # deployment.owner
     ELSE deployment.owner \in UIDs /\ deployment.owner # scenario.uid
  /\ deployment' = NoDeployment
  /\ UNCHANGED <<scenario, configMap, pods, keys, lastUID, expired, faults>>

CollectConfigMap ==
  /\ configMap # NoConfigMap /\ configMap.owner # scenario.uid
  /\ configMap' = NoConfigMap
  /\ UNCHANGED <<scenario, deployment, pods, keys, lastUID, expired, faults>>

\* A Pod starts and reads the ConfigMap mounted into it, once.
StartPod ==
  /\ deployment.owner \in UIDs /\ ~deployment.deleting
  /\ configMap # NoConfigMap
  /\ \A p \in pods : ~Wanted(p)
  /\ pods' = pods \cup {[owner |-> deployment.owner, template |-> deployment.config,
                         runs |-> configMap.config]}
  /\ UNCHANGED <<scenario, deployment, configMap, keys, lastUID, expired,
                 faults>>

StopPod ==
  /\ \E p \in pods : ~Wanted(p) /\ pods' = pods \ {p}
  /\ UNCHANGED <<scenario, deployment, configMap, keys, lastUID, expired,
                 faults>>

\* The Deployment controller reports a finished, or a failed, rollout.
FinishRollout ==
  /\ deployment.owner \in UIDs /\ deployment.rollout # "ready"
  /\ \E p \in pods : Wanted(p)
  /\ \A p \in pods : p.owner = deployment.owner => Wanted(p)
  /\ deployment' = [deployment EXCEPT !.rollout = "ready"]
  /\ UNCHANGED <<scenario, configMap, pods, keys, lastUID, expired, faults>>

FailRollout ==
  /\ deployment.owner \in UIDs /\ deployment.rollout = "progressing"
  /\ faults < MaxFaults /\ faults' = faults + 1
  /\ deployment' = [deployment EXCEPT !.rollout = "failed"]
  /\ UNCHANGED <<scenario, configMap, pods, keys, lastUID, expired>>

(* Somebody else creates a Deployment under the free name.                 *)
CreateForeignDeployment ==
  /\ "takeName" \in Verbs /\ deployment = NoDeployment
  /\ deployment' = [NoDeployment EXCEPT !.owner = Other]
  /\ UNCHANGED <<scenario, configMap, pods, keys, lastUID, expired, faults>>

\* A runner stores a value, counts a permit or selects an RPM in Redis.
WriteKeys ==
  /\ \E p \in pods : p.template \in RedisConfigs /\ keys' = keys \cup {p.owner}
  /\ UNCHANGED <<scenario, deployment, configMap, pods, lastUID, expired,
                 faults>>
=============================================================================
