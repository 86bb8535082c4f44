----------------------------- MODULE Reconciler -----------------------------
(***************************************************************************)
(* The controller: TrafficScenarioReconciler.Reconcile and the finalizer.  *)
(*                                                                         *)
(* Reconcile reads the TrafficScenario, the Deployment and the ConfigMap   *)
(* from informer caches that lag behind the API server, each on its own,   *)
(* and writes to the API server.  One step is the reads and the one call   *)
(* between two calls; before every call the cluster may have moved on, a   *)
(* call may fail, also after it was applied, and the manager may die.      *)
(* One worker serves the work queue, so the reconciles of a name are       *)
(* serial; the next one runs when an event, an error or a requeue asks.    *)
(***************************************************************************)
EXTENDS Cluster

CONSTANT RedisAddress   \* is the manager given a Redis address?

ASSUME RedisAddressAssumption == RedisAddress \in BOOLEAN

VARIABLES
  cache,      \* the informers' copies of scenario, deployment and configMap
  queued,     \* the work queue holds the scenario's name
  pc,         \* the next call of the running Reconcile
  seen,       \* the scenario it works on
  outcome,    \* the state it will report
  found,      \* UIDs whose keys its scan returned
  cleaned,    \* history: UIDs released after a cleanup
  abandoned,  \* history: UIDs released without one
  stale,      \* history: UIDs whose Deployment existed at their last scan
  lingering   \* history: UIDs of which only Pods were left at it

manager == <<cache, queued, pc, seen, outcome, found>>
history == <<cleaned, abandoned, stale, lingering>>
vars == <<cluster, manager, history>>

NoOutcome == [reason |-> "", requeue |-> FALSE]
Failed(reason, retry) == [reason |-> reason, requeue |-> retry]
Progressing(reason) == [reason |-> reason, requeue |-> TRUE]
Settled(reason) == [reason |-> reason, requeue |-> FALSE]

PhaseOf(reason) ==
  CASE reason \in {"ReconcileFailed", "ValidationFailed",
                   "ControllerConfigurationInvalid"} -> "Failed"
    [] reason = "RolloutFailed" -> "Degraded"
    [] reason \in {"RunnerDeploymentChanged", "RunnerDeletionRequested",
                   "RunnerProgressing"} -> "Progressing"
    [] reason = "RunnerReady" -> "Ready"
    [] reason = "ScenarioSuspended" -> "Suspended"

\* Mutant: the Deployment's own condition is reported as the reason.
VerbatimStateFromDeployment(d) ==
  CASE d.rollout = "failed" -> Settled(d.rollout)
    [] d.rollout = "ready" -> Settled("RunnerReady")
    [] OTHER -> Progressing("RunnerProgressing")

\* stateFromDeployment.
StateFromDeployment(d) ==
  CASE d.rollout = "failed" -> Settled("RolloutFailed")
    [] d.rollout = "ready" -> Settled("RunnerReady")
    [] OTHER -> Progressing("RunnerProgressing")

(* The manager stores a nil *redis.Client in an interface field, which is  *)
(* then not nil: the comparison with nil never holds.                      *)
RedisClientIsNil == FALSE

RequiresRedis(s) == s.config \in RedisConfigs
ValidateScenario(s) == s.config \notin InvalidConfigs
GracePeriodExpired(s) == s.uid \in expired

\* ensureControlledBy: by UID, so a namesake of the owner does not count.
ControlledBy(object, s) == object.owner = s.uid

(* What a scenario's objects should be.  The Pod template carries the hash *)
(* of the configuration, so it is the configuration that rolls Pods over.  *)
DesiredConfigMap(s) == [owner |-> s.uid, config |-> s.config]
DesiredDeployment(s) == [owner |-> s.uid, config |-> s.config,
                         deleting |-> FALSE, rollout |-> "progressing"]

\* applyManagedDeploymentFields; a new template starts a new rollout.
ManagedFields(existing, desired) ==
  [existing EXCEPT !.config = desired.config, !.rollout = "progressing"]

Init ==
  /\ ClusterInit
  /\ cache = [scenario |-> NoScenario, deployment |-> NoDeployment,
              configMap |-> NoConfigMap]
  /\ queued = FALSE
  /\ pc = "idle"
  /\ seen = NoScenario
  /\ outcome = NoOutcome
  /\ found = {}
  /\ cleaned = {}
  /\ abandoned = {}
  /\ stale = {}
  /\ lingering = {}

----------------------------------------------------------------------------
\* Informer events.  Those of a Deployment or ConfigMap reach its owner.
SyncScenario ==
  /\ cache.scenario # scenario
  /\ cache' = [cache EXCEPT !.scenario = scenario]
  /\ queued' = TRUE
  /\ UNCHANGED <<cluster, pc, seen, outcome, found, history>>

\* Mutant: the controller does not watch the Deployments it owns.
UnwatchedSyncDeployment ==
  /\ cache.deployment # deployment
  /\ cache' = [cache EXCEPT !.deployment = deployment]
  /\ UNCHANGED <<queued, cluster, pc, seen, outcome, found, history>>

SyncDeployment ==
  /\ cache.deployment # deployment
  /\ cache' = [cache EXCEPT !.deployment = deployment]
  /\ queued' = (queued \/ {cache.deployment.owner, deployment.owner} \cap UIDs # {})
  /\ UNCHANGED <<cluster, pc, seen, outcome, found, history>>

SyncConfigMap ==
  /\ cache.configMap # configMap
  /\ cache' = [cache EXCEPT !.configMap = configMap]
  /\ queued' = TRUE
  /\ UNCHANGED <<cluster, pc, seen, outcome, found, history>>

----------------------------------------------------------------------------
\* Where Reconcile goes next; it carries the state it is about to report.
At(label) == [pc |-> label, outcome |-> NoOutcome]
Report(o) == [pc |-> "status", outcome |-> o]

Goto(next) ==
  /\ pc' = next.pc /\ outcome' = next.outcome
  /\ UNCHANGED <<queued, seen, found>>

\* Reconcile returns; an error or a requeue queues the name again.
Return(again) ==
  /\ pc' = "idle"
  /\ queued' = (queued \/ again)
  /\ seen' = NoScenario /\ outcome' = NoOutcome /\ found' = {}

(* An API call: it succeeds, or it fails and may have been applied.        *)
Call(write, keep, then, fail) ==
  \/ write /\ then /\ faults' = faults
  \/ (write \/ keep) /\ fail /\ faults < MaxFaults /\ faults' = faults + 1

\* No call is made, or the API server refuses it.
Without(keep, next) == keep /\ next /\ faults' = faults

\* Mutant: an invalid scenario is rejected before it is suspended.
ValidatingProceed(s) ==
  CASE ~ValidateScenario(s) -> Report(Failed("ValidationFailed", FALSE))
    [] s.suspend /\ ValidateScenario(s) -> At("suspend")
    [] OTHER -> At("configMap")

\* Reconcile from its suspend branch on, up to the first call.
Proceed(s) ==
  CASE s.suspend -> At("suspend")
    [] ~s.suspend /\ ~ValidateScenario(s) -> Report(Failed("ValidationFailed", FALSE))
    [] ~s.suspend /\ ValidateScenario(s) /\ RequiresRedis(s) /\ ~RedisAddress ->
         Report(Failed("ControllerConfigurationInvalid", TRUE))
    [] OTHER -> At("configMap")

\* Mutant: scenarios that use Redis get no finalizer.
FinalizerlessFirstCall(s) ==
  CASE s = NoScenario \/ (s.deleting /\ ~s.finalizer) -> At("idle")
    [] s.deleting /\ s.finalizer -> At("stop")
    [] OTHER -> Proceed(s)

\* Reconcile up to its first call.
FirstCall(s) ==
  CASE s = NoScenario \/ (s.deleting /\ ~s.finalizer) -> At("idle")
    [] s.deleting /\ s.finalizer -> At("stop")
    [] ~s.deleting /\ RequiresRedis(s) /\ ~RedisClientIsNil /\ ~s.finalizer ->
         At("finalize")
    [] OTHER -> Proceed(s)

\* A worker takes the name from the queue; Reconcile reads the scenario.
Begin ==
  /\ pc = "idle" /\ queued
  /\ queued' = FALSE
  /\ pc' = FirstCall(cache.scenario).pc
  /\ outcome' = FirstCall(cache.scenario).outcome
  /\ seen' = IF FirstCall(cache.scenario).pc = "idle" THEN NoScenario
             ELSE cache.scenario
  /\ UNCHANGED <<cluster, cache, found, history>>

\* The finalizer is added by an update of the version read.
AddFinalizer ==
  /\ pc = "finalize"
  /\ IF scenario = seen
     THEN Call(scenario' = [scenario EXCEPT !.finalizer = TRUE],
               scenario' = scenario,
               /\ pc' = Proceed(seen).pc /\ outcome' = Proceed(seen).outcome
               /\ seen' = [seen EXCEPT !.finalizer = TRUE]
               /\ UNCHANGED <<queued, found>>,
               Return(TRUE))
     ELSE Without(scenario' = scenario, Return(TRUE))
  /\ UNCHANGED <<deployment, configMap, pods, keys, lastUID, expired, cache, history>>

\* The Deployment of a suspended scenario is deleted, in the background.
Suspend ==
  /\ pc = "suspend"
  /\ CASE cache.deployment = NoDeployment ->
            Without(deployment' = deployment,
                    Goto(Report(Settled("ScenarioSuspended"))))
       [] cache.deployment # NoDeployment /\ ~ControlledBy(cache.deployment, seen) ->
            Without(deployment' = deployment,
                    Goto(Report(Failed("ReconcileFailed", TRUE))))
       [] OTHER ->
            Call(deployment' = IF deployment.deleting THEN deployment ELSE NoDeployment,
                 deployment' = deployment,
                 Goto(Report(Progressing("RunnerDeletionRequested"))),
                 Goto(Report(Failed("ReconcileFailed", TRUE))))
  /\ UNCHANGED <<scenario, configMap, pods, keys, lastUID, expired, cache, history>>

(* An object the controller owns is created, patched by name, or left      *)
(* alone, as its cached copy suggests; a foreign one is refused.           *)
Apply(cached, desired, current, create, patch, keep, changed, same) ==
  LET failure == Goto(Report(Failed("ReconcileFailed", TRUE)))
  IN  CASE cached.owner = Nobody ->
             IF current.owner = Nobody THEN Call(create, keep, changed, failure)
             ELSE Without(keep, failure)
        [] cached.owner # Nobody /\ ~ControlledBy(cached, seen) ->
             Without(keep, failure)
        [] ControlledBy(cached, seen) /\ cached.config = desired.config ->
             Without(keep, same)
        [] OTHER -> IF current.owner = Nobody THEN Without(keep, failure)
                    ELSE Call(patch, keep, changed, failure)

ApplyConfigMap ==
  /\ pc = "configMap"
  /\ Apply(cache.configMap, DesiredConfigMap(seen), configMap,
           configMap' = DesiredConfigMap(seen),
           configMap' = [configMap EXCEPT !.config = seen.config],
           configMap' = configMap,
           Goto(At("deployment")), Goto(At("deployment")))
  /\ UNCHANGED <<scenario, deployment, pods, keys, lastUID, expired, cache, history>>

ApplyDeployment ==
  /\ pc = "deployment"
  /\ Apply(cache.deployment, DesiredDeployment(seen), deployment,
           deployment' = DesiredDeployment(seen),
           deployment' = ManagedFields(deployment, DesiredDeployment(seen)),
           deployment' = deployment,
           Goto(Report(Progressing("RunnerDeploymentChanged"))),
           Goto(At("observe")))
  /\ UNCHANGED <<scenario, configMap, pods, keys, lastUID, expired, cache, history>>

\* An unchanged Deployment is read again for its rollout.
ObserveDeployment ==
  /\ pc = "observe"
  /\ Goto(Report(IF ControlledBy(cache.deployment, seen)
                 THEN StateFromDeployment(cache.deployment)
                 ELSE Failed("ReconcileFailed", TRUE)))
  /\ UNCHANGED <<cluster, cache, history>>

\* The status updateScenarioStatus computes.
StatusFor(reason, generation) ==
  [phase |-> PhaseOf(reason), observed |-> generation,
   conditions |-> [reason |-> reason, observed |-> generation]]

(* updateScenarioStatus: nothing is sent when the status equals the one    *)
(* read; else a merge patch carries the fields that differ from it.        *)
UpdateStatus ==
  /\ pc = "status"
  /\ LET new == StatusFor(outcome.reason, seen.generation)
         merged == [f \in DOMAIN new |-> IF new[f] = seen.status[f]
                                         THEN scenario.status[f] ELSE new[f]]
     IN  CASE new = seen.status ->
                Without(scenario' = scenario, Return(outcome.requeue))
           [] new # seen.status /\ scenario = NoScenario ->
                Without(scenario' = scenario, Return(TRUE))
           [] OTHER -> Call(scenario' = [scenario EXCEPT !.status = merged],
                            scenario' = scenario,
                            Return(outcome.requeue), Return(TRUE))
  /\ UNCHANGED <<deployment, configMap, pods, keys, lastUID, expired, cache, history>>

----------------------------------------------------------------------------
\* Mutant: a failed cleanup is retried for ever.
PatientRetryOrAbandon == Return(TRUE)

\* retryOrAbandonCleanup; the grace period counts from the deletion.
RetryOrAbandon ==
  IF GracePeriodExpired(seen) THEN Goto(At("abandon")) ELSE Return(TRUE)

\* Mutant: the Deployment is deleted whoever owns it.
UncheckedStopRunner ==
  /\ pc = "stop"
  /\ IF cache.deployment = NoDeployment
     THEN Without(deployment' = deployment, Goto(At("scan")))
     ELSE Call(deployment' = [deployment EXCEPT !.deleting = TRUE],
               deployment' = deployment, RetryOrAbandon, RetryOrAbandon)
  /\ UNCHANGED <<scenario, configMap, pods, keys, lastUID, expired, cache, history>>

\* reconcileDeletion, first part: the Deployment goes, in the foreground.
StopRunner ==
  /\ pc = "stop"
  /\ CASE cache.deployment = NoDeployment ->
            Without(deployment' = deployment, Goto(At("scan")))
       [] cache.deployment # NoDeployment /\ ~ControlledBy(cache.deployment, seen) ->
            Without(deployment' = deployment, RetryOrAbandon)
       [] OTHER ->
            Call(deployment' = IF deployment = NoDeployment THEN deployment
                               ELSE [deployment EXCEPT !.deleting = TRUE],
                 deployment' = deployment,
                 RetryOrAbandon, RetryOrAbandon)
  /\ UNCHANGED <<scenario, configMap, pods, keys, lastUID, expired, cache, history>>

\* History: was the runner still there at this scan, the last so far?
NoteRunner ==
  LET scanned == {seen.uid}
      deployed == scanned \cap {deployment.owner}
      running == scanned \cap {p.owner : p \in pods}
  IN  /\ stale' = (stale \ scanned) \cup deployed
      /\ lingering' = (lingering \ scanned) \cup (running \ deployed)

(* deleteScenarioRedisKeys scans the UID's patterns; Redis answers or      *)
(* fails, as it will in every later attempt.  Without an address           *)
(* the client is a nil pointer and the call panics; the work queue treats  *)
(* the recovered panic as an error.                                        *)
ScanKeys ==
  /\ pc = "scan"
  /\ CASE RedisClientIsNil -> RetryOrAbandon /\ UNCHANGED <<stale, lingering>>
       [] ~RedisClientIsNil /\ ~RedisAddress ->
            Return(TRUE) /\ UNCHANGED <<stale, lingering>>
       [] OTHER ->
            \/ RetryOrAbandon /\ UNCHANGED <<stale, lingering>>
            \/ /\ found' = keys \cap {seen.uid}
               /\ pc' = IF seen.uid \in keys THEN "del" ELSE "release"
               /\ IF seen.uid \in cleaned THEN UNCHANGED <<stale, lingering>>
                  ELSE NoteRunner
               /\ UNCHANGED <<queued, seen, outcome>>
  /\ UNCHANGED <<cluster, cache, cleaned, abandoned>>

\* Mutant: a failed DEL is taken for a finished cleanup.
CarelessDeleteKeys ==
  /\ pc = "del"
  /\ keys' \in {keys, keys \ found}
  /\ Goto(At("release"))
  /\ UNCHANGED <<scenario, deployment, configMap, pods, lastUID, expired,
                 faults, cache, history>>

\* The keys found are deleted; a lost reply counts as a failure.
DeleteKeys ==
  /\ pc = "del"
  /\ \/ keys' = keys \ found /\ Goto(At("release"))
     \/ keys' \in {keys, keys \ found} /\ RetryOrAbandon
  /\ UNCHANGED <<scenario, deployment, configMap, pods, lastUID, expired,
                 faults, cache, history>>

(* The finalizer is removed by an update of the version read, and with it  *)
(* the scenario.                                                           *)
ReleaseScenario ==
  /\ pc \in {"release", "abandon"}
  /\ IF scenario = seen
     THEN Call(/\ scenario' = NoScenario
               /\ cleaned' = IF pc = "release" THEN cleaned \cup {seen.uid} ELSE cleaned
               /\ abandoned' = IF pc = "abandon" THEN abandoned \cup {seen.uid}
                               ELSE abandoned,
               UNCHANGED <<scenario, cleaned, abandoned>>,
               Return(FALSE), Return(TRUE))
     ELSE Without(UNCHANGED <<scenario, cleaned, abandoned>>, Return(TRUE))
  /\ UNCHANGED <<deployment, configMap, pods, keys, lastUID, expired, cache,
                 stale, lingering>>

\* The manager dies; the next one lists everything and queues the name.
RestartManager ==
  /\ faults < MaxFaults /\ faults' = faults + 1
  /\ cache' = [scenario |-> scenario, deployment |-> deployment,
               configMap |-> configMap]
  /\ queued' = TRUE
  /\ pc' = "idle"
  /\ seen' = NoScenario /\ outcome' = NoOutcome /\ found' = {}
  /\ UNCHANGED <<scenario, deployment, configMap, pods, keys, lastUID,
                 expired, history>>

Reconcile ==
  \/ Begin \/ AddFinalizer \/ Suspend
  \/ ApplyConfigMap \/ ApplyDeployment \/ ObserveDeployment \/ UpdateStatus
  \/ StopRunner \/ ScanKeys \/ DeleteKeys \/ ReleaseScenario

Sync == SyncScenario \/ SyncDeployment \/ SyncConfigMap

Meanwhile(action) == action /\ UNCHANGED <<manager, history>>

Next ==
  \/ Reconcile \/ Sync \/ RestartManager
  \/ Meanwhile(CreateScenario) \/ Meanwhile(EditScenario)
  \/ Meanwhile(DeleteScenario) \/ Meanwhile(GraceExpires)
  \/ Meanwhile(CreateForeignDeployment)
  \/ Meanwhile(CollectDeployment) \/ Meanwhile(CollectConfigMap)
  \/ Meanwhile(StartPod) \/ Meanwhile(StopPod)
  \/ Meanwhile(FinishRollout) \/ Meanwhile(FailRollout)
  \/ Meanwhile(WriteKeys)

Spec == Init /\ [][Next]_vars

(* The work queue has a worker, informers catch up, the clock and the      *)
(* cluster's controllers move on.  Users, faults and Redis owe nothing.    *)
Fairness ==
  /\ WF_vars(Reconcile)
  /\ WF_vars(SyncScenario) /\ WF_vars(SyncDeployment) /\ WF_vars(SyncConfigMap)
  /\ WF_vars(Meanwhile(GraceExpires))
  /\ WF_vars(Meanwhile(CollectDeployment)) /\ WF_vars(Meanwhile(CollectConfigMap))
  /\ WF_vars(Meanwhile(StartPod)) /\ WF_vars(Meanwhile(StopPod))
  /\ WF_vars(Meanwhile(FinishRollout))

FairSpec == Spec /\ Fairness

----------------------------------------------------------------------------
Reasons == {"ReconcileFailed", "ValidationFailed", "ControllerConfigurationInvalid",
            "RolloutFailed", "RunnerDeploymentChanged", "RunnerDeletionRequested",
            "RunnerProgressing", "RunnerReady", "ScenarioSuspended"}
MaybeReason == Reasons \cup {""}
StatusType ==
  [phase : {"", "Failed", "Degraded", "Progressing", "Ready", "Suspended"},
   observed : 0 .. MaxGeneration,
   conditions : [reason : MaybeReason, observed : 0 .. MaxGeneration]]
MaybeUID == UIDs \cup {Nobody}
MaybeConfig == Configs \cup {0}
ScenarioType ==
  [uid : MaybeUID, config : MaybeConfig, suspend : BOOLEAN,
   generation : 0 .. MaxGeneration, deleting : BOOLEAN, finalizer : BOOLEAN,
   status : StatusType]
DeploymentType ==
  [owner : MaybeUID \cup {Other}, config : MaybeConfig, deleting : BOOLEAN,
   rollout : {"", "progressing", "ready", "failed"}]
ConfigMapType == [owner : MaybeUID, config : MaybeConfig]
Labels == {"idle", "finalize", "suspend", "configMap", "deployment", "observe",
           "status", "stop", "scan", "del", "release", "abandon"}

\* Type correctness of the cluster and of the manager.
TypeOK ==
  /\ scenario \in ScenarioType
  /\ deployment \in DeploymentType
  /\ configMap \in ConfigMapType
  /\ pods \subseteq [owner : UIDs, template : Configs, runs : Configs]
  /\ keys \subseteq UIDs
  /\ lastUID \in 0 .. MaxUID
  /\ expired \subseteq UIDs
  /\ faults \in 0 .. MaxFaults
  /\ cache \in [scenario : ScenarioType, deployment : DeploymentType,
                configMap : ConfigMapType]
  /\ queued \in BOOLEAN
  /\ pc \in Labels
  /\ seen \in ScenarioType
  /\ outcome \in [reason : MaybeReason, requeue : BOOLEAN]
  /\ found \subseteq UIDs
  /\ cleaned \subseteq UIDs /\ abandoned \subseteq UIDs
  /\ stale \subseteq UIDs /\ lingering \subseteq UIDs

(* The finalizer is added before anything can write to Redis: whatever the *)
(* caches show and wherever a reconcile is cut short, a runner that uses   *)
(* Redis, and every key it left, belongs to a scenario that holds the      *)
(* finalizer or that the finalizer has released.                           *)
FinalizerGuardsKeys ==
  \A u \in keys \cup {p.owner : p \in {q \in pods : q.template \in RedisConfigs}} :
    \/ scenario.uid = u /\ scenario.finalizer
    \/ u \in cleaned \cup abandoned

(* reconcileDeletion: a scenario released after a cleanup leaves no key    *)
(* behind, through failed scans, lost DEL replies, conflicts, retries and  *)
(* restarts, unless its runner was still there at the last scan of keys.   *)
CleanedLeavesNoKeys ==
  \A u \in cleaned \ (stale \cup lingering) :
    /\ u \notin keys
    /\ \A p \in pods : p.owner = u => p.template \notin RedisConfigs

(* ensureControlledBy: a Deployment that is not the scenario's is changed  *)
(* or deleted only by a call whose read of the cache still showed the      *)
(* scenario's own; once the informer has seen it, it is safe.  Calls go by *)
(* name with no UID precondition, so the code promises no more than this.  *)
ForeignTouchedOnlyOnStaleRead ==
  [][deployment.owner = Other /\ deployment' # deployment
     => \/ deployment.deleting
        \/ seen # NoScenario /\ ControlledBy(cache.deployment, seen)]_vars

\* A deleted scenario goes away, though Redis never answers again and the
\* name may be held by a foreign Deployment: the grace period bounds the wait.
DeletionCompletes ==
  \A u \in UIDs : (scenario.uid = u /\ scenario.deleting) ~> scenario.uid # u

\* A suspended scenario's runner stops unless the scenario is changed.
SuspendStopsRunner ==
  \A u \in UIDs :
    (scenario.uid = u /\ scenario.suspend) ~>
      \/ ~(scenario.uid = u /\ scenario.suspend)
      \/ deployment.owner # u /\ \A p \in pods : p.owner # u

\* What the status of the scenario should say.
ExpectedReasons ==
  CASE scenario.suspend ->
         IF deployment.owner = Other THEN {"ReconcileFailed"} ELSE {"ScenarioSuspended"}
    [] ~scenario.suspend /\ ~ValidateScenario(scenario) -> {"ValidationFailed"}
    [] ~scenario.suspend /\ ValidateScenario(scenario) /\ RequiresRedis(scenario)
         /\ ~RedisAddress -> {"ControllerConfigurationInvalid"}
    [] OTHER -> IF deployment.owner # scenario.uid THEN {"ReconcileFailed"}
                ELSE {StateFromDeployment(deployment).reason}

(* README: readiness is derived "from the generated Deployment status".    *)
(* Once users and faults are still, the status agrees, phase, conditions   *)
(* and generation, with the scenario and its Deployment: no event that     *)
(* would correct a status computed from stale caches is ever missing.      *)
StatusConverges ==
  <>[](scenario # NoScenario /\ ~scenario.deleting =>
         \E reason \in ExpectedReasons :
           scenario.status = StatusFor(reason, scenario.generation))

(* README: "Roll out the runner when scenario configuration changes": in   *)
(* the end the runner of an active scenario, its Deployment being ready,   *)
(* runs the scenario's configuration.  The code does not guarantee this: a *)
(* Pod that starts between the two patches of an edit which is then        *)
(* reverted keeps what it read.  See RunnerConverges.cfg.                  *)
RunnerConverges ==
  <>[](/\ scenario # NoScenario /\ ~scenario.deleting /\ ~scenario.suspend
       /\ deployment.owner = scenario.uid /\ deployment.rollout = "ready"
       /\ deployment.config = scenario.config
       => \A p \in pods : p.runs = scenario.config)

(* README: a finalizer "stops the runner and removes only that UID's keys  *)
(* when the custom resource is deleted".  No key of a scenario outlives    *)
(* its completed cleanup, if the informer was right about the Deployment.  *)
(* The code does not guarantee this: see OrphanKeys.                       *)
NoKeyOutlivesCleanup == \A u \in cleaned \cap keys : u \in stale
=============================================================================
