-------------------------- MODULE ReconcilerProofs --------------------------
(***************************************************************************)
(* Proofs about the controller, for any configurations, any number of      *)
(* incarnations and edits of a scenario and any number of faults: a       *)
(* Deployment it has seen is not its scenario's is spared, the finalizer   *)
(* is there before any key, and a clean release leaves no key behind.      *)
(*                                                                         *)
(* All of it rests on what a stale copy of an object can still be relied   *)
(* on for: a finalizer seen once is held until the release, a deletion     *)
(* seen once is never undone, and while there is a Deployment of a         *)
(* scenario, no Deployment of another incarnation is cached.               *)
(***************************************************************************)
EXTENDS Reconciler, TLAPS

-----------------------------------------------------------------------------
(* Shapes: what the types leave open.                                      *)

Formed(s) == s = NoScenario \/ (s.uid \in UIDs /\ s.config \in Configs)

Shape ==
  /\ Formed(scenario) /\ Formed(cache.scenario) /\ Formed(seen)
  /\ deployment.owner \in UIDs => deployment.config \in Configs
  /\ configMap.owner \in UIDs => configMap.config \in Configs
  /\ configMap.owner \notin UIDs => configMap = NoConfigMap
  /\ deployment.owner = Nobody => deployment = NoDeployment
  /\ pc # "idle" => seen # NoScenario
  /\ pc = "status" => outcome.reason \in Reasons

(* While a scenario has a Deployment, the informer's copy is not that of   *)
(* another incarnation: it is created only where the informer saw none.    *)
OwnerSeen == deployment.owner \in UIDs => cache.deployment.owner \notin UIDs \ {deployment.owner}

TInv == TypeOK /\ Shape /\ OwnerSeen

-----------------------------------------------------------------------------
(* The finalizer                                                           *)

(* u's keys are, or were, in the finalizer's hands.                        *)
Guarded(u) ==
  \/ scenario.uid = u /\ scenario.finalizer
  \/ u \in cleaned \cup abandoned

FinalizerInv ==
  /\ cache.scenario.finalizer => Guarded(cache.scenario.uid)
  /\ seen.finalizer => Guarded(seen.uid)
  /\ pc \in {"configMap", "deployment"} /\ seen.config \in RedisConfigs => seen.finalizer
  /\ deployment.owner \in UIDs /\ deployment.config \in RedisConfigs =>
       Guarded(deployment.owner)
  /\ FinalizerGuardsKeys

-----------------------------------------------------------------------------
(* The cleanup                                                             *)

Cleaning == {"stop", "scan", "del", "release", "abandon"}

(* Copies are of incarnations there have been, and none is ahead of the    *)
(* next: what is being deleted in one is being deleted in the other.       *)
Aging ==
  /\ scenario.uid <= lastUID /\ cache.scenario.uid <= lastUID /\ seen.uid <= lastUID
  /\ \A u \in cleaned : u <= lastUID
  /\ cache.scenario.deleting /\ cache.scenario.uid = scenario.uid => scenario.deleting
  /\ seen.deleting /\ seen.uid = scenario.uid => scenario.deleting
  /\ seen.deleting /\ seen.uid = cache.scenario.uid => cache.scenario.deleting
  /\ pc # "idle" => (seen.deleting <=> pc \in Cleaning)

(* No reconcile can start a runner for a scenario released after cleanup.  *)
ReleasedIsOver ==
  \A u \in cleaned : /\ scenario.uid # u
                     /\ cache.scenario.uid = u => cache.scenario.deleting
                     /\ seen.uid = u => seen.deleting

NoRunner(u) == deployment.owner # u /\ \A p \in pods : p.owner # u

CleanupInv ==
  /\ \A u \in cleaned \ (stale \cup lingering) : NoRunner(u) /\ u \notin keys
  /\ pc \in {"del", "release"} /\ seen.uid \notin stale \cup lingering =>
       /\ NoRunner(seen.uid)
       /\ seen.uid \in keys => pc = "del" /\ seen.uid \in found

CInv == Aging /\ ReleasedIsOver /\ CleanupInv

-----------------------------------------------------------------------------
(* Records                                                                 *)

Outcomes == [reason : MaybeReason, requeue : BOOLEAN]
Told == [reason : Reasons, requeue : BOOLEAN]

LEMMA Constants ==
  /\ Configs \subseteq Nat \ {0} /\ RedisConfigs \subseteq Configs
  /\ MaxUID \in Nat /\ MaxGeneration \in Nat \ {0} /\ MaxFaults \in Nat
  /\ RedisAddress \in BOOLEAN
  /\ Nobody \notin UIDs /\ Other \notin UIDs /\ Other # Nobody /\ Nobody = 0
  /\ 0 \notin Configs
BY ClusterAssumption, RedisAddressAssumption DEF UIDs, Nobody, Other

LEMMA Nothing ==
  /\ NoScenario \in ScenarioType /\ NoDeployment \in DeploymentType
  /\ NoConfigMap \in ConfigMapType /\ NoOutcome \in Outcomes
  /\ NoScenario.uid = Nobody /\ NoScenario.config = 0
  /\ NoScenario.finalizer = FALSE /\ NoScenario.deleting = FALSE
  /\ NoDeployment.owner = Nobody /\ NoDeployment.config = 0
  /\ NoConfigMap.owner = Nobody
<1> USE Constants
<1>1. NoStatus \in StatusType
  BY DEF NoStatus, StatusType, MaybeReason
<1>2. NoScenario \in ScenarioType
  BY <1>1 DEF NoScenario, ScenarioType, MaybeUID, MaybeConfig
<1>3. NoDeployment \in DeploymentType /\ NoConfigMap \in ConfigMapType /\ NoOutcome \in Outcomes
  BY DEF NoDeployment, DeploymentType, NoConfigMap, ConfigMapType, MaybeUID, MaybeConfig,
     NoOutcome, Outcomes, MaybeReason
<1> QED BY <1>2, <1>3 DEF NoScenario, NoDeployment, NoConfigMap

LEMMA ScenarioFields ==
  ASSUME NEW s \in ScenarioType
  PROVE  /\ s.uid \in MaybeUID /\ s.config \in MaybeConfig /\ s.suspend \in BOOLEAN
         /\ s.generation \in 0 .. MaxGeneration /\ s.deleting \in BOOLEAN
         /\ s.finalizer \in BOOLEAN /\ s.status \in StatusType
BY DEF ScenarioType

Finalized(s) == [s EXCEPT !.finalizer = TRUE]

LEMMA ScenarioFinalized ==
  ASSUME NEW s \in ScenarioType
  PROVE  LET t == Finalized(s)
         IN  /\ t \in ScenarioType /\ t.uid = s.uid /\ t.config = s.config
             /\ t.deleting = s.deleting /\ t.finalizer = TRUE
BY DEF ScenarioType, Finalized

Deleted(s) == [s EXCEPT !.deleting = TRUE]

LEMMA ScenarioDeleted ==
  ASSUME NEW s \in ScenarioType
  PROVE  LET t == Deleted(s)
         IN  /\ t \in ScenarioType /\ t.uid = s.uid /\ t.config = s.config
             /\ t.finalizer = s.finalizer /\ t.deleting = TRUE
BY DEF ScenarioType, Deleted

WithStatus(s, st) == [s EXCEPT !.status = st]

LEMMA ScenarioStatus ==
  ASSUME NEW s \in ScenarioType, NEW st \in StatusType
  PROVE  LET t == WithStatus(s, st)
         IN  /\ t \in ScenarioType /\ t.uid = s.uid /\ t.config = s.config
             /\ t.finalizer = s.finalizer /\ t.deleting = s.deleting
BY DEF ScenarioType, WithStatus

Edited(s, c, b, g) == [s EXCEPT !.config = c, !.suspend = b, !.generation = g]

LEMMA ScenarioEdited ==
  ASSUME NEW s \in ScenarioType, NEW c \in Configs, NEW b \in BOOLEAN,
         s.generation < MaxGeneration
  PROVE  LET t == Edited(s, c, b, s.generation + 1)
         IN  /\ t \in ScenarioType /\ t.uid = s.uid /\ t.config = c
             /\ t.finalizer = s.finalizer /\ t.deleting = s.deleting
<1> USE Constants
<1>1. s.generation + 1 \in 0 .. MaxGeneration
  BY ScenarioFields
<1>2. ASSUME NEW g \in 0 .. MaxGeneration, NEW k \in MaybeConfig
      PROVE  LET r == Edited(s, k, b, g)
             IN  /\ r \in ScenarioType /\ r.uid = s.uid /\ r.config = k
                 /\ r.finalizer = s.finalizer /\ r.deleting = s.deleting
  BY DEF ScenarioType, Edited
<1>3. c \in MaybeConfig
  BY DEF MaybeConfig
<1> QED BY <1>1, <1>2, <1>3

Created(s, u, c, b, g) ==
  [s EXCEPT !.uid = u, !.config = c, !.suspend = b, !.generation = g]

LEMMA ScenarioCreated ==
  ASSUME NEW u \in UIDs, NEW c \in Configs, NEW b \in BOOLEAN
  PROVE  LET t == Created(NoScenario, u, c, b, 1)
         IN  /\ t \in ScenarioType /\ t.uid = u /\ t.config = c
             /\ t.finalizer = FALSE /\ t.deleting = FALSE
<1>1. ASSUME NEW s \in ScenarioType, NEW w \in MaybeUID, NEW k \in MaybeConfig,
             NEW g \in 0 .. MaxGeneration
      PROVE  LET t == Created(s, w, k, b, g)
             IN  /\ t \in ScenarioType /\ t.uid = w /\ t.config = k
                 /\ t.finalizer = s.finalizer /\ t.deleting = s.deleting
  BY DEF ScenarioType, Created
<1>2. u \in MaybeUID /\ c \in MaybeConfig /\ 1 \in 0 .. MaxGeneration
  BY Constants DEF MaybeUID, MaybeConfig
<1> QED BY <1>1, <1>2, Nothing

LEMMA DeploymentFields ==
  ASSUME NEW d \in DeploymentType
  PROVE  /\ d.owner \in MaybeUID \cup {Other} /\ d.config \in MaybeConfig
         /\ d.deleting \in BOOLEAN /\ d.rollout \in {"", "progressing", "ready", "failed"}
BY DEF DeploymentType

Stopping(d) == [d EXCEPT !.deleting = TRUE]
RolledOut(d, r) == [d EXCEPT !.rollout = r]

LEMMA DeploymentUpdates ==
  ASSUME NEW d \in DeploymentType
  PROVE  /\ Stopping(d) \in DeploymentType
         /\ Stopping(d).owner = d.owner /\ Stopping(d).config = d.config
         /\ \A r \in {"", "progressing", "ready", "failed"} :
              /\ RolledOut(d, r) \in DeploymentType
              /\ RolledOut(d, r).owner = d.owner /\ RolledOut(d, r).config = d.config
BY DEF DeploymentType, Stopping, RolledOut

LEMMA DeploymentManaged ==
  ASSUME NEW d \in DeploymentType, NEW e, e.config \in Configs
  PROVE  LET m == ManagedFields(d, e)
         IN  m \in DeploymentType /\ m.owner = d.owner /\ m.config = e.config
<1>1. ASSUME NEW c \in MaybeConfig, NEW r \in {"", "progressing", "ready", "failed"}
      PROVE  LET m == [d EXCEPT !.config = c, !.rollout = r]
             IN  m \in DeploymentType /\ m.owner = d.owner /\ m.config = c
  BY DEF DeploymentType
<1>2. e.config \in MaybeConfig
  BY DEF MaybeConfig
<1> QED BY <1>1, <1>2 DEF ManagedFields

LEMMA DesiredObjects ==
  ASSUME NEW s \in ScenarioType, s.uid \in UIDs, s.config \in Configs
  PROVE  /\ DesiredDeployment(s) \in DeploymentType
         /\ DesiredDeployment(s).owner = s.uid /\ DesiredDeployment(s).config = s.config
         /\ DesiredConfigMap(s) \in ConfigMapType
         /\ DesiredConfigMap(s).owner = s.uid /\ DesiredConfigMap(s).config = s.config
BY DEF DesiredDeployment, DesiredConfigMap, DeploymentType, ConfigMapType, MaybeUID, MaybeConfig

Patched(m, c) == [m EXCEPT !.config = c]

LEMMA ConfigMapUpdate ==
  ASSUME NEW m \in ConfigMapType, NEW c \in Configs
  PROVE  /\ Patched(m, c) \in ConfigMapType
         /\ Patched(m, c).owner = m.owner /\ Patched(m, c).config = c
BY DEF ConfigMapType, MaybeConfig, Patched

Caches == [scenario : ScenarioType, deployment : DeploymentType, configMap : ConfigMapType]

LEMMA CacheFields ==
  ASSUME NEW k \in Caches, NEW s \in ScenarioType, NEW d \in DeploymentType, NEW m \in ConfigMapType
  PROVE  /\ k.scenario \in ScenarioType /\ k.deployment \in DeploymentType
         /\ k.configMap \in ConfigMapType
         /\ [k EXCEPT !.scenario = s] \in Caches /\ [k EXCEPT !.scenario = s].scenario = s
         /\ [k EXCEPT !.scenario = s].deployment = k.deployment
         /\ [k EXCEPT !.deployment = d] \in Caches /\ [k EXCEPT !.deployment = d].deployment = d
         /\ [k EXCEPT !.deployment = d].scenario = k.scenario
         /\ [k EXCEPT !.configMap = m] \in Caches
         /\ [k EXCEPT !.configMap = m].scenario = k.scenario
         /\ [k EXCEPT !.configMap = m].deployment = k.deployment
BY DEF Caches

-----------------------------------------------------------------------------
(* What the steps of a reconcile do, with the calls they make spelled out. *)

(* Reconcile returns; it goes on to another call; a call is counted.       *)
Ended ==
  /\ pc' = "idle" /\ seen' = NoScenario /\ outcome' = NoOutcome /\ found' = {}
  /\ queued' \in BOOLEAN

MovedTo(labels) ==
  /\ pc' \in labels /\ outcome' \in Outcomes /\ (pc' = "status" => outcome' \in Told)
  /\ UNCHANGED <<queued, seen, found>>

Counted == faults' \in 0 .. MaxFaults

(* From its suspend branch on, Reconcile reports or makes a call.          *)
Onward(s) ==
  /\ Proceed(s).pc \in {"suspend", "status", "configMap"}
  /\ Proceed(s).outcome \in Outcomes
  /\ Proceed(s).pc = "status" => Proceed(s).outcome \in Told

LEMMA OutcomeFields ==
  /\ \A r \in Reasons, b \in BOOLEAN : [reason |-> r, requeue |-> b] \in Told
  /\ \A o \in Told : o \in Outcomes /\ o.reason \in Reasons
  /\ \A o \in Outcomes : o.reason \in MaybeReason /\ o.requeue \in BOOLEAN
  /\ NoOutcome \in Outcomes
BY Nothing DEF Told, Outcomes, MaybeReason

LEMMA Reported ==
  ASSUME NEW o \in Told
  PROVE  /\ Report(o).pc = "status" /\ Report(o).outcome = o
BY DEF Report

LEMMA Outcome ==
  /\ \A b \in BOOLEAN : /\ Failed("ReconcileFailed", b) \in Told
                        /\ Failed("ValidationFailed", b) \in Told
                        /\ Failed("ControllerConfigurationInvalid", b) \in Told
  /\ Progressing("RunnerDeletionRequested") \in Told
  /\ Progressing("RunnerDeploymentChanged") \in Told
  /\ Progressing("RunnerProgressing") \in Told
  /\ Settled("ScenarioSuspended") \in Told /\ Settled("RunnerReady") \in Told
  /\ Settled("RolloutFailed") \in Told
BY OutcomeFields DEF Failed, Progressing, Settled, Reasons

LEMMA Proceeds == ASSUME NEW s PROVE Onward(s)
<1>1. CASE s.suspend
  BY <1>1, OutcomeFields DEF Proceed, At, Onward
<1>2. CASE ~s.suspend /\ ~ValidateScenario(s)
  BY <1>2, Outcome, OutcomeFields, Reported DEF Proceed, Onward
<1>3. CASE ~s.suspend /\ ValidateScenario(s) /\ RequiresRedis(s) /\ ~RedisAddress
  BY <1>3, Outcome, OutcomeFields, Reported DEF Proceed, Onward
<1>4. CASE ~s.suspend /\ ValidateScenario(s) /\ ~(RequiresRedis(s) /\ ~RedisAddress)
  BY <1>4, OutcomeFields DEF Proceed, At, Onward
<1> QED BY <1>1, <1>2, <1>3, <1>4

LEMMA GoesTo ==
  ASSUME NEW l, NEW labels, l \in labels, l # "status"
  PROVE  Goto(At(l)) => MovedTo(labels)
BY OutcomeFields DEF Goto, At, MovedTo

LEMMA Reports ==
  ASSUME NEW o \in Told
  PROVE  Goto(Report(o)) => MovedTo({"status"})
BY OutcomeFields, Reported DEF Goto, MovedTo

LEMMA Returns ==
  ASSUME NEW b \in BOOLEAN, queued \in BOOLEAN
  PROVE  Return(b) => Ended
BY DEF Return, Ended


LEMMA BeginSteps ==
  ASSUME TypeOK, Begin
  PROVE  /\ pc = "idle" /\ UNCHANGED <<cluster, cache, found, history>> /\ queued' = FALSE
         /\ \/ pc' = "idle" /\ seen' = NoScenario /\ outcome' = NoOutcome
            \/ /\ seen' = cache.scenario /\ cache.scenario # NoScenario
               /\ outcome' \in Outcomes /\ (pc' = "status" => outcome' \in Told)
               /\ \/ seen'.deleting /\ seen'.finalizer /\ pc' = "stop"
                  \/ ~seen'.deleting /\ pc' = "finalize" /\ seen'.config \in RedisConfigs
                  \/ /\ ~seen'.deleting /\ pc' \in {"suspend", "status", "configMap"}
                     /\ seen'.config \in RedisConfigs => seen'.finalizer
<1> DEFINE s == cache.scenario
<1>0. s \in ScenarioType /\ s.deleting \in BOOLEAN /\ s.finalizer \in BOOLEAN
  BY ScenarioFields DEF TypeOK
<1>1. CASE s = NoScenario \/ (s.deleting /\ ~s.finalizer)
  <2>1. ~(s.deleting /\ s.finalizer) /\ (~s.deleting => s = NoScenario)
    BY <1>0, <1>1, Nothing
  <2>2. s = NoScenario => ~RequiresRedis(s)
    BY Nothing, Constants DEF RequiresRedis
  <2>3. FirstCall(s) = At("idle")
    BY <1>1, <2>1, <2>2 DEF FirstCall
  <2> QED BY <2>3 DEF Begin, At
<1>2. CASE s # NoScenario /\ s.deleting /\ s.finalizer
  <2>1. FirstCall(s) = At("stop")
    BY <1>2 DEF FirstCall
  <2> QED BY <2>1, <1>2, OutcomeFields DEF Begin, At
<1>3. CASE s # NoScenario /\ ~s.deleting /\ RequiresRedis(s) /\ ~s.finalizer
  <2>1. FirstCall(s) = At("finalize")
    BY <1>3 DEF FirstCall, RedisClientIsNil
  <2> QED BY <2>1, <1>3, OutcomeFields DEF Begin, At, RequiresRedis
<1>4. CASE s # NoScenario /\ ~s.deleting /\ ~(RequiresRedis(s) /\ ~s.finalizer)
  <2>1. FirstCall(s) = Proceed(s)
    BY <1>4 DEF FirstCall, RedisClientIsNil
  <2>2. Onward(s)
    BY Proceeds
  <2> QED BY <2>1, <2>2, <1>4, OutcomeFields DEF Begin, Onward, RequiresRedis
<1> QED BY <1>0, <1>1, <1>2, <1>3, <1>4

LEMMA AddFinalizerSteps ==
  ASSUME TypeOK, AddFinalizer
  PROVE  /\ pc = "finalize" /\ Counted
         /\ UNCHANGED <<deployment, configMap, pods, keys, lastUID, expired, cache, history>>
         /\ \/ /\ scenario = seen /\ scenario' = Finalized(seen)
               /\ seen' = Finalized(seen) /\ UNCHANGED <<queued, found>>
               /\ pc' \in {"suspend", "status", "configMap"}
               /\ outcome' \in Outcomes /\ (pc' = "status" => outcome' \in Told)
            \/ /\ Ended
               /\ scenario' = scenario \/ (scenario = seen /\ scenario' = Finalized(seen))
<1>1. Onward(seen) /\ (Return(TRUE) => Ended)
  BY Proceeds, Returns DEF TypeOK
<1>2. faults \in 0 .. MaxFaults /\ MaxFaults \in Nat
  BY Constants DEF TypeOK
<1> DEFINE written == scenario' = Finalized(scenario)
           unwritten == scenario' = scenario
           goOn == /\ pc' = Proceed(seen).pc /\ outcome' = Proceed(seen).outcome
                   /\ seen' = Finalized(seen)
                   /\ UNCHANGED <<queued, found>>
           retry == Return(TRUE)
<1>3. IF scenario = seen THEN Call(written, unwritten, goOn, retry) ELSE Without(unwritten, retry)
  BY Zenon DEF AddFinalizer, Finalized
<1> HIDE DEF written, unwritten, goOn, retry
<1>4. Counted
  BY <1>2, <1>3 DEF Call, Without, Counted
<1>5. \/ scenario = seen /\ written /\ goOn
      \/ retry /\ (unwritten \/ (scenario = seen /\ written))
  BY <1>3 DEF Call, Without
<1> QED BY <1>1, <1>4, <1>5 DEF AddFinalizer, Onward, written, unwritten, goOn, retry

LEMMA SuspendSteps ==
  ASSUME TypeOK, Suspend
  PROVE  /\ pc = "suspend" /\ Counted /\ MovedTo({"status"})
         /\ UNCHANGED <<scenario, configMap, pods, keys, lastUID, expired, cache, history>>
         /\ \/ deployment' = deployment
            \/ /\ deployment' = NoDeployment
               /\ cache.deployment # NoDeployment /\ cache.deployment.owner = seen.uid
<1> DEFINE suspended == Goto(Report(Settled("ScenarioSuspended")))
           failed == Goto(Report(Failed("ReconcileFailed", TRUE)))
           requested == Goto(Report(Progressing("RunnerDeletionRequested")))
<1>1. suspended \/ failed \/ requested => MovedTo({"status"})
  BY Outcome, Reports
<1> HIDE DEF suspended, failed, requested
<1>2. faults \in 0 .. MaxFaults /\ MaxFaults \in Nat
  BY Constants DEF TypeOK
<1>3. CASE cache.deployment = NoDeployment \/ ~ControlledBy(cache.deployment, seen)
  BY <1>1, <1>2, <1>3 DEF Suspend, Without, Counted, suspended, failed
<1>4. CASE cache.deployment # NoDeployment /\ ControlledBy(cache.deployment, seen)
  <2>1. Call(deployment' = IF deployment.deleting THEN deployment ELSE NoDeployment,
             deployment' = deployment, requested, failed)
    BY <1>4 DEF Suspend, requested, failed
  <2>2. deployment' \in {deployment, NoDeployment} /\ (requested \/ failed)
    BY <2>1 DEF Call
  <2>3. Counted
    BY <2>1, <1>2 DEF Call, Counted
  <2> QED BY <2>2, <2>3, <1>1, <1>4 DEF Suspend, ControlledBy
<1> QED BY <1>3, <1>4

LEMMA ApplyConfigMapSteps ==
  ASSUME TypeOK, ApplyConfigMap
  PROVE  /\ pc = "configMap" /\ Counted /\ MovedTo({"deployment", "status"})
         /\ UNCHANGED <<scenario, deployment, pods, keys, lastUID, expired, cache, history>>
         /\ \/ configMap' = configMap
            \/ configMap.owner = Nobody /\ configMap' = DesiredConfigMap(seen)
            \/ configMap.owner # Nobody /\ configMap' = Patched(configMap, seen.config)
<1> DEFINE create == configMap' = DesiredConfigMap(seen)
           patch == configMap' = Patched(configMap, seen.config)
           keep == configMap' = configMap
           on == Goto(At("deployment"))
           failed == Goto(Report(Failed("ReconcileFailed", TRUE)))
<1>1. on \/ failed => MovedTo({"deployment", "status"})
  <2>1. on => MovedTo({"deployment"})
    BY GoesTo
  <2>2. failed => MovedTo({"status"})
    BY Outcome, Reports
  <2> QED BY <2>1, <2>2 DEF MovedTo
<1>2. faults \in 0 .. MaxFaults /\ MaxFaults \in Nat
  BY Constants DEF TypeOK
<1>3. Apply(cache.configMap, DesiredConfigMap(seen), configMap, create, patch, keep, on, on)
  BY Zenon DEF ApplyConfigMap, Patched
<1> HIDE DEF create, patch, keep, on
<1>4. \/ Without(keep, on \/ failed)
      \/ configMap.owner = Nobody /\ Call(create, keep, on, failed)
      \/ configMap.owner # Nobody /\ Call(patch, keep, on, failed)
  BY <1>3 DEF Apply, Without
<1> HIDE DEF failed
<1>5. Counted
  BY <1>2, <1>4 DEF Call, Without, Counted
<1>6. /\ on \/ failed
      /\ \/ keep
         \/ configMap.owner = Nobody /\ create
         \/ configMap.owner # Nobody /\ patch
  BY <1>4 DEF Call, Without
<1> QED BY <1>1, <1>5, <1>6 DEF ApplyConfigMap, create, patch, keep

LEMMA ApplyDeploymentSteps ==
  ASSUME TypeOK, ApplyDeployment
  PROVE  /\ pc = "deployment" /\ Counted /\ MovedTo({"observe", "status"})
         /\ UNCHANGED <<scenario, configMap, pods, keys, lastUID, expired, cache, history>>
         /\ \/ deployment' = deployment
            \/ /\ cache.deployment.owner = Nobody /\ deployment.owner = Nobody
               /\ deployment' = DesiredDeployment(seen)
            \/ /\ cache.deployment.owner = seen.uid /\ deployment.owner # Nobody
               /\ deployment' = ManagedFields(deployment, DesiredDeployment(seen))
<1> DEFINE create == deployment' = DesiredDeployment(seen)
           patch == deployment' = ManagedFields(deployment, DesiredDeployment(seen))
           keep == deployment' = deployment
           changed == Goto(Report(Progressing("RunnerDeploymentChanged")))
           same == Goto(At("observe"))
           failed == Goto(Report(Failed("ReconcileFailed", TRUE)))
<1>1. changed \/ same \/ failed => MovedTo({"observe", "status"})
  <2>1. same => MovedTo({"observe"})
    BY GoesTo
  <2>2. changed \/ failed => MovedTo({"status"})
    BY Outcome, Reports
  <2> QED BY <2>1, <2>2 DEF MovedTo
<1>2. faults \in 0 .. MaxFaults /\ MaxFaults \in Nat
  BY Constants DEF TypeOK
<1>3. Apply(cache.deployment, DesiredDeployment(seen), deployment, create, patch, keep,
            changed, same)
  BY Zenon DEF ApplyDeployment
<1> HIDE DEF create, patch, keep, changed, same
<1>4. \/ Without(keep, same \/ failed)
      \/ /\ cache.deployment.owner = Nobody /\ deployment.owner = Nobody
         /\ Call(create, keep, changed, failed)
      \/ /\ cache.deployment.owner = seen.uid /\ deployment.owner # Nobody
         /\ Call(patch, keep, changed, failed)
  BY <1>3 DEF Apply, Without, ControlledBy
<1> HIDE DEF failed
<1>5. Counted
  BY <1>2, <1>4 DEF Call, Without, Counted
<1>6. /\ changed \/ same \/ failed
      /\ \/ keep
         \/ cache.deployment.owner = Nobody /\ deployment.owner = Nobody /\ create
         \/ cache.deployment.owner = seen.uid /\ deployment.owner # Nobody /\ patch
  BY <1>4 DEF Call, Without
<1> QED BY <1>1, <1>5, <1>6 DEF ApplyDeployment, create, patch, keep

LEMMA ObserveSteps ==
  ASSUME TypeOK, ObserveDeployment
  PROVE  pc = "observe" /\ MovedTo({"status"}) /\ UNCHANGED <<cluster, cache, history>>
<1>1. StateFromDeployment(cache.deployment) \in Told /\ Failed("ReconcileFailed", TRUE) \in Told
  BY Outcome DEF StateFromDeployment
<1> QED BY <1>1, Reports DEF ObserveDeployment

LEMMA StatusIsTyped ==
  ASSUME NEW r \in Reasons, NEW g \in 0 .. MaxGeneration, NEW s \in StatusType, NEW c \in StatusType
  PROVE  LET new == StatusFor(r, g)
         IN  [f \in DOMAIN new |-> IF new[f] = s[f] THEN c[f] ELSE new[f]] \in StatusType
<1> DEFINE new == StatusFor(r, g)
           merged == [f \in DOMAIN new |-> IF new[f] = s[f] THEN c[f] ELSE new[f]]
<1>1. PhaseOf(r) \in {"", "Failed", "Degraded", "Progressing", "Ready", "Suspended"}
  BY DEF PhaseOf, Reasons
<1>2. new \in StatusType /\ DOMAIN new = {"phase", "observed", "conditions"}
  BY <1>1 DEF StatusFor, StatusType, MaybeReason
<1>3. merged = [phase |-> merged.phase, observed |-> merged.observed, conditions |-> merged.conditions]
  BY <1>2
<1> QED BY <1>2, <1>3 DEF StatusType

LEMMA UpdateStatusSteps ==
  ASSUME TypeOK, UpdateStatus, outcome.reason \in Reasons
  PROVE  /\ pc = "status" /\ Counted /\ Ended
         /\ UNCHANGED <<deployment, configMap, pods, keys, lastUID, expired, cache, history>>
         /\ \/ scenario' = scenario
            \/ /\ scenario # NoScenario
               /\ \E st \in StatusType : scenario' = WithStatus(scenario, st)
<1> DEFINE new == StatusFor(outcome.reason, seen.generation)
           merged == [f \in DOMAIN new |-> IF new[f] = seen.status[f]
                                           THEN scenario.status[f] ELSE new[f]]
           written == scenario' = WithStatus(scenario, merged)
           unwritten == scenario' = scenario
           done == Return(outcome.requeue)
           retry == Return(TRUE)
<1>1. merged \in StatusType
  BY StatusIsTyped, ScenarioFields DEF TypeOK
<1>2. done \/ retry => Ended
  BY Returns, OutcomeFields DEF TypeOK, Outcomes
<1>3. faults \in 0 .. MaxFaults /\ MaxFaults \in Nat
  BY Constants DEF TypeOK
<1>4. (CASE new = seen.status ->
              Without(unwritten, done)
         [] new # seen.status /\ scenario = NoScenario ->
              Without(unwritten, retry)
         [] OTHER -> Call(written, unwritten, done, retry))
  BY Zenon DEF UpdateStatus, WithStatus
<1> HIDE DEF new, merged, written, unwritten, done, retry
<1>5. \/ Without(unwritten, done \/ retry)
      \/ scenario # NoScenario /\ Call(written, unwritten, done, retry)
  BY <1>4 DEF Without
<1>6. Counted
  BY <1>3, <1>5 DEF Call, Without, Counted
<1>7. (done \/ retry) /\ (unwritten \/ (scenario # NoScenario /\ written))
  BY <1>5 DEF Call, Without
<1> QED BY <1>1, <1>2, <1>6, <1>7 DEF UpdateStatus, written, unwritten

LEMMA GivesUp ==
  ASSUME TypeOK
  PROVE  RetryOrAbandon => Ended \/ MovedTo({"abandon"})
BY Returns, GoesTo DEF RetryOrAbandon, TypeOK

LEMMA StopRunnerSteps ==
  ASSUME TypeOK, StopRunner
  PROVE  /\ pc = "stop" /\ Counted
         /\ UNCHANGED <<scenario, configMap, pods, keys, lastUID, expired, cache, history>>
         /\ \/ deployment' = deployment /\ MovedTo({"scan"})
            \/ /\ Ended \/ MovedTo({"abandon"})
               /\ \/ deployment' = deployment
                  \/ /\ cache.deployment # NoDeployment /\ cache.deployment.owner = seen.uid
                     /\ deployment # NoDeployment
                     /\ deployment' = Stopping(deployment)
<1> DEFINE written == deployment' = IF deployment = NoDeployment THEN deployment
                                    ELSE Stopping(deployment)
           unwritten == deployment' = deployment
           on == Goto(At("scan"))
           retry == RetryOrAbandon
<1>1. (on => MovedTo({"scan"})) /\ (retry => Ended \/ MovedTo({"abandon"}))
  BY GivesUp, GoesTo
<1>2. faults \in 0 .. MaxFaults /\ MaxFaults \in Nat
  BY Constants DEF TypeOK
<1>3. (CASE cache.deployment = NoDeployment -> Without(unwritten, on)
         [] cache.deployment # NoDeployment /\ ~ControlledBy(cache.deployment, seen) ->
              Without(unwritten, retry)
         [] OTHER -> Call(written, unwritten, retry, retry))
  BY Zenon DEF StopRunner, Stopping
<1> HIDE DEF written, unwritten, on, retry
<1>4. \/ Without(unwritten, on \/ retry)
      \/ /\ cache.deployment # NoDeployment /\ ControlledBy(cache.deployment, seen)
         /\ Call(written, unwritten, retry, retry)
  BY <1>3 DEF Without
<1>5. Counted
  BY <1>2, <1>4 DEF Call, Without, Counted
<1>6. \/ unwritten /\ on
      \/ /\ retry
         /\ \/ unwritten
            \/ /\ cache.deployment # NoDeployment /\ cache.deployment.owner = seen.uid
               /\ written
  BY <1>4 DEF Call, Without, ControlledBy
<1>7. written => \/ deployment' = deployment
                 \/ /\ deployment # NoDeployment
                    /\ deployment' = Stopping(deployment)
  BY DEF written
<1> QED BY <1>1, <1>5, <1>6, <1>7 DEF StopRunner, unwritten

(* A scan that Redis answers.                                              *)
Scanned ==
  /\ found' = keys \cap {seen.uid}
  /\ pc' = IF seen.uid \in keys THEN "del" ELSE "release"
  /\ IF seen.uid \in cleaned THEN UNCHANGED <<stale, lingering>> ELSE NoteRunner
  /\ UNCHANGED <<queued, seen, outcome>>

LEMMA ScanKeysSteps ==
  ASSUME TypeOK, ScanKeys
  PROVE  /\ pc = "scan" /\ UNCHANGED <<cluster, cache, cleaned, abandoned>>
         /\ \/ (Ended \/ MovedTo({"abandon"})) /\ UNCHANGED <<stale, lingering>>
            \/ Scanned
<1>1. (RetryOrAbandon => Ended \/ MovedTo({"abandon"})) /\ (Return(TRUE) => Ended)
  BY GivesUp, Returns DEF TypeOK
<1> QED BY <1>1 DEF ScanKeys, Scanned, RedisClientIsNil

LEMMA DeleteKeysSteps ==
  ASSUME TypeOK, DeleteKeys
  PROVE  /\ pc = "del"
         /\ UNCHANGED <<scenario, deployment, configMap, pods, lastUID, expired,
                        faults, cache, history>>
         /\ \/ keys' = keys \ found /\ MovedTo({"release"})
            \/ keys' \in {keys, keys \ found} /\ (Ended \/ MovedTo({"abandon"}))
<1>1. /\ RetryOrAbandon => Ended \/ MovedTo({"abandon"})
      /\ Goto(At("release")) => MovedTo({"release"})
  BY GivesUp, GoesTo
<1> QED BY <1>1 DEF DeleteKeys

(* The finalizer is removed, and the scenario with it.                     *)
Released ==
  /\ scenario = seen /\ scenario' = NoScenario
  /\ cleaned' = IF pc = "release" THEN cleaned \cup {seen.uid} ELSE cleaned
  /\ abandoned' = IF pc = "abandon" THEN abandoned \cup {seen.uid} ELSE abandoned

LEMMA ReleaseSteps ==
  ASSUME TypeOK, ReleaseScenario
  PROVE  /\ pc \in {"release", "abandon"} /\ Counted /\ Ended
         /\ UNCHANGED <<deployment, configMap, pods, keys, lastUID, expired, cache,
                        stale, lingering>>
         /\ Released \/ UNCHANGED <<scenario, cleaned, abandoned>>
<1> DEFINE written ==
             /\ scenario' = NoScenario
             /\ cleaned' = IF pc = "release" THEN cleaned \cup {seen.uid} ELSE cleaned
             /\ abandoned' = IF pc = "abandon" THEN abandoned \cup {seen.uid} ELSE abandoned
           unwritten == UNCHANGED <<scenario, cleaned, abandoned>>
           done == Return(FALSE)
           retry == Return(TRUE)
<1>1. done \/ retry => Ended
  BY Returns DEF TypeOK
<1>2. faults \in 0 .. MaxFaults /\ MaxFaults \in Nat
  BY Constants DEF TypeOK
<1>3. IF scenario = seen THEN Call(written, unwritten, done, retry) ELSE Without(unwritten, retry)
  BY Zenon DEF ReleaseScenario
<1> HIDE DEF written, unwritten, done, retry
<1>4. Counted
  BY <1>2, <1>3 DEF Call, Without, Counted
<1>5. (done \/ retry) /\ (unwritten \/ (scenario = seen /\ written))
  BY <1>3 DEF Call, Without
<1>6. scenario = seen /\ written => Released
  BY DEF written, Released
<1> QED BY <1>1, <1>4, <1>5, <1>6 DEF ReleaseScenario, unwritten

-----------------------------------------------------------------------------
(* Types                                                                   *)

LEMMA Facts ==
  ASSUME TypeOK
  PROVE  /\ scenario \in ScenarioType /\ seen \in ScenarioType /\ cache.scenario \in ScenarioType
         /\ deployment \in DeploymentType /\ cache.deployment \in DeploymentType
         /\ configMap \in ConfigMapType /\ cache.configMap \in ConfigMapType
         /\ cache \in Caches /\ outcome \in Outcomes
         /\ deployment.owner \in MaybeUID \cup {Other}
         /\ cache.deployment.owner \in MaybeUID \cup {Other}
         /\ configMap.owner \in MaybeUID
         /\ scenario.uid \in MaybeUID /\ seen.uid \in MaybeUID /\ cache.scenario.uid \in MaybeUID
         /\ scenario.deleting \in BOOLEAN /\ scenario.finalizer \in BOOLEAN
         /\ seen.deleting \in BOOLEAN /\ seen.finalizer \in BOOLEAN
         /\ cache.scenario.deleting \in BOOLEAN /\ cache.scenario.finalizer \in BOOLEAN
<1>1. cache \in Caches /\ outcome \in Outcomes
  BY DEF TypeOK, Caches, Outcomes
<1>2. /\ cache.scenario \in ScenarioType /\ cache.deployment \in DeploymentType
      /\ cache.configMap \in ConfigMapType
  BY <1>1 DEF Caches
<1>3. configMap.owner \in MaybeUID
  BY DEF TypeOK, ConfigMapType
<1> QED BY <1>1, <1>2, <1>3, ScenarioFields, DeploymentFields DEF TypeOK

LEMMA InitTInv == Init => TInv
<1> SUFFICES ASSUME Init PROVE TInv
  OBVIOUS
<1> USE Nothing, Constants
<1>1. cache \in [scenario : ScenarioType, deployment : DeploymentType, configMap : ConfigMapType]
  BY DEF Init
<1>2. scenario \in ScenarioType /\ deployment \in DeploymentType /\ configMap \in ConfigMapType
  BY DEF Init, ClusterInit
<1>3. seen \in ScenarioType /\ outcome \in Outcomes
  BY DEF Init
<1>4. lastUID \in 0 .. MaxUID /\ faults \in 0 .. MaxFaults
  BY DEF Init, ClusterInit
<1>5. TypeOK
  BY <1>1, <1>2, <1>3, <1>4 DEF Init, ClusterInit, TypeOK, Labels, Outcomes
<1>6. cache.scenario = NoScenario /\ cache.deployment = NoDeployment
  BY DEF Init
<1>7. Shape /\ OwnerSeen
  BY <1>6 DEF Init, ClusterInit, Shape, Formed, OwnerSeen
<1> QED BY <1>5, <1>7 DEF TInv

(* What a step of Reconcile leaves of the manager's own state: it has      *)
(* returned, or gone on with a typed outcome and the scenario it had.      *)
ManagerTyped ==
  /\ queued' \in BOOLEAN /\ pc' \in Labels /\ seen' \in ScenarioType /\ outcome' \in Outcomes
  /\ found' \subseteq UIDs
  /\ Formed(seen') /\ (pc' # "idle" => seen' # NoScenario)
  /\ pc' = "status" => outcome'.reason \in Reasons

LEMMA EndedTyped == Ended => ManagerTyped
BY Nothing, OutcomeFields DEF Ended, ManagerTyped, Formed, Labels

LEMMA MovedTyped ==
  ASSUME TInv, pc # "idle", NEW labels \in SUBSET Labels
  PROVE  MovedTo(labels) => ManagerTyped
BY OutcomeFields DEF TInv, TypeOK, Shape, MovedTo, ManagerTyped

LEMMA SeenFormed ==
  ASSUME TInv, pc # "idle"
  PROVE  seen \in ScenarioType /\ seen.uid \in UIDs /\ seen.config \in Configs
BY DEF TInv, TypeOK, Shape, Formed

LEMMA ReconcileTInv ==
  ASSUME TInv, Reconcile
  PROVE  TInv'
<1> USE Facts, Constants, Nothing DEF TInv
<1>1. CASE Begin
  <2>1. ManagerTyped
    <3>1. outcome' \in Outcomes /\ (pc' = "status" => outcome'.reason \in Reasons)
      BY <1>1, BeginSteps, OutcomeFields
    <3>2. pc' \in Labels
      BY <1>1, BeginSteps DEF Labels
    <3>3. seen' \in ScenarioType /\ Formed(seen') /\ (pc' # "idle" => seen' # NoScenario)
      BY <1>1, BeginSteps DEF Shape, Formed
    <3> QED BY <1>1, <3>1, <3>2, <3>3, BeginSteps DEF ManagerTyped, TypeOK
  <2> QED BY <1>1, <2>1, BeginSteps DEF ManagerTyped, TypeOK, Shape, OwnerSeen, Formed, cluster, history, Outcomes
<1>2. CASE AddFinalizer
  <2>0. pc # "idle"
    BY <1>2 DEF AddFinalizer
  <2>1. Finalized(seen) \in ScenarioType /\ Formed(Finalized(seen)) /\ Finalized(seen) # NoScenario
    BY <2>0, SeenFormed, ScenarioFinalized DEF Formed
  <2>2. ManagerTyped /\ Counted
    BY <1>2, <2>1, AddFinalizerSteps, EndedTyped, OutcomeFields DEF ManagerTyped, TypeOK, Shape, Labels
  <2>3. scenario' \in ScenarioType /\ Formed(scenario')
    BY <1>2, <2>1, AddFinalizerSteps DEF Shape
  <2> QED BY <1>2, <2>2, <2>3, AddFinalizerSteps DEF ManagerTyped, Counted, TypeOK, Shape, OwnerSeen, Formed, history, Outcomes
<1>3. CASE Suspend
  <2>1. ManagerTyped /\ Counted
    BY <1>3, SuspendSteps, MovedTyped DEF Labels
  <2> QED BY <1>3, <2>1, SuspendSteps DEF ManagerTyped, Counted, TypeOK, Shape, OwnerSeen, Formed, history, Outcomes
<1>4. CASE ApplyConfigMap
  <2>1. ManagerTyped /\ Counted
    BY <1>4, ApplyConfigMapSteps, MovedTyped DEF Labels
  <2>2. seen \in ScenarioType /\ seen.uid \in UIDs /\ seen.config \in Configs
    BY <1>4, SeenFormed DEF ApplyConfigMap
  <2>3. /\ configMap' \in ConfigMapType
        /\ configMap'.owner \in UIDs => configMap'.config \in Configs
        /\ configMap'.owner \notin UIDs => configMap' = NoConfigMap
    <3>1. CASE configMap' = configMap
      BY <3>1 DEF TypeOK, Shape
    <3>2. CASE configMap' = DesiredConfigMap(seen)
      BY <3>2, <2>2, DesiredObjects
    <3>3. CASE configMap.owner # Nobody /\ configMap' = Patched(configMap, seen.config)
      <4>1. configMap.owner \in UIDs
        BY <3>3 DEF MaybeUID
      <4> QED BY <3>3, <4>1, <2>2, ConfigMapUpdate
    <3> QED BY <1>4, <3>1, <3>2, <3>3, ApplyConfigMapSteps
  <2> QED BY <1>4, <2>1, <2>3, ApplyConfigMapSteps DEF ManagerTyped, Counted, TypeOK, Shape, OwnerSeen, Formed, history, Outcomes
<1>5. CASE ApplyDeployment
  <2>1. ManagerTyped /\ Counted
    BY <1>5, ApplyDeploymentSteps, MovedTyped DEF Labels
  <2>2. seen \in ScenarioType /\ seen.uid \in UIDs /\ seen.config \in Configs
    BY <1>5, SeenFormed DEF ApplyDeployment
  <2>3. LET m == ManagedFields(deployment, DesiredDeployment(seen))
        IN  m \in DeploymentType /\ m.owner = deployment.owner /\ m.config = seen.config
    <3>1. DesiredDeployment(seen).config = seen.config
      BY <2>2, DesiredObjects
    <3>2. DesiredDeployment(seen).config \in Configs /\ deployment \in DeploymentType
      BY <2>2, <3>1
    <3> HIDE DEF TInv
    <3> QED BY ONLY <3>1, <3>2, DeploymentManaged
  <2>4. /\ deployment' \in DeploymentType
        /\ deployment'.owner \in UIDs => deployment'.config \in Configs
        /\ deployment'.owner = Nobody => deployment' = NoDeployment
        /\ deployment'.owner \in UIDs => cache.deployment.owner \notin UIDs \ {deployment'.owner}
    <3>1. CASE deployment' = deployment
      BY <3>1 DEF TypeOK, Shape, OwnerSeen
    <3>2. CASE /\ cache.deployment.owner = Nobody /\ deployment.owner = Nobody
               /\ deployment' = DesiredDeployment(seen)
      BY <3>2, <2>2, DesiredObjects
    <3>3. CASE /\ cache.deployment.owner = seen.uid /\ deployment.owner # Nobody
               /\ deployment' = ManagedFields(deployment, DesiredDeployment(seen))
      BY <3>3, <2>2, <2>3 DEF TypeOK, Shape, OwnerSeen
    <3> QED BY <1>5, <3>1, <3>2, <3>3, ApplyDeploymentSteps
  <2> QED BY <1>5, <2>1, <2>4, ApplyDeploymentSteps DEF ManagerTyped, Counted, TypeOK, Shape, OwnerSeen, Formed, history, Outcomes
<1>6. CASE ObserveDeployment
  <2>1. ManagerTyped
    BY <1>6, ObserveSteps, MovedTyped DEF Labels
  <2> QED BY <1>6, <2>1, ObserveSteps DEF ManagerTyped, TypeOK, Shape, OwnerSeen, Formed, cluster, history, Outcomes
<1>7. CASE UpdateStatus
  <2>0. outcome.reason \in Reasons
    BY <1>7 DEF UpdateStatus, Shape
  <2>1. ManagerTyped /\ Counted
    BY <1>7, <2>0, UpdateStatusSteps, EndedTyped
  <2>2. scenario' \in ScenarioType /\ Formed(scenario')
    BY <1>7, <2>0, UpdateStatusSteps, ScenarioStatus DEF Formed, Shape
  <2> QED BY <1>7, <2>0, <2>1, <2>2, UpdateStatusSteps DEF ManagerTyped, Counted, TypeOK, Shape, OwnerSeen, Formed, history, Outcomes
<1>8. CASE StopRunner
  <2>1. ManagerTyped /\ Counted
    BY <1>8, StopRunnerSteps, MovedTyped, EndedTyped DEF Labels
  <2>2. /\ deployment' \in DeploymentType /\ deployment'.owner = deployment.owner
        /\ deployment'.config = deployment.config
        /\ deployment.owner = Nobody => deployment' = NoDeployment
    BY <1>8, StopRunnerSteps, DeploymentUpdates DEF Shape, TypeOK
  <2> QED BY <1>8, <2>1, <2>2, StopRunnerSteps DEF ManagerTyped, Counted, TypeOK, Shape, OwnerSeen, Formed, history, Outcomes
<1>9. CASE ScanKeys
  <2>1. ManagerTyped /\ stale' \subseteq UIDs /\ lingering' \subseteq UIDs
    <3>1. CASE Scanned
      <4>1. seen.uid \in UIDs /\ seen # NoScenario
        BY <1>9, SeenFormed DEF ScanKeys
      <4> QED BY <1>9, <3>1, <4>1, ScanKeysSteps DEF Scanned, NoteRunner, ManagerTyped, TypeOK, Shape, Labels
    <3>2. CASE (Ended \/ MovedTo({"abandon"})) /\ UNCHANGED <<stale, lingering>>
      BY <1>9, <3>2, ScanKeysSteps, MovedTyped, EndedTyped DEF Labels, TypeOK
    <3> QED BY <1>9, <3>1, <3>2, ScanKeysSteps
  <2> QED BY <1>9, <2>1, ScanKeysSteps DEF ManagerTyped, TypeOK, Shape, OwnerSeen, Formed, cluster, Outcomes
<1>10. CASE DeleteKeys
  <2>1. ManagerTyped
    BY <1>10, DeleteKeysSteps, MovedTyped, EndedTyped DEF Labels
  <2> QED BY <1>10, <2>1, DeleteKeysSteps DEF ManagerTyped, TypeOK, Shape, OwnerSeen, Formed, history, Outcomes
<1>11. CASE ReleaseScenario
  <2>1. ManagerTyped /\ Counted
    BY <1>11, ReleaseSteps, EndedTyped
  <2>2. seen.uid \in UIDs
    BY <1>11, SeenFormed DEF ReleaseScenario
  <2>3. /\ scenario' \in ScenarioType /\ Formed(scenario')
        /\ cleaned' \subseteq UIDs /\ abandoned' \subseteq UIDs
    BY <1>11, <2>2, ReleaseSteps DEF Released, Formed, Shape, TypeOK
  <2> QED BY <1>11, <2>1, <2>3, ReleaseSteps DEF ManagerTyped, Counted, TypeOK, Shape, OwnerSeen, Formed, Outcomes
<1> QED BY <1>1, <1>2, <1>3, <1>4, <1>5, <1>6, <1>7, <1>8, <1>9, <1>10, <1>11 DEF Reconcile

(* What the informers and a restart do.                                    *)
LEMMA SyncTInv ==
  ASSUME TInv, Sync \/ RestartManager
  PROVE  TInv'
<1> USE Facts, Constants, Nothing DEF TInv
<1>1. CASE SyncScenario
  <2>1. cache' \in Caches /\ cache'.scenario = scenario /\ cache'.deployment = cache.deployment
    BY <1>1, CacheFields DEF SyncScenario
  <2> QED BY <1>1, <2>1 DEF SyncScenario, TypeOK, Shape, OwnerSeen, Formed, cluster, history, Caches
<1>2. CASE SyncDeployment
  <2>1. cache' \in Caches /\ cache'.scenario = cache.scenario /\ cache'.deployment = deployment
    BY <1>2, CacheFields DEF SyncDeployment
  <2>2. queued' \in BOOLEAN
    BY <1>2 DEF SyncDeployment, TypeOK
  <2>3. UNCHANGED <<cluster, pc, seen, outcome, found, history>>
    BY <1>2 DEF SyncDeployment
  <2> QED BY <2>1, <2>2, <2>3 DEF TypeOK, Shape, OwnerSeen, Formed, cluster, history, Caches
<1>3. CASE SyncConfigMap
  <2>1. /\ cache' \in Caches /\ cache'.scenario = cache.scenario
        /\ cache'.deployment = cache.deployment
    <3>1. cache' = [cache EXCEPT !.configMap = configMap]
      BY <1>3 DEF SyncConfigMap
    <3>2. cache \in Caches /\ configMap \in ConfigMapType
      OBVIOUS
    <3> QED BY ONLY <3>1, <3>2 DEF Caches
  <2> QED BY <1>3, <2>1 DEF SyncConfigMap, TypeOK, Shape, OwnerSeen, Formed, cluster, history, Caches
<1>4. CASE RestartManager
  <2>1. cache' \in Caches /\ cache'.scenario = scenario /\ cache'.deployment = deployment
    BY <1>4 DEF RestartManager, Caches
  <2>2. Ended /\ Counted
    BY <1>4 DEF RestartManager, Ended, Counted, TypeOK
  <2>3. ManagerTyped
    BY <2>2, EndedTyped
  <2>4. UNCHANGED <<scenario, deployment, configMap, pods, keys, lastUID, expired, history>>
    BY <1>4 DEF RestartManager
  <2> QED BY <2>1, <2>2, <2>3, <2>4 DEF Counted, ManagerTyped, TypeOK, Shape, OwnerSeen,
             Formed, history, Caches, Outcomes
<1> QED BY <1>1, <1>2, <1>3, <1>4 DEF Sync

-----------------------------------------------------------------------------
(* What the cluster does on its own, one step at a time.                   *)

LEMMA CreateScenarioSteps ==
  ASSUME TypeOK, CreateScenario
  PROVE  /\ scenario = NoScenario /\ lastUID' = lastUID + 1 /\ lastUID' \in UIDs
         /\ UNCHANGED <<deployment, configMap, pods, keys, expired, faults>>
         /\ scenario' \in ScenarioType /\ scenario'.uid = lastUID + 1
         /\ scenario'.config \in Configs /\ ~scenario'.deleting /\ ~scenario'.finalizer
<1>1. lastUID + 1 \in UIDs /\ lastUID' = lastUID + 1
  BY Constants DEF CreateScenario, TypeOK, UIDs
<1>2. \E c \in Configs, b \in BOOLEAN : scenario' = Created(NoScenario, lastUID + 1, c, b, 1)
  BY Zenon DEF CreateScenario, Created
<1>3. PICK c \in Configs, b \in BOOLEAN : scenario' = Created(NoScenario, lastUID + 1, c, b, 1)
  BY <1>2
<1>4. /\ scenario' \in ScenarioType /\ scenario'.uid = lastUID + 1
      /\ scenario'.config \in Configs /\ ~scenario'.deleting /\ ~scenario'.finalizer
  BY <1>1, <1>3, ScenarioCreated
<1>5. scenario = NoScenario /\ UNCHANGED <<deployment, configMap, pods, keys, expired, faults>>
  BY DEF CreateScenario
<1> QED BY <1>1, <1>4, <1>5

LEMMA EditScenarioSteps ==
  ASSUME TypeOK, EditScenario
  PROVE  /\ scenario # NoScenario /\ ~scenario.deleting
         /\ UNCHANGED <<deployment, configMap, pods, keys, lastUID, expired, faults>>
         /\ scenario' \in ScenarioType /\ scenario'.uid = scenario.uid
         /\ scenario'.config \in Configs
         /\ scenario'.deleting = scenario.deleting /\ scenario'.finalizer = scenario.finalizer
<1>1. \E c \in Configs, b \in BOOLEAN :
        scenario' = Edited(scenario, c, b, scenario.generation + 1)
  BY Zenon DEF EditScenario, Edited
<1>2. PICK c \in Configs, b \in BOOLEAN :
        scenario' = Edited(scenario, c, b, scenario.generation + 1)
  BY <1>1
<1> QED BY <1>2, ScenarioEdited DEF EditScenario, TypeOK

LEMMA DeleteScenarioSteps ==
  ASSUME TypeOK, DeleteScenario
  PROVE  /\ scenario # NoScenario /\ ~scenario.deleting
         /\ UNCHANGED <<deployment, configMap, pods, keys, lastUID, expired, faults>>
         /\ \/ scenario.finalizer /\ scenario' = Deleted(scenario)
            \/ ~scenario.finalizer /\ scenario' = NoScenario
BY DEF DeleteScenario, Deleted

LEMMA RolloutSteps ==
  ASSUME TypeOK, FinishRollout \/ FailRollout
  PROVE  /\ UNCHANGED <<scenario, configMap, pods, keys, lastUID, expired>> /\ Counted
         /\ deployment.owner \in UIDs
         /\ deployment' \in DeploymentType /\ deployment'.owner = deployment.owner
         /\ deployment'.config = deployment.config
<1>1. Counted /\ deployment.owner \in UIDs
  BY Constants DEF FinishRollout, FailRollout, TypeOK, Counted
<1>2. deployment' = RolledOut(deployment, "ready") \/ deployment' = RolledOut(deployment, "failed")
  BY DEF FinishRollout, FailRollout, RolledOut
<1>3. "ready" \in {"", "progressing", "ready", "failed"} /\ "failed" \in {"", "progressing", "ready", "failed"}
  OBVIOUS
<1>4. /\ deployment' \in DeploymentType /\ deployment'.owner = deployment.owner
      /\ deployment'.config = deployment.config
  BY <1>2, <1>3, DeploymentUpdates DEF TypeOK
<1> QED BY <1>1, <1>4 DEF FinishRollout, FailRollout

LEMMA ForeignSteps ==
  ASSUME TypeOK, CreateForeignDeployment
  PROVE  /\ UNCHANGED <<scenario, configMap, pods, keys, lastUID, expired, faults>>
         /\ deployment = NoDeployment
         /\ deployment' \in DeploymentType /\ deployment'.owner = Other
<1>1. deployment' = [owner |-> Other, config |-> 0, deleting |-> FALSE, rollout |-> ""]
  BY DEF CreateForeignDeployment, NoDeployment
<1>2. deployment' \in DeploymentType /\ deployment'.owner = Other
  BY <1>1 DEF DeploymentType, MaybeConfig
<1> QED BY <1>2 DEF CreateForeignDeployment

LEMMA StartPodSteps ==
  ASSUME TypeOK, Shape, StartPod
  PROVE  /\ UNCHANGED <<scenario, deployment, configMap, keys, lastUID, expired, faults>>
         /\ deployment.owner \in UIDs
         /\ \E p \in [owner : UIDs, template : Configs, runs : Configs] :
              /\ pods' = pods \cup {p} /\ p.owner = deployment.owner
              /\ p.template = deployment.config
<1> DEFINE p == [owner |-> deployment.owner, template |-> deployment.config,
                 runs |-> configMap.config]
<1>1. configMap.config \in Configs /\ deployment.config \in Configs /\ deployment.owner \in UIDs
  BY DEF StartPod, Shape
<1>2. p \in [owner : UIDs, template : Configs, runs : Configs]
  BY <1>1
<1> QED BY <1>1, <1>2 DEF StartPod

LEMMA EnvironmentTInv ==
  ASSUME TInv, UNCHANGED <<manager, history>>,
         \/ CreateScenario \/ EditScenario \/ DeleteScenario \/ CreateForeignDeployment \/ GraceExpires
         \/ CollectDeployment \/ CollectConfigMap \/ StartPod \/ StopPod
         \/ FinishRollout \/ FailRollout \/ WriteKeys
  PROVE  TInv'
<1> USE Facts, Constants, Nothing DEF TInv, manager, history, TypeOK, Shape, OwnerSeen
<1>1. CASE CreateScenario
  <2>1. scenario' \in ScenarioType /\ Formed(scenario') /\ lastUID' \in 0 .. MaxUID
    BY <1>1, CreateScenarioSteps DEF Formed, UIDs
  <2> QED BY <1>1, <2>1, CreateScenarioSteps DEF Formed
<1>2. CASE EditScenario
  BY <1>2, EditScenarioSteps DEF Formed
<1>3. CASE DeleteScenario
  <2>1. scenario' \in ScenarioType /\ Formed(scenario')
    <3>1. scenario \in ScenarioType /\ scenario.uid \in UIDs /\ scenario.config \in Configs
      BY <1>3 DEF DeleteScenario, Formed
    <3>2. Deleted(scenario) \in ScenarioType /\ Formed(Deleted(scenario))
      BY ONLY <3>1, ScenarioDeleted DEF Formed
    <3>3. scenario' = Deleted(scenario) \/ scenario' = NoScenario
      BY <1>3, DeleteScenarioSteps
    <3> QED BY <3>2, <3>3 DEF Formed
  <2> QED BY <1>3, <2>1, DeleteScenarioSteps DEF Formed
<1>4. CASE CreateForeignDeployment
  BY <1>4, ForeignSteps DEF Formed
<1>5. CASE GraceExpires
  <2>1. scenario.uid \in UIDs
    BY <1>5 DEF GraceExpires, Formed
  <2> QED BY <1>5, <2>1 DEF GraceExpires, Formed
<1>6. CASE CollectDeployment
  BY <1>6 DEF CollectDeployment, Formed
<1>7. CASE CollectConfigMap
  BY <1>7 DEF CollectConfigMap, Formed
<1>8. CASE StartPod
  BY <1>8, StartPodSteps DEF Formed
<1>9. CASE StopPod
  BY <1>9 DEF StopPod, Formed
<1>10. CASE FinishRollout \/ FailRollout
  BY <1>10, RolloutSteps DEF Formed, Counted
<1>11. CASE WriteKeys
  BY <1>11 DEF WriteKeys, Formed
<1> QED BY <1>1, <1>2, <1>3, <1>4, <1>5, <1>6, <1>7, <1>8, <1>9, <1>10, <1>11

(* Next, with Meanwhile taken apart.                                       *)
Environment ==
  /\ UNCHANGED <<manager, history>>
  /\ \/ CreateScenario \/ EditScenario \/ DeleteScenario \/ CreateForeignDeployment \/ GraceExpires
     \/ CollectDeployment \/ CollectConfigMap \/ StartPod \/ StopPod
     \/ FinishRollout \/ FailRollout \/ WriteKeys

LEMMA Steps == Next => Reconcile \/ Sync \/ RestartManager \/ Environment
BY Zenon DEF Next, Meanwhile, Environment

LEMMA TInvKept == TInv /\ [Next]_vars => TInv'
<1> SUFFICES ASSUME TInv, [Next]_vars PROVE TInv'
  OBVIOUS
<1>1. CASE Next
  BY <1>1, Steps, ReconcileTInv, SyncTInv, EnvironmentTInv DEF Environment
<1>2. CASE UNCHANGED vars
  BY <1>2 DEF TInv, TypeOK, Shape, OwnerSeen, Formed, vars, cluster, manager, history
<1> QED BY <1>1, <1>2

LEMMA TInvAlways == Spec => []TInv
BY InitTInv, TInvKept, PTL DEF Spec

(* The API objects, the informers' copies, the running reconcile and its   *)
(* history keep their types, whatever interleaves with a reconcile.        *)
THEOREM TypeCorrect == Spec => []TypeOK
<1>1. TInv => TypeOK
  BY DEF TInv
<1> QED BY <1>1, TInvAlways, PTL

-----------------------------------------------------------------------------
(* What can happen to each object in one step.                             *)

(* To the Deployment: a status, a deletion mark or a template of the same  *)
(* owner's; its removal; a foreign one; or the one a reconcile asks for.   *)
DeploymentStep ==
  \/ deployment'.owner = deployment.owner /\ deployment'.config = deployment.config
  \/ deployment' = NoDeployment
  \/ deployment'.owner = Other
  \/ pc = "deployment" /\ deployment'.owner = seen.uid /\ deployment'.config = seen.config

(* A step leaves a foreign Deployment alone unless it is being deleted or  *)
(* the copy a reconcile asks is still that of the scenario's own.          *)
Respected ==
  deployment.owner = Other /\ deployment' # deployment
    => \/ deployment.deleting
       \/ seen # NoScenario /\ ControlledBy(cache.deployment, seen)

LEMMA DeploymentSteps ==
  ASSUME TInv, Next
  PROVE  DeploymentStep /\ Respected
<1> USE Facts, Constants, Nothing DEF TInv
<1>0. pc # "idle" => seen.uid \in UIDs /\ seen.config \in Configs /\ seen \in ScenarioType
  BY SeenFormed
<1>1. CASE Reconcile
  <2>1. CASE deployment' = deployment
    BY <2>1 DEF DeploymentStep, Respected
  <2>2. CASE Suspend
    BY <2>2, <1>0, SuspendSteps DEF DeploymentStep, Respected, ControlledBy
  <2>3. CASE StopRunner
    <3>1. Stopping(deployment).owner = deployment.owner /\ Stopping(deployment).config = deployment.config
      BY DeploymentUpdates
    <3>2. \/ deployment' = deployment
          \/ pc = "stop" /\ cache.deployment.owner = seen.uid /\ deployment' = Stopping(deployment)
      BY <2>3, StopRunnerSteps
    <3>3. CASE deployment' = Stopping(deployment) /\ pc = "stop" /\ cache.deployment.owner = seen.uid
      BY <3>1, <3>3, <1>0 DEF DeploymentStep, Respected, ControlledBy
    <3> QED BY <2>1, <3>2, <3>3
  <2>4. CASE ApplyDeployment
    <3>1. DesiredDeployment(seen).owner = seen.uid /\ DesiredDeployment(seen).config = seen.config
      BY <2>4, <1>0, DesiredObjects DEF ApplyDeployment
    <3>2. LET m == ManagedFields(deployment, DesiredDeployment(seen))
          IN  m.owner = deployment.owner /\ m.config = seen.config
      BY <2>4, <3>1, <1>0, DeploymentManaged DEF ApplyDeployment
    <3>3. CASE /\ cache.deployment.owner = seen.uid /\ deployment.owner # Nobody
               /\ deployment' = ManagedFields(deployment, DesiredDeployment(seen))
      <4>1. pc = "deployment" /\ seen.uid \in UIDs /\ seen # NoScenario
        BY <2>4, <1>0, ApplyDeploymentSteps
      <4>2. deployment.owner \in UIDs => deployment.owner = seen.uid
        BY <3>3, <4>1 DEF OwnerSeen
      <4>3. deployment.owner \in UIDs \cup {Other}
        BY <3>3 DEF MaybeUID
      <4>4. deployment'.owner = deployment.owner /\ deployment'.config = seen.config
        BY <3>2, <3>3
      <4>5. Respected
        BY <3>3, <4>1 DEF Respected, ControlledBy
      <4> QED BY <4>1, <4>2, <4>3, <4>4, <4>5 DEF DeploymentStep
    <3>4. CASE /\ cache.deployment.owner = Nobody /\ deployment.owner = Nobody
               /\ deployment' = DesiredDeployment(seen)
      BY <2>4, <3>1, <3>4, <1>0, ApplyDeploymentSteps DEF DeploymentStep, Respected
    <3> QED BY <2>4, <2>1, <3>3, <3>4, ApplyDeploymentSteps
  <2>5. Suspend \/ StopRunner \/ ApplyDeployment \/ deployment' = deployment
    BY <1>1 DEF Reconcile, Begin, AddFinalizer, ApplyConfigMap, ObserveDeployment, UpdateStatus,
       ScanKeys, DeleteKeys, ReleaseScenario, cluster
  <2> QED BY <2>1, <2>2, <2>3, <2>4, <2>5
<1>2. CASE Sync \/ RestartManager
  BY <1>2 DEF Sync, SyncScenario, SyncDeployment, SyncConfigMap, RestartManager, cluster,
     DeploymentStep, Respected
<1>3. CASE Environment
  <2>1. CASE CreateForeignDeployment
    BY <2>1, ForeignSteps DEF DeploymentStep, Respected
  <2>2. CASE CollectDeployment
    BY <2>2 DEF CollectDeployment, DeploymentStep, Respected
  <2>3. CASE FinishRollout \/ FailRollout
    BY <2>3, RolloutSteps DEF DeploymentStep, Respected
  <2>4. CASE deployment' = deployment
    BY <2>4 DEF DeploymentStep, Respected
  <2>5. CreateForeignDeployment \/ CollectDeployment \/ FinishRollout \/ FailRollout \/ deployment' = deployment
    BY <1>3 DEF Environment, CreateScenario, EditScenario, DeleteScenario, GraceExpires,
       CollectConfigMap, StartPod, StopPod, WriteKeys
  <2> QED BY <2>1, <2>2, <2>3, <2>4, <2>5
<1> QED BY <1>1, <1>2, <1>3, Steps

(* ensureControlledBy is asked of a copy and the call that follows goes by *)
(* name: a Deployment that is not the scenario's is changed or deleted     *)
(* only where that copy is still the scenario's own, whatever else happens *)
(* between the reads and the calls.                                        *)
THEOREM ForeignSpared == Spec => ForeignTouchedOnlyOnStaleRead
<1>1. TInv /\ [Next]_vars => [Respected]_vars
  BY DeploymentSteps
<1>2. [Respected]_vars
        => [deployment.owner = Other /\ deployment' # deployment
             => \/ deployment.deleting
                \/ seen # NoScenario /\ ControlledBy(cache.deployment, seen)]_vars
  BY Zenon DEF Respected
<1> QED BY <1>1, <1>2, TInvAlways, PTL DEF Spec, ForeignTouchedOnlyOnStaleRead

(* To the scenario: it keeps its UID, its finalizer and its deletion mark; *)
(* it goes, without a finalizer or through a release; or a new one comes.  *)
ScenarioStep ==
  \/ /\ scenario'.uid = scenario.uid
     /\ scenario.finalizer => scenario'.finalizer
     /\ scenario.deleting => scenario'.deleting
     /\ UNCHANGED <<lastUID, cleaned, abandoned>>
  \/ /\ ~scenario.finalizer /\ scenario' = NoScenario
     /\ UNCHANGED <<lastUID, cleaned, abandoned>>
  \/ /\ pc \in {"release", "abandon"} /\ seen'= NoScenario /\ cache' = cache
     /\ Released /\ lastUID' = lastUID /\ UNCHANGED <<deployment, pods, keys, stale, lingering>>
  \/ /\ scenario = NoScenario /\ lastUID' = lastUID + 1 /\ scenario'.uid = lastUID + 1
     /\ UNCHANGED <<cleaned, abandoned>>

LEMMA ScenarioSteps ==
  ASSUME TInv, Next
  PROVE  ScenarioStep
<1> USE Facts, Constants, Nothing DEF TInv
<1> DEFINE Quiet == UNCHANGED <<scenario, lastUID, cleaned, abandoned>>
<1>0. CASE Quiet
  BY <1>0 DEF ScenarioStep
<1>1. CASE Reconcile
  <2>1. CASE AddFinalizer
    <3>1. /\ UNCHANGED <<lastUID, cleaned, abandoned>>
          /\ scenario' = scenario \/ (scenario = seen /\ scenario' = Finalized(seen))
      BY <2>1, AddFinalizerSteps DEF history
    <3> QED BY <3>1, ScenarioFinalized DEF ScenarioStep
  <2>2. CASE UpdateStatus
    <3>1. outcome.reason \in Reasons
      BY <2>2 DEF UpdateStatus, Shape
    <3>2. UNCHANGED <<lastUID, cleaned, abandoned>>
      BY <2>2 DEF UpdateStatus, history
    <3>3. CASE scenario' = scenario
      BY <3>2, <3>3 DEF ScenarioStep
    <3>4. ASSUME NEW st \in StatusType, scenario' = WithStatus(scenario, st)
          PROVE  ScenarioStep
      <4>1. /\ scenario'.uid = scenario.uid /\ scenario'.finalizer = scenario.finalizer
            /\ scenario'.deleting = scenario.deleting
        BY <3>4, ScenarioStatus
      <4> QED BY <3>2, <4>1 DEF ScenarioStep
    <3> QED BY <2>2, <3>1, <3>3, <3>4, UpdateStatusSteps
  <2>3. CASE ReleaseScenario
    BY <1>0, <2>3, ReleaseSteps DEF ScenarioStep, Ended
  <2>4. AddFinalizer \/ UpdateStatus \/ ReleaseScenario \/ Quiet
    BY <1>1 DEF Reconcile, Begin, Suspend, ApplyConfigMap, ApplyDeployment, ObserveDeployment,
       StopRunner, ScanKeys, DeleteKeys, cluster, history
  <2> QED BY <1>0, <2>1, <2>2, <2>3, <2>4
<1>2. CASE Sync \/ RestartManager
  BY <1>0, <1>2 DEF Sync, SyncScenario, SyncDeployment, SyncConfigMap, RestartManager, cluster, history
<1>3. CASE Environment
  <2>0. UNCHANGED <<cleaned, abandoned>>
    BY <1>3 DEF Environment, history
  <2>1. CASE CreateScenario
    BY <2>0, <2>1, CreateScenarioSteps DEF ScenarioStep
  <2>2. CASE EditScenario
    BY <2>0, <2>2, EditScenarioSteps DEF ScenarioStep
  <2>3. CASE DeleteScenario
    <3>1. UNCHANGED lastUID
      BY <2>3 DEF DeleteScenario
    <3>2. CASE scenario' = Deleted(scenario)
      BY <2>0, <3>1, <3>2, ScenarioDeleted DEF ScenarioStep
    <3>3. CASE ~scenario.finalizer /\ scenario' = NoScenario
      BY <2>0, <3>1, <3>3 DEF ScenarioStep
    <3> QED BY <2>3, <3>2, <3>3, DeleteScenarioSteps
  <2>4. CreateScenario \/ EditScenario \/ DeleteScenario \/ UNCHANGED <<scenario, lastUID>>
    BY <1>3 DEF Environment, CreateForeignDeployment, GraceExpires, CollectDeployment,
       CollectConfigMap, StartPod, StopPod, FinishRollout, FailRollout, WriteKeys
  <2> QED BY <1>0, <2>0, <2>1, <2>2, <2>3, <2>4
<1> QED BY <1>1, <1>2, <1>3, Steps

(* To the runner's Pods and keys: a Pod is the Deployment's, a key is the  *)
(* Pod's; and only the cleanup removes keys.                               *)
RunnerStep ==
  /\ \A p \in pods' : \/ p \in pods
                      \/ /\ deployment.owner \in UIDs
                         /\ p.owner = deployment.owner /\ p.template = deployment.config
  /\ \A u \in keys' : \/ u \in keys
                      \/ \E p \in pods : p.owner = u /\ p.template \in RedisConfigs

LEMMA RunnerSteps ==
  ASSUME TInv, Next
  PROVE  RunnerStep
<1> USE Facts, Constants, Nothing DEF TInv
<1>0. CASE UNCHANGED <<pods, keys>>
  BY <1>0 DEF RunnerStep
<1>1. CASE Reconcile
  <2>1. pods' = pods /\ keys' \subseteq keys
    BY <1>1 DEF Reconcile, Begin, AddFinalizer, Suspend, ApplyConfigMap, ApplyDeployment,
       ObserveDeployment, UpdateStatus, StopRunner, ScanKeys, DeleteKeys, ReleaseScenario,
       cluster
  <2> QED BY <2>1 DEF RunnerStep
<1>2. CASE Sync \/ RestartManager
  BY <1>0, <1>2 DEF Sync, SyncScenario, SyncDeployment, SyncConfigMap, RestartManager, cluster
<1>3. CASE Environment
  <2>1. CASE StartPod
    BY <2>1, StartPodSteps DEF RunnerStep
  <2>2. CASE StopPod
    BY <2>2 DEF StopPod, RunnerStep
  <2>3. CASE WriteKeys
    BY <2>3 DEF WriteKeys, RunnerStep
  <2>4. StartPod \/ StopPod \/ WriteKeys \/ UNCHANGED <<pods, keys>>
    BY <1>3 DEF Environment, CreateForeignDeployment, GraceExpires, CollectDeployment,
       CollectConfigMap, FinishRollout, FailRollout, CreateScenario, EditScenario, DeleteScenario
  <2> QED BY <1>0, <2>1, <2>2, <2>3, <2>4
<1> QED BY <1>1, <1>2, <1>3, Steps

(* To the reconcile: nothing; it returns; it reads the cached scenario; it *)
(* adds the finalizer; it goes on; or its scan is answered.                *)
Onwards ==
  {<<"suspend", "status">>, <<"configMap", "deployment">>, <<"configMap", "status">>,
   <<"deployment", "observe">>, <<"deployment", "status">>, <<"observe", "status">>,
   <<"stop", "scan">>, <<"stop", "abandon">>, <<"scan", "abandon">>, <<"del", "abandon">>}

ReconcileStep ==
  \/ UNCHANGED <<pc, seen, found, stale, lingering, cleaned>>
  \/ pc' = "idle" /\ seen' = NoScenario /\ UNCHANGED <<stale, lingering>>
  \/ /\ pc = "idle" /\ UNCHANGED <<cluster, cache, history>>
     /\ seen' = cache.scenario /\ seen' # NoScenario
     /\ \/ seen'.deleting /\ pc' = "stop"
        \/ ~seen'.deleting /\ pc' = "finalize"
        \/ /\ ~seen'.deleting /\ pc' \in {"suspend", "status", "configMap"}
           /\ seen'.config \in RedisConfigs => seen'.finalizer
  \/ /\ pc = "finalize" /\ UNCHANGED <<cache, history>>
     /\ scenario = seen /\ scenario' = Finalized(seen) /\ seen' = Finalized(seen)
     /\ pc' \in {"suspend", "status", "configMap"}
  \/ <<pc, pc'>> \in Onwards /\ UNCHANGED <<seen, cache, history>>
  \/ pc = "del" /\ pc' = "release" /\ keys' = keys \ found /\ UNCHANGED <<seen, cache, history>>
  \/ pc = "scan" /\ Scanned /\ UNCHANGED <<cluster, cache, cleaned>>

LEMMA ReconcileSteps ==
  ASSUME TInv, Next
  PROVE  ReconcileStep
<1> USE DEF TInv
<1>1. CASE Reconcile
  <2>1. CASE Begin
    BY <2>1, BeginSteps DEF ReconcileStep, history
  <2>2. CASE AddFinalizer
    BY <2>2, AddFinalizerSteps DEF ReconcileStep, history, Ended
  <2>3. CASE Suspend
    BY <2>3, SuspendSteps DEF ReconcileStep, history, MovedTo, Onwards
  <2>4. CASE ApplyConfigMap
    BY <2>4, ApplyConfigMapSteps DEF ReconcileStep, history, MovedTo, Onwards
  <2>5. CASE ApplyDeployment
    BY <2>5, ApplyDeploymentSteps DEF ReconcileStep, history, MovedTo, Onwards
  <2>6. CASE ObserveDeployment
    BY <2>6, ObserveSteps DEF ReconcileStep, history, MovedTo, Onwards
  <2>7. CASE UpdateStatus
    BY <2>7, UpdateStatusSteps DEF ReconcileStep, history, Ended, UpdateStatus, Shape
  <2>8. CASE StopRunner
    BY <2>8, StopRunnerSteps DEF ReconcileStep, history, MovedTo, Ended, Onwards
  <2>9. CASE ScanKeys
    BY <2>9, ScanKeysSteps DEF ReconcileStep, history, MovedTo, Ended, Onwards
  <2>10. CASE DeleteKeys
    BY <2>10, DeleteKeysSteps DEF ReconcileStep, history, MovedTo, Ended, Onwards
  <2>11. CASE ReleaseScenario
    BY <2>11, ReleaseSteps DEF ReconcileStep, Ended
  <2> QED BY <1>1, <2>1, <2>2, <2>3, <2>4, <2>5, <2>6, <2>7, <2>8, <2>9, <2>10, <2>11 DEF Reconcile
<1>2. CASE Sync \/ RestartManager
  BY <1>2 DEF Sync, SyncScenario, SyncDeployment, SyncConfigMap, RestartManager, history, ReconcileStep
<1>3. CASE Environment
  BY <1>3 DEF Environment, manager, history, ReconcileStep
<1> QED BY <1>1, <1>2, <1>3, Steps

(* To the informer's copy of the scenario: nothing, or it catches up.      *)
CopyStep ==
  \/ cache'.scenario = cache.scenario
  \/ /\ cache'.scenario = scenario /\ UNCHANGED <<scenario, lastUID, cleaned>>
     /\ seen' = seen \/ seen' = NoScenario

LEMMA CopySteps ==
  ASSUME TInv, Next
  PROVE  CopyStep
<1> USE Facts DEF TInv
<1>1. CASE Reconcile \/ Environment
  <2>1. cache' = cache
    BY <1>1 DEF Reconcile, Begin, AddFinalizer, Suspend, ApplyConfigMap, ApplyDeployment,
       ObserveDeployment, UpdateStatus, StopRunner, ScanKeys, DeleteKeys, ReleaseScenario,
       Environment, manager
  <2> QED BY <2>1 DEF CopyStep
<1>2. CASE SyncScenario
  <2>1. cache'.scenario = scenario
    BY <1>2, CacheFields DEF SyncScenario
  <2> QED BY <1>2, <2>1 DEF SyncScenario, CopyStep, cluster, history
<1>3. CASE SyncDeployment
  BY <1>3, CacheFields DEF SyncDeployment, CopyStep
<1>4. CASE SyncConfigMap
  <2>1. cache' = [cache EXCEPT !.configMap = configMap] /\ cache \in Caches
    BY <1>4 DEF SyncConfigMap
  <2>2. cache'.scenario = cache.scenario
    BY ONLY <2>1 DEF Caches
  <2> QED BY <2>2 DEF CopyStep
<1>5. CASE RestartManager
  BY <1>5 DEF RestartManager, CopyStep, history
<1> QED BY <1>1, <1>2, <1>3, <1>4, <1>5, Steps DEF Sync

-----------------------------------------------------------------------------
(* The finalizer is there before any key.                                  *)

(* What is once in the finalizer's hands stays there, or is released by it. *)
LEMMA GuardedStays ==
  ASSUME TInv, Next, NEW u \in UIDs, Guarded(u)
  PROVE  Guarded(u)'
<1> USE Facts, Constants, Nothing DEF TInv
<1>1. ScenarioStep
  BY ScenarioSteps
<1> QED BY <1>1 DEF ScenarioStep, Released, Guarded

LEMMA FinalizerKept ==
  ASSUME TInv, FinalizerInv, Next
  PROVE  FinalizerInv'
<1> USE Facts, Constants, Nothing DEF TInv
<1>0. /\ \A u \in UIDs : Guarded(u) => Guarded(u)'
      /\ cache.scenario.finalizer => cache.scenario.uid \in UIDs /\ Guarded(cache.scenario.uid)
      /\ seen.finalizer => seen.uid \in UIDs /\ Guarded(seen.uid)
      /\ scenario.finalizer => scenario.uid \in UIDs /\ Guarded(scenario.uid)
  BY GuardedStays DEF FinalizerInv, Shape, Formed, Guarded
<1>1. (cache.scenario.finalizer => Guarded(cache.scenario.uid))'
  BY <1>0, CopySteps DEF CopyStep
<1>2. (seen.finalizer => Guarded(seen.uid))'
  <2>1. CASE seen' = seen \/ seen' = NoScenario \/ seen' = cache.scenario
    BY <1>0, <2>1
  <2>2. CASE scenario' = Finalized(seen) /\ seen' = Finalized(seen)
    BY <2>2, ScenarioFinalized DEF Guarded
  <2> QED BY <2>1, <2>2, ReconcileSteps DEF ReconcileStep, Scanned
<1>3. (pc \in {"configMap", "deployment"} /\ seen.config \in RedisConfigs => seen.finalizer)'
  BY ReconcileSteps, ScenarioFinalized DEF ReconcileStep, Scanned, Onwards, FinalizerInv
<1>4. (deployment.owner \in UIDs /\ deployment.config \in RedisConfigs => Guarded(deployment.owner))'
  <2>1. CASE deployment'.owner = deployment.owner /\ deployment'.config = deployment.config
    BY <1>0, <2>1 DEF FinalizerInv
  <2>2. CASE deployment' = NoDeployment \/ deployment'.owner = Other
    BY <2>2
  <2>3. CASE pc = "deployment" /\ deployment'.owner = seen.uid /\ deployment'.config = seen.config
    BY <1>0, <2>3 DEF FinalizerInv
  <2> QED BY <2>1, <2>2, <2>3, DeploymentSteps DEF DeploymentStep
<1>5. FinalizerGuardsKeys'
  <2> SUFFICES ASSUME NEW u \in keys' \cup {p.owner : p \in {q \in pods' : q.template \in RedisConfigs}}
               PROVE  Guarded(u)'
    BY DEF FinalizerGuardsKeys, Guarded
  <2>1. \A p \in pods : p.template \in RedisConfigs => p.owner \in UIDs /\ Guarded(p.owner)
    BY DEF FinalizerInv, FinalizerGuardsKeys, Guarded, TypeOK
  <2>2. \A w \in keys : w \in UIDs /\ Guarded(w)
    BY DEF FinalizerInv, FinalizerGuardsKeys, Guarded, TypeOK
  <2>3. CASE u \in keys'
    BY <1>0, <2>1, <2>2, <2>3, RunnerSteps DEF RunnerStep
  <2>4. ASSUME NEW p \in pods', p.template \in RedisConfigs
        PROVE  Guarded(p.owner)'
    <3>1. CASE p \in pods
      BY <1>0, <2>1, <2>4, <3>1
    <3>2. CASE /\ deployment.owner \in UIDs
               /\ p.owner = deployment.owner /\ p.template = deployment.config
      BY <1>0, <2>4, <3>2 DEF FinalizerInv
    <3> QED BY <2>4, <3>1, <3>2, RunnerSteps DEF RunnerStep
  <2> QED BY <2>3, <2>4
<1> QED BY <1>1, <1>2, <1>3, <1>4, <1>5 DEF FinalizerInv

LEMMA FinalizerAlways == Spec => [](TInv /\ FinalizerInv)
<1>1. Init => TInv /\ FinalizerInv
  <2> SUFFICES ASSUME Init PROVE FinalizerInv
    BY InitTInv
  <2>1. cache.scenario = NoScenario /\ deployment = NoDeployment /\ keys = {} /\ pods = {}
    BY DEF Init, ClusterInit
  <2> QED BY <2>1, Nothing, Constants DEF Init, FinalizerInv, FinalizerGuardsKeys
<1>2. TInv /\ FinalizerInv /\ [Next]_vars => (TInv /\ FinalizerInv)'
  <2> SUFFICES ASSUME TInv, FinalizerInv, [Next]_vars PROVE FinalizerInv'
    BY TInvKept
  <2>1. CASE UNCHANGED vars
    BY <2>1 DEF FinalizerInv, FinalizerGuardsKeys, Guarded, vars, cluster, manager, history
  <2> QED BY <2>1, FinalizerKept
<1> QED BY <1>1, <1>2, PTL DEF Spec

(* A runner that uses Redis, and every key it left, belongs to a scenario  *)
(* that holds the finalizer or that the finalizer has released, whatever   *)
(* the caches show and wherever a reconcile is cut short.                  *)
THEOREM FinalizerComesFirst == Spec => []FinalizerGuardsKeys
<1>1. TInv /\ FinalizerInv => FinalizerGuardsKeys
  BY DEF FinalizerInv
<1> QED BY <1>1, FinalizerAlways, PTL

-----------------------------------------------------------------------------
(* The cleanup                                                             *)

LEMMA AgingKept ==
  ASSUME TInv, Aging, Next
  PROVE  Aging'
<1> USE Facts, Constants, Nothing DEF TInv
<1>0. ScenarioStep /\ CopyStep /\ ReconcileStep
  BY ScenarioSteps, CopySteps, ReconcileSteps
<1>1. /\ lastUID \in Nat /\ lastUID' \in Nat /\ lastUID <= lastUID'
      /\ scenario.uid \in Nat /\ cache.scenario.uid \in Nat /\ seen.uid \in Nat
  BY <1>0 DEF ScenarioStep, TypeOK, MaybeUID, UIDs
<1>2. Finalized(seen).uid = seen.uid /\ Finalized(seen).deleting = seen.deleting
  BY ScenarioFinalized
<1>3. scenario'.uid <= lastUID'
  <2>1. scenario'.uid = scenario.uid \/ scenario' = NoScenario \/ scenario'.uid = lastUID'
    BY <1>0 DEF ScenarioStep, Released
  <2> QED BY <1>1, <2>1 DEF Aging
<1>4. cache'.scenario.uid <= lastUID'
  <2>1. cache'.scenario = cache.scenario \/ cache'.scenario = scenario
    BY <1>0 DEF CopyStep
  <2>2. \A a, b, c \in Nat : a <= b /\ b <= c => a <= c
    OBVIOUS
  <2> QED BY <1>1, <2>1, <2>2 DEF Aging
<1>5. seen'.uid <= lastUID'
  BY <1>0, <1>1, <1>2 DEF ReconcileStep, Scanned, Aging
<1>6. (\A u \in cleaned : u <= lastUID)'
  <2> SUFFICES ASSUME NEW u \in cleaned' PROVE u <= lastUID'
    OBVIOUS
  <2>1. u \in cleaned \/ u = seen.uid
    BY <1>0 DEF ScenarioStep, Released
  <2>2. u <= lastUID
    BY <2>1 DEF Aging
  <2>3. u \in Nat
    <3>1. \A v \in cleaned : v \in Nat
      BY DEF TypeOK, UIDs
    <3> QED BY <1>1, <2>1, <3>1
  <2> QED BY <1>1, <2>2, <2>3
(* A copy that is being deleted is of a scenario that is, or that is gone. *)
<1>7. ASSUME NEW s \in ScenarioType, Formed(s), s.uid <= lastUID, s.deleting,
             s.uid = scenario.uid => scenario.deleting, s.uid = scenario'.uid
      PROVE  scenario'.deleting
  <2>1. s.uid \in UIDs /\ s.uid \in Nat
    BY <1>7 DEF Formed, UIDs
  <2>2. scenario'.uid = scenario.uid /\ (scenario.deleting => scenario'.deleting)
    BY <1>0, <1>1, <1>7, <2>1 DEF ScenarioStep, Released
  <2> QED BY <1>7, <2>2
<1>8. (cache.scenario.deleting /\ cache.scenario.uid = scenario.uid => scenario.deleting)'
  BY <1>0, <1>7 DEF CopyStep, Aging, Shape
<1>9. (seen.deleting /\ seen.uid = scenario.uid => scenario.deleting)'
  BY <1>0, <1>2, <1>7 DEF ReconcileStep, Scanned, Aging, Shape
<1>10. (seen.deleting /\ seen.uid = cache.scenario.uid => cache.scenario.deleting)'
  BY <1>0, <1>2 DEF ReconcileStep, CopyStep, Scanned, Aging, Shape, Cleaning
<1>11. (pc # "idle" => (seen.deleting <=> pc \in Cleaning))'
  BY <1>0, <1>2 DEF ReconcileStep, Scanned, Aging, Cleaning, Onwards
<1> QED BY <1>3, <1>4, <1>5, <1>6, <1>8, <1>9, <1>10, <1>11 DEF Aging

LEMMA ReleasedKept ==
  ASSUME TInv, Aging, ReleasedIsOver, Next
  PROVE  ReleasedIsOver'
<1> USE Facts, Constants, Nothing DEF TInv
<1>0. ScenarioStep /\ CopyStep /\ ReconcileStep
  BY ScenarioSteps, CopySteps, ReconcileSteps
<1> SUFFICES ASSUME NEW u \in cleaned'
             PROVE  /\ scenario'.uid # u
                    /\ cache'.scenario.uid = u => cache'.scenario.deleting
                    /\ seen'.uid = u => seen'.deleting
  BY DEF ReleasedIsOver
<1>1. CASE u \in cleaned
  <2>1. u <= lastUID /\ u \in UIDs /\ u \in Nat /\ lastUID \in Nat
    BY <1>1 DEF Aging, TypeOK, UIDs
  <2>2. scenario'.uid # u
    <3>1. scenario'.uid = scenario.uid \/ scenario' = NoScenario \/ scenario'.uid = lastUID + 1
      BY <1>0 DEF ScenarioStep, Released
    <3>2. u # lastUID + 1 /\ scenario.uid # u
      BY <1>1, <2>1 DEF ReleasedIsOver
    <3> QED BY <2>1, <3>1, <3>2
  <2>3. cache'.scenario.uid = u => cache'.scenario.deleting
    BY <1>0, <1>1 DEF CopyStep, ReleasedIsOver
  <2>4. seen'.uid = u => seen'.deleting
    <3>1. \/ seen' = seen \/ seen' = NoScenario \/ seen' = cache.scenario
          \/ seen' = Finalized(seen)
      BY <1>0 DEF ReconcileStep, Scanned
    <3>2. Finalized(seen).uid = seen.uid /\ Finalized(seen).deleting = seen.deleting
      BY ScenarioFinalized
    <3> QED BY <1>1, <2>1, <3>1, <3>2 DEF ReleasedIsOver
  <2> QED BY <2>2, <2>3, <2>4
<1>2. CASE u \notin cleaned
  <2>1. /\ pc = "release" /\ u = seen.uid /\ scenario' = NoScenario /\ seen' = NoScenario
        /\ cache' = cache
    BY <1>0, <1>2 DEF ScenarioStep, Released
  <2>2. seen.deleting /\ seen.uid \in UIDs
    BY <2>1, SeenFormed DEF Aging, Cleaning
  <2> QED BY <2>1, <2>2 DEF Aging
<1> QED BY <1>1, <1>2

LEMMA CleanupKept ==
  ASSUME TInv, CInv, Next
  PROVE  CleanupInv'
<1> USE Facts, Constants, Nothing DEF TInv
<1>0. ScenarioStep /\ ReconcileStep /\ DeploymentStep /\ RunnerStep
  BY ScenarioSteps, ReconcileSteps, DeploymentSteps, RunnerSteps
(* Where there is no runner, only a reconcile of the scenario starts one.  *)
<1>1. ASSUME NEW u \in UIDs, NoRunner(u), u \notin keys, ~(pc = "deployment" /\ seen.uid = u)
      PROVE  NoRunner(u)' /\ u \notin keys'
  <2>1. deployment'.owner # u
    BY <1>0, <1>1 DEF DeploymentStep, NoRunner
  <2>2. (\A p \in pods' : p.owner # u) /\ u \notin keys'
    BY <1>0, <1>1 DEF RunnerStep, NoRunner
  <2> QED BY <2>1, <2>2 DEF NoRunner
<1>2. ASSUME NEW u \in UIDs, NoRunner(u), ~(pc = "deployment" /\ seen.uid = u)
      PROVE  NoRunner(u)' /\ (u \in keys' => u \in keys)
  <2>1. deployment'.owner # u
    BY <1>0, <1>2 DEF DeploymentStep, NoRunner
  <2>2. (\A p \in pods' : p.owner # u) /\ (u \in keys' => u \in keys)
    BY <1>0, <1>2 DEF RunnerStep, NoRunner
  <2> QED BY <2>1, <2>2 DEF NoRunner
<1>3. ASSUME NEW u \in cleaned', u \notin stale' \cup lingering'
      PROVE  NoRunner(u)' /\ u \notin keys'
  <2>1. CASE u \in cleaned
    <3>1. u \notin stale \cup lingering
      BY <1>0, <1>3, <2>1 DEF ReconcileStep, Scanned, NoteRunner, history
    <3>2. NoRunner(u) /\ u \notin keys /\ u \in UIDs
      BY <2>1, <3>1 DEF CInv, CleanupInv, TypeOK
    <3>3. ~(pc = "deployment" /\ seen.uid = u)
      BY <2>1 DEF CInv, ReleasedIsOver, Aging, Cleaning
    <3> QED BY <1>1, <3>2, <3>3
  <2>2. CASE u \notin cleaned
    <3>1. /\ pc = "release" /\ u = seen.uid
          /\ UNCHANGED <<deployment, pods, keys, stale, lingering>>
      BY <1>0, <2>2 DEF ScenarioStep, Released
    <3> QED BY <1>3, <3>1 DEF CInv, CleanupInv, NoRunner
  <2> QED BY <2>1, <2>2
<1>4. ASSUME pc' \in {"del", "release"}, seen'.uid \notin stale' \cup lingering'
      PROVE  /\ NoRunner(seen.uid)'
             /\ seen'.uid \in keys' => pc' = "del" /\ seen'.uid \in found'
  <2>1. CASE UNCHANGED <<pc, seen, found, stale, lingering, cleaned>>
    <3>1. seen.uid \in UIDs /\ NoRunner(seen.uid) /\ (seen.uid \in keys => pc = "del" /\ seen.uid \in found)
      BY <1>4, <2>1, SeenFormed DEF CInv, CleanupInv
    <3>2. NoRunner(seen.uid)' /\ (seen.uid \in keys' => seen.uid \in keys)
      BY <1>2, <1>4, <2>1, <3>1
    <3> QED BY <2>1, <3>1, <3>2
  <2>2. CASE pc = "del" /\ pc' = "release" /\ keys' = keys \ found /\ UNCHANGED <<seen, cache, history>>
    <3>1. seen.uid \in UIDs /\ NoRunner(seen.uid) /\ (seen.uid \in keys => seen.uid \in found)
      BY <1>4, <2>2, SeenFormed DEF CInv, CleanupInv, history
    <3>2. NoRunner(seen.uid)'
      BY <1>2, <2>2, <3>1
    <3> QED BY <2>2, <3>1, <3>2
  <2>3. CASE pc = "scan" /\ Scanned /\ UNCHANGED <<cluster, cache, cleaned>>
    <3>1. UNCHANGED <<deployment, pods, keys, seen>> /\ seen.uid \in UIDs
      BY <2>3, SeenFormed DEF Scanned, cluster
    <3>2. CASE seen.uid \in cleaned
      BY <1>4, <2>3, <3>1, <3>2 DEF Scanned, CInv, CleanupInv, NoRunner
    <3>3. CASE seen.uid \notin cleaned
      <4>1. /\ stale' = (stale \ {seen.uid}) \cup ({seen.uid} \cap {deployment.owner})
            /\ lingering' = (lingering \ {seen.uid})
                 \cup (({seen.uid} \cap {p.owner : p \in pods}) \ ({seen.uid} \cap {deployment.owner}))
        BY <2>3, <3>3 DEF Scanned, NoteRunner
      <4>2. deployment.owner # seen.uid
        BY <1>4, <3>1, <4>1
      <4>3. \A p \in pods : p.owner # seen.uid
        BY <1>4, <3>1, <4>1, <4>2
      <4>4. seen.uid \in keys => pc' = "del" /\ seen.uid \in found'
        BY <2>3 DEF Scanned
      <4> QED BY <3>1, <4>2, <4>3, <4>4 DEF NoRunner
    <3> QED BY <3>2, <3>3
  <2> QED BY <1>0, <1>4, <2>1, <2>2, <2>3 DEF ReconcileStep, Onwards
<1> QED BY <1>3, <1>4 DEF CleanupInv

LEMMA CInvAlways == Spec => [](TInv /\ CInv)
<1>1. Init => TInv /\ CInv
  <2> SUFFICES ASSUME Init PROVE CInv
    BY InitTInv
  <2>1. cache.scenario = NoScenario /\ scenario = NoScenario /\ lastUID = 0 /\ cleaned = {}
    BY DEF Init, ClusterInit
  <2> QED BY <2>1, Nothing, Constants DEF Init, CInv, Aging, ReleasedIsOver, CleanupInv
<1>2. TInv /\ CInv /\ [Next]_vars => (TInv /\ CInv)'
  <2> SUFFICES ASSUME TInv, CInv, [Next]_vars PROVE CInv'
    BY TInvKept
  <2>1. CASE UNCHANGED vars
    BY <2>1 DEF CInv, Aging, ReleasedIsOver, CleanupInv, NoRunner, vars, cluster, manager, history
  <2>2. CASE Next
    BY <2>2, AgingKept, ReleasedKept, CleanupKept DEF CInv
  <2> QED BY <2>1, <2>2
<1> QED BY <1>1, <1>2, PTL DEF Spec

(* A scenario released after a cleanup leaves no key behind, through       *)
(* failed scans, lost DEL replies, conflicts, retries and restarts, unless *)
(* its runner was still there at the last scan of keys.                    *)
THEOREM CleanupIsFinal == Spec => []CleanedLeavesNoKeys
<1>1. TInv /\ CInv => CleanedLeavesNoKeys
  BY DEF CInv, CleanupInv, NoRunner, CleanedLeavesNoKeys
<1> QED BY <1>1, CInvAlways, PTL
=============================================================================
