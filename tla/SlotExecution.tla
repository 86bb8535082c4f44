--------------------------- MODULE SlotExecution ---------------------------
(***************************************************************************)
(* A scenario from its submission to its requests: the controller refuses  *)
(* it or deploys runners for it, users edit it, Pods come and go, runners  *)
(* start, and each of them uses permits one after the other                *)
(* (executeReservedSlot): it picks operations by weight until one is not   *)
(* held back by an empty store, and executes that one.                     *)
(*                                                                         *)
(* The controller brings ConfigMap and Deployment up to date by two calls, *)
(* each a merge patch against a cached copy.  A Pod keeps the template it  *)
(* was created from, but each start of its container reads the ConfigMap   *)
(* there is then.  Suspension and deletion are Reconciler's.               *)
(*                                                                         *)
(* One slot is one permit, granted beforehand (RateBudget).  A step of a   *)
(* slot is one call to the store, the file system or the target.  Of a     *)
(* store only whether it has values matters: filled holds the stores that  *)
(* do, per process in memory, shared in Redis.  A start at which Redis     *)
(* does not answer leaves nothing behind and is not a step.                *)
(***************************************************************************)
EXTENDS ScenarioConfig, FiniteSetsExt

CONSTANTS
  Scenarios,  \* what users submit
  Edits,      \* <<s, t>>: users may replace s by t
  Addresses,  \* the manager's Redis address, "" when it has none
  Processes   \* numbers of the Pods, and of their processes, a run follows

(* The fields of a scenario that the controller rewrites are fields of its *)
(* Go types, and lists are sequences.                                      *)
ASSUME ScenariosAssumption ==
  \A s \in Scenarios :
    /\ s.operations \in Seq(Range(s.operations))
    /\ \A i \in DOMAIN s.operations :
         /\ {"secretHeaders", "variables"} \subseteq DOMAIN s.operations[i]
         /\ s.operations[i].variables \in Seq(Range(s.operations[i].variables))

ASSUME EditsAssumption == Edits \subseteq Scenarios \X Scenarios

ASSUME ProcessesAssumption ==
  Processes \subseteq Nat \ {0} /\ IsFiniteSet(Processes)

(* A set of at most one element stands for what there may be none of.      *)
VARIABLES
  scenario,    \* the TrafficScenario, as the controller's informer shows it
  submitted,   \* history: the scenarios it has been
  address,     \* what the manager is configured with
  working,     \* the scenario a Reconcile has applied the ConfigMap of
  configMap,   \* the configuration in the ConfigMap
  deployment,  \* the Deployment
  cache,       \* the informers' copies of both
  pod,         \* the template each Pod was created from
  config,      \* the configuration each process has read
  started,     \* the backends each process that has started has chosen
  slot,        \* where each process is in its slot
  filled       \* <<owner, store>> of the stores that have values

control == <<scenario, submitted, address, working, configMap, deployment, cache>>
process == <<config, started, slot, filled>>
vars == <<control, pod, process>>

-----------------------------------------------------------------------------

None == [store |-> "", limiter |-> ""]

(* A slot: excluded, attempts and index are those of executeReservedSlot,  *)
(* resolved counts the variables that have a value, credentials are the    *)
(* header values of the request.  sent and held are history: the requests  *)
(* sent with the permit, and the operations an empty store held back.      *)
(* outcome is how the last slot ended.                                     *)
Slot(at, outcome) ==
  [at |-> at, outcome |-> outcome, excluded |-> {}, attempts |-> 0,
   index |-> 0, resolved |-> 0, credentials |-> {}, sent |-> 0, held |-> {}]

Init ==
  /\ scenario \in Scenarios
  /\ submitted = {scenario}
  /\ address \in Addresses
  /\ working = {}
  /\ configMap = {}
  /\ deployment = {}
  /\ cache = [configMap |-> {}, deployment |-> {}]
  /\ pod = [p \in Processes |-> {}]
  /\ config = [p \in Processes |-> {}]
  /\ started = [p \in Processes |-> None]
  /\ slot = [p \in Processes |-> Slot("off", "")]
  /\ filled = {}

-----------------------------------------------------------------------------
(* The controller                                                          *)

Edit ==
  /\ \E e \in Edits : e[1] = scenario /\ scenario' = e[2]
  /\ submitted' = submitted \union {scenario'}
  /\ UNCHANGED <<address, working, configMap, deployment, cache, pod, process>>

(* What Reconcile deploys: a valid scenario, if it does not need a Redis   *)
(* address the manager lacks.                                              *)
Accepted(s) == ValidateScenario(s) /\ (RequiresRedis(s) => address # "")

(* desiredDeployment, by the fields a merge patch replaces as a whole.     *)
DesiredDeployment(s) ==
  [replicas   |-> RunnerReplicas(s),
   hash       |-> ScenarioRunnerConfig(s),
   containers |-> [env       |-> RunnerEnvironment(s, address),
                   resources |-> RunnerResources(s)],
   volume     |-> DesiredSecretHeaderVolume(s)]

(* A merge patch: the fields in which desired differs from the copy read.  *)
Patched(current, copy, desired) ==
  [f \in DOMAIN desired |->
     IF copy[f] = desired[f] THEN current[f] ELSE desired[f]]

(* applyConfigMap: it creates the ConfigMap if there is no copy of it, and *)
(* patches it otherwise.                                                   *)
ApplyConfigMap ==
  LET desired == ScenarioRunnerConfig(scenario)
  IN  /\ working = {} /\ Accepted(scenario)
      /\ \/ /\ cache.configMap = {} /\ configMap = {}
            /\ configMap' = {desired}
         \/ /\ cache.configMap = {desired}
            /\ UNCHANGED configMap
         \/ /\ cache.configMap \notin {{}, {desired}}
            /\ configMap' = {desired}
      /\ working' = {scenario}
      /\ UNCHANGED <<scenario, submitted, address, deployment, cache, pod, process>>

(* applyDeployment, likewise, for the scenario Reconcile began with.       *)
ApplyDeployment ==
  /\ \E s \in working :
       \/ /\ cache.deployment = {} /\ deployment = {}
          /\ deployment' = {DesiredDeployment(s)}
       \/ /\ cache.deployment # {}
          /\ deployment' = {Patched(d, c, DesiredDeployment(s)) :
                               d \in deployment, c \in cache.deployment}
  /\ working' = {}
  /\ UNCHANGED <<scenario, submitted, address, configMap, cache, pod, process>>

(* A call fails, perhaps after it was applied, or the manager dies.        *)
Interrupt ==
  /\ working # {} /\ working' = {}
  /\ UNCHANGED <<scenario, submitted, address, configMap, deployment, cache, pod, process>>

SyncConfigMap ==
  /\ cache.configMap # configMap
  /\ cache' = [cache EXCEPT !.configMap = configMap]
  /\ UNCHANGED <<scenario, submitted, address, working, configMap, deployment, pod, process>>

SyncDeployment ==
  /\ cache.deployment # deployment
  /\ cache' = [cache EXCEPT !.deployment = deployment]
  /\ UNCHANGED <<scenario, submitted, address, working, configMap, deployment, pod, process>>

-----------------------------------------------------------------------------
(* Pods and processes                                                      *)

TemplateOf(d) == [hash |-> d.hash, containers |-> d.containers, volume |-> d.volume]

MaxSurge == 1

Pods == {p \in Processes : pod[p] # {}}

(* The rolling update: Pods of the current template up to the number of    *)
(* replicas, next to old ones up to MaxSurge more than that in all.        *)
CreatePod(p) ==
  /\ pod[p] = {}
  /\ \E d \in deployment :
       /\ Cardinality({q \in Pods : pod[q] = {TemplateOf(d)}}) < d.replicas
       /\ Cardinality(Pods) < d.replicas + MaxSurge
       /\ pod' = [pod EXCEPT ![p] = {TemplateOf(d)}]
  /\ UNCHANGED <<control, process>>

Config(p) == CHOOSE c \in config[p] : TRUE
Template(p) == CHOOSE t \in pod[p] : TRUE
Env(p) == Template(p).containers.env
Volume(p) == Template(p).volume

(* The container starts, for the first time or again, and reads the        *)
(* ConfigMap there is now: the process comes up, or exits with an error of *)
(* its configuration and is restarted for ever.                            *)
Start(p) ==
  /\ pod[p] # {}
  /\ slot[p].at \in {"off", "crashLoop"}
  /\ \E c \in configMap :
       /\ config' = [config EXCEPT ![p] = {c}]
       /\ \/ /\ RunnerStarts(c, Env(p))
             /\ started' = [started EXCEPT ![p] =
                  [store   |-> NormalizedStoreBackend(Env(p).backend),
                   limiter |-> NormalizedRateLimiterBackend(c.limiter, Env(p).backend)]]
             /\ slot' = [slot EXCEPT ![p] = Slot("idle", "")]
          \/ /\ ~RunnerStarts(c, Env(p))
             /\ slot' = [slot EXCEPT ![p] = Slot("crashLoop", "")]
             /\ UNCHANGED started
  /\ UNCHANGED <<control, pod, filled>>

(* The process ends, and its memory with it: its container dies, or its    *)
(* Pod goes, being rolled over, scaled down or evicted.                    *)
Exit(p) ==
  /\ slot' = [slot EXCEPT ![p] = Slot("off", "")]
  /\ config' = [config EXCEPT ![p] = {}]
  /\ started' = [started EXCEPT ![p] = None]
  /\ filled' = {f \in filled : f[1] # p}
  /\ UNCHANGED control

Kill(p) ==
  /\ slot[p].at \notin {"off", "crashLoop"}
  /\ Exit(p)
  /\ UNCHANGED pod

RemovePod(p) ==
  /\ pod[p] # {}
  /\ pod' = [pod EXCEPT ![p] = {}]
  /\ Exit(p)

-----------------------------------------------------------------------------
(* One slot                                                                *)

Become(p, s) ==
  /\ slot' = [slot EXCEPT ![p] = s]
  /\ UNCHANGED <<control, pod, config, started>>

(* The slot is over; the history of it stays until the next one.           *)
End(p, outcome) ==
  Become(p, [Slot("idle", outcome) EXCEPT !.sent = slot[p].sent, !.held = slot[p].held])

Begin(p) ==
  /\ slot[p].at = "idle"
  /\ Become(p, Slot("pick", ""))
  /\ UNCHANGED filled

(* pickWeighted: the operation whose range of the cumulative weights of    *)
(* those left holds the number drawn, as a set of one.                     *)
PickWeighted(operations, excluded, selected) ==
  LET left == DOMAIN operations \ excluded
      Below(i) == MapThenSumSet(LAMBDA j : operations[j].weight,
                                {j \in left : j < i})
  IN  {i \in left : selected \in Below(i) .. Below(i) + operations[i].weight - 1}

TotalWeight(operations, excluded) ==
  MapThenSumSet(LAMBDA j : operations[j].weight, DOMAIN operations \ excluded)

Pick(p) ==
  /\ slot[p].at = "pick"
  /\ LET s == slot[p]
         total == TotalWeight(Config(p).operations, s.excluded)
     IN  \/ /\ s.attempts < Len(Config(p).operations) /\ total > 0
            /\ \E selected \in 0 .. total - 1 :
                 \E i \in PickWeighted(Config(p).operations, s.excluded, selected) :
                   Become(p, [s EXCEPT !.at = "resolve", !.index = i])
         \/ /\ s.attempts = Len(Config(p).operations) \/ total = 0
            /\ End(p, "skipped")
  /\ UNCHANGED filled

Operation(p) == Config(p).operations[slot[p].index]

(* Who shares the values of a process.                                     *)
Owner(p) == IF started[p].store = "redis" THEN 0 ELSE p

(* Mutant: an operation without values is not excluded from the next pick. *)
ForgetfulReselect(p) ==
  Become(p, [slot[p] EXCEPT !.at = "pick", !.attempts = @ + 1,
               !.held = @ \union {slot[p].index}, !.resolved = 0])

(* Mutant: the attempts are not counted either.                            *)
EndlessReselect(p) ==
  Become(p, [slot[p] EXCEPT !.at = "pick", !.held = @ \union {slot[p].index},
               !.resolved = 0])

(* Only an unavailable value leads to another pick.                        *)
Reselect(p) ==
  Become(p, [slot[p] EXCEPT !.at = "pick", !.attempts = @ + 1,
               !.excluded = @ \union {slot[p].index},
               !.held = @ \union {slot[p].index}, !.resolved = 0])

(* The next variable of the operation is generated, or drawn from a store: *)
(* a value, none, or an error of the store, of the context or of the       *)
(* entropy source.  In Redis a draw may miss although there are values     *)
(* (RedisStore).                                                           *)
Resolve(p) ==
  LET v == Operation(p).variables[slot[p].resolved + 1]
      known == v.store \in StoreNames(Config(p).stores)
      has == <<Owner(p), v.store>> \in filled
      found == [slot[p] EXCEPT !.resolved = @ + 1]
  IN  /\ slot[p].at = "resolve"
      /\ slot[p].resolved < Len(Operation(p).variables)
      /\ \/ v.type \in {"randomUUID", "randomBase62"} /\ Become(p, found)
         \/ v.type = "store" /\ known /\ has /\ Become(p, found)
         \/ /\ v.type = "store" /\ known
            /\ ~has \/ started[p].store = "redis"
            /\ Reselect(p)
         \/ v.type = "store" /\ ~known /\ End(p, "storeNotFound")
         \/ v.type \notin {"randomUUID", "randomBase62", "store"}
              /\ End(p, "unsupportedSource")
         \/ End(p, "failed")
      /\ UNCHANGED filled

(* What the files of an operation's secret headers hold.                   *)
Credentials(o, volume) ==
  {[name |-> o.secretHeaders[x[1]].name, ref |-> x[2].ref] :
     x \in {y \in (DOMAIN o.secretHeaders) \X volume :
             y[2].path = o.secretHeaders[y[1]].valueFile}}

(* The request is rendered and sent with its credentials, or fails before: *)
(* a body that grew too long, a URL that does not parse, a credential that *)
(* cannot be read.                                                         *)
Send(p) ==
  /\ slot[p].at = "resolve"
  /\ slot[p].resolved = Len(Operation(p).variables)
  /\ \/ Become(p, [slot[p] EXCEPT !.at = "response", !.sent = @ + 1,
                      !.credentials = Credentials(Operation(p), Volume(p))])
     \/ End(p, "failed")
  /\ UNCHANGED filled

(* Mutant: any error leads to another pick.                                *)
RetryingRespond(p) ==
  /\ slot[p].at = "response"
  /\ \/ Become(p, [slot[p] EXCEPT !.at = "pick", !.attempts = @ + 1,
                      !.excluded = @ \union {slot[p].index}, !.resolved = 0])
     \/ Operation(p).capture = {} /\ End(p, "ok")
     \/ Operation(p).capture # {} /\ Become(p, [slot[p] EXCEPT !.at = "capture"])
  /\ UNCHANGED filled

(* The response arrives with an expected status, or does not: a timeout, a *)
(* body too large, another status, nothing to capture at the pointer.      *)
Respond(p) ==
  /\ slot[p].at = "response"
  /\ \/ End(p, "failed")
     \/ Operation(p).capture = {} /\ End(p, "ok")
     \/ Operation(p).capture # {} /\ Become(p, [slot[p] EXCEPT !.at = "capture"])
  /\ UNCHANGED filled

(* The captured value is put into its store; a Put that fails may have     *)
(* been applied in Redis.                                                  *)
Capture(p) ==
  LET name == (CHOOSE c \in Operation(p).capture : TRUE).store
      kept == filled \union {<<Owner(p), name>>}
  IN  /\ slot[p].at = "capture"
      /\ \/ /\ name \in StoreNames(Config(p).stores)
            /\ filled' = kept /\ End(p, "ok")
         \/ /\ name \in StoreNames(Config(p).stores)
            /\ filled' \in {filled} \union
                  {f \in {kept} : started[p].store = "redis"}
            /\ End(p, "failed")
         \/ /\ name \notin StoreNames(Config(p).stores)
            /\ UNCHANGED filled /\ End(p, "storeNotFound")

Step(p) == Begin(p) \/ Pick(p) \/ Resolve(p) \/ Send(p) \/ Respond(p) \/ Capture(p)

Control == Edit \/ ApplyConfigMap \/ ApplyDeployment \/ Interrupt
             \/ SyncConfigMap \/ SyncDeployment

Next ==
  \/ Control
  \/ \E p \in Processes :
       \/ CreatePod(p) \/ RemovePod(p)
       \/ Start(p) \/ Kill(p) \/ Step(p)

Spec == Init /\ [][Next]_vars

(* The scheduler's goroutine runs, and every call of Execute ends by its   *)
(* timeout.  Nothing makes a process start or die.                         *)
FairSpec == Spec /\ \A p \in Processes : WF_vars(Step(p))

-----------------------------------------------------------------------------

Started(p) == started[p] # None

(* Pod p was created for s and its process has read the configuration of   *)
(* s: the one its template carries the hash of.                            *)
RunsAsDeployed(p, s) ==
  /\ pod[p] # {} /\ Template(p) = TemplateOf(DesiredDeployment(s))
  /\ config[p] = {ScenarioRunnerConfig(s)}

(* A scenario the controller accepts never sends its Pods into a crash     *)
(* loop: its Pod template passes the API server, which wants every request *)
(* within its limit, and the constructors and checks of the runner accept  *)
(* the configuration and environment that were derived for it.  Only a     *)
(* container that has read another scenario's configuration, an earlier    *)
(* or a later one, can fail.                                               *)
AcceptedScenarioStarts ==
  /\ \A d \in deployment :
       LET resources == d.containers.resources
       IN  \A r \in DOMAIN resources.requests :
             resources.requests[r] <= resources.limits[r]
  /\ \A p \in Processes :
       slot[p].at = "crashLoop" =>
         \A s \in submitted : RunsAsDeployed(p, s) => ~Accepted(s)

(* Once a rollout is over, processes that run side by side share one       *)
(* budget: where every Pod is one of the accepted scenario's replicas and  *)
(* has read its configuration, two processes use the Redis limiter.        *)
(* During a rollout, or after an eviction, the code runs an old and a new  *)
(* Pod of a scenario with a local limiter next to each other.              *)
SideBySideMeansSharedLimiter ==
  LET RolledOut(s) == /\ Cardinality(Pods) <= RunnerReplicas(s)
                      /\ \A p \in Pods : RunsAsDeployed(p, s)
  IN  \A p, q \in Processes :
        p # q /\ Started(p) /\ Started(q) /\ started[p].limiter # "redis" =>
          \A s \in submitted : RolledOut(s) => ~Accepted(s)

(* A permit pays for at most one request, however often the slot picks     *)
(* again: RateBudget counts a slot as one request.                         *)
OneRequestPerPermit == \A p \in Processes : slot[p].sent <= 1

(* A permit is left unused only if every operation of the scenario reads a *)
(* store and a draw of this very slot found it without a value; otherwise  *)
(* re-selection must have reached an operation that can run.               *)
SkippedOnlyWhenHeldBack ==
  \A p \in Processes :
    slot[p].outcome = "skipped" =>
      /\ slot[p].sent = 0
      /\ slot[p].held = DOMAIN Config(p).operations
      /\ \A i \in slot[p].held :
           \E j \in DOMAIN Config(p).operations[i].variables :
             Config(p).operations[i].variables[j].type = "store"

(* What validation promises the executor: no slot of an accepted scenario  *)
(* meets a store or a source it does not know, and every variable a        *)
(* request's template mentions has a value (a missing one would be         *)
(* rendered as the empty string).                                          *)
ExecutorMeetsNoStaticError ==
  \A p \in Processes :
    /\ slot[p].outcome \notin {"storeNotFound", "unsupportedSource"}
    /\ slot[p].at = "response" => Operation(p).used \subseteq Defined(Operation(p))

(* A request carries exactly the credentials its operation refers to, of   *)
(* all the Secrets mounted for the scenario, if its process has read the   *)
(* configuration its Pod was created for.  Files are named by index, so a  *)
(* container that restarts in an old Pod after the ConfigMap was patched   *)
(* may send the credential of another operation.                           *)
RequestCarriesItsCredentials ==
  \A p \in Processes :
    slot[p].at = "response" =>
      \A s \in submitted :
        RunsAsDeployed(p, s) /\ Accepted(s) =>
          slot[p].credentials =
            {[name |-> h.name, ref |-> h.ref] :
               h \in Range(s.operations[slot[p].index].secretHeaders)}

(* Every slot ends, with or without a request, although stores stay empty. *)
SlotEnds ==
  \A p \in Processes :
    slot[p].at \in {"pick", "resolve", "response", "capture"}
      ~> slot[p].at \in {"idle", "off"}
=============================================================================
