--------------------------- MODULE ScenarioConfig ---------------------------
(***************************************************************************)
(* What the controller makes of a TrafficScenario and what a runner makes  *)
(* of the result: the controller's validation, the runner configuration,   *)
(* environment, credentials and resources it derives, and every check      *)
(* between a runner's start and its first slot.                            *)
(*                                                                         *)
(* Texts are reduced to what the checks tell apart: an identifier that     *)
(* does not match namePattern is BadName, a header name is lower-cased, a  *)
(* template is the set of variables it mentions.  A field that is left out *)
(* is zero or "", and an optional part is a set of at most one element.    *)
(* Encoding a configuration as JSON and decoding it gives back the same    *)
(* fields, so the runner validates what the controller validated; the API  *)
(* server refuses a ConfigMap longer than the MaxConfigBytes it reads.     *)
(***************************************************************************)
EXTENDS Integers, Sequences, FiniteSets, Functions

MaxRequestsPerMinute == 6000
MaxScheduleWindowMinutes == 1440
MaxProfileBurstSize == 100
MaxProfileDelayDivisor == 100
MaxOperations == 64
MaxStores == 32
MaxStoreCapacity == 100000
MaxSecretHeaders == 64
MaxReplicas == 10
MaxWeight == 10000
BadName == "Bad Name"

\* The minute is of no consequence to what the package accepts.
TrafficProfile == INSTANCE Profile WITH Minute <- 60

-----------------------------------------------------------------------------
(* Runner: Config.Validate                                                 *)

ValidateName(name) == name # BadName

(* A target is absolute when it is an HTTP(S) URL with a host and without  *)
(* credentials, query or fragment.                                         *)
ValidateTarget(target) == target = "absolute"

ValidateRateSchedule(s) ==
  \/ /\ s.type = "fixed"
     /\ s.rpm \in 1 .. MaxRequestsPerMinute
     /\ s.min = 0 /\ s.max = 0 /\ s.window = 0
  \/ /\ s.type = "uniform"
     /\ s.rpm = 0
     /\ s.min \in 1 .. MaxRequestsPerMinute
     /\ s.max \in s.min .. MaxRequestsPerMinute
     /\ s.window \in 1 .. MaxScheduleWindowMinutes

(* Mutant: a divisor of one is let through.                                *)
LaxValidateRateProfile(p) ==
  \/ /\ p.type \in {"", "fixed", "uniform"}
     /\ p.min = 0 /\ p.max = 0 /\ p.divisor = 0
  \/ /\ p.type = "burst"
     /\ p.min \in 2 .. MaxProfileBurstSize
     /\ p.max \in p.min .. MaxProfileBurstSize
     /\ p.divisor \in 0 .. MaxProfileDelayDivisor

ValidateRateProfile(p) ==
  \/ /\ p.type \in {"", "fixed", "uniform"}
     /\ p.min = 0 /\ p.max = 0 /\ p.divisor = 0
  \/ /\ p.type = "burst"
     /\ p.min \in 2 .. MaxProfileBurstSize
     /\ p.max \in p.min .. MaxProfileBurstSize
     /\ p.divisor \in {0} \union 2 .. MaxProfileDelayDivisor

ValidateStoreConfigs(stores) ==
  /\ Len(stores) <= MaxStores
  /\ \A i \in DOMAIN stores :
       /\ ValidateName(stores[i].name)
       /\ stores[i].capacity \in 1 .. MaxStoreCapacity
  /\ IsInjective([i \in DOMAIN stores |-> stores[i].name])

StoreNames(stores) == {stores[i].name : i \in DOMAIN stores}

ValidateVariable(v, names) ==
  /\ ValidateName(v.name)
  /\ \/ v.type = "randomUUID" /\ v.store = "" /\ v.length = 0
     \/ v.type = "randomBase62" /\ v.store = "" /\ v.length \in 1 .. 128
     \/ v.type = "store" /\ v.length = 0 /\ v.store \in names

TransportHeaders == {"host", "content-length", "transfer-encoding", "connection"}
SensitiveHeaders ==
  {"authorization", "proxy-authorization", "cookie", "set-cookie", "x-api-key"}
ValidHeaderName(name) == name # ""

(* headers maps the names of literal headers to the kind of their value;   *)
(* the value files of secret headers are the controller's own.             *)
ValidateHeaders(headers, secretHeaders) ==
  /\ \A name \in DOMAIN headers :
       /\ ValidHeaderName(name)
       /\ name \notin SensitiveHeaders \union TransportHeaders
       /\ headers[name] \notin {"lineBreak", "template"}
  /\ Len(secretHeaders) <= MaxSecretHeaders
  /\ \A i \in DOMAIN secretHeaders :
       /\ ValidHeaderName(secretHeaders[i].name)
       /\ secretHeaders[i].name \notin TransportHeaders \union DOMAIN headers
  /\ IsInjective([i \in DOMAIN secretHeaders |-> secretHeaders[i].name])

ValidateRequest(o) ==
  /\ o.weight \in 1 .. MaxWeight
  /\ o.method \in {"GET", "POST"}
  /\ o.path = "rooted"
  /\ o.body # "tooLong"
  /\ o.method = "GET" => o.body = ""
  /\ ValidateHeaders(o.headers, o.secretHeaders)
  /\ o.statuses # <<>> /\ Range(o.statuses) \subseteq 100 .. 599
  /\ IsInjective(o.statuses)

Defined(o) == {o.variables[i].name : i \in DOMAIN o.variables}

(* Mutant: what the template mentions need not be defined.                 *)
OneWayValidateVariables(o, names) ==
  /\ \A i \in DOMAIN o.variables : ValidateVariable(o.variables[i], names)
  /\ IsInjective([i \in DOMAIN o.variables |-> o.variables[i].name])
  /\ Defined(o) \subseteq o.used

(* The template mentions exactly the variables that are defined; a         *)
(* malformed marker counts as a mention of BadName.                        *)
ValidateVariables(o, names) ==
  /\ \A i \in DOMAIN o.variables : ValidateVariable(o.variables[i], names)
  /\ IsInjective([i \in DOMAIN o.variables |-> o.variables[i].name])
  /\ BadName \notin o.used
  /\ Defined(o) = o.used

(* Mutant: the store of a capture is not looked up.                        *)
UncheckedValidateCapture(o, names) == \A c \in o.capture : c.pointer = "valid"

ValidateCapture(o, names) ==
  \A c \in o.capture : c.pointer = "valid" /\ c.store \in names

ValidateOperation(o, names) ==
  /\ ValidateName(o.name)
  /\ ValidateRequest(o)
  /\ ValidateVariables(o, names)
  /\ ValidateCapture(o, names)

Validate(c) ==
  /\ ValidateTarget(c.target)
  /\ ValidateRateSchedule(c.schedule)
  /\ c.limiter \in {"", "local", "redis"}
  /\ ValidateRateProfile(c.profile)
  /\ ValidateStoreConfigs(c.stores)
  /\ Len(c.operations) \in 1 .. MaxOperations
  /\ \A i \in DOMAIN c.operations :
       ValidateOperation(c.operations[i], StoreNames(c.stores))
  /\ IsInjective([i \in DOMAIN c.operations |-> c.operations[i].name])

-----------------------------------------------------------------------------
(* Controller: what a scenario's omitted fields mean                       *)

RunnerReplicas(s) == IF s.replicas = 0 THEN 1 ELSE s.replicas
StorageBackend(s) == IF s.storage = "" THEN "memory" ELSE s.storage

RateLimiterBackend(s) ==
  CASE s.limiter # "" -> s.limiter
    [] s.limiter = "" /\ StorageBackend(s) = "redis" -> "redis"
    [] OTHER -> "local"

RateProfileType(s) == IF s.profile.type = "" THEN "fixed" ELSE s.profile.type

(* Mutant: the schedule's need for Redis is forgotten.                     *)
StoreOrLimiterRequiresRedis(s) ==
  StorageBackend(s) = "redis" \/ RateLimiterBackend(s) = "redis"

RequiresRedis(s) ==
  \/ StorageBackend(s) = "redis"
  \/ RateLimiterBackend(s) = "redis"
  \/ s.schedule.type = "uniform"

(* Mutant: files are told apart by the header's index alone.               *)
SharedSecretHeaderRelativePath(i, j) == <<j>>

(* The file of the credential of operation i's header j, below the mount   *)
(* path that configuration and volume have in common.                      *)
SecretHeaderRelativePath(i, j) == <<i, j>>

(* Operation by operation; a secret header names its file instead of its   *)
(* Secret.                                                                 *)
RunnerOperation(o, i) ==
  [o EXCEPT !.secretHeaders =
     [j \in DOMAIN o.secretHeaders |->
        [name |-> o.secretHeaders[j].name,
         valueFile |-> SecretHeaderRelativePath(i, j)]]]

ScenarioRunnerConfig(s) ==
  [target     |-> s.target,
   schedule   |-> s.schedule,
   limiter    |-> RateLimiterBackend(s),
   profile    |-> [s.profile EXCEPT !.type = RateProfileType(s)],
   stores     |-> s.stores,
   operations |-> [i \in DOMAIN s.operations |->
                     RunnerOperation(s.operations[i], i)]]

(* The projected volume: which Secret each mounted file holds.             *)
DesiredSecretHeaderVolume(s) ==
  UNION {{[path |-> SecretHeaderRelativePath(i, j),
           ref |-> s.operations[i].secretHeaders[j].ref] :
            j \in DOMAIN s.operations[i].secretHeaders} :
          i \in DOMAIN s.operations}

RunnerEnvironment(s, address) ==
  [backend |-> StorageBackend(s),
   redis   |-> IF RequiresRedis(s) THEN address ELSE "",
   scope   |-> RequiresRedis(s)]

-----------------------------------------------------------------------------
(* Controller: the runner's resources, in millicores and mebibytes         *)

DefaultRequests ==
  [r \in {"cpu", "memory", "ephemeral-storage"} |->
     CASE r = "cpu" -> 25 [] r = "memory" -> 32 [] OTHER -> 16]
DefaultLimits ==
  [r \in {"cpu", "memory", "ephemeral-storage"} |->
     CASE r = "cpu" -> 500 [] r = "memory" -> 128 [] OTHER -> 64]
MaxRunnerResource ==
  [r \in {"cpu", "memory", "ephemeral-storage"} |->
     CASE r = "cpu" -> 1000 [] r = "memory" -> 512 [] OTHER -> 1024]

\* Entries that are left out keep their defaults.
MergeMissingResources(target, defaults) ==
  [r \in DOMAIN target \union DOMAIN defaults |->
     IF r \in DOMAIN target THEN target[r] ELSE defaults[r]]

RunnerResources(s) ==
  [requests |-> MergeMissingResources(s.resources.requests, DefaultRequests),
   limits   |-> MergeMissingResources(s.resources.limits, DefaultLimits)]

ValidateRunnerResourceList(list) ==
  /\ DOMAIN list \subseteq DOMAIN MaxRunnerResource
  /\ \A r \in DOMAIN list : list[r] \in 0 .. MaxRunnerResource[r]

(* Mutant: requests are compared with limits before the defaults are       *)
(* filled in.                                                              *)
UnmergedValidateRunnerResources(s) ==
  /\ ValidateRunnerResourceList(s.resources.requests)
  /\ ValidateRunnerResourceList(s.resources.limits)
  /\ \A r \in DOMAIN s.resources.requests \cap DOMAIN s.resources.limits :
       s.resources.requests[r] <= s.resources.limits[r]

ValidateRunnerResources(s) ==
  /\ ValidateRunnerResourceList(s.resources.requests)
  /\ ValidateRunnerResourceList(s.resources.limits)
  /\ \A r \in DOMAIN MaxRunnerResource :
       RunnerResources(s).requests[r] <= RunnerResources(s).limits[r]

-----------------------------------------------------------------------------
(* Controller: validateScenario                                            *)

ValidateSecretHeaderReferences(s) ==
  \A i \in DOMAIN s.operations :
    \A j \in DOMAIN s.operations[i].secretHeaders :
      s.operations[i].secretHeaders[j].ref # BadName

(* Mutant: the limiter's own type is looked at, not the one that results.  *)
UnresolvedValidateScenario(s) ==
  /\ s.storage \in {"", "memory", "redis"}
  /\ RunnerReplicas(s) \in 1 .. MaxReplicas
  /\ RunnerReplicas(s) > 1 => s.limiter # "local"
  /\ ValidateRunnerResources(s)
  /\ ValidateSecretHeaderReferences(s)
  /\ Validate(ScenarioRunnerConfig(s))

ValidateScenario(s) ==
  /\ s.storage \in {"", "memory", "redis"}
  /\ s.limiter \in {"", "local", "redis"}
  /\ s.profile.type \in {"", "fixed", "uniform", "burst"}
  /\ RunnerReplicas(s) \in 1 .. MaxReplicas
  /\ RunnerReplicas(s) > 1 => RateLimiterBackend(s) = "redis"
  /\ ValidateRunnerResources(s)
  /\ ValidateSecretHeaderReferences(s)
  /\ Validate(ScenarioRunnerConfig(s))

-----------------------------------------------------------------------------
(* Runner: from its start to its first slot                                *)

NormalizedStoreBackend(backend) == IF backend = "" THEN "memory" ELSE backend

NormalizedRateLimiterBackend(limiter, backend) ==
  CASE limiter # "" -> limiter
    [] limiter = "" /\ NormalizedStoreBackend(backend) = "redis" -> "redis"
    [] OTHER -> "local"

(* The parts of the process that need a Redis client.                      *)
UsesRedis(c, env) ==
  \/ NormalizedStoreBackend(env.backend) = "redis"
  \/ NormalizedRateLimiterBackend(c.limiter, env.backend) = "redis"
  \/ c.schedule.type = "uniform"

(* newRuntimeState, as far as it depends on the configuration: a client    *)
(* needs an address and a scope, stores and schedule check their own.      *)
NewRuntimeState(c, env) ==
  /\ NormalizedStoreBackend(env.backend) \in {"memory", "redis"}
  /\ NormalizedRateLimiterBackend(c.limiter, env.backend) \in {"local", "redis"}
  /\ UsesRedis(c, env) => env.redis # "" /\ env.scope
  /\ ValidateStoreConfigs(c.stores)
  /\ \/ c.schedule.type = "fixed"
     \/ /\ c.schedule.type = "uniform"
        /\ c.schedule.min >= 1 /\ c.schedule.max >= c.schedule.min
        /\ c.schedule.window >= 1

NewScheduler(c) ==
  /\ ValidateRateSchedule(c.schedule)
  /\ ValidateRateProfile(c.profile)
  /\ Len(c.operations) \in 1 .. MaxOperations
  /\ \A i \in DOMAIN c.operations : c.operations[i].weight \in 1 .. MaxWeight
  /\ TrafficProfile!Accepted(c.profile)

(* Everything the process checks before it serves and runs the loop.       *)
RunnerStarts(c, env) ==
  /\ Validate(c)
  /\ NewRuntimeState(c, env)
  /\ ValidateTarget(c.target)
  /\ NewScheduler(c)
=============================================================================
