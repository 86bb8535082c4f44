------------------------ MODULE SlotExecutionProofs ------------------------
(***************************************************************************)
(* Proofs about a scenario from its submission to its requests, for any    *)
(* scenarios and edits of them, any address of Redis and any number of     *)
(* Pods: a scenario that is accepted starts, replicas share one limiter, a *)
(* permit pays for one request and is left unused only when no operation   *)
(* can run, and a request meets no store, source or credential it does not *)
(* know.                                                                   *)
(***************************************************************************)
EXTENDS SlotExecution, FiniteSetTheorems, WellFoundedInduction, TLAPS

-----------------------------------------------------------------------------
(* The inductive invariant                                                 *)

Valid == {s \in Scenarios : ValidateScenario(s)}

ValidConfigs == {ScenarioRunnerConfig(s) : s \in Valid}

(* Whatever merge patches against stale copies make of the objects, every  *)
(* field of theirs comes from a scenario that passed validation.           *)
Applied ==
  /\ scenario \in Scenarios /\ submitted \subseteq Scenarios
  /\ working \subseteq Valid
  /\ configMap \subseteq ValidConfigs
  /\ \A d \in deployment :
       \E s \in Valid : d.containers.resources = RunnerResources(s)

SlotFields == {"at", "outcome", "excluded", "attempts", "index", "resolved",
               "credentials", "sent", "held"}

(* The slot s of a process with configuration c and mounted files v has    *)
(* sent nothing before it is past its variables, at most one request after *)
(* that, and works on an operation of its configuration.                   *)
SlotOK(s, c, v) ==
  /\ DOMAIN s = SlotFields
  /\ s.at \in {"off", "crashLoop", "idle", "pick", "resolve", "response", "capture"}
  /\ s.at # "off" => c \in ValidConfigs
  /\ s.resolved \in Nat
  /\ s.sent \in {0, 1}
  /\ s.at \in {"pick", "resolve"} => s.sent = 0
  /\ s.outcome \notin {"storeNotFound", "unsupportedSource"}
  /\ s.at \in {"resolve", "response", "capture"} => s.index \in DOMAIN c.operations
  /\ s.at = "response" => s.credentials = Credentials(c.operations[s.index], v)
  /\ s.at = "capture" => c.operations[s.index].capture # {}

Only(S) == CHOOSE x \in S : TRUE

(* A process of the Pod with template t has read the configuration c and   *)
(* chosen its backends b by both, or cannot start with them.               *)
ProcessOK(t, c, b, s) ==
  /\ SlotOK(s, Only(c), Only(t).volume)
  /\ s.at # "off" => t # {} /\ c # {}
  /\ s.at = "crashLoop" => ~RunnerStarts(Only(c), Only(t).containers.env)
  /\ b # None =>
       /\ s.at \notin {"off", "crashLoop"}
       /\ b.limiter = NormalizedRateLimiterBackend(Only(c).limiter,
                                                   Only(t).containers.env.backend)

Running ==
  /\ DOMAIN pod = Processes /\ DOMAIN config = Processes
  /\ DOMAIN started = Processes /\ DOMAIN slot = Processes
  /\ \A p \in Processes : ProcessOK(pod[p], config[p], started[p], slot[p])

SlotInv == Applied /\ Running

ReadsStore(o) == \E j \in DOMAIN o.variables : o.variables[j].type = "store"

(* An operation is excluded once, when an empty store held it back; that   *)
(* is counted, and only a slot that has excluded them all is skipped.      *)
HeldOK(s, c) ==
  /\ s.at # "idle" => /\ s.excluded = s.held
                      /\ s.attempts = Cardinality(s.held)
                      /\ s.outcome # "skipped"
  /\ s.held \subseteq DOMAIN c.operations
  /\ \A i \in s.held : ReadsStore(c.operations[i])
  /\ s.at = "resolve" => s.index \notin s.held
  /\ s.outcome = "skipped" => s.sent = 0 /\ s.held = DOMAIN c.operations

HeldInv == \A p \in Processes : HeldOK(slot[p], Only(config[p]))

-----------------------------------------------------------------------------
(* What validation promises                                                *)

RunnerOperations(s) == ScenarioRunnerConfig(s).operations

(* The credentials an operation of the scenario refers to.                 *)
Referred(o) == {[name |-> h.name, ref |-> h.ref] : h \in Range(o.secretHeaders)}

LEMMA LimiterResolved ==
  ASSUME NEW s
  PROVE  /\ RateLimiterBackend(s) # ""
         /\ \A b : NormalizedRateLimiterBackend(RateLimiterBackend(s), b) = RateLimiterBackend(s)
BY DEF RateLimiterBackend, NormalizedRateLimiterBackend

(* The traffic profile package is no stricter than the runner's check.     *)
LEMMA ProfileAccepted ==
  ASSUME NEW p, ValidateRateProfile(p)
  PROVE  TrafficProfile!Accepted(p)
<1>1. CASE p.type = "burst"
  <2>1. /\ p.min \in 2 .. 100 /\ p.max \in p.min .. 100
        /\ p.divisor = 0 \/ p.divisor \in 2 .. 100
    BY <1>1 DEF ValidateRateProfile, MaxProfileBurstSize, MaxProfileDelayDivisor
  <2>2. p.min >= 2 /\ p.max >= p.min
    BY <2>1
  <2>3. TrafficProfile!EffectiveDivisor(p) \in 2 .. 100
    BY <2>1 DEF TrafficProfile!EffectiveDivisor, TrafficProfile!DefaultBurstDelayDivisor
  <2> QED
    BY <1>1, <2>2, <2>3 DEF TrafficProfile!Accepted,
       TrafficProfile!MinimumBurstDelayDivisor, TrafficProfile!MaximumBurstDelayDivisor
<1>2. CASE p.type # "burst"
  BY <1>2, Zenon DEF ValidateRateProfile, TrafficProfile!Accepted
<1> QED BY <1>1, <1>2

(* Nor is the schedule's constructor.                                      *)
LEMMA ScheduleAccepted ==
  ASSUME NEW s, ValidateRateSchedule(s)
  PROVE  \/ s.type = "fixed"
         \/ /\ s.type = "uniform"
            /\ s.min >= 1 /\ s.max >= s.min /\ s.window >= 1
<1>1. CASE s.type = "uniform"
  <2>1. /\ s.min \in 1 .. MaxRequestsPerMinute
        /\ s.max \in s.min .. MaxRequestsPerMinute
        /\ s.window \in 1 .. MaxScheduleWindowMinutes
    BY <1>1, Zenon DEF ValidateRateSchedule
  <2>0. MaxRequestsPerMinute \in Int /\ MaxScheduleWindowMinutes \in Int
    BY DEF MaxRequestsPerMinute, MaxScheduleWindowMinutes
  <2>2. s.min >= 1 /\ s.max >= s.min
    BY <2>0, <2>1
  <2>3. s.window >= 1
    BY <2>0, <2>1
  <2> QED BY <1>1, <2>2, <2>3, Zenon
<1>2. CASE s.type # "uniform"
  BY <1>2, Zenon DEF ValidateRateSchedule
<1> QED BY <1>1, <1>2

LEMMA ConfigFields ==
  ASSUME NEW s, NEW a
  PROVE  LET c == ScenarioRunnerConfig(s)
             e == RunnerEnvironment(s, a)
         IN  /\ c.target = s.target /\ c.schedule = s.schedule /\ c.stores = s.stores
             /\ c.limiter = RateLimiterBackend(s)
             /\ c.operations = [i \in DOMAIN s.operations |-> RunnerOperation(s.operations[i], i)]
             /\ e.backend = StorageBackend(s) /\ e.scope = RequiresRedis(s)
             /\ e.redis = IF RequiresRedis(s) THEN a ELSE ""
BY DEF ScenarioRunnerConfig, RunnerEnvironment

(* The runner's constructors ask for nothing the controller did not check  *)
(* or provide.                                                             *)
LEMMA AcceptedStarts ==
  ASSUME NEW s, Accepted(s)
  PROVE  RunnerStarts(ScenarioRunnerConfig(s), RunnerEnvironment(s, address))
<1> DEFINE c == ScenarioRunnerConfig(s)
           e == RunnerEnvironment(s, address)
<1>1. Validate(c)
  BY DEF Accepted, ValidateScenario
<1>2. /\ c.schedule = s.schedule /\ c.limiter = RateLimiterBackend(s)
      /\ e.backend = StorageBackend(s) /\ e.scope = RequiresRedis(s)
      /\ e.redis = IF RequiresRedis(s) THEN address ELSE ""
  BY ConfigFields
<1> HIDE DEF c, e
<1>3. NormalizedStoreBackend(e.backend) = StorageBackend(s)
  BY <1>2 DEF NormalizedStoreBackend, StorageBackend
<1>4. NormalizedRateLimiterBackend(c.limiter, e.backend) = RateLimiterBackend(s)
  BY <1>2, LimiterResolved
<1>5. UsesRedis(c, e) <=> RequiresRedis(s)
  BY <1>2, <1>3, <1>4 DEF UsesRedis, RequiresRedis
<1>6. NewRuntimeState(c, e)
  <2>1. StorageBackend(s) \in {"memory", "redis"}
    BY DEF Accepted, ValidateScenario, StorageBackend
  <2>2. RateLimiterBackend(s) \in {"local", "redis"}
    BY DEF Accepted, ValidateScenario, RateLimiterBackend
  <2>3. UsesRedis(c, e) => e.redis # "" /\ e.scope
    BY <1>2, <1>5 DEF Accepted
  <2>4. \/ c.schedule.type = "fixed"
        \/ /\ c.schedule.type = "uniform"
           /\ c.schedule.min >= 1 /\ c.schedule.max >= c.schedule.min
           /\ c.schedule.window >= 1
    BY <1>1, ScheduleAccepted, Zenon DEF Validate
  <2> QED BY <1>1, <1>3, <1>4, <2>1, <2>2, <2>3, <2>4 DEF NewRuntimeState, Validate
<1>7. NewScheduler(c)
  BY <1>1, ProfileAccepted DEF NewScheduler, Validate, ValidateOperation, ValidateRequest
<1> QED BY <1>1, <1>6, <1>7 DEF RunnerStarts, Validate, c, e

(* With the defaults filled in, every request is within its limit.         *)
LEMMA ResourcesFit ==
  ASSUME NEW s, ValidateRunnerResources(s)
  PROVE  \A r \in DOMAIN RunnerResources(s).requests :
           RunnerResources(s).requests[r] <= RunnerResources(s).limits[r]
<1>1. DOMAIN s.resources.requests \subseteq DOMAIN MaxRunnerResource
  BY DEF ValidateRunnerResources, ValidateRunnerResourceList
<1>2. DOMAIN DefaultRequests = DOMAIN MaxRunnerResource
  BY DEF DefaultRequests, MaxRunnerResource
<1>3. DOMAIN RunnerResources(s).requests
        = DOMAIN s.resources.requests \union DOMAIN DefaultRequests
  BY DEF RunnerResources, MergeMissingResources
<1> QED BY <1>1, <1>2, <1>3 DEF ValidateRunnerResources

-----------------------------------------------------------------------------
(* What the executor gets                                                  *)

(* The operations of an accepted scenario, as the runner has them.         *)
LEMMA RunnerOperationFacts ==
  ASSUME NEW s \in Scenarios, NEW i \in DOMAIN s.operations
  PROVE  LET o == s.operations[i]
             r == RunnerOperations(s)[i]
         IN  /\ DOMAIN RunnerOperations(s) = DOMAIN s.operations
             /\ r.variables = o.variables
             /\ r.secretHeaders = [j \in DOMAIN o.secretHeaders |->
                  [name |-> o.secretHeaders[j].name,
                   valueFile |-> SecretHeaderRelativePath(i, j)]]
<1> DEFINE o == s.operations[i]
           h == [j \in DOMAIN o.secretHeaders |->
                  [name |-> o.secretHeaders[j].name,
                   valueFile |-> SecretHeaderRelativePath(i, j)]]
<1>1. RunnerOperations(s) = [k \in DOMAIN s.operations |-> RunnerOperation(s.operations[k], k)]
  BY ConfigFields DEF RunnerOperations
<1>2. RunnerOperations(s)[i] = RunnerOperation(o, i)
  BY <1>1
<1>3. RunnerOperation(o, i) = [o EXCEPT !.secretHeaders = h]
  BY DEF RunnerOperation
<1>4. {"secretHeaders", "variables"} \subseteq DOMAIN o
  BY ScenariosAssumption
<1> HIDE DEF o, h
<1>5. /\ [o EXCEPT !.secretHeaders = h].secretHeaders = h
      /\ [o EXCEPT !.secretHeaders = h].variables = o.variables
  BY <1>4
<1>6. DOMAIN RunnerOperations(s) = DOMAIN s.operations
  BY <1>1
<1> QED BY <1>2, <1>3, <1>5, <1>6 DEF o, h

LEMMA ValidOperations ==
  ASSUME NEW c \in ValidConfigs
  PROVE  /\ Len(c.operations) \in Nat
         /\ DOMAIN c.operations = 1 .. Len(c.operations)
<1>1. PICK s \in Scenarios : c = ScenarioRunnerConfig(s)
  BY DEF ValidConfigs, Valid
<1> DEFINE n == Len(s.operations)
<1>2. s.operations \in Seq(Range(s.operations))
  BY ScenariosAssumption
<1>3. n \in Nat /\ DOMAIN s.operations = 1 .. n
  BY <1>2
<1>4. c.operations = [i \in 1 .. n |-> RunnerOperation(s.operations[i], i)]
  BY <1>1, <1>3, ConfigFields, Zenon
<1> HIDE DEF n
<1> QED BY <1>3, <1>4

(* A store or a source the executor looks up is one it knows.              *)
LEMMA ValidOperation ==
  ASSUME NEW c \in ValidConfigs, NEW i \in DOMAIN c.operations
  PROVE  LET r == c.operations[i]
         IN  /\ r.used \subseteq Defined(r)
             /\ r.weight \in Nat \ {0}
             /\ r.variables \in Seq(Range(r.variables))
             /\ \A j \in DOMAIN r.variables :
                  \/ r.variables[j].type \in {"randomUUID", "randomBase62"}
                  \/ /\ r.variables[j].type = "store"
                     /\ r.variables[j].store \in StoreNames(c.stores)
             /\ \A x \in r.capture : x.store \in StoreNames(c.stores)
<1> DEFINE r == c.operations[i]
           names == StoreNames(c.stores)
<1>1. PICK s \in Scenarios : ValidateScenario(s) /\ c = ScenarioRunnerConfig(s)
  BY DEF ValidConfigs, Valid
<1>2. ValidateOperation(r, names)
  BY <1>1, Zenon DEF ValidateScenario, Validate
<1>3. r.variables \in Seq(Range(r.variables))
  <2>1. c.operations = RunnerOperations(s)
    BY <1>1, Zenon DEF RunnerOperations
  <2>2. i \in DOMAIN s.operations
    BY <2>1, ConfigFields DEF RunnerOperations
  <2>3. r.variables = s.operations[i].variables
    BY <2>1, <2>2, RunnerOperationFacts, Zenon
  <2>4. s.operations[i].variables \in Seq(Range(s.operations[i].variables))
    BY <2>2, ScenariosAssumption
  <2> QED BY <2>3, <2>4, Zenon
<1> HIDE DEF r, names
<1>4. ValidateVariables(r, names) /\ ValidateCapture(r, names)
  BY <1>2, Zenon DEF ValidateOperation
<1>5. \A j \in DOMAIN r.variables :
        \/ r.variables[j].type \in {"randomUUID", "randomBase62"}
        \/ r.variables[j].type = "store" /\ r.variables[j].store \in names
  BY <1>4, Zenon DEF ValidateVariables, ValidateVariable
<1>6. r.used \subseteq Defined(r)
  BY <1>4, Zenon DEF ValidateVariables
<1>7. \A x \in r.capture : x.store \in names
  BY <1>4, Zenon DEF ValidateCapture
<1>8. r.weight \in Nat \ {0}
  <2>1. r.weight \in 1 .. MaxWeight
    BY <1>2, Zenon DEF ValidateOperation, ValidateRequest
  <2>2. MaxWeight \in Int
    BY DEF MaxWeight
  <2> QED BY <2>1, <2>2
<1> QED BY <1>3, <1>5, <1>6, <1>7, <1>8, Zenon DEF r, names

(* Of all the mounted files, an operation's are those of its own headers.  *)
LEMMA CredentialsAreReferred ==
  ASSUME NEW s \in Scenarios, NEW i \in DOMAIN s.operations
  PROVE  Credentials(RunnerOperations(s)[i], DesiredSecretHeaderVolume(s)) = Referred(s.operations[i])
<1> DEFINE o == s.operations[i]
           H == o.secretHeaders
           R == RunnerOperations(s)[i].secretHeaders
           V == DesiredSecretHeaderVolume(s)
<1>1. /\ DOMAIN R = DOMAIN H
      /\ \A j \in DOMAIN H : R[j].name = H[j].name /\ R[j].valueFile = <<i, j>>
  <2>1. R = [j \in DOMAIN H |-> [name |-> H[j].name,
                                valueFile |-> SecretHeaderRelativePath(i, j)]]
    BY RunnerOperationFacts, Zenon
  <2> HIDE DEF R, H
  <2> QED BY <2>1 DEF SecretHeaderRelativePath
<1>2. \A e \in V : \E k \in DOMAIN s.operations :
        \E j \in DOMAIN s.operations[k].secretHeaders :
          e.path = <<k, j>> /\ e.ref = s.operations[k].secretHeaders[j].ref
  BY DEF DesiredSecretHeaderVolume, SecretHeaderRelativePath
<1>3. \A j \in DOMAIN H : [path |-> <<i, j>>, ref |-> H[j].ref] \in V
  <2>1. V = UNION {{[path |-> <<k, j>>, ref |-> s.operations[k].secretHeaders[j].ref] :
                           j \in DOMAIN s.operations[k].secretHeaders} :
                         k \in DOMAIN s.operations}
    BY Zenon DEF DesiredSecretHeaderVolume, SecretHeaderRelativePath
  <2>2. {[path |-> <<i, j>>, ref |-> H[j].ref] : j \in DOMAIN H} \subseteq V
    BY <2>1, Zenon
  <2> QED BY <2>2, Zenon
<1> HIDE DEF R, H, V, o
<1>4. Credentials(RunnerOperations(s)[i], V)
        = {[name |-> R[x[1]].name, ref |-> x[2].ref] :
             x \in {y \in (DOMAIN R) \X V : y[2].path = R[y[1]].valueFile}}
  BY DEF Credentials, R
<1>5. Referred(o) = {[name |-> H[j].name, ref |-> H[j].ref] : j \in DOMAIN H}
  BY DEF Referred, Range, H
<1>6. ASSUME NEW c \in Credentials(RunnerOperations(s)[i], V)
      PROVE  c \in Referred(o)
  <2>1. PICK x \in (DOMAIN R) \X V :
          /\ x[2].path = R[x[1]].valueFile
          /\ c = [name |-> R[x[1]].name, ref |-> x[2].ref]
    BY <1>4, <1>6
  <2>2. x[1] \in DOMAIN H /\ x[2] \in V
    BY <1>1
  <2>3. x[2].path = <<i, x[1]>>
    BY <1>1, <2>1, <2>2
  <2>4. PICK k \in DOMAIN s.operations :
          \E j \in DOMAIN s.operations[k].secretHeaders :
            x[2].path = <<k, j>> /\ x[2].ref = s.operations[k].secretHeaders[j].ref
    BY <1>2, <2>2
  <2>5. PICK j \in DOMAIN s.operations[k].secretHeaders :
          x[2].path = <<k, j>> /\ x[2].ref = s.operations[k].secretHeaders[j].ref
    BY <2>4
  <2>6. k = i /\ j = x[1]
    BY <2>3, <2>5
  <2>7. x[2].ref = H[x[1]].ref
    BY <2>5, <2>6 DEF H, o
  <2> QED BY <1>1, <1>5, <2>1, <2>2, <2>7
<1>7. ASSUME NEW c \in Referred(o)
      PROVE  c \in Credentials(RunnerOperations(s)[i], V)
  <2>1. PICK j \in DOMAIN H : c = [name |-> H[j].name, ref |-> H[j].ref]
    BY <1>5, <1>7
  <2> DEFINE e == [path |-> <<i, j>>, ref |-> H[j].ref]
             x == <<j, e>>
  <2>2. /\ x \in (DOMAIN R) \X V
        /\ x[2].path = R[x[1]].valueFile
    BY <1>1, <1>3
  <2>3. c = [name |-> R[x[1]].name, ref |-> x[2].ref]
    BY <1>1, <2>1
  <2> HIDE DEF x
  <2> QED BY <1>4, <2>2, <2>3
<1> QED BY <1>6, <1>7 DEF o, V

-----------------------------------------------------------------------------
(* The steps of a slot                                                     *)

(* What the actions do to a slot, with a name for each.                    *)
Ended(s, outcome) ==
  [Slot("idle", outcome) EXCEPT !.sent = s.sent, !.held = s.held]
Picked(s, i) == [s EXCEPT !.at = "resolve", !.index = i]
Found(s) == [s EXCEPT !.resolved = @ + 1]
HeldBack(s) ==
  [s EXCEPT !.at = "pick", !.attempts = @ + 1, !.excluded = @ \union {s.index},
     !.held = @ \union {s.index}, !.resolved = 0]
Sent(s, c) == [s EXCEPT !.at = "response", !.sent = @ + 1, !.credentials = c]
Capturing(s) == [s EXCEPT !.at = "capture"]

LEMMA SlotIs ==
  ASSUME NEW at, NEW outcome
  PROVE  LET t == Slot(at, outcome) IN
         /\ DOMAIN t = SlotFields
         /\ t.at = at /\ t.outcome = outcome /\ t.resolved = 0 /\ t.sent = 0
         /\ t.excluded = {} /\ t.held = {} /\ t.attempts = 0
BY DEF Slot, SlotFields

LEMMA EmptySlotIs ==
  ASSUME NEW at
  PROVE  LET t == Slot(at, "") IN
         /\ DOMAIN t = SlotFields
         /\ t.at = at /\ t.resolved \in Nat /\ t.sent \in {0, 1}
         /\ t.at \in {"pick", "resolve"} => t.sent = 0
         /\ t.outcome \notin {"storeNotFound", "unsupportedSource"}
BY DEF Slot, SlotFields

LEMMA EndedFields ==
  ASSUME NEW s, NEW outcome
  PROVE  LET t == Ended(s, outcome) IN
         /\ DOMAIN t = SlotFields
         /\ t.at = "idle" /\ t.outcome = outcome
         /\ t.resolved = 0 /\ t.sent = s.sent /\ t.held = s.held
<1> DEFINE f == Slot("idle", outcome)
<1>1. DOMAIN f = SlotFields /\ f.at = "idle" /\ f.outcome = outcome /\ f.resolved = 0
  BY SlotIs
<1>2. Ended(s, outcome) = [f EXCEPT !.sent = s.sent, !.held = s.held]
  BY DEF Ended
<1> HIDE DEF f
<1> QED BY <1>1, <1>2 DEF SlotFields

LEMMA PickedFields ==
  ASSUME NEW s, DOMAIN s = SlotFields, NEW i
  PROVE  LET t == Picked(s, i) IN
         /\ DOMAIN t = SlotFields
         /\ t.at = "resolve" /\ t.index = i
         /\ t.outcome = s.outcome /\ t.resolved = s.resolved /\ t.sent = s.sent
BY DEF Picked, SlotFields

LEMMA FoundFields ==
  ASSUME NEW s, DOMAIN s = SlotFields
  PROVE  LET t == Found(s) IN
         /\ DOMAIN t = SlotFields
         /\ t.at = s.at /\ t.index = s.index /\ t.outcome = s.outcome
         /\ t.sent = s.sent /\ t.credentials = s.credentials
         /\ t.resolved = s.resolved + 1
BY DEF Found, SlotFields

LEMMA HeldBackFields ==
  ASSUME NEW s, DOMAIN s = SlotFields
  PROVE  LET t == HeldBack(s) IN
         /\ DOMAIN t = SlotFields
         /\ t.at = "pick" /\ t.outcome = s.outcome
         /\ t.sent = s.sent /\ t.resolved = 0
BY DEF HeldBack, SlotFields

LEMMA SentFields ==
  ASSUME NEW s, DOMAIN s = SlotFields, NEW c
  PROVE  LET t == Sent(s, c) IN
         /\ DOMAIN t = SlotFields
         /\ t.at = "response" /\ t.index = s.index
         /\ t.outcome = s.outcome /\ t.resolved = s.resolved
         /\ t.sent = s.sent + 1 /\ t.credentials = c
BY DEF Sent, SlotFields

LEMMA CapturingFields ==
  ASSUME NEW s, DOMAIN s = SlotFields
  PROVE  LET t == Capturing(s) IN
         /\ DOMAIN t = SlotFields
         /\ t.at = "capture" /\ t.index = s.index
         /\ t.outcome = s.outcome /\ t.resolved = s.resolved
         /\ t.sent = s.sent
BY DEF Capturing, SlotFields

LEMMA FreshSlot ==
  ASSUME NEW at, NEW c, NEW v,
         at = "off" \/ (at \in {"crashLoop", "idle", "pick"} /\ c \in ValidConfigs)
  PROVE  SlotOK(Slot(at, ""), c, v)
<1> DEFINE t == Slot(at, "")
<1>1. /\ DOMAIN t = SlotFields
      /\ t.at = at /\ t.resolved \in Nat /\ t.sent \in {0, 1}
      /\ t.at \in {"pick", "resolve"} => t.sent = 0
      /\ t.outcome \notin {"storeNotFound", "unsupportedSource"}
  BY ONLY EmptySlotIs, Zenon
<1> HIDE DEF t
<1>2. t.at = "off" \/ (t.at \in {"crashLoop", "idle", "pick"} /\ c \in ValidConfigs)
  BY <1>1, Zenon
<1>3. SlotOK(t, c, v)
  BY <1>1, <1>2, Zenon DEF SlotOK
<1> QED BY <1>3 DEF t

(* A slot ends in order whatever its outcome, unless that is a static one. *)
LEMMA EndedSlot ==
  ASSUME NEW s, NEW c, NEW v, SlotOK(s, c, v), s.at # "off",
         NEW outcome, outcome \notin {"storeNotFound", "unsupportedSource"}
  PROVE  SlotOK(Ended(s, outcome), c, v)
<1> DEFINE t == Ended(s, outcome)
<1>1. c \in ValidConfigs /\ s.sent \in {0, 1}
  BY DEF SlotOK
<1>2. /\ DOMAIN t = SlotFields /\ t.at = "idle" /\ t.outcome = outcome
      /\ t.resolved = 0 /\ t.sent = s.sent
  BY EndedFields
<1> HIDE DEF t
<1>3. SlotOK(t, c, v)
  BY <1>1, <1>2 DEF SlotOK
<1> QED BY <1>3 DEF t

(* A process that has started, at work on its slot.                        *)
AtWork(s) == s.at \in {"idle", "pick", "resolve", "response", "capture"}

LEMMA BecomeKeepsInv ==
  ASSUME SlotInv, NEW p \in Processes, AtWork(slot[p]), NEW t, AtWork(t),
         SlotOK(t, Config(p), Volume(p)), Become(p, t)
  PROVE  SlotInv'
<1>1. /\ slot' = [slot EXCEPT ![p] = t]
      /\ UNCHANGED <<scenario, submitted, working, configMap, deployment, pod, config, started>>
  BY DEF Become, control
<1>2. Applied'
  BY <1>1 DEF SlotInv, Applied
<1>3. ProcessOK(pod[p], config[p], started[p], slot[p])
  BY DEF SlotInv, Running
<1>4. SlotOK(t, Only(config[p]), Only(pod[p]).volume)
  BY DEF Only, Config, Volume, Template
<1>5. ProcessOK(pod[p], config[p], started[p], t)
  <2>1. slot[p].at # "off" /\ t.at \notin {"off", "crashLoop"}
    BY DEF AtWork
  <2> QED BY <1>3, <1>4, <2>1, Zenon DEF ProcessOK
<1>6. \A q \in Processes : ProcessOK(pod[q], config[q], started[q], slot'[q])
  BY <1>1, <1>5 DEF SlotInv, Running
<1>7. Running'
  BY <1>1, <1>6 DEF SlotInv, Running
<1> QED BY <1>2, <1>7 DEF SlotInv

(* What a process at work has, and where it is in its configuration.       *)
LEMMA WhatRuns ==
  ASSUME SlotInv, NEW p \in Processes
  PROVE  /\ SlotOK(slot[p], Config(p), Volume(p)) /\ DOMAIN slot[p] = SlotFields
         /\ slot[p].resolved \in Nat /\ slot[p].sent \in {0, 1}
         /\ slot[p].outcome \notin {"storeNotFound", "unsupportedSource"}
         /\ slot[p].at # "off" => Config(p) \in ValidConfigs
         /\ slot[p].at \in {"pick", "resolve"} => slot[p].sent = 0
         /\ slot[p].at \in {"resolve", "response", "capture"} =>
              slot[p].index \in DOMAIN Config(p).operations
<1>1. ProcessOK(pod[p], config[p], started[p], slot[p])
  BY DEF SlotInv, Running
<1>2. SlotOK(slot[p], Only(config[p]), Only(pod[p]).volume)
  BY <1>1, Zenon DEF ProcessOK
<1>3. SlotOK(slot[p], Config(p), Volume(p))
  BY <1>2 DEF Only, Config, Volume, Template
<1> QED BY <1>3, Zenon DEF SlotOK

LEMMA PickStep ==
  ASSUME SlotInv, NEW p \in Processes, Pick(p)
  PROVE  SlotInv'
<1> DEFINE s == slot[p]
           c == Config(p)
           v == Volume(p)
<1>1. s.at = "pick"
  BY DEF Pick
<1>2. /\ SlotOK(s, c, v) /\ s.sent = 0 /\ DOMAIN s = SlotFields /\ s.resolved \in Nat
      /\ s.outcome \notin {"storeNotFound", "unsupportedSource"} /\ c \in ValidConfigs
  BY <1>1, WhatRuns
<1>3. \/ \E i \in DOMAIN c.operations : Become(p, Picked(s, i))
      \/ Become(p, Ended(s, "skipped"))
  BY Zenon DEF Pick, PickWeighted, End, Picked, Ended
<1>4. ASSUME NEW t, SlotOK(t, c, v), AtWork(t), Become(p, t) PROVE SlotInv'
  BY <1>1, <1>4, BecomeKeepsInv DEF AtWork
<1> HIDE DEF s, c, v
<1>5. CASE \E i \in DOMAIN c.operations : Become(p, Picked(s, i))
  <2>1. PICK i \in DOMAIN c.operations : Become(p, Picked(s, i))
    BY <1>5
  <2> DEFINE t == Picked(s, i)
  <2>2. /\ DOMAIN t = SlotFields /\ t.at = "resolve" /\ t.index = i
        /\ t.outcome = s.outcome /\ t.resolved = s.resolved /\ t.sent = s.sent
    BY <1>2, PickedFields, Zenon
  <2> HIDE DEF t
  <2>3. SlotOK(t, c, v) /\ AtWork(t)
    BY <1>2, <2>1, <2>2 DEF SlotOK, AtWork
  <2> QED BY <1>4, <2>1, <2>3, Zenon DEF t
<1>6. CASE Become(p, Ended(s, "skipped"))
  <2>1. SlotOK(Ended(s, "skipped"), c, v)
    BY <1>1, <1>2, EndedSlot
  <2>2. AtWork(Ended(s, "skipped"))
    BY EndedFields DEF AtWork
  <2> QED BY <1>4, <1>6, <2>1, <2>2, Zenon
<1> QED BY <1>3, <1>5, <1>6

LEMMA ResolveStep ==
  ASSUME SlotInv, NEW p \in Processes, Resolve(p)
  PROVE  SlotInv'
<1> DEFINE s == slot[p]
           c == Config(p)
           v == Volume(p)
           o == Operation(p)
           x == o.variables[s.resolved + 1]
           known == x.store \in StoreNames(c.stores)
<1>1. s.at = "resolve" /\ s.resolved < Len(o.variables)
  BY DEF Resolve
<1>2. /\ SlotOK(s, c, v) /\ DOMAIN s = SlotFields /\ s.resolved \in Nat
      /\ s.sent = 0 /\ s.outcome \notin {"storeNotFound", "unsupportedSource"}
      /\ c \in ValidConfigs /\ s.index \in DOMAIN c.operations
      /\ o = c.operations[s.index]
  BY <1>1, WhatRuns DEF Operation
<1>3. \/ Become(p, Found(s))
      \/ Become(p, HeldBack(s))
      \/ Become(p, Ended(s, "failed"))
      \/ x.type = "store" /\ ~known
      \/ x.type \notin {"randomUUID", "randomBase62", "store"}
  BY Zenon DEF Resolve, Found, HeldBack, Ended, Reselect, End
<1>4. ASSUME NEW t, SlotOK(t, c, v), AtWork(t), Become(p, t) PROVE SlotInv'
  BY <1>1, <1>4, BecomeKeepsInv DEF AtWork
<1>5. x.type \in {"randomUUID", "randomBase62"} \/ (x.type = "store" /\ known)
  <2>1. /\ o.variables \in Seq(Range(o.variables))
        /\ \A j \in DOMAIN o.variables :
             \/ o.variables[j].type \in {"randomUUID", "randomBase62"}
             \/ /\ o.variables[j].type = "store"
                /\ o.variables[j].store \in StoreNames(c.stores)
    BY <1>2, ValidOperation, Zenon
  <2>2. s.resolved + 1 \in DOMAIN o.variables
    <3> HIDE DEF o, s
    <3> QED BY <1>1, <1>2, <2>1
  <2> QED BY <2>1, <2>2, Zenon
<1> HIDE DEF s, c, v, o, x, known
<1>6. CASE Become(p, Found(s))
  <2>1. s.resolved + 1 \in Nat
    BY <1>2
  <2> DEFINE t == Found(s)
  <2>2. /\ DOMAIN t = SlotFields /\ t.at = s.at /\ t.index = s.index
        /\ t.outcome = s.outcome /\ t.sent = s.sent /\ t.resolved = s.resolved + 1
    BY <1>2, FoundFields, Zenon
  <2> HIDE DEF t
  <2>3. SlotOK(t, c, v) /\ AtWork(t)
    BY <1>1, <1>2, <2>1, <2>2 DEF SlotOK, AtWork
  <2> QED BY <1>4, <1>6, <2>3, Zenon DEF t
<1>7. CASE Become(p, HeldBack(s))
  <2> DEFINE t == HeldBack(s)
  <2>1. /\ DOMAIN t = SlotFields /\ t.at = "pick"
        /\ t.outcome = s.outcome /\ t.sent = s.sent /\ t.resolved = 0
    BY <1>2, HeldBackFields, Zenon
  <2> HIDE DEF t
  <2>2. SlotOK(t, c, v) /\ AtWork(t)
    BY <1>2, <2>1 DEF SlotOK, AtWork
  <2> QED BY <1>4, <1>7, <2>2, Zenon DEF t
<1>8. CASE Become(p, Ended(s, "failed"))
  <2>1. SlotOK(Ended(s, "failed"), c, v)
    BY <1>1, <1>2, EndedSlot
  <2>2. AtWork(Ended(s, "failed"))
    BY EndedFields DEF AtWork
  <2> QED BY <1>4, <1>8, <2>1, <2>2, Zenon
<1> QED BY <1>3, <1>5, <1>6, <1>7, <1>8

LEMMA SendStep ==
  ASSUME SlotInv, NEW p \in Processes, Send(p)
  PROVE  SlotInv'
<1> DEFINE s == slot[p]
           c == Config(p)
           v == Volume(p)
           k == Credentials(Operation(p), v)
<1>1. s.at = "resolve"
  BY DEF Send
<1>2. /\ SlotOK(s, c, v) /\ DOMAIN s = SlotFields /\ s.resolved \in Nat
      /\ s.sent = 0 /\ s.outcome \notin {"storeNotFound", "unsupportedSource"}
      /\ c \in ValidConfigs /\ s.index \in DOMAIN c.operations
  BY <1>1, WhatRuns
<1>3. k = Credentials(c.operations[s.index], v)
  BY DEF Operation
<1>4. ASSUME NEW t, SlotOK(t, c, v), AtWork(t), Become(p, t) PROVE SlotInv'
  BY <1>1, <1>4, BecomeKeepsInv DEF AtWork
<1>5. Become(p, Sent(s, k)) \/ Become(p, Ended(s, "failed"))
  BY Zenon DEF Send, End, Sent, Ended
<1> HIDE DEF s, c, v, k
<1>6. CASE Become(p, Sent(s, k))
  <2> DEFINE t == Sent(s, k)
  <2>1. /\ DOMAIN t = SlotFields /\ t.at = "response" /\ t.index = s.index
        /\ t.outcome = s.outcome /\ t.resolved = s.resolved
        /\ t.sent = s.sent + 1 /\ t.credentials = k
    <3>1. DOMAIN s = SlotFields
      BY <1>2
    <3> QED BY <3>1, SentFields, Zenon
  <2> HIDE DEF t
  <2>2. SlotOK(t, c, v) /\ AtWork(t)
    BY <1>2, <1>3, <2>1 DEF SlotOK, AtWork
  <2> QED BY <1>4, <1>6, <2>2, Zenon DEF t
<1>7. CASE Become(p, Ended(s, "failed"))
  <2>1. SlotOK(Ended(s, "failed"), c, v)
    BY <1>1, <1>2, EndedSlot
  <2>2. AtWork(Ended(s, "failed"))
    BY EndedFields DEF AtWork
  <2> QED BY <1>4, <1>7, <2>1, <2>2, Zenon
<1> QED BY <1>5, <1>6, <1>7

LEMMA RespondStep ==
  ASSUME SlotInv, NEW p \in Processes, Respond(p)
  PROVE  SlotInv'
<1> DEFINE s == slot[p]
           c == Config(p)
           v == Volume(p)
<1>1. s.at = "response"
  BY DEF Respond
<1>2. /\ SlotOK(s, c, v) /\ DOMAIN s = SlotFields /\ s.resolved \in Nat
      /\ s.sent \in {0, 1} /\ s.outcome \notin {"storeNotFound", "unsupportedSource"}
      /\ c \in ValidConfigs /\ s.index \in DOMAIN c.operations
  BY <1>1, WhatRuns
<1>3. \/ \E outcome \in {"ok", "failed"} : Become(p, Ended(s, outcome))
      \/ c.operations[s.index].capture # {} /\ Become(p, Capturing(s))
  BY Zenon DEF Respond, End, Capturing, Ended, Operation
<1>4. ASSUME NEW t, SlotOK(t, c, v), AtWork(t), Become(p, t) PROVE SlotInv'
  BY <1>1, <1>4, BecomeKeepsInv DEF AtWork
<1> HIDE DEF s, c, v
<1>5. CASE c.operations[s.index].capture # {} /\ Become(p, Capturing(s))
  <2> DEFINE t == Capturing(s)
  <2>1. /\ DOMAIN t = SlotFields /\ t.at = "capture" /\ t.index = s.index
        /\ t.outcome = s.outcome /\ t.resolved = s.resolved /\ t.sent = s.sent
    BY <1>2, CapturingFields, Zenon
  <2> HIDE DEF t
  <2>2. SlotOK(t, c, v) /\ AtWork(t)
    BY <1>2, <1>5, <2>1 DEF SlotOK, AtWork
  <2> QED BY <1>4, <1>5, <2>2, Zenon DEF t
<1>6. CASE \E outcome \in {"ok", "failed"} : Become(p, Ended(s, outcome))
  <2>1. PICK outcome \in {"ok", "failed"} : Become(p, Ended(s, outcome))
    BY <1>6
  <2>2. SlotOK(Ended(s, outcome), c, v)
    BY <1>1, <1>2, EndedSlot
  <2>3. AtWork(Ended(s, outcome))
    BY EndedFields DEF AtWork
  <2> QED BY <1>4, <2>1, <2>2, <2>3, Zenon
<1> QED BY <1>3, <1>5, <1>6

LEMMA CaptureStep ==
  ASSUME SlotInv, NEW p \in Processes, Capture(p)
  PROVE  SlotInv'
<1> DEFINE s == slot[p]
           c == Config(p)
           v == Volume(p)
           name == (CHOOSE x \in Operation(p).capture : TRUE).store
<1>1. s.at = "capture"
  BY DEF Capture
<1>2. /\ SlotOK(s, c, v) /\ c \in ValidConfigs /\ s.index \in DOMAIN c.operations
      /\ Operation(p) = c.operations[s.index]
  BY <1>1, WhatRuns DEF Operation
<1>3. Operation(p).capture # {}
  <2>1. c.operations[s.index].capture # {}
    BY <1>1, <1>2, Zenon DEF SlotOK
  <2> QED BY <1>2, <2>1
<1>4. name \in StoreNames(c.stores)
  <2>1. (CHOOSE x \in Operation(p).capture : TRUE) \in Operation(p).capture
    BY <1>3
  <2> QED BY <1>2, <2>1, ValidOperation, Zenon
<1>5. \E outcome \in {"ok", "failed"} : Become(p, Ended(s, outcome))
  BY <1>4, Zenon DEF Capture, End, Ended
<1>6. ASSUME NEW t, SlotOK(t, c, v), AtWork(t), Become(p, t) PROVE SlotInv'
  BY <1>1, <1>6, BecomeKeepsInv DEF AtWork
<1>7. PICK outcome \in {"ok", "failed"} : Become(p, Ended(s, outcome))
  BY <1>5
<1> HIDE DEF s, c, v
<1>8. SlotOK(Ended(s, outcome), c, v)
  BY <1>1, <1>2, EndedSlot
<1>9. AtWork(Ended(s, outcome))
  BY EndedFields DEF AtWork
<1> QED BY <1>6, <1>7, <1>8, <1>9, Zenon

LEMMA StepKeepsInv ==
  ASSUME SlotInv, NEW p \in Processes, Step(p)
  PROVE  SlotInv'
<1>1. CASE Begin(p)
  <2>1. slot[p].at = "idle" /\ Become(p, Slot("pick", ""))
    BY <1>1 DEF Begin
  <2>2. Config(p) \in ValidConfigs
    BY <2>1, WhatRuns
  <2>3. SlotOK(Slot("pick", ""), Config(p), Volume(p))
    BY <2>2, FreshSlot
  <2>4. AtWork(Slot("pick", "")) /\ AtWork(slot[p])
    BY <2>1, EmptySlotIs DEF AtWork
  <2> QED BY <2>1, <2>3, <2>4, BecomeKeepsInv, Zenon
<1> QED
  BY <1>1, PickStep, ResolveStep, SendStep, RespondStep, CaptureStep DEF Step

-----------------------------------------------------------------------------
(* The other steps                                                         *)

LEMMA OffIsOK ==
  ASSUME NEW t, NEW c
  PROVE  ProcessOK(t, c, None, Slot("off", ""))
<1>1. Slot("off", "").at = "off"
  BY SlotIs
<1>2. SlotOK(Slot("off", ""), Only(c), Only(t).volume)
  BY FreshSlot
<1> QED BY <1>1, <1>2, Zenon DEF ProcessOK

LEMMA InitEstablishesInv ==
  ASSUME Init
  PROVE  SlotInv
<1>1. Applied
  BY DEF Init, Applied
<1>2. Running
  BY OffIsOK DEF Init, Running
<1> QED BY <1>1, <1>2 DEF SlotInv

(* A patched field is the old one or the desired one.                      *)
LEMMA PatchedResources ==
  ASSUME NEW d, NEW c, NEW s
  PROVE  Patched(d, c, DesiredDeployment(s)).containers.resources
           \in {d.containers.resources, RunnerResources(s)}
<1> DEFINE e == DesiredDeployment(s)
<1>1. "containers" \in DOMAIN e /\ e.containers.resources = RunnerResources(s)
  BY DEF DesiredDeployment
<1> HIDE DEF e
<1>2. Patched(d, c, e).containers \in {d.containers, e.containers}
  BY <1>1 DEF Patched
<1> QED BY <1>1, <1>2 DEF e

LEMMA ControlStep ==
  ASSUME SlotInv, Control
  PROVE  SlotInv'
<1>1. UNCHANGED <<pod, config, started, slot>>
  BY DEF Control, Edit, ApplyConfigMap, ApplyDeployment, Interrupt, SyncConfigMap,
     SyncDeployment, process
<1>2. Running'
  BY <1>1 DEF SlotInv, Running
<1>3. CASE Edit
  <2>1. scenario' \in Scenarios
    BY <1>3, EditsAssumption DEF Edit
  <2> QED BY <1>2, <1>3, <2>1 DEF Edit, SlotInv, Applied
<1>4. CASE ApplyConfigMap
  <2>1. scenario \in Valid
    BY <1>4 DEF ApplyConfigMap, Accepted, SlotInv, Applied, Valid
  <2>2. ScenarioRunnerConfig(scenario) \in ValidConfigs
    BY <2>1 DEF ValidConfigs
  <2>3. /\ working' = {scenario}
        /\ configMap' = {ScenarioRunnerConfig(scenario)} \/ configMap' = configMap
        /\ UNCHANGED <<scenario, submitted, deployment>>
    BY <1>4, Zenon DEF ApplyConfigMap
  <2> QED BY <1>2, <2>1, <2>2, <2>3 DEF SlotInv, Applied
<1>5. CASE ApplyDeployment
  <2> DEFINE Fine(d) == \E s \in Valid : d.containers.resources = RunnerResources(s)
  <2>1. \A d \in deployment : Fine(d)
    BY DEF SlotInv, Applied
  <2>2. PICK s \in working :
          \/ deployment' = {DesiredDeployment(s)}
          \/ deployment' = {Patched(d, c, DesiredDeployment(s)) :
                               d \in deployment, c \in cache.deployment}
    BY <1>5 DEF ApplyDeployment
  <2>3. s \in Valid
    BY DEF SlotInv, Applied
  <2>4. Fine(DesiredDeployment(s))
    BY <2>3 DEF DesiredDeployment
  <2>5. \A d \in deployment, c \in cache.deployment :
          Fine(Patched(d, c, DesiredDeployment(s)))
    BY <2>1, <2>3, PatchedResources
  <2> HIDE DEF Fine
  <2>6. \A d \in deployment' : Fine(d)
    BY <2>2, <2>4, <2>5
  <2>7. working' = {} /\ UNCHANGED <<scenario, submitted, configMap>>
    BY <1>5 DEF ApplyDeployment
  <2> QED BY <1>2, <2>6, <2>7 DEF SlotInv, Applied, Fine
<1>6. CASE Interrupt \/ SyncConfigMap \/ SyncDeployment
  <2>1. /\ working' \subseteq working
        /\ UNCHANGED <<scenario, submitted, configMap, deployment>>
    BY <1>6 DEF Interrupt, SyncConfigMap, SyncDeployment
  <2> QED BY <1>2, <2>1 DEF SlotInv, Applied
<1> QED BY <1>3, <1>4, <1>5, <1>6 DEF Control

(* A step of one process leaves the others in order.                       *)
Assigned(g, f, p, v) ==
  DOMAIN g = DOMAIN f /\ g[p] = v /\ \A q \in DOMAIN f \ {p} : g[q] = f[q]

LEMMA Assigns ==
  ASSUME NEW f, NEW g, NEW p \in DOMAIN f, NEW v,
         g = [f EXCEPT ![p] = v] \/ (g = f /\ v = f[p])
  PROVE  Assigned(g, f, p, v)
BY DEF Assigned

LEMMA OneProcess ==
  ASSUME SlotInv, NEW p \in Processes, NEW t, NEW c, NEW b, NEW s,
         ProcessOK(t, c, b, s), UNCHANGED control,
         Assigned(pod', pod, p, t), Assigned(config', config, p, c),
         Assigned(started', started, p, b), Assigned(slot', slot, p, s)
  PROVE  SlotInv'
<1>1. Applied'
  BY DEF SlotInv, Applied, control
<1>2. /\ DOMAIN pod' = Processes /\ DOMAIN config' = Processes
      /\ DOMAIN started' = Processes /\ DOMAIN slot' = Processes
  BY DEF SlotInv, Running, Assigned
<1>3. pod'[p] = t /\ config'[p] = c /\ started'[p] = b /\ slot'[p] = s
  BY DEF Assigned
<1>4. \A q \in Processes : q # p =>
        pod'[q] = pod[q] /\ config'[q] = config[q] /\ started'[q] = started[q]
          /\ slot'[q] = slot[q]
  BY DEF SlotInv, Running, Assigned
<1>5. \A q \in Processes : ProcessOK(pod[q], config[q], started[q], slot[q])
  BY DEF SlotInv, Running
<1>6. \A q \in Processes : ProcessOK(pod'[q], config'[q], started'[q], slot'[q])
  BY <1>3, <1>4, <1>5
<1>7. Running'
  BY <1>2, <1>6, Zenon DEF Running
<1> QED BY <1>1, <1>7 DEF SlotInv

LEMMA CreatePodStep ==
  ASSUME SlotInv, NEW p \in Processes, CreatePod(p)
  PROVE  SlotInv'
<1>1. PICK d \in deployment : pod' = [pod EXCEPT ![p] = {TemplateOf(d)}]
  BY DEF CreatePod
<1>2. pod[p] = {} /\ UNCHANGED <<config, started, slot>> /\ UNCHANGED control
  BY DEF CreatePod, process
<1> DEFINE t == {TemplateOf(d)}
<1>3. /\ ProcessOK(pod[p], config[p], started[p], slot[p])
      /\ p \in DOMAIN pod /\ p \in DOMAIN config
      /\ p \in DOMAIN started /\ p \in DOMAIN slot
  BY DEF SlotInv, Running
<1>4. slot[p].at = "off" /\ started[p] = None
  BY <1>2, <1>3, Zenon DEF ProcessOK
<1>5. SlotOK(slot[p], Only(config[p]), Only(t).volume)
  <2>1. SlotOK(slot[p], Only(config[p]), Only(pod[p]).volume)
    BY <1>3, Zenon DEF ProcessOK
  <2> HIDE DEF t
  <2> QED BY <1>4, <2>1 DEF SlotOK
<1>6. ProcessOK(t, config[p], started[p], slot[p])
  BY <1>4, <1>5, Zenon DEF ProcessOK
<1>7. /\ Assigned(pod', pod, p, t) /\ Assigned(config', config, p, config[p])
      /\ Assigned(started', started, p, started[p]) /\ Assigned(slot', slot, p, slot[p])
  <2> HIDE DEF t
  <2>1. pod' = [pod EXCEPT ![p] = t]
    BY <1>1 DEF t
  <2> QED BY <1>2, <1>3, <2>1, Assigns
<1> HIDE DEF t
<1> QED BY <1>2, <1>6, <1>7, OneProcess

(* A container that starts reads a valid configuration, whichever one.     *)
LEMMA StartStep ==
  ASSUME SlotInv, NEW p \in Processes, Start(p)
  PROVE  SlotInv'
<1>1. pod[p] # {} /\ slot[p].at \in {"off", "crashLoop"}
      /\ UNCHANGED control /\ UNCHANGED pod
  BY DEF Start
<1> DEFINE b(c) == [store   |-> NormalizedStoreBackend(Env(p).backend),
                    limiter |-> NormalizedRateLimiterBackend(c.limiter, Env(p).backend)]
<1>2. PICK c \in configMap :
        /\ config' = [config EXCEPT ![p] = {c}]
        /\ \/ /\ started' = [started EXCEPT ![p] = b(c)]
              /\ slot' = [slot EXCEPT ![p] = Slot("idle", "")]
           \/ /\ ~RunnerStarts(c, Env(p))
              /\ slot' = [slot EXCEPT ![p] = Slot("crashLoop", "")]
              /\ UNCHANGED started
  BY Zenon DEF Start
<1>3. c \in ValidConfigs
  BY DEF SlotInv, Applied
<1>4. Only({c}) = c /\ {c} # {}
  BY DEF Only
<1>5. Env(p) = Only(pod[p]).containers.env
  BY DEF Only, Env, Template
<1>6. b(c).limiter = NormalizedRateLimiterBackend(c.limiter, Env(p).backend)
  OBVIOUS
<1>7. /\ ProcessOK(pod[p], config[p], started[p], slot[p])
      /\ p \in DOMAIN pod /\ p \in DOMAIN config
      /\ p \in DOMAIN started /\ p \in DOMAIN slot
  BY DEF SlotInv, Running
<1>8. started[p] = None
  BY <1>1, <1>7, Zenon DEF ProcessOK
<1> HIDE DEF b
<1>9. Assigned(pod', pod, p, pod[p]) /\ Assigned(config', config, p, {c})
  BY <1>1, <1>2, <1>7, Assigns
<1>10. CASE /\ started' = [started EXCEPT ![p] = b(c)]
            /\ slot' = [slot EXCEPT ![p] = Slot("idle", "")]
  <2> DEFINE s == Slot("idle", "")
  <2>1. s.at = "idle"
    BY SlotIs
  <2>2. SlotOK(s, Only({c}), Only(pod[p]).volume)
    BY <1>3, <1>4, FreshSlot
  <2>3. Assigned(started', started, p, b(c)) /\ Assigned(slot', slot, p, s)
    BY <1>7, <1>10, Assigns
  <2> HIDE DEF s
  <2>4. s.at \notin {"off", "crashLoop"}
    BY ONLY <2>1
  <2>5. b(c).limiter
          = NormalizedRateLimiterBackend(Only({c}).limiter, Only(pod[p]).containers.env.backend)
    BY ONLY <1>4, <1>5, <1>6
  <2>6. ProcessOK(pod[p], {c}, b(c), s)
    BY <1>1, <1>4, <2>2, <2>4, <2>5, Zenon DEF ProcessOK
  <2> QED BY <1>1, <1>9, <2>3, <2>6, OneProcess
<1>11. CASE /\ ~RunnerStarts(c, Env(p))
            /\ slot' = [slot EXCEPT ![p] = Slot("crashLoop", "")]
            /\ UNCHANGED started
  <2> DEFINE s == Slot("crashLoop", "")
  <2>1. s.at = "crashLoop"
    BY SlotIs
  <2>2. SlotOK(s, Only({c}), Only(pod[p]).volume)
    BY <1>3, <1>4, FreshSlot
  <2>3. Assigned(started', started, p, None) /\ Assigned(slot', slot, p, s)
    BY <1>7, <1>8, <1>11, Assigns
  <2> HIDE DEF s
  <2>4. ~RunnerStarts(Only({c}), Only(pod[p]).containers.env)
    BY <1>4, <1>5, <1>11
  <2>5. ProcessOK(pod[p], {c}, None, s)
    BY <1>1, <1>4, <2>2, <2>4, Zenon DEF ProcessOK
  <2> QED BY <1>1, <1>9, <2>3, <2>5, OneProcess
<1> QED BY <1>2, <1>10, <1>11

LEMMA ExitStep ==
  ASSUME SlotInv, NEW p \in Processes, Kill(p) \/ RemovePod(p)
  PROVE  SlotInv'
<1>1. /\ p \in DOMAIN pod /\ p \in DOMAIN config
      /\ p \in DOMAIN started /\ p \in DOMAIN slot
  BY DEF SlotInv, Running
<1>2. /\ config' = [config EXCEPT ![p] = {}] /\ started' = [started EXCEPT ![p] = None]
      /\ slot' = [slot EXCEPT ![p] = Slot("off", "")] /\ UNCHANGED control
      /\ pod' = [pod EXCEPT ![p] = {}] \/ pod' = pod
  BY DEF Kill, RemovePod, Exit
<1>3. PICK t : Assigned(pod', pod, p, t)
  BY <1>1, <1>2, Assigns
<1>4. /\ Assigned(config', config, p, {}) /\ Assigned(started', started, p, None)
      /\ Assigned(slot', slot, p, Slot("off", ""))
  BY <1>1, <1>2, Assigns
<1> QED BY <1>2, <1>3, <1>4, OffIsOK, OneProcess

LEMMA SlotInvHolds == Spec => []SlotInv
<1>1. Init => SlotInv
  BY InitEstablishesInv
<1>2. SlotInv /\ [Next]_vars => SlotInv'
  <2> SUFFICES ASSUME SlotInv, [Next]_vars PROVE SlotInv'
    OBVIOUS
  <2>1. CASE UNCHANGED vars
    BY <2>1 DEF vars, control, process, SlotInv, Applied, Running
  <2> QED
    BY <2>1, ControlStep, CreatePodStep, ExitStep, StartStep, StepKeepsInv DEF Next
<1> QED BY <1>1, <1>2, PTL DEF Spec

-----------------------------------------------------------------------------
(* The total weight.  TotalWeight is a fold, and the induction theorems of *)
(* the library are about operators; a smallest counterexample takes their  *)
(* place.                                                                  *)

LEMMA SmallestNumber ==
  ASSUME NEW T \in SUBSET Nat, T # {}
  PROVE  \E x \in T : \A y \in T : x <= y
<1>1. PICK x \in T : \A y \in T : ~ (<<y, x>> \in OpToRel(<, Nat))
  BY NatLessThanWellFounded, WFMin, Zenon
<1>2. \A y \in T : ~(y < x)
  BY <1>1 DEF OpToRel
<1> QED BY <1>2

(* The recursion behind the fold: g sums the weights of every subset of S, *)
(* or of those with at most n members.                                     *)
Chosen(s) == CHOOSE x \in s : TRUE
Smaller(S, n) == {s \in SUBSET S : Cardinality(s) <= n}
SumsUp(g, operations, S) ==
  g = [s \in SUBSET S |->
         IF s = {} THEN 0 ELSE operations[Chosen(s)].weight + g[s \ {Chosen(s)}]]
SumsUpTo(g, operations, S, n) ==
  g = [s \in Smaller(S, n) |->
         IF s = {} THEN 0 ELSE operations[Chosen(s)].weight + g[s \ {Chosen(s)}]]

LEMMA FiniteSubsets ==
  ASSUME NEW S, IsFiniteSet(S), NEW s \in SUBSET S
  PROVE  IsFiniteSet(s) /\ Cardinality(s) \in Nat
BY FS_Subset, FS_CardinalityType

LEMMA OneLess ==
  ASSUME NEW S, IsFiniteSet(S), NEW s \in SUBSET S, s # {}
  PROVE  /\ Chosen(s) \in s /\ s \ {Chosen(s)} \in SUBSET S
         /\ Cardinality(s) \in Nat
         /\ Cardinality(s \ {Chosen(s)}) = Cardinality(s) - 1
<1>1. Chosen(s) \in s
  BY DEF Chosen
<1> QED BY <1>1, FiniteSubsets, FS_RemoveElement

LEMMA SumExtends ==
  ASSUME NEW S, IsFiniteSet(S), NEW w, NEW n \in Nat, NEW f, SumsUpTo(f, w, S, n)
  PROVE  \E g : SumsUpTo(g, w, S, n + 1)
<1> DEFINE g == [s \in Smaller(S, n + 1) |->
                   IF s \in Smaller(S, n) THEN f[s]
                   ELSE w[Chosen(s)].weight + f[s \ {Chosen(s)}]]
<1>1. Smaller(S, n) \subseteq Smaller(S, n + 1)
  BY FiniteSubsets DEF Smaller
<1>2. \A s \in Smaller(S, n) : g[s] = f[s]
  BY <1>1
<1>3. \A s \in Smaller(S, n + 1) : s # {} => s \ {Chosen(s)} \in Smaller(S, n)
  BY OneLess DEF Smaller
<1>4. {} \in Smaller(S, n)
  BY FS_EmptySet DEF Smaller
<1>5. \A s \in Smaller(S, n) :
        f[s] = IF s = {} THEN 0 ELSE w[Chosen(s)].weight + f[s \ {Chosen(s)}]
  BY DEF SumsUpTo
<1>6. ASSUME NEW s \in Smaller(S, n + 1)
      PROVE  g[s] = IF s = {} THEN 0 ELSE w[Chosen(s)].weight + g[s \ {Chosen(s)}]
  <2>1. s # {} => g[s \ {Chosen(s)}] = f[s \ {Chosen(s)}]
    BY <1>2, <1>3
  <2>2. CASE s \in Smaller(S, n)
    <3>1. g[s] = f[s]
      BY <1>2, <2>2
    <3> HIDE DEF g
    <3> QED BY <1>5, <2>1, <2>2, <3>1
  <2>3. CASE s \notin Smaller(S, n)
    <3>1. s # {}
      BY <1>4, <2>3
    <3>2. g[s] = w[Chosen(s)].weight + f[s \ {Chosen(s)}]
      BY <2>3
    <3> HIDE DEF g
    <3> QED BY <2>1, <3>1, <3>2
  <2> QED BY <2>2, <2>3
<1>7. g = [s \in Smaller(S, n + 1) |-> g[s]]
  OBVIOUS
<1> HIDE DEF g
<1>8. SumsUpTo(g, w, S, n + 1)
  BY <1>6, <1>7 DEF SumsUpTo
<1> QED BY <1>8

LEMMA SumExists ==
  ASSUME NEW S, IsFiniteSet(S), NEW w
  PROVE  \E g : SumsUp(g, w, S)
<1> DEFINE Without == {m \in Nat : ~ \E g : SumsUpTo(g, w, S, m)}
<1>1. 0 \notin Without
  <2> DEFINE g == [s \in Smaller(S, 0) |-> 0]
  <2>1. \A s \in Smaller(S, 0) : s = {}
    BY FiniteSubsets, FS_EmptySet DEF Smaller
  <2>2. SumsUpTo(g, w, S, 0)
    BY <2>1 DEF SumsUpTo
  <2> HIDE DEF g
  <2> QED BY <2>2
<1>2. ASSUME Without # {} PROVE FALSE
  <2>1. Without \in SUBSET Nat
    OBVIOUS
  <2> HIDE DEF Without
  <2>2. PICK m \in Without : \A k \in Without : m <= k
    BY <1>2, <2>1, SmallestNumber
  <2>3. m - 1 \in Nat /\ m - 1 \notin Without
    BY <1>1, <2>1, <2>2
  <2>4. PICK g : SumsUpTo(g, w, S, m - 1)
    BY <2>3 DEF Without
  <2>5. \E h : SumsUpTo(h, w, S, (m - 1) + 1)
    BY <2>3, <2>4, SumExtends, Zenon
  <2>6. (m - 1) + 1 = m
    BY <2>1
  <2> QED BY <2>5, <2>6, Zenon DEF Without
<1>3. Smaller(S, Cardinality(S)) = SUBSET S
  BY FS_Subset DEF Smaller
<1>4. Cardinality(S) \in Nat
  BY FS_CardinalityType
<1>5. PICK g : SumsUpTo(g, w, S, Cardinality(S))
  BY <1>2, <1>4
<1> QED BY <1>3, <1>5, Zenon DEF SumsUp, SumsUpTo

LEMMA SumIsPositive ==
  ASSUME NEW S, IsFiniteSet(S), S # {}, NEW w, NEW g, SumsUp(g, w, S),
         \A i \in S : w[i].weight \in Nat \ {0}
  PROVE  g[S] \in Nat \ {0}
<1>1. \A s \in SUBSET S :
        g[s] = IF s = {} THEN 0 ELSE w[Chosen(s)].weight + g[s \ {Chosen(s)}]
  BY DEF SumsUp
<1>0. g[{}] \in Nat
  <2>1. {} \in SUBSET S
    OBVIOUS
  <2>2. g[{}] = 0
    BY <1>1, <2>1, Zenon
  <2> QED BY <2>2
<1> DEFINE Wrong == {n \in Nat : \E s \in SUBSET S : Cardinality(s) = n /\ g[s] \notin Nat}
<1>2. ASSUME Wrong # {} PROVE FALSE
  <2>1. Wrong \in SUBSET Nat
    OBVIOUS
  <2>2. PICK n \in Wrong : \A k \in Wrong : n <= k
    <3> HIDE DEF Wrong
    <3> QED BY <1>2, <2>1, SmallestNumber
  <2>3. PICK s \in SUBSET S : Cardinality(s) = n /\ g[s] \notin Nat
    OBVIOUS
  <2> DEFINE t == s \ {Chosen(s)}
  <2>4. s # {}
    <3> HIDE DEF Wrong
    <3> QED BY <1>0, <2>3, Zenon
  <2>5. Chosen(s) \in S /\ t \in SUBSET S /\ n \in Nat /\ Cardinality(t) = n - 1
    BY <2>3, <2>4, OneLess
  <2>6. Cardinality(t) \in Nat
    <3> HIDE DEF t, Wrong
    <3> QED BY <2>5, FiniteSubsets
  <2>7. Cardinality(t) \notin Wrong
    <3> HIDE DEF Wrong, t
    <3> QED BY <2>1, <2>2, <2>5, <2>6
  <2>8. g[t] \in Nat
    <3> HIDE DEF t
    <3> QED BY <2>5, <2>6, <2>7
  <2>9. g[s] = w[Chosen(s)].weight + g[t]
    BY <1>1, <2>4
  <2> HIDE DEF t, Wrong
  <2> QED BY <2>3, <2>5, <2>8, <2>9
<1>3. \A s \in SUBSET S : g[s] \in Nat
  BY <1>2, FiniteSubsets
<1>4. g[S] = w[Chosen(S)].weight + g[S \ {Chosen(S)}]
  BY <1>1
<1>5. Chosen(S) \in S /\ S \ {Chosen(S)} \in SUBSET S
  BY DEF Chosen
<1>6. g[S \ {Chosen(S)}] \in Nat /\ w[Chosen(S)].weight \in Nat \ {0}
  BY <1>3, <1>5
<1> QED BY <1>4, <1>6

(* Weights of which none is zero add up to zero only when none is left.    *)
LEMMA WeightIsPositive ==
  ASSUME NEW w, NEW e, IsFiniteSet(DOMAIN w \ e), DOMAIN w \ e # {},
         \A i \in DOMAIN w : w[i].weight \in Nat \ {0}
  PROVE  TotalWeight(w, e) \in Nat \ {0}
<1> DEFINE S == DOMAIN w \ e
<1>1. PICK f : SumsUp(f, w, S)
  BY SumExists
<1>2. PICK g : SumsUp(g, w, S) /\ TotalWeight(w, e) = g[S]
  BY <1>1 DEF SumsUp, Chosen, TotalWeight, MapThenSumSet, MapThenFoldSet
<1>3. \A i \in S : w[i].weight \in Nat \ {0}
  OBVIOUS
<1> QED BY <1>2, <1>3, SumIsPositive

-----------------------------------------------------------------------------
(* No permit is left unused while an operation could run                   *)

(* Steps other than Reselect leave the operations held back as they are.   *)
SameHeld(t, s) ==
  t.excluded = s.excluded /\ t.held = s.held /\ t.attempts = s.attempts

LEMMA HeldUntouched ==
  ASSUME NEW s, DOMAIN s = SlotFields
  PROVE  /\ \A i : SameHeld(Picked(s, i), s)
         /\ SameHeld(Found(s), s)
         /\ \A c : SameHeld(Sent(s, c), s)
         /\ SameHeld(Capturing(s), s)
<1>1. \A i : SameHeld(Picked(s, i), s)
  BY DEF SameHeld, Picked, SlotFields
<1>2. SameHeld(Found(s), s)
  BY DEF SameHeld, Found, SlotFields
<1>3. \A c : SameHeld(Sent(s, c), s)
  BY DEF SameHeld, Sent, SlotFields
<1>4. SameHeld(Capturing(s), s)
  BY DEF SameHeld, Capturing, SlotFields
<1> QED BY <1>1, <1>2, <1>3, <1>4

LEMMA HeldBackHeld ==
  ASSUME NEW s, DOMAIN s = SlotFields
  PROVE  LET t == HeldBack(s) IN
         /\ t.excluded = s.excluded \union {s.index}
         /\ t.held = s.held \union {s.index}
         /\ t.attempts = s.attempts + 1
BY DEF HeldBack, SlotFields

LEMMA FreshHeld ==
  ASSUME NEW at \in {"off", "crashLoop", "idle", "pick"}, NEW c
  PROVE  HeldOK(Slot(at, ""), c)
<1> DEFINE s == Slot(at, "")
<1>1. s.excluded = {} /\ s.held = {} /\ s.attempts = 0 /\ s.at # "resolve"
      /\ s.outcome # "skipped"
  BY DEF Slot
<1>2. Cardinality({}) = 0
  BY FS_EmptySet
<1> HIDE DEF s
<1>3. HeldOK(s, c)
  BY <1>1, <1>2 DEF HeldOK
<1> QED BY <1>3 DEF s

LEMMA EndedHeld ==
  ASSUME NEW s, NEW c, HeldOK(s, c), NEW outcome,
         outcome = "skipped" => s.sent = 0 /\ s.held = DOMAIN c.operations
  PROVE  HeldOK(Ended(s, outcome), c)
<1> DEFINE t == Ended(s, outcome)
<1>1. t.at = "idle" /\ t.outcome = outcome /\ t.sent = s.sent /\ t.held = s.held
  BY EndedFields
<1> HIDE DEF t
<1>2. HeldOK(t, c)
  BY <1>1 DEF HeldOK
<1> QED BY <1>2 DEF t

LEMMA BecomeKeepsHeld ==
  ASSUME SlotInv, HeldInv, NEW p \in Processes, NEW t, HeldOK(t, Config(p)), Become(p, t)
  PROVE  HeldInv'
<1>1. slot' = [slot EXCEPT ![p] = t] /\ UNCHANGED config
  BY DEF Become
<1>2. HeldOK(t, Only(config[p]))
  BY DEF Config, Only
<1> QED BY <1>1, <1>2 DEF HeldInv, SlotInv, Running

(* Both ways to give up on a slot mean the same: as many attempts as there *)
(* are operations, or no weight left.                                      *)
LEMMA GivesUpWhenAllAreHeld ==
  ASSUME NEW c \in ValidConfigs, NEW s, HeldOK(s, c), s.at = "pick",
         \/ s.attempts = Len(c.operations)
         \/ TotalWeight(c.operations, s.excluded) = 0
  PROVE  s.held = DOMAIN c.operations
<1> DEFINE o == c.operations
           n == Len(o)
<1>1. n \in Nat /\ DOMAIN o = 1 .. n
  BY ValidOperations
<1>2. \A i \in DOMAIN o : o[i].weight \in Nat \ {0}
  BY ValidOperation, Zenon
<1>3. IsFiniteSet(1 .. n) /\ Cardinality(1 .. n) = n
  BY <1>1, FS_Interval
<1>4. s.excluded = s.held /\ s.held \in SUBSET (1 .. n) /\ s.attempts = Cardinality(s.held)
  BY <1>1 DEF HeldOK
<1> HIDE DEF o, n
<1>5. CASE s.attempts = n
  <2>1. Cardinality(1 .. n) = Cardinality(s.held)
    BY <1>3, <1>4, <1>5
  <2>2. 1 .. n = s.held
    BY <1>3, <1>4, <2>1, FS_Subset, Zenon
  <2> QED BY <1>1, <2>2 DEF o
<1>6. CASE TotalWeight(o, s.excluded) = 0
  <2>1. IsFiniteSet(DOMAIN o \ s.excluded)
    BY <1>1, <1>3, FS_Difference
  <2>2. DOMAIN o \ s.excluded = {}
    BY <1>2, <1>6, <2>1, WeightIsPositive
  <2> QED BY <1>1, <1>4, <2>2 DEF o
<1> QED BY <1>5, <1>6 DEF o, n

LEMMA PickKeepsHeld ==
  ASSUME SlotInv, HeldInv, NEW p \in Processes, Pick(p)
  PROVE  HeldInv'
<1> DEFINE s == slot[p]
           c == Config(p)
<1>1. s.at = "pick" /\ HeldOK(s, c)
  BY DEF Pick, HeldInv, Config, Only
<1>2. c \in ValidConfigs /\ s.sent = 0 /\ DOMAIN s = SlotFields
  BY <1>1, WhatRuns
<1>3. \/ \E i \in DOMAIN c.operations \ s.excluded : Become(p, Picked(s, i))
      \/ /\ \/ s.attempts = Len(c.operations)
            \/ TotalWeight(c.operations, s.excluded) = 0
         /\ Become(p, Ended(s, "skipped"))
  BY Zenon DEF Pick, PickWeighted, End, Picked, Ended
<1>4. ASSUME NEW t, HeldOK(t, c), Become(p, t) PROVE HeldInv'
  BY <1>4, BecomeKeepsHeld
<1> HIDE DEF s, c
<1>5. CASE \E i \in DOMAIN c.operations \ s.excluded : Become(p, Picked(s, i))
  <2>1. PICK i \in DOMAIN c.operations \ s.excluded : Become(p, Picked(s, i))
    BY <1>5
  <2> DEFINE t == Picked(s, i)
  <2>2. t.at = "resolve" /\ t.index = i /\ t.outcome = s.outcome /\ SameHeld(t, s)
    BY <1>2, PickedFields, HeldUntouched, Zenon
  <2>3. i \notin s.excluded
    BY <2>1
  <2> HIDE DEF t
  <2>4. HeldOK(t, c)
    BY <1>1, <2>2, <2>3 DEF HeldOK, SameHeld
  <2> QED BY <1>4, <2>1, <2>4, Zenon DEF t
<1>6. CASE /\ \/ s.attempts = Len(c.operations)
              \/ TotalWeight(c.operations, s.excluded) = 0
           /\ Become(p, Ended(s, "skipped"))
  <2>1. s.held = DOMAIN c.operations
    BY <1>1, <1>2, <1>6, GivesUpWhenAllAreHeld
  <2> QED BY <1>1, <1>2, <1>4, <1>6, <2>1, EndedHeld
<1> QED BY <1>3, <1>5, <1>6

LEMMA ResolveKeepsHeld ==
  ASSUME SlotInv, HeldInv, NEW p \in Processes, Resolve(p)
  PROVE  HeldInv'
<1> DEFINE s == slot[p]
           c == Config(p)
           o == Operation(p)
           k == s.resolved + 1
<1>1. s.at = "resolve" /\ s.resolved < Len(o.variables)
  BY DEF Resolve
<1>2. /\ DOMAIN s = SlotFields /\ s.resolved \in Nat
      /\ c \in ValidConfigs /\ s.index \in DOMAIN c.operations
      /\ o = c.operations[s.index]
  BY <1>1, WhatRuns DEF Operation
<1>3. HeldOK(s, c)
  BY DEF HeldInv, Config, Only
<1>4. \/ Become(p, Found(s))
      \/ o.variables[k].type = "store" /\ Become(p, HeldBack(s))
      \/ \E outcome \in {"failed", "storeNotFound", "unsupportedSource"} :
           Become(p, Ended(s, outcome))
  BY Zenon DEF Resolve, Found, HeldBack, Ended, Reselect, End
<1>5. ASSUME NEW t, HeldOK(t, c), Become(p, t) PROVE HeldInv'
  BY <1>5, BecomeKeepsHeld
<1>6. k \in DOMAIN o.variables
  <2>1. o.variables \in Seq(Range(o.variables))
    BY <1>2, ValidOperation, Zenon
  <2> HIDE DEF o, s
  <2> QED BY <1>1, <1>2, <2>1
<1> HIDE DEF s, c, o, k
<1>7. CASE Become(p, Found(s))
  <2> DEFINE t == Found(s)
  <2>1. t.at = s.at /\ t.index = s.index /\ t.outcome = s.outcome /\ SameHeld(t, s)
    BY <1>2, FoundFields, HeldUntouched, Zenon
  <2> HIDE DEF t
  <2>2. HeldOK(t, c)
    BY <1>1, <1>3, <2>1 DEF HeldOK, SameHeld
  <2> QED BY <1>5, <1>7, <2>2, Zenon DEF t
<1>8. CASE o.variables[k].type = "store" /\ Become(p, HeldBack(s))
  <2> DEFINE t == HeldBack(s)
  <2>1. /\ t.at = "pick" /\ t.outcome = s.outcome
        /\ t.excluded = s.excluded \union {s.index}
        /\ t.held = s.held \union {s.index} /\ t.attempts = s.attempts + 1
    BY <1>2, HeldBackFields, HeldBackHeld, Zenon
  <2>2. ReadsStore(c.operations[s.index])
    BY <1>2, <1>6, <1>8 DEF ReadsStore
  <2>3. /\ s.excluded = s.held /\ s.held \subseteq DOMAIN c.operations
        /\ s.index \notin s.held /\ s.attempts = Cardinality(s.held)
        /\ s.outcome # "skipped"
        /\ \A i \in s.held : ReadsStore(c.operations[i])
    BY <1>1, <1>3 DEF HeldOK
  <2>4. IsFiniteSet(s.held)
    <3> DEFINE n == Len(c.operations)
    <3>1. n \in Nat /\ DOMAIN c.operations = 1 .. n
      BY <1>2, ValidOperations
    <3> HIDE DEF n
    <3>2. IsFiniteSet(1 .. n)
      BY <3>1, FS_Interval
    <3>3. s.held \in SUBSET (1 .. n)
      BY <2>3, <3>1
    <3> QED BY <3>2, <3>3, FS_Subset, Zenon
  <2>5. Cardinality(s.held \union {s.index}) = s.attempts + 1
    BY <2>3, <2>4, FS_AddElement
  <2> HIDE DEF t
  <2>6. HeldOK(t, c)
    BY <1>2, <2>1, <2>2, <2>3, <2>5 DEF HeldOK
  <2> QED BY <1>5, <1>8, <2>6, Zenon DEF t
<1>9. CASE \E outcome \in {"failed", "storeNotFound", "unsupportedSource"} :
             Become(p, Ended(s, outcome))
  BY <1>3, <1>5, <1>9, EndedHeld
<1> QED BY <1>4, <1>7, <1>8, <1>9

LEMMA LateStepsKeepHeld ==
  ASSUME SlotInv, HeldInv, NEW p \in Processes, Send(p) \/ Respond(p) \/ Capture(p)
  PROVE  HeldInv'
<1> DEFINE s == slot[p]
           c == Config(p)
           k == Credentials(Operation(p), Volume(p))
<1>1. s.at \in {"resolve", "response", "capture"}
  BY DEF Send, Respond, Capture
<1>2. DOMAIN s = SlotFields /\ HeldOK(s, c)
  BY WhatRuns DEF HeldInv, Config, Only
<1>3. \/ Become(p, Sent(s, k))
      \/ Become(p, Capturing(s))
      \/ \E outcome \in {"ok", "failed", "storeNotFound"} : Become(p, Ended(s, outcome))
  BY Zenon DEF Send, Respond, Capture, End, Sent, Capturing, Ended
<1>4. ASSUME NEW t, HeldOK(t, c), Become(p, t) PROVE HeldInv'
  BY <1>4, BecomeKeepsHeld
<1> HIDE DEF s, c, k
<1>5. CASE Become(p, Sent(s, k))
  <2> DEFINE t == Sent(s, k)
  <2>1. t.at = "response" /\ t.outcome = s.outcome /\ SameHeld(t, s)
    BY <1>2, SentFields, HeldUntouched, Zenon
  <2> HIDE DEF t
  <2>2. HeldOK(t, c)
    BY <1>1, <1>2, <2>1 DEF HeldOK, SameHeld
  <2> QED BY <1>4, <1>5, <2>2, Zenon DEF t
<1>6. CASE Become(p, Capturing(s))
  <2> DEFINE t == Capturing(s)
  <2>1. t.at = "capture" /\ t.outcome = s.outcome /\ SameHeld(t, s)
    BY <1>2, CapturingFields, HeldUntouched, Zenon
  <2> HIDE DEF t
  <2>2. HeldOK(t, c)
    BY <1>1, <1>2, <2>1 DEF HeldOK, SameHeld
  <2> QED BY <1>4, <1>6, <2>2, Zenon DEF t
<1>7. CASE \E outcome \in {"ok", "failed", "storeNotFound"} : Become(p, Ended(s, outcome))
  BY <1>2, <1>4, <1>7, EndedHeld
<1> QED BY <1>3, <1>5, <1>6, <1>7

LEMMA HeldInvHolds == Spec => [](SlotInv /\ HeldInv)
<1>1. Init => HeldInv
  <2>1. \A c : HeldOK(Slot("off", ""), c)
    BY FreshHeld
  <2> QED BY <2>1 DEF Init, HeldInv
<1>2. ASSUME SlotInv, HeldInv, [Next]_vars PROVE HeldInv'
  <2>0. DOMAIN slot = Processes /\ DOMAIN config = Processes
    BY <1>2 DEF SlotInv, Running
  <2>1. CASE Control \/ (\E p \in Processes : CreatePod(p)) \/ UNCHANGED vars
    <3>1. UNCHANGED <<config, slot>>
      BY <2>1 DEF Control, Edit, ApplyConfigMap, ApplyDeployment, Interrupt, SyncConfigMap,
         SyncDeployment, CreatePod, process, vars
    <3> QED BY <1>2, <3>1 DEF HeldInv
  <2>2. ASSUME NEW p \in Processes, Start(p) \/ Kill(p) \/ RemovePod(p) PROVE HeldInv'
    <3>1. PICK at \in {"off", "crashLoop", "idle", "pick"} :
            slot' = [slot EXCEPT ![p] = Slot(at, "")]
      BY <2>2, Zenon DEF Start, Kill, RemovePod, Exit
    <3>2. PICK c : config' = [config EXCEPT ![p] = c]
      BY <2>2, Zenon DEF Start, Kill, RemovePod, Exit
    <3>3. HeldOK(Slot(at, ""), Only(c))
      BY FreshHeld
    <3> QED BY <1>2, <2>0, <3>1, <3>2, <3>3 DEF HeldInv
  <2>3. ASSUME NEW p \in Processes, Begin(p) PROVE HeldInv'
    <3>1. HeldOK(Slot("pick", ""), Config(p))
      BY FreshHeld
    <3> QED BY <1>2, <2>3, <3>1, BecomeKeepsHeld DEF Begin
  <2> QED
    BY <1>2, <2>1, <2>2, <2>3, PickKeepsHeld, ResolveKeepsHeld, LateStepsKeepHeld
       DEF Next, Step
<1> QED BY <1>1, <1>2, SlotInvHolds, PTL DEF Spec

-----------------------------------------------------------------------------
(* The theorems                                                            *)

(* What RunsAsDeployed says of a process.                                  *)
LEMMA AsDeployed ==
  ASSUME NEW p \in Processes, NEW s, RunsAsDeployed(p, s)
  PROVE  /\ Config(p) = ScenarioRunnerConfig(s)
         /\ Env(p) = RunnerEnvironment(s, address)
         /\ Volume(p) = DesiredSecretHeaderVolume(s)
<1>1. Template(p) = TemplateOf(DesiredDeployment(s)) /\ config[p] = {ScenarioRunnerConfig(s)}
  BY DEF RunsAsDeployed
<1>2. /\ TemplateOf(DesiredDeployment(s)).containers.env = RunnerEnvironment(s, address)
      /\ TemplateOf(DesiredDeployment(s)).volume = DesiredSecretHeaderVolume(s)
  BY DEF TemplateOf, DesiredDeployment
<1>3. Config(p) = ScenarioRunnerConfig(s)
  BY <1>1 DEF Config
<1> QED BY <1>1, <1>2, <1>3 DEF Env, Volume

(* What the controller's validation lets through passes every check of a   *)
(* starting runner, and its Pod template every request-within-limit check: *)
(* through any edits and rollouts, a process in a crash loop has read a    *)
(* configuration its Pod was not created for.                              *)
THEOREM AcceptedStartsUp == Spec => []AcceptedScenarioStarts
<1>1. SlotInv => AcceptedScenarioStarts
  <2> SUFFICES ASSUME SlotInv PROVE AcceptedScenarioStarts
    OBVIOUS
  <2>1. ASSUME NEW d \in deployment
        PROVE  LET resources == d.containers.resources
               IN  \A r \in DOMAIN resources.requests :
                     resources.requests[r] <= resources.limits[r]
    <3>1. PICK s \in Valid : d.containers.resources = RunnerResources(s)
      BY DEF SlotInv, Applied
    <3>2. ValidateRunnerResources(s)
      BY DEF Valid, ValidateScenario
    <3> QED BY <3>1, <3>2, ResourcesFit
  <2>2. ASSUME NEW p \in Processes, slot[p].at = "crashLoop",
               NEW s \in submitted, RunsAsDeployed(p, s)
        PROVE  ~Accepted(s)
    <3>1. ProcessOK(pod[p], config[p], started[p], slot[p])
      BY DEF SlotInv, Running
    <3>2. ~RunnerStarts(Only(config[p]), Only(pod[p]).containers.env)
      BY <2>2, <3>1, Zenon DEF ProcessOK
    <3>3. ~RunnerStarts(Config(p), Env(p))
      BY <3>2 DEF Only, Config, Env, Template
    <3>4. Config(p) = ScenarioRunnerConfig(s) /\ Env(p) = RunnerEnvironment(s, address)
      BY <2>2, AsDeployed
    <3> QED BY <3>3, <3>4, AcceptedStarts
  <2> QED BY <2>1, <2>2, Zenon DEF AcceptedScenarioStarts
<1> QED BY <1>1, SlotInvHolds, PTL

(* Where all Pods are replicas of an accepted scenario, two processes do   *)
(* not pace themselves apart: validation asks for a shared limiter as soon *)
(* as there are two replicas, and the runners resolve the limiter as the   *)
(* controller did.                                                         *)
THEOREM ReplicasShareLimiter == Spec => []SideBySideMeansSharedLimiter
<1>1. SlotInv => SideBySideMeansSharedLimiter
  <2> SUFFICES ASSUME SlotInv, NEW p \in Processes, NEW q \in Processes, p # q,
                      Started(p), Started(q), NEW s \in submitted,
                      Cardinality(Pods) <= RunnerReplicas(s),
                      \A r \in Pods : RunsAsDeployed(r, s),
                      Accepted(s)
               PROVE  started[p].limiter = "redis"
    BY Zenon DEF SideBySideMeansSharedLimiter
  <2>1. ASSUME NEW r \in Processes, Started(r)
        PROVE  /\ r \in Pods
               /\ started[r].limiter
                    = NormalizedRateLimiterBackend(Config(r).limiter, Env(r).backend)
    <3>1. ProcessOK(pod[r], config[r], started[r], slot[r])
      BY DEF SlotInv, Running
    <3>2. pod[r] # {}
      BY <2>1, <3>1, Zenon DEF ProcessOK, Started
    <3>3. started[r].limiter = NormalizedRateLimiterBackend(Only(config[r]).limiter,
                                               Only(pod[r]).containers.env.backend)
      BY <2>1, <3>1, Zenon DEF ProcessOK, Started
    <3> QED BY <3>2, <3>3 DEF Pods, Only, Config, Env, Template
  <2>2. p \in Pods /\ q \in Pods
    BY <2>1
  <2>3. Cardinality(Pods) \in Nat /\ Cardinality(Pods) >= 2
    <3>1. IsFiniteSet(Pods)
      BY ProcessesAssumption, FS_Subset DEF Pods
    <3>2. {p, q} \in SUBSET Pods /\ Cardinality({p, q}) = 2
      <4>1. IsFiniteSet({p}) /\ Cardinality({p}) = 1
        BY FS_Singleton
      <4>2. q \notin {p}
        OBVIOUS
      <4>3. Cardinality({p} \union {q}) = Cardinality({p}) + 1
        BY <4>1, <4>2, FS_AddElement, Zenon
      <4>4. {p} \union {q} = {p, q}
        OBVIOUS
      <4> QED BY <2>2, <4>1, <4>3, <4>4
    <3>3. Cardinality(Pods) \in Nat
      BY <3>1, FS_CardinalityType
    <3>4. Cardinality({p, q}) <= Cardinality(Pods)
      BY <3>1, <3>2, FS_Subset
    <3> QED BY <3>2, <3>3, <3>4
  <2>4. /\ RunnerReplicas(s) \in 1 .. MaxReplicas
        /\ RunnerReplicas(s) > 1 => RateLimiterBackend(s) = "redis"
    BY Zenon DEF Accepted, ValidateScenario
  <2>5. RateLimiterBackend(s) = "redis"
    BY <2>3, <2>4 DEF MaxReplicas
  <2>6. Config(p) = ScenarioRunnerConfig(s)
    BY <2>2, AsDeployed
  <2>7. Config(p).limiter = RateLimiterBackend(s)
    BY <2>6, ConfigFields
  <2>8. started[p].limiter = NormalizedRateLimiterBackend(RateLimiterBackend(s), Env(p).backend)
    BY <2>1, <2>7
  <2> QED BY <2>5, <2>8, LimiterResolved
<1> QED BY <1>1, SlotInvHolds, PTL

(* However often a slot picks again, and whichever of its calls fail, its  *)
(* permit pays for one request at most.                                    *)
THEOREM PermitPaysForOne == Spec => []OneRequestPerPermit
<1>1. SlotInv => OneRequestPerPermit
  BY WhatRuns DEF OneRequestPerPermit
<1> QED BY <1>1, SlotInvHolds, PTL

(* No slot meets a store or a source its configuration does not know, and  *)
(* every variable of a request's template has a value: a process runs only *)
(* configurations that passed validation, whichever edit they are from.    *)
THEOREM NoStaticError == Spec => []ExecutorMeetsNoStaticError
<1>1. SlotInv => ExecutorMeetsNoStaticError
  <2> SUFFICES ASSUME SlotInv, NEW p \in Processes
               PROVE  /\ slot[p].outcome \notin {"storeNotFound", "unsupportedSource"}
                      /\ slot[p].at = "response" =>
                           Operation(p).used \subseteq Defined(Operation(p))
    BY Zenon DEF ExecutorMeetsNoStaticError
  <2>1. slot[p].outcome \notin {"storeNotFound", "unsupportedSource"}
    BY WhatRuns
  <2>2. ASSUME slot[p].at = "response"
        PROVE  Operation(p).used \subseteq Defined(Operation(p))
    <3>1. Config(p) \in ValidConfigs /\ slot[p].index \in DOMAIN Config(p).operations
      BY <2>2, WhatRuns
    <3> QED BY <3>1, ValidOperation, Zenon DEF Operation
  <2> QED BY <2>1, <2>2
<1> QED BY <1>1, SlotInvHolds, PTL

(* Of the Secrets mounted for a scenario, a request carries those its own  *)
(* operation refers to and no other, if its process has read what its Pod  *)
(* was created for: the paths the controller derives are different for any *)
(* two headers of one scenario.                                            *)
THEOREM CredentialsAreItsOwn == Spec => []RequestCarriesItsCredentials
<1>1. SlotInv => RequestCarriesItsCredentials
  <2> SUFFICES ASSUME SlotInv, NEW p \in Processes, slot[p].at = "response",
                      NEW s \in submitted, RunsAsDeployed(p, s)
               PROVE  slot[p].credentials
                        = {[name |-> h.name, ref |-> h.ref] :
                             h \in Range(s.operations[slot[p].index].secretHeaders)}
    BY DEF RequestCarriesItsCredentials
  <2> DEFINE i == slot[p].index
  <2>1. /\ SlotOK(slot[p], Config(p), Volume(p)) /\ i \in DOMAIN Config(p).operations
    BY WhatRuns
  <2>2. slot[p].credentials = Credentials(Config(p).operations[i], Volume(p))
    BY <2>1, Zenon DEF SlotOK
  <2>3. Config(p) = ScenarioRunnerConfig(s) /\ Volume(p) = DesiredSecretHeaderVolume(s)
    BY AsDeployed
  <2>4. s \in Scenarios
    BY DEF SlotInv, Applied
  <2>5. i \in DOMAIN s.operations
    BY <2>1, <2>3, ConfigFields
  <2>6. Credentials(RunnerOperations(s)[i], DesiredSecretHeaderVolume(s))
          = Referred(s.operations[i])
    BY <2>4, <2>5, CredentialsAreReferred
  <2> HIDE DEF i
  <2>7. slot[p].credentials = Referred(s.operations[i])
    BY <2>2, <2>3, <2>6 DEF RunnerOperations
  <2> QED BY <2>7, Zenon DEF Referred, i
<1> QED BY <1>1, SlotInvHolds, PTL

(* A permit is left unused only when this very slot found every operation  *)
(* of the configuration without a value for one of its stores: as long as  *)
(* an operation is left, its weight leaves something to pick.              *)
THEOREM NoPermitIsWasted == Spec => []SkippedOnlyWhenHeldBack
<1>1. SlotInv /\ HeldInv => SkippedOnlyWhenHeldBack
  <2> SUFFICES ASSUME SlotInv, HeldInv, NEW p \in Processes, slot[p].outcome = "skipped"
               PROVE  /\ slot[p].sent = 0
                      /\ slot[p].held = DOMAIN Config(p).operations
                      /\ \A i \in slot[p].held :
                           \E j \in DOMAIN Config(p).operations[i].variables :
                             Config(p).operations[i].variables[j].type = "store"
    BY DEF SkippedOnlyWhenHeldBack
  <2>1. HeldOK(slot[p], Config(p))
    BY DEF HeldInv, Config, Only
  <2> QED BY <2>1, Zenon DEF HeldOK, ReadsStore
<1> QED BY <1>1, HeldInvHolds, PTL
=============================================================================
