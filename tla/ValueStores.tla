---------------------------- MODULE ValueStores ----------------------------
(***************************************************************************)
(* A named store of a scenario, kept where newRuntimeState puts it: in the *)
(* memory of the only runner process, or in the Redis that all replicas    *)
(* share.  Execute calls use it through the interface ValueStore and do    *)
(* not know which; both are shown to be the pool of ValuePool.             *)
(***************************************************************************)
EXTENDS Integers, Sequences

CONSTANTS
  Clients,    \* the Execute calls
  Values,     \* what responses are captured as
  Empty,      \* the empty string
  limit,      \* the capacity in the configuration of the single process
  limits,     \* the capacity in the configuration of each replica's calls
  MaxRetries  \* redisMaxRetries

(* validateStoreConfigs refuses a capacity below one.                      *)
ASSUME StoresAssumption ==
  /\ Empty \in Values
  /\ limit \in Nat \ {0}
  /\ limits \in [Clients -> Nat \ {0}]
  /\ MaxRetries \in Nat

VARIABLES
  backend,       \* "memory" or "redis"
  values, next,  \* the ring of MemoryStore
  list,          \* the list of RedisStore
  call           \* what each client is calling, or what its last call returned

vars == <<backend, values, next, list, call>>

Memory == INSTANCE MemoryStore
Redis == INSTANCE RedisStore

-----------------------------------------------------------------------------

Init ==
  /\ backend \in {"memory", "redis"}
  /\ Memory!Init
  /\ Redis!Init

Next ==
  \/ /\ backend = "memory" /\ Memory!Next
     /\ UNCHANGED <<backend, list>>
  \/ /\ backend = "redis" /\ Redis!Next
     /\ UNCHANGED <<backend, values, next>>

Spec == Init /\ [][Next]_vars

-----------------------------------------------------------------------------

(* What store.go relies on to index the ring: it never outgrows its        *)
(* capacity, holds no empty value, and only a full ring has a write        *)
(* position.                                                               *)
RingInBounds == Memory!TypeOK

Idle == [c \in Clients |-> Memory!Returned("none", Empty)]

MemoryPool == INSTANCE ValuePool WITH
  pool <- Memory!FromOldest,
  call <- IF backend = "memory" THEN call ELSE Idle,
  Limit <- [c \in Clients |-> limit], Attempts <- 1

(* The ring implements the bounded queue: Put replaces the oldest entry of *)
(* a full pool and no other, exactly once, however calls interleave, and   *)
(* Random answers a value that is in the pool at that moment.              *)
MemoryImplementsPool == MemoryPool!Spec

RedisPool == INSTANCE ValuePool WITH
  pool <- list,
  call <- IF backend = "redis" THEN [c \in Clients |-> Redis!Observed(c)] ELSE Idle,
  Limit <- limits, Attempts <- MaxRetries + 1

(* The shared list implements the bounded queue: a Put stores its value at *)
(* the new end and evicts only the oldest ones, a value is stored at most  *)
(* once per attempt, and a Random between whose commands other replicas    *)
(* push and trim answers a value of the pool.  It misses in a pool that    *)
(* has values only after a replica with a smaller capacity trimmed it.     *)
RedisImplementsPool == RedisPool!Spec
=============================================================================
