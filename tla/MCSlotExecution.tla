-------------------------- MODULE MCSlotExecution --------------------------
(***************************************************************************)
(* Scenarios for SlotExecution: one that is accepted, varied in one group  *)
(* of fields at a time, each at and beyond its bounds.  Fields that a      *)
(* check combines vary together.                                           *)
(***************************************************************************)
EXTENDS SlotExecution

Nothing == [x \in {} |-> 0]

FixedSchedule == [type |-> "fixed", rpm |-> 60, min |-> 0, max |-> 0, window |-> 0]
UniformSchedule == [type |-> "uniform", rpm |-> 0, min |-> 1, max |-> 60, window |-> 5]
NoProfile == [type |-> "", min |-> 0, max |-> 0, divisor |-> 0]

Ping ==
  [name |-> "ping", weight |-> 1, method |-> "GET", path |-> "rooted",
   body |-> "", used |-> {}, headers |-> Nothing, secretHeaders |-> <<>>,
   statuses |-> <<200>>, variables |-> <<>>, capture |-> {}]

Drawn(name, store) == [name |-> name, type |-> "store", store |-> store, length |-> 0]
Secret(name, ref) == [name |-> name, ref |-> ref]

\* Captures into a store; reads one or two of them.
Create(store) ==
  [Ping EXCEPT !.name = "create", !.method = "POST", !.body = "short",
     !.capture = {[pointer |-> "valid", store |-> store]}]
Read(store) ==
  [Ping EXCEPT !.name = "read", !.weight = 2, !.used = {"id"},
     !.variables = <<Drawn("id", store)>>]
Join(store1, store2) ==
  [Ping EXCEPT !.name = "join", !.used = {"id", "key"},
     !.variables = <<Drawn("id", store1), Drawn("key", store2)>>]

Pool(name, capacity) == [name |-> name, capacity |-> capacity]

Base ==
  [target |-> "absolute", replicas |-> 1, storage |-> "memory", limiter |-> "",
   schedule |-> FixedSchedule, profile |-> NoProfile,
   stores |-> <<>>, operations |-> <<Ping>>,
   resources |-> [requests |-> Nothing, limits |-> Nothing]]

-----------------------------------------------------------------------------

\* Where budgets and values live.
Backends ==
  {[Base EXCEPT !.replicas = r, !.storage = s, !.limiter = l, !.schedule = c] :
     r \in {0, 2, 10, 11}, s \in {"", "memory", "redis", "disk"},
     l \in {"", "local", "redis", "none"},
     c \in {FixedSchedule, UniformSchedule, [FixedSchedule EXCEPT !.type = "steps"]}}

Schedules ==
  {[Base EXCEPT !.schedule = c] :
     c \in [type : {"fixed", "uniform"}, rpm : {0, 1, 6000, 6001},
            min : {0, 1, 6000, 6001}, max : {0, 1, 6000, 6001},
            window : {0, 1, 1440, 1441}]}

Profiles ==
  {[Base EXCEPT !.profile = p] :
     p \in [type : {"", "fixed", "uniform", "burst", "ramp"},
            min : {0, 1, 2, 100, 101}, max : {0, 1, 2, 100, 101},
            divisor : {0, 1, 2, 100, 101}]}

Resources ==
  {[Base EXCEPT !.resources = [requests |-> q, limits |-> l]] :
     q \in {Nothing} \union [{"cpu"} -> {-1, 0, 500, 501, 1000, 1001}]
             \union [{"gpu"} -> {1}],
     l \in {Nothing} \union [{"cpu"} -> {0, 24, 25, 500, 1000, 1001}]
             \union [{"memory"} -> {31, 512, 513}]}

\* What can be wrong with one operation, and with the stores it refers to.
Operations ==
  {[Ping EXCEPT !.name = n] : n \in {BadName}}
  \union {[Ping EXCEPT !.weight = w] : w \in {0, 10001}}
  \union {[Ping EXCEPT !.method = m, !.body = b] :
            m \in {"GET", "POST", "PUT"}, b \in {"", "short", "tooLong"}}
  \union {[Ping EXCEPT !.path = "relative"]}
  \union {[Ping EXCEPT !.statuses = s] : s \in {<<>>, <<99>>, <<200, 599>>, <<200, 200>>}}
  \union {[Ping EXCEPT !.headers = h, !.secretHeaders = s] :
            h \in {Nothing} \union [{"accept"} -> {"plain", "lineBreak", "template"}]
                    \union [{"", "host"} -> {"plain"}] \union [{"cookie"} -> {"plain"}],
            s \in {<<>>, <<Secret("cookie", "a")>>, <<Secret("accept", "a")>>,
                   <<Secret("x-a", "a"), Secret("x-a", "b")>>,
                   <<Secret("host", "a")>>, <<Secret("x-a", BadName)>>}}
  \union {[Ping EXCEPT !.variables = <<v>>, !.used = u] :
            v \in [name : {"id", BadName}, type : {"randomUUID", "randomBase62", "store", "time"},
                   store : {"", "urls", "lost"}, length : {0, 128, 129}],
            u \in {{}, {"id"}, {"id", "key"}, {BadName}}}
  \union {Create("urls"), Create("lost"), Join("urls", "lost"),
          [Create("urls") EXCEPT !.capture = {[pointer |-> "none", store |-> "urls"]}]}

Stores == {<<>>, <<Pool("urls", 1)>>, <<Pool("urls", 0)>>, <<Pool("urls", 100001)>>,
           <<Pool("urls", 1), Pool("urls", 2)>>, <<Pool(BadName, 1)>>}

SingleOperations ==
  {[Base EXCEPT !.operations = <<o>>, !.stores = s] : o \in Operations, s \in Stores}
  \union {[Base EXCEPT !.operations = <<>>], [Base EXCEPT !.operations = <<Ping, Ping>>],
          [Base EXCEPT !.target = "credentials"]}

\* Mixes of operations that hold each other back, with one or two runners.
Mixes ==
  {<<Create("urls"), Read("urls")>>, <<Read("urls"), Join("urls", "keys")>>,
   <<Read("urls"), Join("urls", "keys"), Create("keys")>>,
   <<[Ping EXCEPT !.secretHeaders = <<Secret("cookie", "a"), Secret("x-b", "b")>>],
     [Read("urls") EXCEPT !.secretHeaders = <<Secret("cookie", "b")>>],
     Create("urls")>>}

MixedOperations ==
  {[Base EXCEPT !.operations = m, !.stores = <<Pool("urls", 1), Pool("keys", 1)>>,
      !.storage = s, !.replicas = IF s = "redis" THEN 2 ELSE 1] :
     m \in Mixes, s \in {"memory", "redis"}}

-----------------------------------------------------------------------------

\* Edits: operations with credentials change places; a runner of its own
\* budget gets replicas and Redis, and loses its replicas again.
Guarded(ref) == [Ping EXCEPT !.name = ref, !.secretHeaders = <<Secret("cookie", ref)>>]
Keyed == [Base EXCEPT !.operations = <<Guarded("a"), Guarded("b")>>]
Rekeyed == [Base EXCEPT !.operations = <<Guarded("b"), Guarded("a")>>]
Shared == [Base EXCEPT !.replicas = 2, !.storage = "redis"]
Varying == [Base EXCEPT !.schedule = UniformSchedule]

MCEdits == {<<Keyed, Rekeyed>>, <<Base, Shared>>, <<Shared, Varying>>}

AllScenarios ==
  Backends \union Schedules \union Profiles \union Resources
    \union SingleOperations \union MixedOperations
    \union {Keyed, Rekeyed, Base, Shared, Varying}
=============================================================================
