------------------------- MODULE ValueStoresProofs -------------------------
(***************************************************************************)
(* Proofs that both value stores are the pool of ValuePool: for any calls, *)
(* values and capacities, each step of the ring and of the Redis list is a *)
(* step of the bounded queue, or is not seen by the calls at all.          *)
(***************************************************************************)
EXTENDS ValueStores, SequenceTheorems, TLAPS

Stored == Values \ {Empty}

Idling == [op : {"idle"}, result : {"none", "ok", "missing", "failed"}, value : Values]

MemoryCalls == [op : {"put"}, value : Values, tries : {0}] \cup [op : {"random"}] \cup Idling

RedisCalls ==
  [op : {"put"}, value : Values, tries : 0 .. MaxRetries]
    \cup [op : {"llen"}, tries : 0 .. MaxRetries]
    \cup [op : {"lindex"}, index : Nat, tries : 0 .. MaxRetries]
    \cup Idling

(* A list that is not empty fits the capacity of the client that last put. *)
ListFits == list = <<>> \/ \E d \in Clients : Len(list) <= limits[d]

(* Between LLEN and LINDEX: the index drawn is below somebody's capacity,  *)
(* and it has left the list only if a replica has trimmed the list to its  *)
(* own.                                                                    *)
DrawnIndex(c) ==
  call[c].op = "lindex" =>
    /\ \E d \in Clients : call[c].index < limits[d]
    /\ call[c].index < Len(list) \/ \E e \in Clients : limits[e] <= Len(list)

InMemory == list = <<>> /\ call \in [Clients -> MemoryCalls]

InRedis ==
  /\ values = <<>> /\ next = 0
  /\ list \in Seq(Stored)
  /\ call \in [Clients -> RedisCalls]
  /\ ListFits
  /\ \A c \in Clients : DrawnIndex(c)

(* The inductive invariant.                                                *)
StoresInv ==
  /\ backend \in {"memory", "redis"}
  /\ RingInBounds
  /\ backend = "memory" => InMemory
  /\ backend = "redis" => InRedis

-----------------------------------------------------------------------------
(* The ring and the list as sequences                                      *)

(* An index goes round the ring once at most.                              *)
LEMMA Wrap ==
  ASSUME NEW n \in Nat, n > 0, NEW a \in 0 .. n - 1
  PROVE  a % n = a /\ (a + n) % n = a
OBVIOUS

(* A ring of n values read from position x on.                             *)
Rotated(s, x, n) == [i \in 1 .. n |-> s[((x + i - 1) % n) + 1]]

LEMMA RotatedSeq ==
  ASSUME NEW S, NEW s \in Seq(S), NEW x \in 0 .. Len(s) - 1
  PROVE  /\ Rotated(s, x, Len(s)) \in Seq(S)
         /\ Len(Rotated(s, x, Len(s))) = Len(s)
         /\ \A i \in 1 .. Len(s) :
              Rotated(s, x, Len(s))[i] = s[IF x + i <= Len(s) THEN x + i ELSE x + i - Len(s)]
<1> DEFINE n == Len(s)
           r == Rotated(s, x, n)
<1>1. n \in Nat /\ n > 0 /\ \A i \in 1 .. n : s[i] \in S
  BY LenProperties, ElementOfSeq
<1>2. ASSUME NEW i \in 1 .. n
      PROVE  ((x + i - 1) % n) + 1 = IF x + i <= n THEN x + i ELSE x + i - n
  <2>1. CASE x + i <= n
    <3>1. x + i - 1 \in 0 .. n - 1
      BY <1>1, <2>1
    <3> QED BY <1>1, <2>1, <3>1, Wrap
  <2>2. CASE x + i > n
    <3>1. x + i - 1 - n \in 0 .. n - 1 /\ x + i - 1 = (x + i - 1 - n) + n
      BY <1>1, <2>2
    <3>2. (x + i - 1) % n = x + i - 1 - n
      BY <1>1, <3>1, Wrap
    <3> QED BY <1>1, <2>2, <3>2
  <2> QED BY <1>1, <2>1, <2>2
<1>3. \A i \in 1 .. n : r[i] = s[IF x + i <= n THEN x + i ELSE x + i - n]
  BY <1>2 DEF Rotated
<1>4. \A i \in 1 .. n : (IF x + i <= n THEN x + i ELSE x + i - n) \in 1 .. n
  BY <1>1
<1>5. r \in [1 .. n -> S]
  <2>1. \A i \in 1 .. n : r[i] \in S
    BY <1>1, <1>3, <1>4
  <2>2. r = [i \in 1 .. n |-> r[i]]
    BY DEF Rotated
  <2> QED BY <2>1, <2>2
<1>6. r \in Seq(S) /\ Len(r) = n
  BY <1>1, <1>5, SeqDef
<1> QED BY <1>3, <1>6

(* A ring that is not yet full is read in the order of its slots.          *)
LEMMA RotatedFromZero ==
  ASSUME NEW S, NEW s \in Seq(S)
  PROVE  Rotated(s, 0, Len(s)) = s
<1>1. CASE Len(s) = 0
  BY <1>1, EmptySeq DEF Rotated
<1>2. CASE Len(s) > 0
  <2>1. Len(s) \in Nat /\ 0 \in 0 .. Len(s) - 1
    BY <1>2, LenProperties
  <2>2. /\ Rotated(s, 0, Len(s)) \in Seq(S)
        /\ Len(Rotated(s, 0, Len(s))) = Len(s)
    BY <2>1, RotatedSeq
  <2>3. \A i \in 1 .. Len(s) : Rotated(s, 0, Len(s))[i] = s[i]
    BY <2>1, RotatedSeq
  <2> QED BY <2>2, <2>3, SeqEqual
<1>3. Len(s) = 0 \/ Len(s) > 0
  BY LenProperties
<1> QED BY <1>1, <1>2, <1>3

(* What appending a value gives.                                           *)
LEMMA Appended ==
  ASSUME NEW S, NEW s \in Seq(S), NEW v \in S
  PROVE  /\ Append(s, v) \in Seq(S) /\ Len(Append(s, v)) = Len(s) + 1
         /\ \A i \in 1 .. Len(s) : Append(s, v)[i] = s[i]
         /\ Append(s, v)[Len(s) + 1] = v
OBVIOUS

(* A queue without its oldest value and with a new one at its end.         *)
Shifted(q, v) == SubSeq(Append(q, v), 2, Len(q) + 1)

(* Overwriting the oldest slot of a full ring and moving on by one drops   *)
(* the oldest value and adds the new one at the end.                       *)
LEMMA RotatedReplace ==
  ASSUME NEW S, NEW s \in Seq(S), NEW x \in 0 .. Len(s) - 1, NEW v \in S,
         NEW t \in Seq(S), Len(t) = Len(s),
         \A j \in 1 .. Len(s) : t[j] = IF j = x + 1 THEN v ELSE s[j],
         NEW y, y = (x + 1) % Len(s)
  PROVE  /\ y \in 0 .. Len(s) - 1
         /\ Rotated(t, y, Len(s)) = Shifted(Rotated(s, x, Len(s)), v)
<1> DEFINE n == Len(s)
           old == Rotated(s, x, n)
           new == Rotated(t, y, n)
           queue == Append(old, v)
<1>1. n \in Nat /\ n > 0 /\ x + 1 \in 1 .. n
  BY LenProperties
<1>2. /\ Len(t) = n
      /\ \A j \in 1 .. n : t[j] = IF j = x + 1 THEN v ELSE s[j]
  OBVIOUS
<1>3. y = IF x + 1 < n THEN x + 1 ELSE 0
  <2>1. CASE x + 1 < n
    BY <1>1, <2>1, Wrap
  <2>2. CASE x + 1 = n
    <3>1. 0 \in 0 .. n - 1 /\ x + 1 = 0 + n
      BY <1>1, <2>2
    <3> QED BY <1>1, <2>2, <3>1, Wrap
  <2> QED BY <1>1, <2>1, <2>2
<1>4. y \in 0 .. n - 1
  BY <1>1, <1>3
<1>5. /\ old \in Seq(S) /\ Len(old) = n
      /\ \A i \in 1 .. n : old[i] = s[IF x + i <= n THEN x + i ELSE x + i - n]
  BY <1>1, RotatedSeq
<1> HIDE DEF n, old
<1>6. /\ new \in Seq(S) /\ Len(new) = n
      /\ \A i \in 1 .. n : new[i] = t[IF y + i <= n THEN y + i ELSE y + i - n]
  <2>1. y \in 0 .. Len(t) - 1
    BY <1>2, <1>4
  <2>2. /\ Rotated(t, y, Len(t)) \in Seq(S) /\ Len(Rotated(t, y, Len(t))) = Len(t)
        /\ \A i \in 1 .. Len(t) : Rotated(t, y, Len(t))[i] =
             t[IF y + i <= Len(t) THEN y + i ELSE y + i - Len(t)]
    BY <1>2, <2>1, RotatedSeq
  <2> QED BY <1>2, <2>2
<1> HIDE DEF new
<1>7. /\ queue \in Seq(S) /\ Len(queue) = n + 1
      /\ \A i \in 1 .. n : queue[i] = old[i]
      /\ queue[n + 1] = v
  BY <1>5, Appended
<1> HIDE DEF queue
<1>8. \A i \in 2 .. n + 1 : queue[i] \in S
  BY <1>1, <1>7, ElementOfSeq
<1> DEFINE rest == SubSeq(queue, 2, n + 1)
<1>9. /\ rest \in Seq(S) /\ Len(rest) = n
      /\ \A i \in 1 .. n : rest[i] = queue[i + 1]
  BY <1>1, <1>8, SubSeqProperties
<1> HIDE DEF rest
<1>10. ASSUME NEW i \in 1 .. n PROVE new[i] = rest[i]
  <2>1. CASE i = n
    <3>1. rest[i] = v
      BY <1>1, <1>7, <1>9, <2>1
    <3>2. (IF y + i <= n THEN y + i ELSE y + i - n) = x + 1
      BY <1>1, <1>3, <2>1
    <3> QED BY <1>1, <1>2, <1>6, <3>1, <3>2
  <2>2. CASE i < n
    <3>1. i + 1 \in 1 .. n
      BY <1>1, <2>2
    <3>2. rest[i] = old[i + 1]
      BY <1>7, <1>9, <3>1
    <3>3. rest[i] = s[IF x + i + 1 <= n THEN x + i + 1 ELSE x + i + 1 - n]
      <4>1. x + (i + 1) = x + i + 1
        BY <1>1
      <4> QED BY <1>5, <3>1, <3>2, <4>1
    <3> DEFINE j == IF y + i <= n THEN y + i ELSE y + i - n
    <3>4. j = (IF x + i + 1 <= n THEN x + i + 1 ELSE x + i + 1 - n) /\ j \in 1 .. n /\ j # x + 1
      BY <1>1, <1>3, <2>2
    <3>5. new[i] = t[j]
      BY <1>6
    <3> QED BY <1>2, <3>3, <3>4, <3>5
  <2> QED BY <1>1, <2>1, <2>2
<1>11. new = rest
  BY <1>6, <1>9, <1>10, SeqEqual
<1> QED BY <1>4, <1>5, <1>11 DEF n, old, new, queue, rest, Shifted

(* LTRIM key -k -1 keeps the newest k values of the list.                  *)
LEMMA TrimKeepsNewest ==
  ASSUME NEW S, NEW l \in Seq(S), NEW k \in Nat
  PROVE  /\ Redis!Trim(l, k) \in Seq(S)
         /\ Len(Redis!Trim(l, k)) = IF k < Len(l) THEN k ELSE Len(l)
         /\ Redis!Trim(l, k) = RedisPool!Newest(l, k)
<1> DEFINE t == Redis!Trim(l, k)
<1>1. Len(l) \in Nat /\ \A i \in 1 .. Len(l) : l[i] \in S
  BY LenProperties, ElementOfSeq
<1>2. CASE Len(l) <= k
  <2>1. t = [i \in 1 .. Len(l) |-> l[i]]
    BY <1>1, <1>2 DEF Redis!Trim
  <2>2. t = l
    BY <2>1, LenProperties
  <2> QED BY <1>1, <1>2, <2>2 DEF RedisPool!Newest
<1>3. CASE k < Len(l)
  <2> DEFINE d == Len(l) - k
  <2>1. d \in Nat /\ Len(l) - d = k
    BY <1>1, <1>3
  <2>2. t = [i \in 1 .. k |-> l[i + d]]
    BY <1>1, <1>3 DEF Redis!Trim
  <2>3. t \in [1 .. k -> S]
    BY <1>1, <1>3, <2>1, <2>2
  <2>4. t \in Seq(S) /\ Len(t) = k
    BY <2>3, SeqDef
  <2> DEFINE u == SubSeq(l, d + 1, Len(l))
  <2>5. u \in Seq(S) /\ Len(u) = k /\ \A i \in 1 .. k : u[i] = l[i + d]
    <3>1. \A i \in d + 1 .. Len(l) : l[i] \in S
      BY <1>1, <2>1
    <3>2. /\ u \in Seq(S)
          /\ Len(u) = IF d + 1 <= Len(l) THEN Len(l) - (d + 1) + 1 ELSE 0
          /\ \A i \in 1 .. Len(l) - (d + 1) + 1 : u[i] = l[d + 1 + i - 1]
      BY <1>1, <2>1, <3>1, SubSeqProperties
    <3>3. Len(l) - (d + 1) + 1 = k /\ \A i \in 1 .. k : d + 1 + i - 1 = i + d
      BY <1>1, <2>1
    <3> HIDE DEF u, d
    <3> QED BY <1>1, <1>3, <2>1, <3>2, <3>3
  <2>6. t = u
    <3>1. \A i \in 1 .. k : t[i] = u[i]
      BY <2>2, <2>5
    <3> HIDE DEF t, u
    <3> QED BY <2>4, <2>5, <3>1, SeqEqual
  <2> QED BY <1>1, <1>3, <2>4, <2>6 DEF RedisPool!Newest
<1> QED BY <1>1, <1>2, <1>3

-----------------------------------------------------------------------------
(* The invariant is inductive                                              *)

LEMMA StoresInit == Init => StoresInv
<1> SUFFICES ASSUME Init PROVE StoresInv
  OBVIOUS
<1> USE StoresAssumption
<1>1. values = <<>> /\ next = 0 /\ list = <<>>
      /\ call = [c \in Clients |-> [op |-> "idle", result |-> "none", value |-> Empty]]
  BY DEF Init, Memory!Init, Redis!Init, Memory!Returned
<1>2. RingInBounds
  BY <1>1, EmptySeq DEF RingInBounds, Memory!TypeOK
<1>3. [op |-> "idle", result |-> "none", value |-> Empty] \in Idling
  BY DEF Idling
<1>4. InMemory
  BY <1>1, <1>3 DEF InMemory, MemoryCalls
<1>5. InRedis
  BY <1>1, <1>3, EmptySeq DEF InRedis, RedisCalls, ListFits, DrawnIndex
<1> QED BY <1>2, <1>4, <1>5 DEF Init, StoresInv

(* One call of a client changes; the others stay as they are.              *)
LEMMA Answered ==
  ASSUME NEW S, call \in [Clients -> S], NEW c \in Clients, NEW a \in S,
         call' = [call EXCEPT ![c] = a]
  PROVE  /\ call' \in [Clients -> S] /\ call'[c] = a
         /\ \A d \in Clients \ {c} : call'[d] = call[d]
OBVIOUS

LEMMA MemoryStep ==
  ASSUME StoresInv, backend = "memory", NEW c \in Clients,
         Memory!Begin(c) \/ Memory!Put(c) \/ Memory!Random(c) \/ Memory!Refuse(c)
  PROVE  RingInBounds' /\ call' \in [Clients -> MemoryCalls]
<1> USE StoresAssumption
<1>1. call \in [Clients -> MemoryCalls] /\ RingInBounds
  BY DEF StoresInv, InMemory
<1>2. /\ \A v \in Values : Memory!Putting(v) \in MemoryCalls
      /\ Memory!Drawing \in MemoryCalls
      /\ \A r \in {"ok", "missing", "failed"}, v \in Values : Memory!Returned(r, v) \in MemoryCalls
  BY DEF MemoryCalls, Idling, Memory!Putting, Memory!Drawing, Memory!Returned
<1>3. values \in Seq(Stored) /\ Len(values) <= limit /\ Len(values) \in Nat
      /\ next \in 0 .. limit - 1 /\ (Len(values) < limit => next = 0)
  BY <1>1, LenProperties DEF RingInBounds, Memory!TypeOK, Stored
<1>4. CASE Memory!Begin(c)
  <2>1. call' \in [Clients -> MemoryCalls]
    BY <1>1, <1>2, <1>4 DEF Memory!Begin, Memory!Answer
  <2> QED BY <1>1, <1>4, <2>1 DEF Memory!Begin, RingInBounds, Memory!TypeOK
<1>5. CASE Memory!Put(c)
  <2> DEFINE v == call[c].value
  <2>1. v \in Stored /\ call' = [call EXCEPT ![c] = Memory!Returned("ok", v)]
    BY <1>1, <1>5 DEF Memory!Put, Memory!Answer, MemoryCalls, Idling, Stored
  <2> HIDE DEF v
  <2>2. call' \in [Clients -> MemoryCalls]
    BY <1>1, <1>2, <2>1 DEF Stored
  <2>3. CASE Len(values) < limit /\ values' = Append(values, v) /\ next' = next
    <3>1. values' \in Seq(Stored) /\ Len(values') = Len(values) + 1
      BY <1>3, <2>1, <2>3, Appended
    <3> QED BY <1>3, <2>2, <2>3, <3>1 DEF RingInBounds, Memory!TypeOK, Stored
  <2>4. CASE /\ Len(values) >= limit /\ values' = [values EXCEPT ![next + 1] = v]
             /\ next' = (next + 1) % limit
    <3>1. Len(values) = limit /\ next \in 0 .. Len(values) - 1
      BY <1>3, <2>4
    <3>2. values' \in Seq(Stored) /\ Len(values') = limit
      BY <1>3, <2>1, <2>4, <3>1, ExceptSeq
    <3>3. next' \in 0 .. limit - 1
      BY <2>4, <3>1
    <3> QED BY <2>2, <3>2, <3>3 DEF RingInBounds, Memory!TypeOK, Stored
  <2> QED BY <1>5, <2>3, <2>4 DEF Memory!Put, Memory!Insert, v
<1>6. CASE Memory!Random(c)
  <2>1. \A i \in DOMAIN values : values[i] \in Values
    BY <1>3, LenProperties DEF Stored
  <2>2. call' \in [Clients -> MemoryCalls]
    BY <1>1, <1>2, <1>6, <2>1 DEF Memory!Random, Memory!Answer
  <2> QED BY <1>1, <1>6, <2>2 DEF Memory!Random, RingInBounds, Memory!TypeOK
<1>7. CASE Memory!Refuse(c)
  <2>1. call' \in [Clients -> MemoryCalls]
    BY <1>1, <1>2, <1>7 DEF Memory!Refuse, Memory!Answer
  <2> QED BY <1>1, <1>7, <2>1 DEF Memory!Refuse, RingInBounds, Memory!TypeOK
<1> QED BY <1>4, <1>5, <1>6, <1>7

(* What is known of a client's call to Redis.                              *)
LEMMA RedisCallFacts ==
  ASSUME InRedis, NEW c \in Clients
  PROVE  /\ call[c] \in RedisCalls
         /\ call[c].op = "put" =>
              /\ call[c].value \in Values /\ call[c].tries \in 0 .. MaxRetries
              /\ call[c] = Redis!Putting(call[c].value, call[c].tries)
         /\ call[c].op = "llen" =>
              /\ call[c].tries \in 0 .. MaxRetries
              /\ call[c] = Redis!Measuring(call[c].tries)
         /\ call[c].op = "lindex" =>
              /\ call[c].index \in Nat /\ call[c].tries \in 0 .. MaxRetries
              /\ call[c] = Redis!Reading(call[c].index, call[c].tries)
BY DEF InRedis, RedisCalls, Idling, Redis!Putting, Redis!Measuring, Redis!Reading

(* Sending a command again changes nothing but the count of attempts.      *)
LEMMA ResentFacts ==
  ASSUME InRedis, NEW c \in Clients, call[c].op \in {"put", "llen", "lindex"},
         call[c].tries < MaxRetries
  PROVE  LET a == [call[c] EXCEPT !.tries = @ + 1]
         IN  /\ a \in RedisCalls /\ a.op = call[c].op
             /\ a.op = "put" => a = Redis!Putting(call[c].value, call[c].tries + 1)
             /\ a.op = "lindex" => a.index = call[c].index
<1> USE StoresAssumption
<1> DEFINE a == [call[c] EXCEPT !.tries = @ + 1]
<1>1. CASE call[c].op = "put"
  <2>1. a = [op |-> "put", value |-> call[c].value, tries |-> call[c].tries + 1]
    <3>1. ASSUME NEW v, NEW n, NEW r, r = [op |-> "put", value |-> v, tries |-> n]
          PROVE  [r EXCEPT !.tries = @ + 1] = [op |-> "put", value |-> v, tries |-> n + 1]
      BY <3>1
    <3>2. call[c] = [op |-> "put", value |-> call[c].value, tries |-> call[c].tries]
      BY <1>1, RedisCallFacts DEF Redis!Putting
    <3> QED BY <3>1, <3>2, Zenon
  <2>2. call[c].value \in Values /\ call[c].tries + 1 \in 0 .. MaxRetries
    BY <1>1, RedisCallFacts
  <2> QED BY <1>1, <2>1, <2>2 DEF RedisCalls, Redis!Putting
<1>2. CASE call[c].op = "llen"
  <2>1. a = [op |-> "llen", tries |-> call[c].tries + 1]
    <3>1. ASSUME NEW n, NEW r, r = [op |-> "llen", tries |-> n]
          PROVE  [r EXCEPT !.tries = @ + 1] = [op |-> "llen", tries |-> n + 1]
      BY <3>1
    <3>2. call[c] = [op |-> "llen", tries |-> call[c].tries]
      BY <1>2, RedisCallFacts DEF Redis!Measuring
    <3> QED BY <3>1, <3>2, Zenon
  <2>2. call[c].tries + 1 \in 0 .. MaxRetries
    BY <1>2, RedisCallFacts
  <2> QED BY <1>2, <2>1, <2>2 DEF RedisCalls
<1>3. CASE call[c].op = "lindex"
  <2>1. a = [op |-> "lindex", index |-> call[c].index, tries |-> call[c].tries + 1]
    <3>1. ASSUME NEW i, NEW n, NEW r, r = [op |-> "lindex", index |-> i, tries |-> n]
          PROVE  [r EXCEPT !.tries = @ + 1] = [op |-> "lindex", index |-> i, tries |-> n + 1]
      BY <3>1
    <3>2. call[c] = [op |-> "lindex", index |-> call[c].index, tries |-> call[c].tries]
      BY <1>3, RedisCallFacts DEF Redis!Reading
    <3> QED BY <3>1, <3>2, Zenon
  <2>2. call[c].index \in Nat /\ call[c].tries + 1 \in 0 .. MaxRetries
    BY <1>3, RedisCallFacts
  <2> QED BY <1>3, <2>1, <2>2 DEF RedisCalls
<1> QED BY <1>1, <1>2, <1>3

(* The list after a Put, and what it does to the indexes drawn.            *)
LEMMA PutListFacts ==
  ASSUME InRedis, NEW c \in Clients, Redis!Put(c)
  PROVE  /\ call[c].value \in Stored /\ list' \in Seq(Stored)
         /\ list' = RedisPool!Newest(Append(list, call[c].value), limits[c])
         /\ Len(list') = IF limits[c] < Len(list) + 1 THEN limits[c] ELSE Len(list) + 1
<1> USE StoresAssumption
<1>1. call[c].value \in Stored
  BY RedisCallFacts DEF Redis!Put, Stored
<1>2. list \in Seq(Stored) /\ limits[c] \in Nat
  BY DEF InRedis
<1>3. /\ Append(list, call[c].value) \in Seq(Stored)
      /\ Len(Append(list, call[c].value)) = Len(list) + 1
  BY <1>1, <1>2, Appended
<1>4. list' = Redis!Trim(Append(list, call[c].value), limits[c])
  BY DEF Redis!Put
<1> QED BY <1>1, <1>2, <1>3, <1>4, TrimKeepsNewest

(* A step that leaves the list alone only has to answer for its own call.  *)
LEMMA ListUnchanged ==
  ASSUME InRedis, NEW c \in Clients, NEW a \in RedisCalls,
         call' = [call EXCEPT ![c] = a], UNCHANGED <<list, values, next>>,
         a.op = "lindex" => /\ \E d \in Clients : a.index < limits[d]
                            /\ \/ a.index < Len(list)
                               \/ \E e \in Clients : limits[e] <= Len(list)
  PROVE  InRedis'
<1>1. /\ call' \in [Clients -> RedisCalls] /\ call'[c] = a
      /\ \A d \in Clients \ {c} : call'[d] = call[d]
  BY DEF InRedis
<1>2. ASSUME NEW d \in Clients PROVE DrawnIndex(d)'
  <2>1. CASE d = c
    BY <1>1, <2>1 DEF DrawnIndex
  <2>2. CASE d # c
    BY <1>1, <2>2 DEF DrawnIndex, InRedis
  <2> QED BY <2>1, <2>2
<1> QED BY <1>1, <1>2 DEF InRedis, ListFits

LEMMA RedisPutStep ==
  ASSUME InRedis, NEW c \in Clients, Redis!Put(c), UNCHANGED <<values, next>>
  PROVE  InRedis'
<1> USE StoresAssumption
<1>1. /\ call[c].op = "put" /\ call[c].value \in Values /\ call[c].tries \in 0 .. MaxRetries
  BY RedisCallFacts DEF Redis!Put
<1>2. PICK a \in RedisCalls : a.op # "lindex" /\ call' = [call EXCEPT ![c] = a]
  <2>1. CASE Redis!Answer(c, Redis!Returned("ok", call[c].value))
             \/ Redis!Answer(c, Redis!Returned("failed", call[c].value))
    <3>1. \A r \in {"ok", "failed"} : Redis!Returned(r, call[c].value) \in RedisCalls
                                     /\ Redis!Returned(r, call[c].value).op = "idle"
      BY <1>1 DEF RedisCalls, Idling, Redis!Returned
    <3> QED BY <2>1, <3>1 DEF Redis!Answer
  <2>2. CASE call[c].tries < MaxRetries /\ Redis!Answer(c, [call[c] EXCEPT !.tries = @ + 1])
    BY <1>1, <2>2, ResentFacts DEF Redis!Answer
  <2> QED BY <2>1, <2>2 DEF Redis!Put
<1>3. /\ call' \in [Clients -> RedisCalls] /\ call'[c] = a
      /\ \A d \in Clients \ {c} : call'[d] = call[d]
  BY <1>2 DEF InRedis
<1>4. /\ list' \in Seq(Stored) /\ Len(list) \in Nat /\ limits[c] \in Nat
      /\ Len(list') = IF limits[c] < Len(list) + 1 THEN limits[c] ELSE Len(list) + 1
  BY PutListFacts, LenProperties DEF InRedis
<1>5. ListFits'
  BY <1>4 DEF ListFits
<1>6. ASSUME NEW d \in Clients PROVE DrawnIndex(d)'
  <2> SUFFICES ASSUME call'[d].op = "lindex"
               PROVE  /\ \E e \in Clients : call'[d].index < limits[e]
                      /\ \/ call'[d].index < Len(list')
                         \/ \E e \in Clients : limits[e] <= Len(list')
    BY DEF DrawnIndex
  <2>1. d # c /\ call'[d] = call[d]
    BY <1>2, <1>3
  <2>2. /\ \E e \in Clients : call[d].index < limits[e]
        /\ call[d].index < Len(list) \/ \E e \in Clients : limits[e] <= Len(list)
    BY <2>1 DEF InRedis, DrawnIndex
  <2>3. call[d].index \in Nat
    BY <2>1, RedisCallFacts
  <2>4. CASE limits[c] < Len(list) + 1
    BY <1>4, <2>1, <2>2, <2>4
  <2>5. CASE ~(limits[c] < Len(list) + 1)
    BY <1>4, <2>1, <2>2, <2>3, <2>5
  <2> QED BY <2>4, <2>5
<1> QED BY <1>3, <1>4, <1>5, <1>6 DEF InRedis

LEMMA RedisStep ==
  ASSUME InRedis, NEW c \in Clients, UNCHANGED <<values, next>>,
         \/ Redis!Begin(c) \/ Redis!Put(c) \/ Redis!Measure(c)
         \/ Redis!Read(c) \/ Redis!Resend(c) \/ Redis!Fail(c)
  PROVE  InRedis'
<1> USE StoresAssumption
<1>1. list \in Seq(Stored) /\ Len(list) \in Nat
      /\ \A i \in 1 .. Len(list) : list[i] \in Values
  BY LenProperties, ElementOfSeq DEF InRedis, Stored
<1>2. /\ \A r \in {"ok", "missing", "failed"}, v \in Values :
           Redis!Returned(r, v) \in RedisCalls /\ Redis!Returned(r, v).op = "idle"
      /\ \A v \in Values : Redis!Putting(v, 0) \in RedisCalls /\ Redis!Putting(v, 0).op = "put"
      /\ Redis!Measuring(0) \in RedisCalls /\ Redis!Measuring(0).op = "llen"
      /\ \A i \in Nat : /\ Redis!Reading(i, 0) \in RedisCalls
                        /\ Redis!Reading(i, 0).op = "lindex" /\ Redis!Reading(i, 0).index = i
  BY DEF RedisCalls, Idling, Redis!Returned, Redis!Putting, Redis!Measuring, Redis!Reading
<1>3. CASE Redis!Begin(c)
  <2>1. PICK a \in RedisCalls : a.op # "lindex" /\ call' = [call EXCEPT ![c] = a]
    BY <1>2, <1>3 DEF Redis!Begin, Redis!Answer
  <2> QED BY <1>3, <2>1, ListUnchanged DEF Redis!Begin
<1>4. CASE Redis!Put(c)
  BY <1>4, RedisPutStep
<1>5. CASE Redis!Measure(c)
  <2>1. CASE list = <<>> /\ Redis!Answer(c, Redis!Returned("missing", Empty))
    BY <1>2, <1>5, <2>1, ListUnchanged DEF Redis!Measure, Redis!Answer
  <2>2. ASSUME NEW i \in 0 .. Len(list) - 1, Redis!Answer(c, Redis!Reading(i, 0))
        PROVE  InRedis'
    <3>1. i \in Nat /\ i < Len(list) /\ list # <<>>
      BY <1>1, EmptySeq
    <3>2. \E d \in Clients : i < limits[d]
      BY <1>1, <3>1 DEF InRedis, ListFits
    <3> QED BY <1>2, <1>5, <2>2, <3>1, <3>2, ListUnchanged DEF Redis!Measure, Redis!Answer
  <2> QED BY <1>5, <2>1, <2>2 DEF Redis!Measure
<1>6. CASE Redis!Read(c)
  <2>1. call[c].index \in Nat
    BY <1>6, RedisCallFacts DEF Redis!Read
  <2>2. call[c].index < Len(list) => list[call[c].index + 1] \in Values
    BY <1>1, <2>1
  <2>3. PICK a \in RedisCalls : a.op # "lindex" /\ call' = [call EXCEPT ![c] = a]
    BY <1>2, <1>6, <2>2 DEF Redis!Read, Redis!Answer
  <2> QED BY <1>6, <2>3, ListUnchanged DEF Redis!Read
<1>7. CASE Redis!Resend(c)
  <2> DEFINE a == [call[c] EXCEPT !.tries = @ + 1]
  <2>1. a \in RedisCalls /\ a.op = call[c].op /\ (a.op = "lindex" => a.index = call[c].index)
    BY <1>7, ResentFacts DEF Redis!Resend
  <2>2. call' = [call EXCEPT ![c] = a]
    BY <1>7 DEF Redis!Resend, Redis!Answer
  <2> HIDE DEF a
  <2>3. DrawnIndex(c)
    BY DEF InRedis
  <2> QED BY <1>7, <2>1, <2>2, <2>3, ListUnchanged DEF Redis!Resend, DrawnIndex
<1>8. CASE Redis!Fail(c)
  BY <1>2, <1>8, ListUnchanged DEF Redis!Fail, Redis!Answer
<1> QED BY <1>3, <1>4, <1>5, <1>6, <1>7, <1>8

LEMMA StoresStep == StoresInv /\ [Next]_vars => StoresInv'
<1> SUFFICES ASSUME StoresInv, [Next]_vars PROVE StoresInv'
  OBVIOUS
<1>1. CASE backend = "memory" /\ Memory!Next /\ UNCHANGED <<backend, list>>
  <2>1. PICK c \in Clients :
          Memory!Begin(c) \/ Memory!Put(c) \/ Memory!Random(c) \/ Memory!Refuse(c)
    BY <1>1 DEF Memory!Next
  <2>2. RingInBounds' /\ call' \in [Clients -> MemoryCalls]
    BY <1>1, <2>1, MemoryStep
  <2> QED BY <1>1, <2>2 DEF StoresInv, InMemory
<1>2. CASE backend = "redis" /\ Redis!Next /\ UNCHANGED <<backend, values, next>>
  <2>1. PICK c \in Clients : \/ Redis!Begin(c) \/ Redis!Put(c) \/ Redis!Measure(c)
                             \/ Redis!Read(c) \/ Redis!Resend(c) \/ Redis!Fail(c)
    BY <1>2 DEF Redis!Next
  <2>2. InRedis'
    BY <1>2, <2>1, RedisStep DEF StoresInv
  <2>3. RingInBounds'
    BY <1>2 DEF StoresInv, RingInBounds, Memory!TypeOK
  <2> QED BY <1>2, <2>2, <2>3 DEF StoresInv
<1>3. CASE UNCHANGED vars
  BY <1>3 DEF vars, StoresInv, RingInBounds, Memory!TypeOK, InMemory, InRedis, ListFits, DrawnIndex
<1> QED BY <1>1, <1>2, <1>3 DEF Next

LEMMA StoresInductive == Spec => []StoresInv
BY StoresInit, StoresStep, PTL DEF Spec

(* The slot store.go overwrites next always exists, the ring never outgrows *)
(* its capacity, and no empty value is ever kept.                          *)
THEOREM RingStaysInBounds == Spec => []RingInBounds
<1>1. StoresInv => RingInBounds
  BY DEF StoresInv
<1> QED BY <1>1, StoresInductive, PTL

-----------------------------------------------------------------------------
(* The ring implements the pool                                            *)

LEMMA FromOldestFacts ==
  ASSUME RingInBounds
  PROVE  /\ values \in Seq(Stored) /\ Len(values) \in Nat
         /\ Memory!FromOldest = Rotated(values, next, Len(values))
         /\ Memory!FromOldest \in Seq(Stored)
         /\ Len(Memory!FromOldest) = Len(values)
         /\ values = <<>> => Memory!FromOldest = <<>>
         /\ \A i \in DOMAIN values :
              \E j \in DOMAIN Memory!FromOldest : Memory!FromOldest[j] = values[i]
<1> USE StoresAssumption
<1> DEFINE old == Memory!FromOldest
<1>1. /\ values \in Seq(Stored) /\ Len(values) \in Nat /\ DOMAIN values = 1 .. Len(values)
      /\ Len(values) <= limit /\ next \in 0 .. limit - 1 /\ (Len(values) < limit => next = 0)
  BY LenProperties DEF RingInBounds, Memory!TypeOK, Stored
<1>2. old = Rotated(values, next, Len(values))
  BY DEF Memory!FromOldest, Rotated
<1>3. CASE next \in 0 .. Len(values) - 1
  <2>1. /\ old \in Seq(Stored) /\ Len(old) = Len(values)
        /\ \A i \in 1 .. Len(values) : old[i] = values[IF next + i <= Len(values)
                                                      THEN next + i ELSE next + i - Len(values)]
    BY <1>1, <1>2, <1>3, RotatedSeq
  <2>2. DOMAIN old = 1 .. Len(values)
    BY <2>1, LenProperties
  <2> HIDE DEF old
  <2>3. ASSUME NEW i \in DOMAIN values PROVE \E j \in DOMAIN old : old[j] = values[i]
    <3> DEFINE j == IF next < i THEN i - next ELSE i - next + Len(values)
    <3>1. j \in 1 .. Len(values)
          /\ (IF next + j <= Len(values) THEN next + j ELSE next + j - Len(values)) = i
      BY <1>1, <1>3
    <3> HIDE DEF j
    <3>2. old[j] = values[i]
      BY <2>1, <3>1
    <3> QED BY <2>2, <3>1, <3>2
  <2>4. values # <<>>
    BY <1>1, <1>3, EmptySeq
  <2> QED BY <1>1, <1>2, <2>1, <2>3, <2>4 DEF old
<1>4. CASE next \notin 0 .. Len(values) - 1
  <2>1. next = 0 /\ Len(values) = 0
    BY <1>1, <1>4
  <2>2. old = values
    BY <1>1, <1>2, <2>1, RotatedFromZero
  <2> QED BY <1>1, <1>2, <2>2
<1> QED BY <1>3, <1>4

(* The write under the lock is the Put of a bounded queue.                 *)
LEMMA InsertKeepsNewest ==
  ASSUME RingInBounds, NEW v \in Stored, Memory!Insert(v)
  PROVE  Memory!FromOldest' = MemoryPool!Newest(Append(Memory!FromOldest, v), limit)
<1> USE StoresAssumption
<1> DEFINE old == Memory!FromOldest
           new == Rotated(values', next', Len(values'))
<1>1. /\ values \in Seq(Stored) /\ Len(values) \in Nat
      /\ Len(values) <= limit /\ next \in 0 .. limit - 1 /\ (Len(values) < limit => next = 0)
  BY LenProperties DEF RingInBounds, Memory!TypeOK, Stored
<1>2. Memory!FromOldest' = new
  BY DEF Memory!FromOldest, Rotated
<1>3. old = Rotated(values, next, Len(values)) /\ old \in Seq(Stored) /\ Len(old) = Len(values)
  BY FromOldestFacts
<1>4. Append(old, v) \in Seq(Stored) /\ Len(Append(old, v)) = Len(values) + 1
  BY <1>3, Appended
<1> HIDE DEF old
<1>5. CASE Len(values) < limit /\ values' = Append(values, v) /\ next' = next
  <2>1. old = values
    BY <1>1, <1>3, <1>5, RotatedFromZero
  <2>2. values' \in Seq(Stored) /\ next' = 0
    BY <1>1, <1>5, Appended
  <2>3. new = Append(old, v)
    BY <1>5, <2>1, <2>2, RotatedFromZero
  <2> QED BY <1>1, <1>2, <1>4, <1>5, <2>3 DEF MemoryPool!Newest, old
<1>6. CASE /\ Len(values) >= limit /\ values' = [values EXCEPT ![next + 1] = v]
           /\ next' = (next + 1) % limit
  <2>1. Len(values) = limit /\ next \in 0 .. Len(values) - 1
    BY <1>1, <1>6
  <2>2. Len(values') = limit /\ new = SubSeq(Append(old, v), 2, limit + 1)
    <3>1. values' = [values EXCEPT ![next + 1] = v] /\ next' = (next + 1) % Len(values)
      BY <1>6, <2>1
    <3>2. values \in Seq(Stored) /\ next \in 0 .. Len(values) - 1
      BY <1>1, <2>1
    <3>3. /\ values' \in Seq(Stored) /\ Len(values') = Len(values)
          /\ \A j \in 1 .. Len(values) : values'[j] = IF j = next + 1 THEN v ELSE values[j]
      BY <3>1, <3>2, ExceptSeq
    <3>4. next' = (next + 1) % Len(values)
      BY <3>1
    <3>5. Rotated(values', next', Len(values)) = Shifted(Rotated(values, next, Len(values)), v)
      <4>1. ASSUME NEW t \in Seq(Stored), Len(t) = Len(values),
                   \A j \in 1 .. Len(values) : t[j] = IF j = next + 1 THEN v ELSE values[j],
                   NEW y, y = (next + 1) % Len(values)
            PROVE  Rotated(t, y, Len(values)) = Shifted(Rotated(values, next, Len(values)), v)
        BY <3>2, <4>1, RotatedReplace
      <4> QED BY <3>3, <3>4, <4>1
    <3> QED BY <1>3, <2>1, <3>3, <3>5 DEF Shifted
  <2>3. (limit + 1) - limit + 1 = 2 /\ ~(limit + 1 <= limit)
    OBVIOUS
  <2> QED BY <1>2, <1>4, <2>1, <2>2, <2>3 DEF MemoryPool!Newest, old
<1> QED BY <1>5, <1>6 DEF Memory!Insert

(* What is known of a client's call of the process.                        *)
LEMMA MemoryCallFacts ==
  ASSUME InMemory, NEW c \in Clients, call[c].op = "put"
  PROVE  call[c].value \in Values /\ call[c].tries = 0
BY DEF InMemory, MemoryCalls, Idling

LEMMA MemoryRefines ==
  ASSUME StoresInv, backend = "memory", UNCHANGED backend, NEW c \in Clients,
         Memory!Begin(c) \/ Memory!Put(c) \/ Memory!Random(c) \/ Memory!Refuse(c)
  PROVE  MemoryPool!Next
<1> USE StoresAssumption
<1> DEFINE mapped == IF backend = "memory" THEN call ELSE Idle
<1>1. mapped = call /\ mapped' = call'
  OBVIOUS
<1>2. RingInBounds /\ InMemory
  BY DEF StoresInv
<1>3. CASE Memory!Begin(c)
  <2>1. UNCHANGED Memory!FromOldest
    BY <1>3 DEF Memory!Begin, Memory!FromOldest
  <2>2. ASSUME NEW v \in Values, Memory!Answer(c, Memory!Putting(v)) PROVE MemoryPool!BeginPut(c, v)
    BY <1>1, <1>3, <2>1, <2>2 DEF Memory!Begin, MemoryPool!BeginPut, Memory!Answer,
       MemoryPool!Answer, Memory!Putting, MemoryPool!Putting
  <2>3. ASSUME Memory!Answer(c, Memory!Drawing) PROVE MemoryPool!BeginRandom(c)
    BY <1>1, <1>3, <2>1, <2>3 DEF Memory!Begin, MemoryPool!BeginRandom, Memory!Answer,
       MemoryPool!Answer, Memory!Drawing, MemoryPool!Drawing
  <2> QED BY <1>3, <2>2, <2>3 DEF Memory!Begin, MemoryPool!Next
<1>4. CASE Memory!Put(c)
  <2>1. call[c].value \in Stored /\ call[c].tries = 0 /\ call[c].op = "put"
    BY <1>2, <1>4, MemoryCallFacts DEF Memory!Put, Stored
  <2>2. Memory!FromOldest' = MemoryPool!Newest(Append(Memory!FromOldest, call[c].value), limit)
    BY <1>2, <1>4, <2>1, InsertKeepsNewest DEF Memory!Put
  <2>3. MemoryPool!Store(c)
    BY <1>1, <1>4, <2>1, <2>2 DEF Memory!Put, MemoryPool!Store, Memory!Answer,
       MemoryPool!Answer, Memory!Returned, MemoryPool!Returned
  <2> QED BY <2>3 DEF MemoryPool!Next
<1>5. CASE Memory!Random(c)
  <2>1. UNCHANGED Memory!FromOldest
    BY <1>5 DEF Memory!Random, Memory!FromOldest
  <2>2. CASE values = <<>> /\ Memory!Answer(c, Memory!Returned("missing", Empty))
    <3>1. Memory!FromOldest = <<>>
      BY <1>2, <2>2, FromOldestFacts
    <3>2. MemoryPool!Miss(c)
      BY <1>1, <1>5, <2>1, <2>2, <3>1 DEF Memory!Random, MemoryPool!Miss, Memory!Answer,
         MemoryPool!Answer, Memory!Returned, MemoryPool!Returned
    <3> QED BY <3>2 DEF MemoryPool!Next
  <2>3. ASSUME NEW i \in DOMAIN values, Memory!Answer(c, Memory!Returned("ok", values[i]))
        PROVE  MemoryPool!Next
    <3>1. PICK j \in DOMAIN Memory!FromOldest : Memory!FromOldest[j] = values[i]
      BY <1>2, FromOldestFacts
    <3>2. MemoryPool!Draw(c)
      BY <1>1, <1>5, <2>1, <2>3, <3>1 DEF Memory!Random, MemoryPool!Draw, Memory!Answer,
         MemoryPool!Answer, Memory!Returned, MemoryPool!Returned
    <3> QED BY <3>2 DEF MemoryPool!Next
  <2> QED BY <1>5, <2>2, <2>3 DEF Memory!Random
<1>6. CASE Memory!Refuse(c)
  <2>1. UNCHANGED Memory!FromOldest
    BY <1>6 DEF Memory!Refuse, Memory!FromOldest
  <2>2. MemoryPool!Fail(c)
    BY <1>1, <1>6, <2>1 DEF Memory!Refuse, MemoryPool!Fail, Memory!Answer,
       MemoryPool!Answer, Memory!Returned, MemoryPool!Returned
  <2> QED BY <2>2 DEF MemoryPool!Next
<1> QED BY <1>3, <1>4, <1>5, <1>6

(* The ring behind its lock implements the bounded queue of ValuePool for  *)
(* every capacity, any number of calls and any values.                     *)
THEOREM MemoryIsPool == Spec => MemoryImplementsPool
<1>1. Init => MemoryPool!Init
  <2> SUFFICES ASSUME Init PROVE MemoryPool!Init
    OBVIOUS
  <2>1. RingInBounds /\ values = <<>>
    BY StoresInit DEF Init, Memory!Init, StoresInv
  <2>2. Memory!FromOldest = <<>>
    BY <2>1, FromOldestFacts
  <2>3. call = [c \in Clients |-> Memory!Returned("none", Empty)]
    BY DEF Init, Memory!Init
  <2> QED BY <2>2, <2>3 DEF MemoryPool!Init, Idle, Memory!Returned, MemoryPool!Returned
<1>2. StoresInv /\ [Next]_vars => [MemoryPool!Next]_(MemoryPool!vars)
  <2> SUFFICES ASSUME StoresInv, [Next]_vars PROVE [MemoryPool!Next]_(MemoryPool!vars)
    OBVIOUS
  <2>1. CASE backend = "memory" /\ Memory!Next /\ UNCHANGED <<backend, list>>
    BY <2>1, MemoryRefines DEF Memory!Next
  <2>2. CASE backend = "redis" /\ UNCHANGED <<backend, values, next>>
    BY <2>2 DEF MemoryPool!vars, Memory!FromOldest, Idle
  <2>3. CASE UNCHANGED vars
    BY <2>3 DEF vars, MemoryPool!vars, Memory!FromOldest, Idle
  <2> QED BY <2>1, <2>2, <2>3 DEF Next
<1> QED BY <1>1, <1>2, StoresInductive, PTL DEF Spec, MemoryImplementsPool, MemoryPool!Spec

-----------------------------------------------------------------------------
(* The Redis list implements the pool                                      *)

Mapped == IF backend = "redis" THEN [c \in Clients |-> Redis!Observed(c)] ELSE Idle

(* One call changes, and so does what the client sees of it.               *)
LEMMA ObservedAnswer ==
  ASSUME backend = "redis", UNCHANGED backend, call \in [Clients -> RedisCalls],
         NEW c \in Clients, NEW a, call' = [call EXCEPT ![c] = a]
  PROVE  /\ Mapped[c] = IF call[c].op \in {"llen", "lindex"} THEN [op |-> "random"] ELSE call[c]
         /\ Mapped' = [Mapped EXCEPT ![c] = IF a.op \in {"llen", "lindex"}
                                              THEN [op |-> "random"] ELSE a]
<1>1. /\ Mapped = [d \in Clients |-> Redis!Observed(d)]
      /\ Mapped' = [d \in Clients |-> Redis!Observed(d)']
  BY DEF Mapped
<1>2. \A d \in Clients : call'[d] = IF d = c THEN a ELSE call[d]
  OBVIOUS
<1>3. \A d \in Clients \ {c} : Redis!Observed(d)' = Redis!Observed(d)
  BY <1>2 DEF Redis!Observed
<1>4. Redis!Observed(c)' = IF a.op \in {"llen", "lindex"} THEN [op |-> "random"] ELSE a
  BY <1>2 DEF Redis!Observed
<1> DEFINE e == IF a.op \in {"llen", "lindex"} THEN [op |-> "random"] ELSE a
<1>5. Mapped' = [d \in Clients |-> IF d = c THEN e ELSE Redis!Observed(d)]
  BY <1>1, <1>3, <1>4
<1> HIDE DEF e
<1>6. Mapped' = [Mapped EXCEPT ![c] = e]
  BY <1>1, <1>5
<1> QED BY <1>1, <1>6 DEF e, Redis!Observed

LEMMA RedisRefines ==
  ASSUME InRedis, backend = "redis", UNCHANGED backend, NEW c \in Clients,
         \/ Redis!Begin(c) \/ Redis!Put(c) \/ Redis!Measure(c)
         \/ Redis!Read(c) \/ Redis!Resend(c) \/ Redis!Fail(c)
  PROVE  RedisPool!Next \/ UNCHANGED RedisPool!vars
<1> USE StoresAssumption
<1>1. call \in [Clients -> RedisCalls] /\ list \in Seq(Stored) /\ Len(list) \in Nat
      /\ DOMAIN list = 1 .. Len(list)
  BY LenProperties DEF InRedis
<1>2. RedisPool!vars = <<list, Mapped>>
  BY DEF RedisPool!vars, Mapped
<1>3. \A a : RedisPool!Answer(c, a) <=> Mapped' = [Mapped EXCEPT ![c] = a]
  BY DEF RedisPool!Answer, Mapped
<1>4. /\ \A r, v : RedisPool!Returned(r, v) = Redis!Returned(r, v)
                   /\ Redis!Returned(r, v).op = "idle"
      /\ \A v, n : RedisPool!Putting(v, n) = Redis!Putting(v, n)
                   /\ Redis!Putting(v, n).op = "put"
      /\ RedisPool!Drawing = [op |-> "random"]
      /\ \A n : Redis!Measuring(n).op = "llen"
      /\ \A i, n : Redis!Reading(i, n).op = "lindex"
  BY DEF RedisPool!Returned, Redis!Returned, RedisPool!Putting, Redis!Putting,
     RedisPool!Drawing, Redis!Measuring, Redis!Reading
<1>5. \A r, v : Redis!Answer(c, Redis!Returned(r, v)) => RedisPool!Answer(c, RedisPool!Returned(r, v))
  BY <1>1, <1>3, <1>4, ObservedAnswer DEF Redis!Answer
<1>6. \A v, n : Redis!Answer(c, Redis!Putting(v, n)) => RedisPool!Answer(c, RedisPool!Putting(v, n))
  BY <1>1, <1>3, <1>4, ObservedAnswer DEF Redis!Answer
<1>7. Mapped[c] = IF call[c].op \in {"llen", "lindex"} THEN [op |-> "random"] ELSE call[c]
  BY DEF Mapped, Redis!Observed
<1>8. CASE Redis!Begin(c)
  <2>1. ASSUME NEW v \in Values, Redis!Answer(c, Redis!Putting(v, 0))
        PROVE  RedisPool!BeginPut(c, v)
    BY <1>6, <1>7, <1>8, <2>1 DEF Redis!Begin, RedisPool!BeginPut, Mapped
  <2>2. ASSUME Redis!Answer(c, Redis!Measuring(0)) PROVE RedisPool!BeginRandom(c)
    <3>1. RedisPool!Answer(c, RedisPool!Drawing)
      BY <1>1, <1>3, <1>4, <2>2, ObservedAnswer DEF Redis!Answer
    <3> QED BY <1>7, <1>8, <3>1 DEF Redis!Begin, RedisPool!BeginRandom, Mapped
  <2> QED BY <1>8, <2>1, <2>2 DEF Redis!Begin, RedisPool!Next
<1>9. CASE Redis!Put(c)
  <2>1. /\ call[c].op = "put" /\ call[c].value # Empty /\ call[c].tries \in 0 .. MaxRetries
        /\ call[c].tries < MaxRetries + 1 /\ Mapped[c] = call[c]
    BY <1>7, <1>9, RedisCallFacts DEF Redis!Put
  <2>2. list' = RedisPool!Newest(Append(list, call[c].value), limits[c])
    BY <1>9, PutListFacts
  <2>3. \/ RedisPool!Answer(c, RedisPool!Returned("ok", call[c].value))
        \/ RedisPool!Answer(c, RedisPool!Returned("failed", call[c].value))
        \/ RedisPool!Answer(c, RedisPool!Putting(call[c].value, call[c].tries + 1))
    <3>1. call[c].tries < MaxRetries =>
            [call[c] EXCEPT !.tries = @ + 1] = Redis!Putting(call[c].value, call[c].tries + 1)
      BY <2>1, ResentFacts
    <3> QED BY <1>5, <1>6, <1>9, <3>1 DEF Redis!Put
  <2>4. RedisPool!Store(c)
    BY <2>1, <2>2, <2>3 DEF RedisPool!Store, Mapped
  <2> QED BY <2>4 DEF RedisPool!Next
<1>10. CASE Redis!Measure(c)
  <2>1. Mapped[c].op = "random" /\ Mapped[c] = [op |-> "random"] /\ list' = list
    BY <1>7, <1>10 DEF Redis!Measure
  <2>2. ASSUME list = <<>>, Redis!Answer(c, Redis!Returned("missing", Empty))
        PROVE  RedisPool!Miss(c)
    BY <1>5, <2>1, <2>2 DEF RedisPool!Miss, Mapped
  <2>3. ASSUME NEW i \in 0 .. Len(list) - 1, Redis!Answer(c, Redis!Reading(i, 0))
        PROVE  UNCHANGED RedisPool!vars
    <3> DEFINE a == Redis!Reading(i, 0)
    <3>1. a.op = "lindex" /\ call' = [call EXCEPT ![c] = a]
      BY <1>4, <2>3 DEF Redis!Answer
    <3> HIDE DEF a
    <3>2. Mapped' = [Mapped EXCEPT ![c] = [op |-> "random"]]
      BY <1>1, <3>1, ObservedAnswer
    <3>3. Mapped' = Mapped
      BY <2>1, <3>2 DEF Mapped
    <3> QED BY <1>2, <2>1, <3>3 DEF RedisPool!vars, Mapped
  <2> QED BY <1>10, <2>2, <2>3 DEF Redis!Measure, RedisPool!Next
<1>11. CASE Redis!Read(c)
  <2>1. Mapped[c].op = "random" /\ list' = list /\ call[c].op = "lindex" /\ call[c].index \in Nat
    BY <1>7, <1>11, RedisCallFacts DEF Redis!Read
  <2>2. CASE call[c].index < Len(list)
    <3>1. call[c].index + 1 \in DOMAIN list
      BY <1>1, <2>1, <2>2
    <3>2. RedisPool!Answer(c, RedisPool!Returned("ok", list[call[c].index + 1]))
      BY <1>5, <1>11, <2>2 DEF Redis!Read
    <3>3. RedisPool!Draw(c)
      BY <2>1, <3>1, <3>2 DEF RedisPool!Draw, Mapped
    <3> QED BY <3>3 DEF RedisPool!Next
  <2>3. CASE ~(call[c].index < Len(list))
    <3>1. RedisPool!Answer(c, RedisPool!Returned("missing", Empty))
      BY <1>5, <1>11, <2>3 DEF Redis!Read
    <3>2. PICK d \in Clients, e \in Clients : call[c].index < limits[d] /\ limits[e] <= Len(list)
      BY <2>1, <2>3 DEF InRedis, DrawnIndex
    <3>3. RedisPool!Shrunk
      BY <1>1, <2>1, <2>3, <3>2 DEF RedisPool!Shrunk
    <3>4. RedisPool!Miss(c)
      BY <2>1, <3>1, <3>3 DEF RedisPool!Miss, Mapped
    <3> QED BY <3>4 DEF RedisPool!Next
  <2> QED BY <2>2, <2>3
<1>12. CASE Redis!Resend(c)
  <2>1. CASE call[c].op = "put"
    <3>1. [call[c] EXCEPT !.tries = @ + 1] = Redis!Putting(call[c].value, call[c].tries + 1)
      BY <1>12, <2>1, ResentFacts DEF Redis!Resend
    <3>2. RedisPool!Answer(c, RedisPool!Putting(call[c].value, call[c].tries + 1))
      BY <1>6, <1>12, <3>1 DEF Redis!Resend
    <3>3. Mapped[c] = call[c] /\ call[c].tries < MaxRetries + 1
      BY <1>7, <2>1, RedisCallFacts
    <3>4. RedisPool!Lose(c)
      BY <1>12, <2>1, <3>2, <3>3 DEF Redis!Resend, RedisPool!Lose, Mapped
    <3> QED BY <3>4 DEF RedisPool!Next
  <2>2. CASE call[c].op \in {"llen", "lindex"}
    <3> DEFINE a == [call[c] EXCEPT !.tries = @ + 1]
    <3>1. a.op = call[c].op
      BY <1>12, ResentFacts DEF Redis!Resend
    <3>2. call' = [call EXCEPT ![c] = a] /\ list' = list
      BY <1>12 DEF Redis!Resend, Redis!Answer
    <3> HIDE DEF a
    <3>3. Mapped' = [Mapped EXCEPT ![c] = [op |-> "random"]] /\ Mapped[c] = [op |-> "random"]
      BY <1>1, <2>2, <3>1, <3>2, ObservedAnswer
    <3>4. Mapped' = Mapped
      BY <3>3 DEF Mapped
    <3> QED BY <3>2, <3>4 DEF RedisPool!vars, Mapped
  <2> QED BY <1>12, <2>1, <2>2 DEF Redis!Resend
<1>13. CASE Redis!Fail(c)
  <2>1. Mapped[c].op \in {"put", "random"} /\ list' = list
    BY <1>7, <1>13 DEF Redis!Fail
  <2>2. RedisPool!Answer(c, RedisPool!Returned("failed", Empty))
    BY <1>5, <1>13 DEF Redis!Fail
  <2>3. RedisPool!Fail(c)
    BY <2>1, <2>2 DEF RedisPool!Fail, Mapped
  <2> QED BY <2>3 DEF RedisPool!Next
<1> QED BY <1>8, <1>9, <1>10, <1>11, <1>12, <1>13

(* The list that all replicas share implements the bounded queue, although *)
(* a draw is two commands and commands are sent again: for any replicas,   *)
(* capacities that differ between them, and number of retries.             *)
THEOREM RedisIsPool == Spec => RedisImplementsPool
<1>1. Init => RedisPool!Init
  <2> SUFFICES ASSUME Init PROVE RedisPool!Init
    OBVIOUS
  <2>1. list = <<>> /\ call = [c \in Clients |-> Redis!Returned("none", Empty)]
    BY DEF Init, Redis!Init
  <2>2. \A c \in Clients : Redis!Observed(c) = Redis!Returned("none", Empty)
    BY <2>1 DEF Redis!Observed, Redis!Returned
  <2> QED BY <2>1, <2>2 DEF RedisPool!Init, Idle, Memory!Returned, Redis!Returned,
              RedisPool!Returned
<1>2. StoresInv /\ [Next]_vars => [RedisPool!Next]_(RedisPool!vars)
  <2> SUFFICES ASSUME StoresInv, [Next]_vars PROVE [RedisPool!Next]_(RedisPool!vars)
    OBVIOUS
  <2>1. CASE backend = "redis" /\ Redis!Next /\ UNCHANGED <<backend, values, next>>
    BY <2>1, RedisRefines DEF Redis!Next, StoresInv
  <2>2. CASE backend = "memory" /\ UNCHANGED <<backend, list>>
    BY <2>2 DEF RedisPool!vars, Idle
  <2>3. CASE UNCHANGED vars
    <3>1. \A c \in Clients : Redis!Observed(c)' = Redis!Observed(c)
      BY <2>3 DEF vars, Redis!Observed
    <3> QED BY <2>3, <3>1 DEF vars, RedisPool!vars, Idle
  <2> QED BY <2>1, <2>2, <2>3 DEF Next
<1> QED BY <1>1, <1>2, StoresInductive, PTL DEF Spec, RedisImplementsPool, RedisPool!Spec
=============================================================================
