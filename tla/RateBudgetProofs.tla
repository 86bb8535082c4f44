-------------------------- MODULE RateBudgetProofs --------------------------
(***************************************************************************)
(* Proofs about module RateBudget, for every set of processes, every       *)
(* schedule, profile, retry count, minute length and horizon.              *)
(***************************************************************************)
EXTENDS RateBudget, ProfileTheorems, FiniteSetTheorems

(* now - (now % window), as both scripts compute it, is the start of the   *)
(* window now lies in.                                                     *)
LEMMA WindowStartFacts ==
  ASSUME NEW n \in Nat \ {0}, NEW t \in Nat
  PROVE  /\ WindowStart(t, n) \in Nat
         /\ WindowStart(t, n) <= t
         /\ t < WindowStart(t, n) + n
         /\ WindowStart(t, n) = n * (t \div n)
         /\ (t \div n) \in Nat
<1>1. t % n \in 0 .. n - 1 /\ t = n * (t \div n) + (t % n) /\ (t \div n) \in Int
  OBVIOUS
<1>2. n * (t \div n) \in Int /\ n * (t \div n) > -n
  BY <1>1
<1>3. (t \div n) > -1
  BY <1>1, <1>2
<1> QED BY <1>1, <1>2, <1>3 DEF WindowStart

(* A later moment never lies in an earlier window.                         *)
LEMMA WindowStartMonotone ==
  ASSUME NEW n \in Nat \ {0}, NEW t \in Nat, NEW u \in Nat, t <= u
  PROVE  WindowStart(t, n) <= WindowStart(u, n)
<1> DEFINE a == t \div n
           b == u \div n
<1>1. /\ a \in Nat /\ b \in Nat
      /\ WindowStart(t, n) = n * a /\ WindowStart(u, n) = n * b
      /\ n * a <= t /\ u < n * b + n
  BY WindowStartFacts
<1> HIDE DEF a, b
<1>2. SUFFICES ASSUME n * b < n * a PROVE FALSE
  BY <1>1
<1>3. b < a
  BY <1>1, <1>2
<1>4. n * (b + 1) <= n * a
  BY <1>1, <1>3
<1> QED BY <1>1, <1>4

LEMMA ConstantFacts ==
  /\ Minute \in Nat \ {0} /\ Horizon \in Nat \ {0} /\ Second \in Nat \ {0}
  /\ MinRPM \in Nat \ {0} /\ MaxRPM \in Nat \ {0} /\ MinRPM <= MaxRPM
  /\ MaxRPM <= Minute /\ MaxRetries \in Nat
  /\ ScheduleLength \in Nat \ {0} /\ Horizon * Minute \in Nat
  /\ ProfileFields(TrafficProfile) /\ Accepted(TrafficProfile)
<1>1. /\ Minute \in Nat \ {0} /\ Horizon \in Nat \ {0} /\ Second \in Nat \ {0}
      /\ MinRPM \in Nat \ {0} /\ MaxRPM \in Nat \ {0} /\ MinRPM <= MaxRPM
      /\ MaxRPM <= Minute /\ MaxRetries \in Nat
      /\ ScheduleMinutes \in Nat \ {0}
  BY RateAssumption, MinuteAssumption
<1>2. ScheduleLength \in Nat \ {0} /\ Horizon * Minute \in Nat
  BY <1>1 DEF ScheduleLength
<1>3. ProfileFields(TrafficProfile) /\ Accepted(TrafficProfile)
  BY RateAssumption DEF ProfileFields
<1> QED BY <1>1, <1>2, <1>3

(* The windows the scripts compute are whole minutes before the horizon.   *)
LEMMA WindowFacts ==
  ASSUME now \in 0 .. Horizon * Minute - 1
  PROVE  /\ now \in Nat
         /\ Window \in Minutes /\ Window \in Nat
         /\ Window <= now /\ now < Window + Minute
         /\ ScheduleWindow \in Minutes /\ ScheduleWindow \in Nat
         /\ ScheduleWindow <= now /\ now < ScheduleWindow + ScheduleLength
<1> USE ConstantFacts
<1>1. now \in Nat /\ now < Horizon * Minute
  OBVIOUS
<1>2. /\ Window \in Nat /\ Window <= now /\ now < Window + Minute
      /\ Window = Minute * (now \div Minute) /\ (now \div Minute) \in Nat
  BY <1>1, WindowStartFacts DEF Window
<1>3. /\ ScheduleWindow \in Nat /\ ScheduleWindow <= now
      /\ now < ScheduleWindow + ScheduleLength
      /\ ScheduleWindow = ScheduleLength * (now \div ScheduleLength)
      /\ (now \div ScheduleLength) \in Nat
  BY <1>1, WindowStartFacts DEF ScheduleWindow
<1>4. ASSUME NEW k \in Nat, k * Minute <= now
      PROVE  k * Minute \in Minutes
  <2>1. k * Minute < Horizon * Minute
    BY <1>1, <1>4
  <2>2. k < Horizon
    BY <2>1
  <2> QED BY <2>2 DEF Minutes
<1>5. Window \in Minutes
  <2> DEFINE k == now \div Minute
  <2>1. k \in Nat /\ Window = k * Minute
    BY <1>2
  <2> QED BY <2>1, <1>2, <1>4
<1>6. ScheduleWindow \in Minutes
  <2> DEFINE q == now \div ScheduleLength
             k == ScheduleMinutes * q
  <2>1. q \in Nat /\ ScheduleMinutes \in Nat /\ ScheduleWindow = ScheduleLength * q
    BY <1>3, RateAssumption
  <2> HIDE DEF q
  <2>2. k \in Nat /\ ScheduleWindow = k * Minute
    BY <2>1 DEF ScheduleLength
  <2> HIDE DEF k
  <2> QED BY <2>2, <1>3, <1>4
<1> QED BY <1>1, <1>2, <1>3, <1>5, <1>6

LEMMA MinutesAreNat == Minutes \subseteq Nat
BY ConstantFacts DEF Minutes
----------------------------------------------------------------------------
(* What the loop keeps between its steps.                                  *)
LoopShape ==
  \A p \in Processes :
    /\ pc[p] = "reserve" => rpm[p] >= 1 /\ want[p] \in 1 .. rpm[p]
    /\ batch[p].size > 0 => rpm[p] >= 1 /\ batch[p].window \in Minutes
    /\ batch[p].first + batch[p].size <= MaxRPM
    /\ pc[p] \in {"execute", "inflight"} => position[p] >= 1
    /\ position[p] <= batch[p].size

(* What the two Redis keys keep: a key outlives its window by a window, so *)
(* expiry never forgets the window in force.                               *)
LimiterShape ==
  \A l \in Limiters : limiter[l].window # None =>
    /\ limiter[l].window <= Window
    /\ limiter[l].expires = limiter[l].window + 2 * Minute

ScheduleShape ==
  schedule.window # None =>
    /\ schedule.rpm \in MinRPM .. MaxRPM
    /\ schedule.window <= ScheduleWindow
    /\ schedule.expires = schedule.window + 2 * ScheduleLength

TypeInv == TypeOK /\ LoopShape /\ LimiterShape /\ ScheduleShape

(* acquire_rate_limit.lua and local.go: what one call does to the key and  *)
(* what it answers.                                                        *)
LEMMA AcquireFacts ==
  ASSUME now \in 0 .. Horizon * Minute - 1,
         NEW key \in LimiterKey, NEW requests \in 1 .. MaxRPM,
         NEW permits \in 1 .. requests,
         key.window # None => key.expires = key.window + 2 * Minute
  PROVE  LET d == Acquire(key, requests, permits)
         IN  /\ d.key \in LimiterKey /\ d.batch \in BatchType
             /\ d.key.window = Window /\ d.batch.window = Window
             /\ d.key.expires = Window + 2 * Minute
             /\ d.batch.first = IF key.window = Window THEN key.count ELSE 0
             /\ d.key.count = d.batch.first + d.batch.size
             /\ d.batch.size <= permits
             /\ d.batch.first + d.batch.size <= MaxRPM
             /\ d.batch.size < permits => d.batch.retryAfter = Window + Minute - now
<1> USE ConstantFacts
<1>1. /\ now \in Nat /\ Window \in Nat /\ Window \in Minutes
      /\ Window <= now /\ now < Window + Minute
  BY WindowFacts
<1>2. /\ key.window \in MaybeMinute /\ key.count \in 0 .. MaxRPM /\ key.expires \in Nat
  BY DEF LimiterKey
<1> DEFINE first == IF now < key.expires /\ key.window = Window THEN key.count ELSE 0
           granted == Least(permits, Greatest(requests - first, 0))
           retry == Window + Minute - now
           d == Acquire(key, requests, permits)
<1>3. key.window = Window => now < key.expires
  BY <1>1, <1>2 DEF None
<1>4. first = (IF key.window = Window THEN key.count ELSE 0) /\ first \in 0 .. MaxRPM
  BY <1>2, <1>3
<1> HIDE DEF first
<1>5. granted \in 0 .. permits /\ first + granted \in 0 .. MaxRPM
      /\ granted \in 0 .. MaxRPM
  BY <1>4 DEF Least, Greatest
<1> HIDE DEF granted
<1>6. retry \in 1 .. Minute /\ now + retry + Minute = Window + 2 * Minute
  BY <1>1
<1>7. /\ d.key = [window |-> Window, count |-> first + granted,
                  expires |-> now + retry + Minute]
      /\ d.batch = [window |-> Window, first |-> first, size |-> granted,
                    retryAfter |-> IF granted = permits THEN 0 ELSE retry]
  BY DEF Acquire, first, granted
<1> HIDE DEF d, retry
<1>8. d.key \in LimiterKey
  BY <1>1, <1>5, <1>6, <1>7 DEF LimiterKey, MaybeMinute
<1>9. (IF granted = permits THEN 0 ELSE retry) \in 0 .. Minute
  BY <1>6
<1>10. d.batch \in BatchType
  BY <1>1, <1>4, <1>5, <1>7, <1>9 DEF BatchType, MaybeMinute
<1>11. /\ d.key.window = Window /\ d.batch.window = Window
       /\ d.key.expires = Window + 2 * Minute
       /\ d.batch.first = first /\ d.batch.size = granted
       /\ d.key.count = first + granted
       /\ granted # permits => d.batch.retryAfter = retry
  BY <1>6, <1>7
<1> QED
  BY <1>4, <1>5, <1>8, <1>10, <1>11 DEF d, retry

(* select_uniform_window.lua: what one call does to the key.               *)
LEMMA SelectFacts ==
  ASSUME now \in 0 .. Horizon * Minute - 1, schedule \in ScheduleKey, ScheduleShape,
         NEW candidate \in MinRPM .. MaxRPM
  PROVE  LET k == Select(schedule, candidate)
         IN  /\ k \in ScheduleKey
             /\ k.window = ScheduleWindow
             /\ k.rpm \in MinRPM .. MaxRPM
             /\ k.expires = ScheduleWindow + 2 * ScheduleLength
             /\ schedule.window = ScheduleWindow => k.rpm = schedule.rpm
<1> USE ConstantFacts
<1>1. /\ now \in Nat /\ ScheduleWindow \in Nat /\ ScheduleWindow \in Minutes
      /\ ScheduleWindow <= now /\ now < ScheduleWindow + ScheduleLength
  BY WindowFacts
<1> DEFINE selected == IF now < schedule.expires /\ schedule.window = ScheduleWindow
                       THEN schedule.rpm ELSE candidate
<1>2. schedule.window = ScheduleWindow =>
        now < schedule.expires /\ schedule.rpm \in MinRPM .. MaxRPM
  BY <1>1 DEF ScheduleShape, None
<1>3. selected \in MinRPM .. MaxRPM
      /\ (schedule.window = ScheduleWindow => selected = schedule.rpm)
  BY <1>2
<1>4. Select(schedule, candidate) =
        [window |-> ScheduleWindow, rpm |-> selected,
         expires |-> ScheduleWindow + 2 * ScheduleLength]
  BY DEF Select
<1> HIDE DEF selected
<1>5. selected \in 0 .. MaxRPM /\ ScheduleWindow + 2 * ScheduleLength \in Nat
  BY <1>1, <1>3
<1> QED BY <1>1, <1>3, <1>4, <1>5 DEF ScheduleKey, MaybeMinute
----------------------------------------------------------------------------
LEMMA NoBatchHasType ==
  NoBatch \in BatchType /\ NoBatch.size = 0 /\ NoBatch.first = 0
BY ConstantFacts DEF NoBatch, BatchType, MaybeMinute

LEMMA TypeInit == Init => TypeInv
<1> SUFFICES ASSUME Init PROVE TypeInv
  OBVIOUS
<1> USE ConstantFacts, NoBatchHasType
<1>1. now \in 0 .. Horizon * Minute - 1
  <2>1. Horizon * Minute >= 1
    OBVIOUS
  <2> QED BY <2>1 DEF Init
<1>2. NoLimiter \in LimiterKey /\ NoSchedule \in ScheduleKey
  BY DEF NoLimiter, NoSchedule, LimiterKey, ScheduleKey, MaybeMinute
<1>3. TypeOK
  BY <1>1, <1>2 DEF Init, TypeOK, Labels, MaybeMinute
<1>4. LoopShape
  BY DEF Init, LoopShape
<1>5. LimiterShape /\ ScheduleShape
  BY DEF Init, LimiterShape, ScheduleShape, NoLimiter, NoSchedule
<1> QED BY <1>3, <1>4, <1>5 DEF TypeInv

(* A pause with nothing left of the batch keeps the loop's types.          *)
LEMMA PauseBeforeRetryTypes ==
  ASSUME TypeInv, NEW p \in Processes, NEW delay \in Nat, PauseBeforeRetry(p, delay)
  PROVE  /\ pc' \in [Processes -> Labels] /\ batch' \in [Processes -> BatchType]
         /\ position' \in [Processes -> 0 .. MaxRPM] /\ wake' \in [Processes -> Nat]
<1> USE ConstantFacts, NoBatchHasType
<1>1. now + delay \in Nat
  BY WindowFacts DEF TypeInv, TypeOK
<1> QED BY <1>1 DEF TypeInv, TypeOK, PauseBeforeRetry, Labels

LEMMA PauseBeforeRetryShape ==
  ASSUME TypeInv, NEW p \in Processes, NEW delay \in Nat, PauseBeforeRetry(p, delay),
         UNCHANGED <<rpm, want>>
  PROVE  LoopShape'
BY ConstantFacts, NoBatchHasType
   DEF TypeInv, TypeOK, LoopShape, PauseBeforeRetry, Labels

LEMMA StartTypes ==
  ASSUME TypeInv, NEW p \in Processes, Start(p) PROVE TypeInv'
<1>1. TypeOK'
  BY DEF TypeInv, TypeOK, Start, redis, loop, Labels
<1>2. LoopShape'
  BY DEF TypeInv, TypeOK, LoopShape, Start, redis, loop, Labels
<1>3. LimiterShape' /\ ScheduleShape'
  BY DEF TypeInv, LimiterShape, ScheduleShape, Start, redis, loop, Window, ScheduleWindow
<1> QED BY <1>1, <1>2, <1>3 DEF TypeInv

LEMMA UseRPMTypes ==
  ASSUME TypeInv, NEW p \in Processes, NEW r \in MinRPM .. MaxRPM, UseRPM(p, r),
         UNCHANGED <<batch, position>>
  PROVE  /\ rpm' \in [Processes -> 0 .. MaxRPM] /\ want' \in [Processes -> 0 .. MaxRPM]
         /\ readIn' \in [Processes -> MaybeMinute] /\ pc' \in [Processes -> Labels]
         /\ attempt' \in [Processes -> 0 .. MaxRetries]
         /\ LoopShape'
<1> USE ConstantFacts
<1>1. PICK n \in BatchSizes(TrafficProfile, r) : want' = [want EXCEPT ![p] = n]
  BY DEF UseRPM
<1>2. r \in 1 .. Minute /\ r \in 1 .. MaxRPM
  OBVIOUS
<1>3. n \in 1 .. r
  BY <1>1, <1>2, BatchSizesBounds
<1>4. ScheduleWindow \in MaybeMinute
  BY WindowFacts DEF TypeInv, TypeOK, MaybeMinute
<1>5. /\ rpm' \in [Processes -> 0 .. MaxRPM] /\ want' \in [Processes -> 0 .. MaxRPM]
      /\ readIn' \in [Processes -> MaybeMinute] /\ pc' \in [Processes -> Labels]
      /\ attempt' \in [Processes -> 0 .. MaxRetries]
  BY <1>1, <1>2, <1>3, <1>4 DEF TypeInv, TypeOK, UseRPM, Labels
<1>6. LoopShape'
  BY <1>1, <1>2, <1>3 DEF TypeInv, TypeOK, LoopShape, UseRPM, Labels
<1> QED BY <1>5, <1>6

LEMMA ReadFixedTypes ==
  ASSUME TypeInv, NEW p \in Processes, ReadFixed(p) PROVE TypeInv'
<1>1. MinRPM \in MinRPM .. MaxRPM
  BY ConstantFacts
<1>2. UseRPM(p, MinRPM) /\ UNCHANGED <<now, redis, stopping, batch, position, wake,
                                        shortIn, sent>>
  BY DEF ReadFixed
<1>3. TypeOK' /\ LoopShape'
  BY <1>1, <1>2, UseRPMTypes DEF TypeInv, TypeOK, redis
<1>4. LimiterShape' /\ ScheduleShape'
  BY <1>2 DEF TypeInv, LimiterShape, ScheduleShape, redis, Window, ScheduleWindow
<1> QED BY <1>3, <1>4 DEF TypeInv

LEMMA ReadUniformTypes ==
  ASSUME TypeInv, NEW p \in Processes, ReadUniform(p) PROVE TypeInv'
<1>1. PICK c \in MinRPM .. MaxRPM :
        schedule' = Select(schedule, c) /\ UseRPM(p, Select(schedule, c).rpm)
  BY DEF ReadUniform
<1>2. UNCHANGED <<now, limiter, stopping, batch, position, wake, shortIn, sent>>
  BY DEF ReadUniform
<1>3. /\ schedule' \in ScheduleKey /\ schedule'.window = ScheduleWindow
      /\ schedule'.rpm \in MinRPM .. MaxRPM
      /\ schedule'.expires = ScheduleWindow + 2 * ScheduleLength
  BY <1>1, SelectFacts DEF TypeInv, TypeOK
<1>4. TypeOK' /\ LoopShape'
  BY <1>1, <1>2, <1>3, UseRPMTypes DEF TypeInv, TypeOK
<1>5. LimiterShape' /\ ScheduleShape'
  <2>1. ScheduleWindow' = ScheduleWindow /\ Window' = Window
    BY <1>2 DEF Window, ScheduleWindow
  <2>2. ScheduleWindow \in Nat
    BY WindowFacts DEF TypeInv, TypeOK
  <2> QED BY <2>1, <2>2, <1>2, <1>3 DEF TypeInv, LimiterShape, ScheduleShape
<1> QED BY <1>4, <1>5 DEF TypeInv

LEMMA CommandFailsTypes ==
  ASSUME TypeInv, NEW p \in Processes, CommandFails(p), UNCHANGED <<rpm, want>>
  PROVE  /\ attempt' \in [Processes -> 0 .. MaxRetries]
         /\ pc' \in [Processes -> Labels] /\ batch' \in [Processes -> BatchType]
         /\ position' \in [Processes -> 0 .. MaxRPM] /\ wake' \in [Processes -> Nat]
         /\ LoopShape'
<1> USE ConstantFacts
<1>1. CASE /\ attempt[p] < MaxRetries
           /\ attempt' = [attempt EXCEPT ![p] = @ + 1]
           /\ UNCHANGED <<pc, batch, position, wake>>
  <2>1. attempt[p] + 1 \in 0 .. MaxRetries
    BY <1>1 DEF TypeInv, TypeOK
  <2> QED BY <1>1, <2>1 DEF TypeInv, TypeOK, LoopShape
<1>2. CASE /\ attempt' = [attempt EXCEPT ![p] = 0]
           /\ PauseBeforeRetry(p, Second)
  <2>1. Second \in Nat
    OBVIOUS
  <2>2. attempt' \in [Processes -> 0 .. MaxRetries]
    BY <1>2 DEF TypeInv, TypeOK
  <2> QED BY <1>2, <2>1, <2>2, PauseBeforeRetryTypes, PauseBeforeRetryShape
<1> QED BY <1>1, <1>2 DEF CommandFails
LEMMA ScheduleFailsTypes ==
  ASSUME TypeInv, NEW p \in Processes, ScheduleFails(p) PROVE TypeInv'
<1>1. UNCHANGED <<now, limiter, stopping, rpm, want, readIn, shortIn, sent>>
      /\ CommandFails(p)
  BY DEF ScheduleFails
<1>2. /\ schedule' \in ScheduleKey
      /\ schedule' = schedule
         \/ /\ schedule'.window = ScheduleWindow /\ schedule'.rpm \in MinRPM .. MaxRPM
            /\ schedule'.expires = ScheduleWindow + 2 * ScheduleLength
  BY SelectFacts DEF TypeInv, TypeOK, ScheduleFails
<1>3. TypeOK' /\ LoopShape'
  BY <1>1, <1>2, CommandFailsTypes DEF TypeInv, TypeOK
<1>4. LimiterShape' /\ ScheduleShape'
  <2>1. ScheduleWindow' = ScheduleWindow /\ Window' = Window
    BY <1>1 DEF Window, ScheduleWindow
  <2>2. ScheduleWindow \in Nat
    BY WindowFacts DEF TypeInv, TypeOK
  <2> QED BY <2>1, <2>2, <1>1, <1>2 DEF TypeInv, LimiterShape, ScheduleShape
<1> QED BY <1>3, <1>4 DEF TypeInv

(* The limiter's answer to a process that is about to reserve.             *)
LEMMA DecisionFacts ==
  ASSUME TypeInv, NEW p \in Processes, pc[p] = "reserve"
  PROVE  /\ LimiterOf(p) \in Limiters
         /\ Decision(p).key \in LimiterKey /\ Decision(p).batch \in BatchType
         /\ Decision(p).key.window = Window /\ Decision(p).batch.window = Window
         /\ Decision(p).key.expires = Window + 2 * Minute
         /\ Decision(p).batch.first = (IF limiter[LimiterOf(p)].window = Window
                                       THEN limiter[LimiterOf(p)].count ELSE 0)
         /\ Decision(p).key.count = Decision(p).batch.first + Decision(p).batch.size
         /\ Decision(p).batch.size <= want[p]
         /\ Decision(p).batch.first + Decision(p).batch.size <= MaxRPM
         /\ Decision(p).batch.size < want[p] =>
              Decision(p).batch.retryAfter = Window + Minute - now
<1> DEFINE key == limiter[LimiterOf(p)]
<1>1. LimiterOf(p) \in Limiters
  BY DEF Limiters
<1>2. key \in LimiterKey /\ (key.window # None => key.expires = key.window + 2 * Minute)
  BY <1>1 DEF TypeInv, TypeOK, LimiterShape
<1>3. rpm[p] \in 1 .. MaxRPM /\ want[p] \in 1 .. rpm[p]
  BY ConstantFacts DEF TypeInv, TypeOK, LoopShape
<1>4. now \in 0 .. Horizon * Minute - 1
  BY DEF TypeInv, TypeOK
<1> HIDE DEF key
<1>5. /\ Acquire(key, rpm[p], want[p]).key \in LimiterKey
      /\ Acquire(key, rpm[p], want[p]).batch \in BatchType
      /\ Acquire(key, rpm[p], want[p]).key.window = Window
      /\ Acquire(key, rpm[p], want[p]).batch.window = Window
      /\ Acquire(key, rpm[p], want[p]).key.expires = Window + 2 * Minute
      /\ Acquire(key, rpm[p], want[p]).batch.first =
           (IF key.window = Window THEN key.count ELSE 0)
      /\ Acquire(key, rpm[p], want[p]).key.count =
           Acquire(key, rpm[p], want[p]).batch.first
           + Acquire(key, rpm[p], want[p]).batch.size
      /\ Acquire(key, rpm[p], want[p]).batch.size <= want[p]
      /\ Acquire(key, rpm[p], want[p]).batch.first
           + Acquire(key, rpm[p], want[p]).batch.size <= MaxRPM
      /\ Acquire(key, rpm[p], want[p]).batch.size < want[p] =>
           Acquire(key, rpm[p], want[p]).batch.retryAfter = Window + Minute - now
  BY <1>2, <1>3, <1>4, AcquireFacts
<1> QED BY <1>1, <1>5 DEF Decision, key

(* A script call on the limiter keeps its types and its expiry.            *)
LEMMA LimiterStepTypes ==
  ASSUME TypeInv, NEW p \in Processes, pc[p] = "reserve", now' = now,
         \/ limiter' = limiter
         \/ limiter' = [limiter EXCEPT ![LimiterOf(p)] = Decision(p).key]
  PROVE  limiter' \in [Limiters -> LimiterKey] /\ LimiterShape'
<1>1. Window' = Window /\ Window \in Nat
  BY WindowFacts DEF TypeInv, TypeOK, Window
<1>2. CASE limiter' = limiter
  BY <1>1, <1>2 DEF TypeInv, TypeOK, LimiterShape
<1>3. CASE limiter' = [limiter EXCEPT ![LimiterOf(p)] = Decision(p).key]
  <2>1. limiter' \in [Limiters -> LimiterKey]
    BY <1>3, DecisionFacts DEF TypeInv, TypeOK
  <2>2. LimiterShape'
    BY <1>1, <1>3, <2>1, DecisionFacts DEF TypeInv, TypeOK, LimiterShape
  <2> QED BY <2>1, <2>2
<1> QED BY <1>2, <1>3

LEMMA AcquireFailsTypes ==
  ASSUME TypeInv, NEW p \in Processes, AcquireFails(p) PROVE TypeInv'
<1>1. /\ UNCHANGED <<now, schedule, stopping, rpm, want, readIn, shortIn, sent>>
      /\ CommandFails(p) /\ pc[p] = "reserve"
      /\ \/ limiter' = limiter
         \/ limiter' = [limiter EXCEPT ![LimiterOf(p)] = Decision(p).key]
  BY DEF AcquireFails
<1>2. limiter' \in [Limiters -> LimiterKey] /\ LimiterShape'
  BY <1>1, LimiterStepTypes
<1>3. TypeOK' /\ LoopShape'
  BY <1>1, <1>2, CommandFailsTypes DEF TypeInv, TypeOK
<1>4. ScheduleShape'
  BY <1>1 DEF TypeInv, ScheduleShape, ScheduleWindow
<1> QED BY <1>2, <1>3, <1>4 DEF TypeInv

LEMMA TryAcquireTypes ==
  ASSUME TypeInv, NEW p \in Processes, TryAcquire(p) PROVE TypeInv'
<1> USE ConstantFacts
<1>1. /\ UNCHANGED <<now, schedule, stopping, rpm, want, readIn, sent>>
      /\ pc[p] = "reserve"
      /\ limiter' = [limiter EXCEPT ![LimiterOf(p)] = Decision(p).key]
      /\ attempt' = [attempt EXCEPT ![p] = 0]
      /\ shortIn' = [shortIn EXCEPT ![p] = IF Decision(p).batch.size < want[p]
                                           THEN Window ELSE @]
  BY DEF TryAcquire
<1>2. limiter' \in [Limiters -> LimiterKey] /\ LimiterShape'
  BY <1>1, LimiterStepTypes
<1>3. ScheduleShape'
  BY <1>1 DEF TypeInv, ScheduleShape, ScheduleWindow
<1>4. Window \in MaybeMinute
  BY WindowFacts DEF TypeInv, TypeOK, MaybeMinute
<1>5. attempt' \in [Processes -> 0 .. MaxRetries] /\ shortIn' \in [Processes -> MaybeMinute]
  BY <1>1, <1>4 DEF TypeInv, TypeOK
<1>6. CASE Decision(p).batch.size = 0
  <2>1. PICK delay \in Nat : PauseBeforeRetry(p, delay)
    <3>1. Decision(p).batch.retryAfter \in Nat /\ Second \in Nat
      BY <1>1, DecisionFacts DEF BatchType
    <3> QED BY <1>6, <3>1 DEF TryAcquire
  <2>2. LoopShape'
    BY <2>1, <1>1, PauseBeforeRetryShape
  <2>3. TypeOK'
    BY <2>1, <1>1, <1>2, <1>5, PauseBeforeRetryTypes DEF TypeInv, TypeOK
  <2> QED BY <2>2, <2>3, <1>2, <1>3 DEF TypeInv
<1>7. CASE Decision(p).batch.size # 0
  <2>1. /\ pc' = [pc EXCEPT ![p] = "execute"]
        /\ batch' = [batch EXCEPT ![p] = Decision(p).batch]
        /\ position' = [position EXCEPT ![p] = 1]
        /\ wake' = wake
    BY <1>7 DEF TryAcquire
  <2>2. /\ Decision(p).batch \in BatchType /\ Decision(p).batch.size \in 1 .. MaxRPM
        /\ Decision(p).batch.first + Decision(p).batch.size <= MaxRPM
        /\ Decision(p).batch.window \in Minutes
    <3>1. Decision(p).batch \in BatchType
          /\ Decision(p).batch.first + Decision(p).batch.size <= MaxRPM
          /\ Decision(p).batch.window = Window
      BY <1>1, DecisionFacts
    <3>2. Decision(p).batch.size \in 1 .. MaxRPM
      BY <1>7, <3>1 DEF BatchType
    <3>3. Window \in Minutes
      BY WindowFacts DEF TypeInv, TypeOK
    <3> QED BY <3>1, <3>2, <3>3
  <2>3. TypeOK'
    BY <2>1, <2>2, <1>1, <1>2, <1>5 DEF TypeInv, TypeOK, Labels
  <2>4. rpm[p] >= 1
    BY <1>1 DEF TypeInv, LoopShape
  <2>5. LoopShape'
    BY <2>1, <2>2, <2>4, <1>1 DEF TypeInv, TypeOK, LoopShape, Labels
  <2> QED BY <2>3, <2>5, <1>2, <1>3 DEF TypeInv
<1> QED BY <1>6, <1>7

LEMMA AcquireCancelledTypes ==
  ASSUME TypeInv, NEW p \in Processes, AcquireCancelled(p) PROVE TypeInv'
<1> USE ConstantFacts
<1>1. /\ PauseBeforeRetry(p, Second) /\ attempt' = [attempt EXCEPT ![p] = 0]
      /\ UNCHANGED <<now, redis, stopping, rpm, want, readIn, shortIn, sent>>
  BY DEF AcquireCancelled
<1>2. Second \in Nat /\ attempt' \in [Processes -> 0 .. MaxRetries]
  BY <1>1 DEF TypeInv, TypeOK
<1>3. TypeOK' /\ LoopShape'
  BY <1>1, <1>2, PauseBeforeRetryTypes, PauseBeforeRetryShape DEF TypeInv, TypeOK, redis
<1>4. LimiterShape' /\ ScheduleShape'
  BY <1>1 DEF TypeInv, LimiterShape, ScheduleShape, redis, Window, ScheduleWindow
<1> QED BY <1>3, <1>4 DEF TypeInv
LEMMA SendTypes ==
  ASSUME TypeInv, NEW p \in Processes, Send(p) PROVE TypeInv'
<1> USE ConstantFacts
<1>1. batch[p].size > 0 /\ position[p] \in 1 .. batch[p].size
  BY DEF TypeInv, TypeOK, LoopShape, Send, BatchType
<1>2. batch[p].window \in Minutes /\ batch[p].first + position[p] \in 1 .. MaxRPM
  BY <1>1 DEF TypeInv, TypeOK, LoopShape, BatchType
<1>3. Window \in Minutes
  BY WindowFacts DEF TypeInv, TypeOK
<1>4. sent' \subseteq Request
  BY <1>2, <1>3 DEF TypeInv, TypeOK, Send, Request
<1>5. TypeOK'
  BY <1>4 DEF TypeInv, TypeOK, Send, redis, loop, Labels
<1>6. LoopShape'
  BY <1>1 DEF TypeInv, TypeOK, LoopShape, Send, redis, loop, Labels
<1>7. LimiterShape' /\ ScheduleShape'
  BY DEF TypeInv, LimiterShape, ScheduleShape, Send, redis, Window, ScheduleWindow
<1> QED BY <1>5, <1>6, <1>7 DEF TypeInv

LEMMA PauseAfterSlotTypes ==
  ASSUME TypeInv, NEW p \in Processes, pc[p] \in {"execute", "inflight"},
         PauseAfterSlot(p)
  PROVE  TypeInv'
<1> USE ConstantFacts
<1>1. /\ batch[p].size \in Nat /\ batch[p].size >= 1 /\ position[p] \in Nat
      /\ rpm[p] \in 1 .. Minute /\ batch[p].retryAfter \in Nat
  BY DEF TypeInv, TypeOK, LoopShape, BatchType
<1>2. PICK d \in NextDelays(TrafficProfile, rpm[p], position[p], batch[p].size) :
        wake' = [wake EXCEPT ![p] = now + IF position[p] = batch[p].size
                                          THEN Greatest(d, batch[p].retryAfter) ELSE d]
  BY DEF PauseAfterSlot
<1>3. d \in Nat
  BY <1>1, <1>2, NextDelaysPositive
<1>4. now + (IF position[p] = batch[p].size
             THEN Greatest(d, batch[p].retryAfter) ELSE d) \in Nat
  BY <1>1, <1>3, WindowFacts DEF TypeInv, TypeOK, Greatest
<1>5. wake' \in [Processes -> Nat]
  BY <1>2, <1>4 DEF TypeInv, TypeOK
<1>6. pc' = [pc EXCEPT ![p] = "pause"]
      /\ UNCHANGED <<now, redis, stopping, attempt, rpm, want, batch, position,
                     readIn, shortIn, sent>>
  BY DEF PauseAfterSlot
<1>7. TypeOK'
  BY <1>5, <1>6 DEF TypeInv, TypeOK, redis, Labels
<1>8. LoopShape'
  BY <1>6 DEF TypeInv, TypeOK, LoopShape, Labels
<1>9. LimiterShape' /\ ScheduleShape'
  BY <1>6 DEF TypeInv, LimiterShape, ScheduleShape, redis, Window, ScheduleWindow
<1> QED BY <1>7, <1>8, <1>9 DEF TypeInv

LEMMA WakeTypes ==
  ASSUME TypeInv, NEW p \in Processes, Wake(p) PROVE TypeInv'
<1> USE ConstantFacts, NoBatchHasType
<1>1. UNCHANGED <<now, redis, stopping, attempt, rpm, want, readIn, shortIn, sent>>
      /\ wake' = [wake EXCEPT ![p] = 0]
  BY DEF Wake
<1>2. CASE position[p] < batch[p].size
  <2>1. /\ pc' = [pc EXCEPT ![p] = "execute"] /\ batch' = batch
        /\ position' = [position EXCEPT ![p] = @ + 1]
    BY <1>2 DEF Wake
  <2>2. position[p] + 1 \in 1 .. MaxRPM /\ position[p] + 1 <= batch[p].size
    BY <1>2 DEF TypeInv, TypeOK, BatchType
  <2>3. TypeOK'
    BY <1>1, <2>1, <2>2 DEF TypeInv, TypeOK, redis, Labels
  <2>4. LoopShape'
    BY <1>1, <2>1, <2>2 DEF TypeInv, TypeOK, LoopShape, Labels
  <2> QED BY <1>1, <2>3, <2>4
          DEF TypeInv, LimiterShape, ScheduleShape, redis, Window, ScheduleWindow
<1>3. CASE ~(position[p] < batch[p].size)
  <2>1. /\ pc' = [pc EXCEPT ![p] = "schedule"]
        /\ batch' = [batch EXCEPT ![p] = NoBatch]
        /\ position' = [position EXCEPT ![p] = 0]
    BY <1>3 DEF Wake
  <2>2. TypeOK'
    BY <1>1, <2>1 DEF TypeInv, TypeOK, redis, Labels
  <2>3. LoopShape'
    BY <1>1, <2>1 DEF TypeInv, TypeOK, LoopShape, Labels
  <2> QED BY <1>1, <2>2, <2>3
          DEF TypeInv, LimiterShape, ScheduleShape, redis, Window, ScheduleWindow
<1> QED BY <1>2, <1>3

LEMMA ShutdownTypes ==
  ASSUME TypeInv, NEW p \in Processes, Shutdown(p) PROVE TypeInv'
<1>1. TypeOK'
  BY DEF TypeInv, TypeOK, Shutdown, redis, loop
<1> QED BY <1>1 DEF TypeInv, LoopShape, LimiterShape, ScheduleShape, Shutdown,
                    redis, loop, Window, ScheduleWindow

LEMMA EndTypes ==
  ASSUME TypeInv, NEW p \in Processes, End(p) PROVE TypeInv'
<1> USE ConstantFacts, NoBatchHasType
<1>1. TypeOK'
  BY DEF TypeInv, TypeOK, End, redis, Labels, MaybeMinute
<1>2. LoopShape'
  BY DEF TypeInv, TypeOK, LoopShape, End, Labels
<1>3. LimiterShape' /\ ScheduleShape'
  BY DEF TypeInv, LimiterShape, ScheduleShape, End, redis, Window, ScheduleWindow
<1> QED BY <1>1, <1>2, <1>3 DEF TypeInv

(* Time passes: no window is ever followed by an earlier one.              *)
LEMMA TickFacts ==
  ASSUME TypeInv, Tick
  PROVE  /\ now' \in 0 .. Horizon * Minute - 1
         /\ Window \in Nat /\ Window' \in Nat /\ Window <= Window'
         /\ ScheduleWindow \in Nat /\ ScheduleWindow' \in Nat
         /\ ScheduleWindow <= ScheduleWindow'
<1> USE ConstantFacts
<1>1. now \in Nat /\ now' = now + 1 /\ now' \in 0 .. Horizon * Minute - 1
  BY DEF TypeInv, TypeOK, Tick
<1>2. Window' = WindowStart(now', Minute)
      /\ ScheduleWindow' = WindowStart(now', ScheduleLength)
  BY DEF Window, ScheduleWindow, ScheduleLength
<1>3. Window <= Window' /\ ScheduleWindow <= ScheduleWindow'
  BY <1>1, <1>2, WindowStartMonotone DEF Window, ScheduleWindow
<1>4. Window \in Nat /\ ScheduleWindow \in Nat
  BY WindowFacts DEF TypeInv, TypeOK
<1>5. now' \in Nat
  BY <1>1
<1>6. WindowStart(now', Minute) \in Nat /\ WindowStart(now', ScheduleLength) \in Nat
  BY <1>5, WindowStartFacts
<1> QED BY <1>1, <1>2, <1>3, <1>4, <1>6

LEMMA TickTypes ==
  ASSUME TypeInv, Tick PROVE TypeInv'
<1>1. TypeOK'
  BY TickFacts DEF TypeInv, TypeOK, Tick, redis, loop
<1>2. LoopShape'
  BY DEF TypeInv, LoopShape, Tick, loop
<1>3. LimiterShape' /\ ScheduleShape'
  <2>1. \A l \in Limiters : limiter[l].window \in MaybeMinute
    BY DEF TypeInv, TypeOK, LimiterKey
  <2>2. schedule.window \in MaybeMinute
    BY DEF TypeInv, TypeOK, ScheduleKey
  <2>3. MaybeMinute \subseteq Int
    BY MinutesAreNat DEF MaybeMinute, None
  <2>4. UNCHANGED <<limiter, schedule>>
    BY DEF Tick, redis
  <2>5. LimiterShape'
    <3> SUFFICES ASSUME NEW l \in Limiters, limiter[l].window # None
                 PROVE  /\ limiter[l].window <= Window'
                        /\ limiter[l].expires = limiter[l].window + 2 * Minute
      BY <2>4 DEF LimiterShape
    <3>1. limiter[l].window <= Window
          /\ limiter[l].expires = limiter[l].window + 2 * Minute
      BY DEF TypeInv, LimiterShape
    <3>2. limiter[l].window \in Int
      BY <2>1, <2>3
    <3>3. limiter[l].window <= Window'
      BY <3>1, <3>2, TickFacts
    <3> QED BY <3>1, <3>3
  <2>6. ScheduleShape'
    <3> SUFFICES ASSUME schedule.window # None
                 PROVE  /\ schedule.rpm \in MinRPM .. MaxRPM
                        /\ schedule.window <= ScheduleWindow'
                        /\ schedule.expires = schedule.window + 2 * ScheduleLength
      BY <2>4 DEF ScheduleShape, ScheduleLength
    <3>1. /\ schedule.rpm \in MinRPM .. MaxRPM /\ schedule.window <= ScheduleWindow
          /\ schedule.expires = schedule.window + 2 * ScheduleLength
      BY DEF TypeInv, ScheduleShape
    <3>2. schedule.window \in Int
      BY <2>2, <2>3
    <3>3. schedule.window <= ScheduleWindow'
      BY <3>1, <3>2, TickFacts
    <3> QED BY <3>1, <3>3
  <2> QED BY <2>5, <2>6
<1> QED BY <1>1, <1>2, <1>3 DEF TypeInv

LEMMA TypeStep == TypeInv /\ [Next]_vars => TypeInv'
<1> SUFFICES ASSUME TypeInv, [Next]_vars PROVE TypeInv'
  OBVIOUS
<1>1. ASSUME NEW p \in Processes, Start(p) PROVE TypeInv'
  BY <1>1, StartTypes
<1>2. ASSUME NEW p \in Processes, ReadFixed(p) \/ ReadUniform(p) PROVE TypeInv'
  BY <1>2, ReadFixedTypes, ReadUniformTypes
<1>3. ASSUME NEW p \in Processes, TryAcquire(p) \/ AcquireCancelled(p) PROVE TypeInv'
  BY <1>3, TryAcquireTypes, AcquireCancelledTypes
<1>4. ASSUME NEW p \in Processes, Send(p) PROVE TypeInv'
  BY <1>4, SendTypes
<1>5. ASSUME NEW p \in Processes, SkipSlot(p) \/ Return(p) PROVE TypeInv'
  BY <1>5, PauseAfterSlotTypes DEF SkipSlot, Return
<1>6. ASSUME NEW p \in Processes, Wake(p) PROVE TypeInv'
  BY <1>6, WakeTypes
<1>7. ASSUME NEW p \in Processes, ReturnFromRun(p) \/ Crash(p) PROVE TypeInv'
  BY <1>7, EndTypes DEF ReturnFromRun, Crash
<1>8. ASSUME NEW p \in Processes, ScheduleFails(p) \/ AcquireFails(p) PROVE TypeInv'
  BY <1>8, ScheduleFailsTypes, AcquireFailsTypes
<1>9. ASSUME NEW p \in Processes, Shutdown(p) PROVE TypeInv'
  BY <1>9, ShutdownTypes
<1>10. CASE Tick
  BY <1>10, TickTypes
<1>11. CASE UNCHANGED vars
  BY <1>11 DEF vars, TypeInv, TypeOK, LoopShape, LimiterShape, ScheduleShape,
               Window, ScheduleWindow
<1> QED
  BY <1>1, <1>2, <1>3, <1>4, <1>5, <1>6, <1>7, <1>8, <1>9, <1>10, <1>11 DEF Next, Step

(* TypeInv holds in every reachable state.                                 *)
LEMMA TypeInvariant == Spec => []TypeInv
BY TypeInit, TypeStep, PTL DEF Spec

(* Every state of the loop, the limiter and the schedule is well typed: in *)
(* particular no window ever counts more than MaxRPM permits and every     *)
(* request sent stands on a permit between 1 and MaxRPM.                   *)
THEOREM TypeCorrect == Spec => []TypeOK
<1>1. TypeInv => TypeOK
  BY DEF TypeInv
<1> QED BY <1>1, TypeInvariant, PTL
----------------------------------------------------------------------------
(* The k-th permit of window w has been handed out by limiter l: the       *)
(* window is over, or the counter has passed k.                            *)
Issued(l, w, k) ==
  /\ w <= Window
  /\ w = Window => limiter[l].window = Window /\ k <= limiter[l].count

(* PermitsExclusive is not inductive: a new batch is fresh only because    *)
(* everything held or sent was issued before it.                           *)
PermitsIssued ==
  /\ \A p \in Processes : \A w \in Minutes, k \in 1 .. MaxRPM :
       Holds(p, w, k) => Issued(LimiterOf(p), w, k)
  /\ \A s \in sent : Issued(LimiterOf(s.by), s.window, s.slot)

PermitInv == TypeInv /\ PermitsIssued /\ PermitsExclusive

IssuedKept ==
  \A l \in Limiters : \A w \in Minutes, k \in 1 .. MaxRPM :
    Issued(l, w, k) => Issued(l, w, k)'

HoldingKept ==
  \A p \in Processes : \A w \in Minutes, k \in 1 .. MaxRPM :
    Holds(p, w, k)' => Holds(p, w, k)

(* A step that issues nothing and sends nothing keeps the invariant.       *)
LEMMA QuietStep ==
  ASSUME PermitInv, TypeInv', sent' = sent, IssuedKept, HoldingKept
  PROVE  PermitInv'
<1>1. \A s \in sent : s.window \in Minutes /\ s.slot \in 1 .. MaxRPM /\ s.by \in Processes
  BY DEF PermitInv, TypeInv, TypeOK, Request
<1>2. \A p \in Processes : LimiterOf(p) \in Limiters
  BY DEF Limiters
<1>3. PermitsIssued'
  <2>1. ASSUME NEW p \in Processes, NEW w \in Minutes, NEW k \in 1 .. MaxRPM,
               Holds(p, w, k)'
        PROVE  Issued(LimiterOf(p), w, k)'
    BY <2>1, <1>2 DEF PermitInv, PermitsIssued, HoldingKept, IssuedKept
  <2>2. ASSUME NEW s \in sent PROVE Issued(LimiterOf(s.by), s.window, s.slot)'
    BY <1>1, <1>2 DEF PermitInv, PermitsIssued, IssuedKept
  <2> QED BY <2>1, <2>2 DEF PermitsIssued
<1>4. PermitsExclusive'
  BY <1>1 DEF PermitInv, PermitsExclusive, HoldingKept
<1> QED BY <1>3, <1>4 DEF PermitInv

LEMMA IssuedUnchanged ==
  ASSUME now' = now, limiter' = limiter PROVE IssuedKept
BY DEF IssuedKept, Issued, Window

LEMMA IssuedTick ==
  ASSUME TypeInv, Tick PROVE IssuedKept
<1> SUFFICES ASSUME NEW l \in Limiters, NEW w \in Minutes, NEW k \in 1 .. MaxRPM,
                    Issued(l, w, k)
             PROVE  Issued(l, w, k)'
  BY DEF IssuedKept
<1>1. w \in Nat /\ Window \in Nat /\ Window' \in Nat /\ Window <= Window'
  BY TickFacts, MinutesAreNat
<1>2. w <= Window /\ (w = Window => limiter[l].window = Window /\ k <= limiter[l].count)
  BY DEF Issued
<1>3. limiter' = limiter
  BY DEF Tick, redis
<1>4. w <= Window' /\ (w = Window' => w = Window /\ Window' = Window)
  BY <1>1, <1>2
<1> QED BY <1>2, <1>3, <1>4 DEF Issued

(* A script call may start a new window or raise the counter, never lower  *)
(* it: what was issued stays issued, also when the reply is lost.          *)
LEMMA IssuedByCall ==
  ASSUME TypeInv, NEW p \in Processes, pc[p] = "reserve", now' = now,
         limiter' = [limiter EXCEPT ![LimiterOf(p)] = Decision(p).key]
  PROVE  IssuedKept
<1> SUFFICES ASSUME NEW l \in Limiters, NEW w \in Minutes, NEW k \in 1 .. MaxRPM,
                    Issued(l, w, k)
             PROVE  Issued(l, w, k)'
  BY DEF IssuedKept
<1>1. Window' = Window
  BY DEF Window
<1>2. w <= Window /\ (w = Window => limiter[l].window = Window /\ k <= limiter[l].count)
  BY DEF Issued
<1>3. CASE l # LimiterOf(p)
  <2>1. limiter'[l] = limiter[l]
    BY <1>3 DEF TypeInv, TypeOK
  <2> QED BY <1>1, <1>2, <2>1 DEF Issued
<1>4. CASE l = LimiterOf(p)
  <2>1. limiter'[l] = Decision(p).key
    BY <1>4, DecisionFacts DEF TypeInv, TypeOK
  <2>2. /\ Decision(p).key.window = Window
        /\ Decision(p).batch.first = (IF limiter[l].window = Window
                                      THEN limiter[l].count ELSE 0)
        /\ Decision(p).key.count = Decision(p).batch.first + Decision(p).batch.size
        /\ Decision(p).batch \in BatchType
    BY <1>4, DecisionFacts
  <2>3. Decision(p).batch.size \in Nat /\ limiter[l].count \in Nat
    BY <2>2, ConstantFacts DEF BatchType, TypeInv, TypeOK, LimiterKey
  <2>4. w = Window => k <= Decision(p).key.count
    <3> SUFFICES ASSUME w = Window PROVE k <= Decision(p).key.count
      OBVIOUS
    <3>1. k <= limiter[l].count /\ Decision(p).batch.first = limiter[l].count
      BY <1>2, <2>2
    <3> QED BY <3>1, <2>2, <2>3, ConstantFacts
  <2> QED BY <1>1, <1>2, <2>1, <2>2, <2>4 DEF Issued
<1> QED BY <1>3, <1>4

(* Ways a step can leave the permits in hand alone or drop some.           *)
LEMMA HoldingUnchanged ==
  ASSUME UNCHANGED <<pc, batch, position>> PROVE HoldingKept
BY DEF HoldingKept, Holds

LEMMA HoldingDropped ==
  ASSUME TypeInv, NEW p \in Processes, NEW label \in Labels,
         pc' = [pc EXCEPT ![p] = label],
         \/ label \in {"absent", "schedule", "reserve", "ended"}
            /\ \A q \in Processes \ {p} : batch'[q] = batch[q] /\ position'[q] = position[q]
         \/ batch' = [batch EXCEPT ![p] = NoBatch]
            /\ position' = [position EXCEPT ![p] = 0]
  PROVE  HoldingKept
<1> SUFFICES ASSUME NEW q \in Processes, NEW w \in Minutes, NEW k \in 1 .. MaxRPM,
                    Holds(q, w, k)'
             PROVE  Holds(q, w, k)
  BY DEF HoldingKept
<1>1. pc \in [Processes -> Labels] /\ batch \in [Processes -> BatchType]
      /\ position \in [Processes -> 0 .. MaxRPM]
  BY DEF TypeInv, TypeOK
<1>2. CASE q # p
  BY <1>1, <1>2 DEF Holds
<1>3. CASE q = p /\ label \in {"absent", "schedule", "reserve", "ended"}
  BY <1>1, <1>3 DEF Holds
<1>4. CASE q = p /\ batch' = [batch EXCEPT ![p] = NoBatch]
                /\ position' = [position EXCEPT ![p] = 0]
  <2>1. batch'[p] = NoBatch /\ position'[p] = 0 /\ pc'[p] = label
    BY <1>1, <1>4
  <2>2. k > NoBatch.first + (IF label = "execute" THEN 0 - 1 ELSE 0)
        /\ k <= NoBatch.first + NoBatch.size
    BY <1>4, <2>1 DEF Holds
  <2> QED BY <2>2, NoBatchHasType, ConstantFacts
<1> QED BY <1>2, <1>3, <1>4
LEMMA HoldingAfterFailure ==
  ASSUME TypeInv, NEW p \in Processes, CommandFails(p) PROVE HoldingKept
<1>1. CASE UNCHANGED <<pc, batch, position, wake>>
  BY <1>1, HoldingUnchanged
<1>2. CASE PauseBeforeRetry(p, Second)
  BY <1>2, HoldingDropped DEF PauseBeforeRetry, Labels
<1> QED BY <1>1, <1>2 DEF CommandFails

(* The pause after a slot gives up the slot's own permit and no other.     *)
LEMMA HoldingAfterSlot ==
  ASSUME TypeInv, NEW p \in Processes, pc[p] \in {"execute", "inflight"},
         PauseAfterSlot(p)
  PROVE  HoldingKept
<1> SUFFICES ASSUME NEW q \in Processes, NEW w \in Minutes, NEW k \in 1 .. MaxRPM,
                    Holds(q, w, k)'
             PROVE  Holds(q, w, k)
  BY DEF HoldingKept
<1>1. /\ pc' = [pc EXCEPT ![p] = "pause"] /\ batch' = batch /\ position' = position
      /\ pc \in [Processes -> Labels]
  BY DEF PauseAfterSlot, TypeInv, TypeOK
<1>2. CASE q # p
  BY <1>1, <1>2 DEF Holds
<1>3. CASE q = p
  <2>1. w = batch[p].window /\ k > batch[p].first + position[p]
        /\ k <= batch[p].first + batch[p].size
    BY <1>1, <1>3 DEF Holds
  <2>2. batch[p].first \in Nat /\ position[p] \in Nat
    BY ConstantFacts DEF TypeInv, TypeOK, BatchType
  <2>3. k > batch[p].first + (position[p] - 1)
    BY <2>1, <2>2
  <2> QED BY <1>3, <2>1, <2>3 DEF Holds
<1> QED BY <1>2, <1>3

LEMMA HoldingAfterWake ==
  ASSUME TypeInv, NEW p \in Processes, Wake(p) PROVE HoldingKept
<1>1. CASE ~(position[p] < batch[p].size)
  <2>1. pc' = [pc EXCEPT ![p] = "schedule"]
        /\ batch' = [batch EXCEPT ![p] = NoBatch]
        /\ position' = [position EXCEPT ![p] = 0]
    BY <1>1 DEF Wake
  <2> QED BY <2>1, HoldingDropped DEF Labels
<1>2. CASE position[p] < batch[p].size
  <2> SUFFICES ASSUME NEW q \in Processes, NEW w \in Minutes, NEW k \in 1 .. MaxRPM,
                      Holds(q, w, k)'
               PROVE  Holds(q, w, k)
    BY DEF HoldingKept
  <2>1. /\ pc' = [pc EXCEPT ![p] = "execute"] /\ batch' = batch
        /\ position' = [position EXCEPT ![p] = @ + 1] /\ pc[p] = "pause"
        /\ pc \in [Processes -> Labels] /\ position \in [Processes -> 0 .. MaxRPM]
    BY <1>2 DEF Wake, TypeInv, TypeOK
  <2>2. CASE q # p
    BY <2>1, <2>2 DEF Holds
  <2>3. CASE q = p
    <3>1. w = batch[p].window /\ k > batch[p].first + (position[p] + 1 - 1)
          /\ k <= batch[p].first + batch[p].size
      BY <2>1, <2>3 DEF Holds
    <3>2. position[p] + 1 - 1 = position[p]
      BY <2>1, ConstantFacts
    <3> QED BY <2>1, <2>3, <3>1, <3>2 DEF Holds
  <2> QED BY <2>2, <2>3
<1> QED BY <1>1, <1>2

(* TryAcquire: the permits of the new batch lie above everything issued.   *)
LEMMA TryAcquirePermits ==
  ASSUME PermitInv, TypeInv', NEW p \in Processes, TryAcquire(p) PROVE PermitInv'
<1>1. /\ now' = now /\ sent' = sent /\ pc[p] = "reserve" /\ TypeInv
      /\ limiter' = [limiter EXCEPT ![LimiterOf(p)] = Decision(p).key]
  BY DEF TryAcquire, PermitInv
<1>2. IssuedKept
  BY <1>1, IssuedByCall
<1>3. CASE Decision(p).batch.size = 0
  <2>1. HoldingKept
    BY <1>1, <1>3, HoldingDropped DEF TryAcquire, PauseBeforeRetry, Labels
  <2> QED BY <1>1, <1>2, <2>1, QuietStep
<1>4. CASE Decision(p).batch.size # 0
  <2> DEFINE l == LimiterOf(p)
             first == Decision(p).batch.first
             size == Decision(p).batch.size
  <2>1. /\ pc' = [pc EXCEPT ![p] = "execute"]
        /\ batch' = [batch EXCEPT ![p] = Decision(p).batch]
        /\ position' = [position EXCEPT ![p] = 1]
        /\ pc \in [Processes -> Labels] /\ batch \in [Processes -> BatchType]
        /\ position \in [Processes -> 0 .. MaxRPM]
    BY <1>1, <1>4 DEF TryAcquire, TypeInv, TypeOK
  <2>2. /\ first \in Nat /\ size \in Nat /\ l \in Limiters
        /\ Decision(p).batch.window = Window /\ limiter'[l].window = Window
        /\ limiter'[l].count = first + size
        /\ limiter[l].window = Window => first = limiter[l].count
    <3>1. /\ l \in Limiters /\ Decision(p).batch \in BatchType
          /\ Decision(p).batch.window = Window /\ Decision(p).key.window = Window
          /\ Decision(p).key.count = first + size
          /\ limiter[l].window = Window => first = limiter[l].count
      BY <1>1, DecisionFacts
    <3>2. limiter'[l] = Decision(p).key
      BY <1>1, <3>1 DEF TypeInv, TypeOK
    <3>3. first \in Nat /\ size \in Nat
      BY <3>1, ConstantFacts DEF BatchType
    <3> QED BY <3>1, <3>2, <3>3
  <2> HIDE DEF first, size
  <2>3. Window' = Window
    BY <1>1 DEF Window
  <2>4. ASSUME NEW q \in Processes, q # p, NEW w \in Minutes, NEW k \in 1 .. MaxRPM
        PROVE  Holds(q, w, k)' <=> Holds(q, w, k)
    BY <2>1, <2>4 DEF Holds
  <2>5. ASSUME NEW w \in Minutes, NEW k \in 1 .. MaxRPM, Holds(p, w, k)'
        PROVE  w = Window /\ k > first /\ k <= first + size
    <3>1. batch'[p] = Decision(p).batch /\ position'[p] = 1 /\ pc'[p] = "execute"
      BY <2>1
    <3>2. /\ w = Decision(p).batch.window
          /\ k > Decision(p).batch.first + (1 - 1)
          /\ k <= Decision(p).batch.first + Decision(p).batch.size
      BY <2>5, <3>1 DEF Holds
    <3> QED BY <3>2, <2>2 DEF first, size
  <2>6. ASSUME NEW w \in Minutes, NEW k \in 1 .. MaxRPM, Holds(p, w, k)'
        PROVE  ~Issued(l, w, k)
    BY <2>2, <2>5, <2>6, ConstantFacts DEF Issued
  <2>7. \A s \in sent : s.window \in Minutes /\ s.slot \in 1 .. MaxRPM /\ s.by \in Processes
    BY DEF PermitInv, TypeInv, TypeOK, Request
  <2>8. \A q \in Processes : LimiterOf(q) \in Limiters
    BY DEF Limiters
  <2>9. PermitsIssued'
    <3>1. ASSUME NEW q \in Processes, NEW w \in Minutes, NEW k \in 1 .. MaxRPM,
                 Holds(q, w, k)'
          PROVE  Issued(LimiterOf(q), w, k)'
      <4>1. CASE q = p
        <5>1. w = Window /\ k <= first + size
          BY <3>1, <4>1, <2>5
        <5>2. w <= Window
          BY <5>1, WindowFacts DEF PermitInv, TypeInv, TypeOK
        <5> QED BY <4>1, <5>1, <5>2, <2>2, <2>3 DEF Issued
      <4>2. CASE q # p
        BY <3>1, <4>2, <2>4, <2>8, <1>2 DEF PermitInv, PermitsIssued, IssuedKept
      <4> QED BY <4>1, <4>2
    <3>2. ASSUME NEW s \in sent PROVE Issued(LimiterOf(s.by), s.window, s.slot)'
      BY <1>2, <2>7, <2>8 DEF PermitInv, PermitsIssued, IssuedKept
    <3> QED BY <3>1, <3>2, <1>1 DEF PermitsIssued
  <2>10. PermitsExclusive'
    <3> SUFFICES ASSUME NEW q \in Processes, NEW r \in Processes,
                        LimiterOf(q) = LimiterOf(r)
                 PROVE  /\ \A w \in Minutes, k \in 1 .. MaxRPM :
                             Holds(q, w, k)' /\ Holds(r, w, k)' => q = r
                        /\ \A s \in sent : s.by = r => ~Holds(q, s.window, s.slot)'
                        /\ \A s, t \in sent :
                             (s.by = q /\ t.by = r /\ s.window = t.window
                                /\ s.slot = t.slot) => s = t
      BY <1>1 DEF PermitsExclusive
    <3>1. ASSUME NEW w \in Minutes, NEW k \in 1 .. MaxRPM,
                 Holds(q, w, k)', Holds(r, w, k)', q # r
          PROVE  FALSE
      <4>1. CASE q = p
        BY <3>1, <4>1, <2>4, <2>6 DEF PermitInv, PermitsIssued
      <4>2. CASE r = p
        BY <3>1, <4>2, <2>4, <2>6 DEF PermitInv, PermitsIssued
      <4>3. CASE q # p /\ r # p
        BY <3>1, <4>3, <2>4 DEF PermitInv, PermitsExclusive
      <4> QED BY <4>1, <4>2, <4>3
    <3>2. ASSUME NEW s \in sent, s.by = r, Holds(q, s.window, s.slot)' PROVE FALSE
      <4>1. CASE q = p
        BY <3>2, <4>1, <2>6, <2>7 DEF PermitInv, PermitsIssued
      <4>2. CASE q # p
        BY <3>2, <4>2, <2>4, <2>7 DEF PermitInv, PermitsExclusive
      <4> QED BY <4>1, <4>2
    <3>3. \A s, t \in sent : (s.by = q /\ t.by = r /\ s.window = t.window
                               /\ s.slot = t.slot) => s = t
      BY DEF PermitInv, PermitsExclusive
    <3> QED BY <3>1, <3>2, <3>3
  <2> QED BY <2>9, <2>10 DEF PermitInv
<1> QED BY <1>3, <1>4
(* Send: the permit that pays for the request leaves the sender's hand.    *)
LEMMA SendPermits ==
  ASSUME PermitInv, TypeInv', NEW p \in Processes, Send(p) PROVE PermitInv'
<1> DEFINE slot == batch[p].first + position[p]
           req == [window |-> batch[p].window, slot |-> slot, by |-> p, at |-> Window]
<1>1. /\ now' = now /\ limiter' = limiter /\ batch' = batch /\ position' = position
      /\ pc' = [pc EXCEPT ![p] = "inflight"] /\ pc[p] = "execute"
      /\ sent' = sent \cup {req}
      /\ pc \in [Processes -> Labels]
  BY DEF Send, redis, loop, PermitInv, TypeInv, TypeOK
<1>2. /\ batch[p].first \in Nat /\ position[p] \in Nat /\ position[p] >= 1
      /\ batch[p].size \in Nat /\ position[p] <= batch[p].size
      /\ batch[p].first + batch[p].size <= MaxRPM /\ batch[p].window \in Minutes
  BY <1>1, ConstantFacts DEF PermitInv, TypeInv, TypeOK, LoopShape, BatchType
<1>3. slot \in 1 .. MaxRPM /\ Holds(p, batch[p].window, slot)
  <2>1. slot \in 1 .. MaxRPM /\ slot > batch[p].first + (position[p] - 1)
        /\ slot <= batch[p].first + batch[p].size
    BY <1>2, ConstantFacts
  <2> QED BY <1>1, <2>1 DEF Holds
<1>4. ASSUME NEW q \in Processes, NEW w \in Minutes, NEW k \in 1 .. MaxRPM,
             Holds(q, w, k)'
      PROVE  Holds(q, w, k) /\ ~(q = p /\ w = batch[p].window /\ k = slot)
  <2>1. CASE q # p
    BY <1>1, <1>4, <2>1 DEF Holds
  <2>2. CASE q = p
    <3>1. /\ w = batch[p].window /\ k > batch[p].first + position[p]
          /\ k <= batch[p].first + batch[p].size
      BY <1>1, <1>4, <2>2 DEF Holds
    <3>2. k > batch[p].first + (position[p] - 1) /\ k # slot
      BY <3>1, <1>2
    <3> QED BY <2>2, <3>1, <3>2, <1>1 DEF Holds
  <2> QED BY <2>1, <2>2
<1>5. req.window = batch[p].window /\ req.slot = slot /\ req.by = p
  OBVIOUS
<1> HIDE DEF slot, req
<1>6. \A s \in sent : s.window \in Minutes /\ s.slot \in 1 .. MaxRPM /\ s.by \in Processes
  BY DEF PermitInv, TypeInv, TypeOK, Request
<1>7. PermitsIssued'
  <2>1. \A l, w, k : Issued(l, w, k)' <=> Issued(l, w, k)
    BY <1>1 DEF Issued, Window
  <2>2. ASSUME NEW q \in Processes, NEW w \in Minutes, NEW k \in 1 .. MaxRPM,
               Holds(q, w, k)'
        PROVE  Issued(LimiterOf(q), w, k)'
    BY <2>1, <2>2, <1>4 DEF PermitInv, PermitsIssued
  <2>3. ASSUME NEW s \in sent' PROVE Issued(LimiterOf(s.by), s.window, s.slot)'
    <3>1. CASE s \in sent
      BY <3>1, <2>1 DEF PermitInv, PermitsIssued
    <3>2. CASE s = req
      BY <3>2, <2>1, <1>2, <1>3, <1>5 DEF PermitInv, PermitsIssued
    <3> QED BY <3>1, <3>2, <1>1
  <2> QED BY <2>2, <2>3 DEF PermitsIssued
<1>8. PermitsExclusive'
  <2> SUFFICES ASSUME NEW q \in Processes, NEW r \in Processes,
                      LimiterOf(q) = LimiterOf(r)
               PROVE  /\ \A w \in Minutes, k \in 1 .. MaxRPM :
                           Holds(q, w, k)' /\ Holds(r, w, k)' => q = r
                      /\ \A s \in sent' : s.by = r => ~Holds(q, s.window, s.slot)'
                      /\ \A s, t \in sent' :
                           (s.by = q /\ t.by = r /\ s.window = t.window
                              /\ s.slot = t.slot) => s = t
    BY DEF PermitsExclusive
  <2>1. \A w \in Minutes, k \in 1 .. MaxRPM : Holds(q, w, k)' /\ Holds(r, w, k)' => q = r
    BY <1>4 DEF PermitInv, PermitsExclusive
  <2>2. ASSUME NEW s \in sent', s.by = r, Holds(q, s.window, s.slot)' PROVE FALSE
    <3>1. CASE s \in sent
      BY <2>2, <3>1, <1>4, <1>6 DEF PermitInv, PermitsExclusive
    <3>2. CASE s = req
      <4>1. r = p /\ s.window = batch[p].window /\ s.slot = slot
        BY <3>2, <2>2, <1>5
      <4>2. Holds(q, batch[p].window, slot) /\ q # p
        BY <4>1, <2>2, <1>2, <1>3, <1>4
      <4> QED BY <4>1, <4>2, <1>2, <1>3 DEF PermitInv, PermitsExclusive
    <3> QED BY <3>1, <3>2, <1>1
  <2>3. ASSUME NEW s \in sent', NEW t \in sent', s.by = q, t.by = r,
               s.window = t.window, s.slot = t.slot
        PROVE  s = t
    <3>1. CASE s \in sent /\ t \in sent
      BY <2>3, <3>1 DEF PermitInv, PermitsExclusive
    <3>2. CASE s = req /\ t \in sent
      BY <2>3, <3>2, <1>3, <1>5 DEF PermitInv, PermitsExclusive
    <3>3. CASE s \in sent /\ t = req
      BY <2>3, <3>3, <1>3, <1>5 DEF PermitInv, PermitsExclusive
    <3> QED BY <3>1, <3>2, <3>3, <1>1
  <2> QED BY <2>1, <2>2, <2>3
<1> QED BY <1>7, <1>8 DEF PermitInv

LEMMA PermitInit == Init => PermitInv
<1> SUFFICES ASSUME Init PROVE PermitInv
  OBVIOUS
<1>1. TypeInv
  BY TypeInit
<1>2. \A p \in Processes : \A w, k : ~Holds(p, w, k)
  BY DEF Init, Holds
<1>3. sent = {}
  BY DEF Init
<1>4. PermitsIssued
  BY <1>2, <1>3 DEF PermitsIssued
<1>5. PermitsExclusive
  BY <1>2, <1>3 DEF PermitsExclusive
<1> QED BY <1>1, <1>4, <1>5 DEF PermitInv

LEMMA PermitStep == PermitInv /\ [Next]_vars => PermitInv'
<1> SUFFICES ASSUME PermitInv, [Next]_vars PROVE PermitInv'
  OBVIOUS
<1>1. TypeInv /\ TypeInv'
  BY TypeStep DEF PermitInv
<1>2. ASSUME NEW p \in Processes, Start(p) PROVE PermitInv'
  <2>1. HoldingKept
    BY <1>1, <1>2, HoldingDropped DEF Start, Labels, loop
  <2> QED BY <1>1, <1>2, <2>1, IssuedUnchanged, QuietStep DEF Start, redis
<1>3. ASSUME NEW p \in Processes, ReadFixed(p) \/ ReadUniform(p) PROVE PermitInv'
  <2>1. HoldingKept
    BY <1>1, <1>3, HoldingDropped DEF ReadFixed, ReadUniform, UseRPM, Labels
  <2> QED BY <1>1, <1>3, <2>1, IssuedUnchanged, QuietStep
          DEF ReadFixed, ReadUniform, redis
<1>4. ASSUME NEW p \in Processes, ScheduleFails(p) PROVE PermitInv'
  <2>1. HoldingKept
    BY <1>1, <1>4, HoldingAfterFailure DEF ScheduleFails
  <2> QED BY <1>1, <1>4, <2>1, IssuedUnchanged, QuietStep DEF ScheduleFails
<1>5. ASSUME NEW p \in Processes, TryAcquire(p) PROVE PermitInv'
  BY <1>1, <1>5, TryAcquirePermits
<1>6. ASSUME NEW p \in Processes, AcquireFails(p) PROVE PermitInv'
  <2>1. HoldingKept
    BY <1>1, <1>6, HoldingAfterFailure DEF AcquireFails
  <2>2. IssuedKept
    BY <1>1, <1>6, IssuedUnchanged, IssuedByCall DEF AcquireFails
  <2> QED BY <1>1, <1>6, <2>1, <2>2, QuietStep DEF AcquireFails
<1>7. ASSUME NEW p \in Processes, AcquireCancelled(p) PROVE PermitInv'
  <2>1. HoldingKept
    BY <1>1, <1>7, HoldingDropped DEF AcquireCancelled, PauseBeforeRetry, Labels
  <2> QED BY <1>1, <1>7, <2>1, IssuedUnchanged, QuietStep DEF AcquireCancelled, redis
<1>8. ASSUME NEW p \in Processes, Send(p) PROVE PermitInv'
  BY <1>1, <1>8, SendPermits
<1>9. ASSUME NEW p \in Processes, SkipSlot(p) \/ Return(p) PROVE PermitInv'
  <2>1. PauseAfterSlot(p) /\ pc[p] \in {"execute", "inflight"}
    BY <1>9 DEF SkipSlot, Return
  <2>2. HoldingKept
    BY <1>1, <2>1, HoldingAfterSlot
  <2> QED BY <1>1, <2>1, <2>2, IssuedUnchanged, QuietStep DEF PauseAfterSlot, redis
<1>10. ASSUME NEW p \in Processes, Wake(p) PROVE PermitInv'
  <2>1. HoldingKept
    BY <1>1, <1>10, HoldingAfterWake
  <2> QED BY <1>1, <1>10, <2>1, IssuedUnchanged, QuietStep DEF Wake, redis
<1>11. ASSUME NEW p \in Processes, ReturnFromRun(p) \/ Crash(p) PROVE PermitInv'
  <2>1. End(p)
    BY <1>11 DEF ReturnFromRun, Crash
  <2>2. HoldingKept
    BY <1>1, <2>1, HoldingDropped DEF End, Labels
  <2> QED BY <1>1, <2>1, <2>2, IssuedUnchanged, QuietStep DEF End, redis
<1>12. ASSUME NEW p \in Processes, Shutdown(p) PROVE PermitInv'
  <2>1. HoldingKept
    BY <1>12, HoldingUnchanged DEF Shutdown, loop
  <2> QED BY <1>1, <1>12, <2>1, IssuedUnchanged, QuietStep DEF Shutdown, redis
<1>13. CASE Tick
  <2>1. HoldingKept
    BY <1>13, HoldingUnchanged DEF Tick, loop
  <2> QED BY <1>1, <1>13, <2>1, IssuedTick, QuietStep DEF Tick
<1>14. CASE UNCHANGED vars
  <2>1. HoldingKept /\ IssuedKept
    BY <1>14, HoldingUnchanged, IssuedUnchanged DEF vars
  <2> QED BY <1>1, <1>14, <2>1, QuietStep DEF vars
<1> QED
  BY <1>2, <1>3, <1>4, <1>5, <1>6, <1>7, <1>8, <1>9, <1>10, <1>11, <1>12, <1>13,
     <1>14 DEF Next, Step

LEMMA PermitInvariant == Spec => []PermitInv
BY PermitInit, PermitStep, PTL DEF Spec

(* No permit is ever in two hands or spent twice, for any number of        *)
(* processes: the atomic script (acquire_rate_limit.lua) and the loop of   *)
(* scheduler.go:130-143 account for every request.                         *)
THEOREM PermitsAreExclusive == Spec => []PermitsExclusive
<1>1. PermitInv => PermitsExclusive
  BY DEF PermitInv
<1> QED BY <1>1, PermitInvariant, PTL

(* The requests paid for by one window of one limiter never exceed MaxRPM: *)
(* they stand on distinct permits between 1 and MaxRPM.                    *)
THEOREM BudgetHolds == Spec => []WindowBudget
<1>1. PermitInv => WindowBudget
  <2> SUFFICES ASSUME PermitInv, NEW l \in Limiters, NEW w \in Minutes
               PROVE  Cardinality({s \in sent : LimiterOf(s.by) = l /\ s.window = w})
                        <= MaxRPM
    BY DEF WindowBudget
  <2> DEFINE S == {s \in sent : LimiterOf(s.by) = l /\ s.window = w}
             f == [s \in S |-> s.slot]
  <2>1. \A s \in S : s.slot \in 1 .. MaxRPM /\ s.by \in Processes
    BY DEF PermitInv, TypeInv, TypeOK, Request
  <2>2. ASSUME NEW s \in S, NEW t \in S, s.slot = t.slot PROVE s = t
    BY <2>1, <2>2 DEF PermitInv, PermitsExclusive
  <2>3. f \in [S -> 1 .. MaxRPM]
    BY <2>1
  <2>4. \A s, t \in S : f[s] = f[t] => s = t
    BY <2>2
  <2>5. f \in Injection(S, 1 .. MaxRPM)
    BY <2>3, <2>4 DEF Injection, IsInjective
  <2>6. IsFiniteSet(1 .. MaxRPM) /\ Cardinality(1 .. MaxRPM) = MaxRPM
    BY FS_Interval, ConstantFacts
  <2> HIDE DEF S, f
  <2>7. Cardinality(S) <= Cardinality(1 .. MaxRPM)
    BY <2>5, <2>6, FS_Injection
  <2> QED BY <2>6, <2>7 DEF S
<1> QED BY <1>1, PermitInvariant, PTL
----------------------------------------------------------------------------
(* A value read in the schedule window in force is the one still stored.   *)
ReadShape ==
  \A p \in Processes : readIn[p] # None =>
    /\ readIn[p] <= ScheduleWindow
    /\ Schedule = "fixed" => rpm[p] = MinRPM
    /\ (Schedule = "uniform" /\ readIn[p] = ScheduleWindow) =>
         schedule.window = ScheduleWindow /\ schedule.rpm = rpm[p]

RPMInv == TypeInv /\ ReadShape /\ SameRPMInWindow

(* A step that reads no RPM and leaves the selected value of the window in *)
(* force alone.                                                            *)
LEMMA RPMQuiet ==
  ASSUME RPMInv, TypeInv', now' = now,
         schedule.window = ScheduleWindow =>
           schedule'.window = ScheduleWindow /\ schedule'.rpm = schedule.rpm,
         \A p \in Processes :
           readIn'[p] = None \/ (readIn'[p] = readIn[p] /\ rpm'[p] = rpm[p])
  PROVE  RPMInv'
<1>1. ScheduleWindow' = ScheduleWindow
  BY DEF ScheduleWindow
<1>2. ReadShape'
  BY <1>1 DEF RPMInv, ReadShape
<1>3. SameRPMInWindow'
  BY DEF RPMInv, SameRPMInWindow
<1> QED BY <1>2, <1>3 DEF RPMInv

(* A read: the script hands out what is stored, or stores what it returns. *)
LEMMA RPMRead ==
  ASSUME RPMInv, TypeInv', now' = now, NEW p \in Processes, NEW r \in MinRPM .. MaxRPM,
         rpm' = [rpm EXCEPT ![p] = r], readIn' = [readIn EXCEPT ![p] = ScheduleWindow],
         Schedule = "fixed" => r = MinRPM,
         Schedule = "uniform" =>
           /\ schedule'.window = ScheduleWindow /\ schedule'.rpm = r
           /\ schedule.window = ScheduleWindow => r = schedule.rpm
  PROVE  RPMInv'
<1>1. ScheduleWindow' = ScheduleWindow
  BY DEF ScheduleWindow
<1>2. rpm \in [Processes -> 0 .. MaxRPM] /\ readIn \in [Processes -> MaybeMinute]
  BY DEF RPMInv, TypeInv, TypeOK
<1>3. ScheduleWindow \in Nat
  BY WindowFacts DEF RPMInv, TypeInv, TypeOK
<1>4. \A q \in Processes :
        \/ q = p /\ readIn'[q] = ScheduleWindow /\ rpm'[q] = r
        \/ q # p /\ readIn'[q] = readIn[q] /\ rpm'[q] = rpm[q]
  BY <1>2
<1>5. ReadShape'
  BY <1>1, <1>3, <1>4 DEF RPMInv, ReadShape
<1>6. \A q \in Processes : readIn[q] # None /\ readIn[q] = ScheduleWindow => rpm[q] = r
  <2>1. Schedule \in {"fixed", "uniform"}
    BY RateAssumption
  <2> QED BY <2>1 DEF RPMInv, ReadShape
<1>7. SameRPMInWindow'
  BY <1>3, <1>4, <1>6 DEF RPMInv, SameRPMInWindow, None
<1> QED BY <1>5, <1>7 DEF RPMInv

LEMMA RPMStep == RPMInv /\ [Next]_vars => RPMInv'
<1> SUFFICES ASSUME RPMInv, [Next]_vars PROVE RPMInv'
  OBVIOUS
<1>1. TypeInv /\ TypeInv'
  BY TypeStep DEF RPMInv
<1>2. ASSUME NEW p \in Processes, ReadFixed(p) PROVE RPMInv'
  <2>1. MinRPM \in MinRPM .. MaxRPM
    BY ConstantFacts
  <2> QED BY <1>1, <1>2, <2>1, RPMRead DEF ReadFixed, UseRPM
<1>3. ASSUME NEW p \in Processes, ReadUniform(p) PROVE RPMInv'
  <2>1. PICK c \in MinRPM .. MaxRPM :
          schedule' = Select(schedule, c) /\ UseRPM(p, Select(schedule, c).rpm)
    BY <1>3 DEF ReadUniform
  <2>2. /\ schedule'.window = ScheduleWindow /\ schedule'.rpm \in MinRPM .. MaxRPM
        /\ schedule.window = ScheduleWindow => schedule'.rpm = schedule.rpm
    BY <1>1, <2>1, SelectFacts DEF TypeInv, TypeOK
  <2>3. now' = now /\ Schedule = "uniform"
        /\ rpm' = [rpm EXCEPT ![p] = schedule'.rpm]
        /\ readIn' = [readIn EXCEPT ![p] = ScheduleWindow]
    BY <1>3, <2>1 DEF ReadUniform, UseRPM
  <2> QED BY <1>1, <2>2, <2>3, RPMRead
<1>4. ASSUME NEW p \in Processes, ScheduleFails(p) PROVE RPMInv'
  <2>1. schedule.window = ScheduleWindow =>
          schedule'.window = ScheduleWindow /\ schedule'.rpm = schedule.rpm
    BY <1>1, <1>4, SelectFacts DEF ScheduleFails, TypeInv, TypeOK
  <2> QED BY <1>1, <1>4, <2>1, RPMQuiet DEF ScheduleFails
<1>5. ASSUME NEW p \in Processes,
             \/ Start(p) \/ TryAcquire(p) \/ AcquireCancelled(p) \/ Send(p)
             \/ SkipSlot(p) \/ Return(p) \/ Wake(p) \/ AcquireFails(p) \/ Shutdown(p)
      PROVE  RPMInv'
  <2>1. UNCHANGED <<now, schedule, rpm, readIn>>
    BY <1>5 DEF Start, TryAcquire, AcquireCancelled, Send, SkipSlot, Return,
                PauseAfterSlot, Wake, AcquireFails, Shutdown, redis, loop
  <2> QED BY <1>1, <2>1, RPMQuiet
<1>6. ASSUME NEW p \in Processes, ReturnFromRun(p) \/ Crash(p) PROVE RPMInv'
  <2>1. End(p)
    BY <1>6 DEF ReturnFromRun, Crash
  <2>2. now' = now /\ schedule' = schedule
    BY <2>1 DEF End, redis
  <2>3. \A q \in Processes :
          readIn'[q] = None \/ (readIn'[q] = readIn[q] /\ rpm'[q] = rpm[q])
    <3>1. rpm \in [Processes -> 0 .. MaxRPM] /\ readIn \in [Processes -> MaybeMinute]
      BY <1>1 DEF TypeInv, TypeOK
    <3>2. rpm' = [rpm EXCEPT ![p] = 0] /\ readIn' = [readIn EXCEPT ![p] = None]
      BY <2>1 DEF End
    <3> QED BY <3>1, <3>2
  <2> QED BY <1>1, <2>2, <2>3, RPMQuiet
<1>7. CASE Tick
  <2>1. UNCHANGED <<schedule, rpm, readIn>>
    BY <1>7 DEF Tick, redis, loop
  <2>2. /\ ScheduleWindow \in Nat /\ ScheduleWindow' \in Nat
        /\ ScheduleWindow <= ScheduleWindow'
    BY <1>1, <1>7, TickFacts
  <2>3. \A p \in Processes : readIn[p] # None => readIn[p] \in Nat
    BY <1>1, MinutesAreNat DEF TypeInv, TypeOK, MaybeMinute
  <2>4. ReadShape'
    <3> SUFFICES ASSUME NEW p \in Processes, readIn[p] # None
                 PROVE  /\ readIn[p] <= ScheduleWindow'
                        /\ Schedule = "fixed" => rpm[p] = MinRPM
                        /\ (Schedule = "uniform" /\ readIn[p] = ScheduleWindow') =>
                             schedule.window = ScheduleWindow' /\ schedule.rpm = rpm[p]
      BY <2>1 DEF ReadShape
    <3>1. /\ readIn[p] <= ScheduleWindow
          /\ Schedule = "fixed" => rpm[p] = MinRPM
          /\ (Schedule = "uniform" /\ readIn[p] = ScheduleWindow) =>
               schedule.window = ScheduleWindow /\ schedule.rpm = rpm[p]
      BY DEF RPMInv, ReadShape
    <3>2. readIn[p] <= ScheduleWindow'
          /\ (readIn[p] = ScheduleWindow' => ScheduleWindow' = ScheduleWindow)
      BY <2>2, <2>3, <3>1
    <3> QED BY <3>1, <3>2
  <2>5. SameRPMInWindow'
    BY <2>1 DEF RPMInv, SameRPMInWindow
  <2> QED BY <1>1, <2>4, <2>5 DEF RPMInv
<1>8. CASE UNCHANGED vars
  BY <1>1, <1>8, RPMQuiet DEF vars
<1> QED
  BY <1>2, <1>3, <1>4, <1>5, <1>6, <1>7, <1>8 DEF Next, Step

(* All replicas that read the RPM in one schedule window use the same      *)
(* value (select_uniform_window.lua), whatever they propose and however    *)
(* replies are lost; the key's expiry never makes room for a second value. *)
THEOREM ReplicasAgreeOnRPM == Spec => []SameRPMInWindow
<1>1. Init => RPMInv
  BY TypeInit DEF Init, RPMInv, ReadShape, SameRPMInWindow
<1>2. RPMInv => SameRPMInWindow
  BY DEF RPMInv
<1> QED BY <1>1, <1>2, RPMStep, PTL DEF Spec
=============================================================================
