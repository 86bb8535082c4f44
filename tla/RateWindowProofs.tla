-------------------------- MODULE RateWindowProofs --------------------------
(***************************************************************************)
(* Proofs about the windows of RateBudget, for any number of processes:    *)
(* an exhausted window is waited out, a process is granted no more than    *)
(* the RPM it has read, and what it carries from one minute into the next  *)
(* is one batch.                                                           *)
(***************************************************************************)
EXTENDS RateBudgetProofs

-----------------------------------------------------------------------------
(* A step of one process                                                   *)

ProcessStep(p) ==
  \/ Start(p) \/ Step(p) \/ ScheduleFails(p) \/ AcquireFails(p)
  \/ Shutdown(p) \/ Crash(p)

(* Nothing that another process keeps in its memory changes.               *)
Apart(p) ==
  \A q \in Processes : q # p =>
    /\ pc'[q] = pc[q] /\ rpm'[q] = rpm[q] /\ want'[q] = want[q]
    /\ batch'[q] = batch[q] /\ position'[q] = position[q] /\ wake'[q] = wake[q]
    /\ readIn'[q] = readIn[q] /\ shortIn'[q] = shortIn[q]

LEMMA StepsApart ==
  ASSUME TypeInv, NEW p \in Processes, ProcessStep(p)
  PROVE  now' = now /\ Window' = Window /\ ScheduleWindow' = ScheduleWindow /\ Apart(p)
<1> SUFFICES now' = now /\ Apart(p)
  BY DEF Window, ScheduleWindow
<1> USE DEF Apart
<1>0. /\ pc \in [Processes -> Labels] /\ rpm \in [Processes -> 0 .. MaxRPM]
      /\ want \in [Processes -> 0 .. MaxRPM] /\ batch \in [Processes -> BatchType]
      /\ position \in [Processes -> 0 .. MaxRPM] /\ wake \in [Processes -> Nat]
      /\ readIn \in [Processes -> MaybeMinute] /\ shortIn \in [Processes -> MaybeMinute]
  BY DEF TypeInv, TypeOK
<1>1. CASE Start(p)
  BY <1>0, <1>1 DEF Start, loop
<1>2. CASE ReadFixed(p)
  BY <1>0, <1>2 DEF ReadFixed, UseRPM
<1>3. CASE ReadUniform(p)
  BY <1>0, <1>3 DEF ReadUniform, UseRPM
<1>4. CASE TryAcquire(p)
  <2>1. CASE Decision(p).batch.size = 0
    BY <1>0, <1>4, <2>1 DEF TryAcquire, PauseBeforeRetry
  <2>2. CASE Decision(p).batch.size # 0
    BY <1>0, <1>4, <2>2 DEF TryAcquire
  <2> QED BY <2>1, <2>2
<1>5. CASE AcquireCancelled(p)
  BY <1>0, <1>5 DEF AcquireCancelled, PauseBeforeRetry
<1>6. CASE Send(p)
  BY <1>0, <1>6 DEF Send, loop
<1>7. CASE SkipSlot(p) \/ Return(p)
  BY <1>0, <1>7 DEF SkipSlot, Return, PauseAfterSlot
<1>8. CASE Wake(p)
  BY <1>0, <1>8 DEF Wake
<1>9. CASE ReturnFromRun(p) \/ Crash(p)
  BY <1>0, <1>9 DEF ReturnFromRun, Crash, End
<1>10. CASE ScheduleFails(p)
  BY <1>0, <1>10 DEF ScheduleFails, CommandFails, PauseBeforeRetry
<1>11. CASE AcquireFails(p)
  BY <1>0, <1>11 DEF AcquireFails, CommandFails, PauseBeforeRetry
<1>12. CASE Shutdown(p)
  BY <1>0, <1>12 DEF Shutdown, loop
<1> QED
  BY <1>1, <1>2, <1>3, <1>4, <1>5, <1>6, <1>7, <1>8, <1>9, <1>10, <1>11, <1>12
     DEF ProcessStep, Step

LEMMA NextSteps ==
  ASSUME Next PROVE Tick \/ \E p \in Processes : ProcessStep(p)
BY Zenon DEF Next, ProcessStep

-----------------------------------------------------------------------------
(* A spent window is waited out                                            *)

(* A process whose window's budget is spent is out of that window, or has  *)
(* a pause in front of it that ends with the window or later: the one it   *)
(* is in, or the one after the last slot of the batch in hand.             *)
InHand(p) ==
  pc[p] \in {"execute", "inflight"} \/ (pc[p] = "pause" /\ position[p] < batch[p].size)

WaitAt(p) ==
  \/ shortIn[p] < Window
  \/ InHand(p) /\ shortIn[p] + Minute <= now + batch[p].retryAfter
  \/ pc[p] = "pause" /\ ~InHand(p) /\ shortIn[p] + Minute <= wake[p]

WaitInv == TypeInv /\ \A p \in Processes : WaitAt(p)

LEMMA WaitTypes ==
  ASSUME TypeInv, NEW p \in Processes
  PROVE  /\ Window \in Nat /\ now \in Nat /\ Minute \in Nat \ {0}
         /\ now < Window + Minute /\ Window <= now
         /\ shortIn[p] \in Int /\ wake[p] \in Nat
         /\ batch[p].retryAfter \in Nat /\ batch[p].size \in Nat /\ position[p] \in Nat
         /\ position[p] <= batch[p].size
<1>1. /\ Window \in Nat /\ now \in Nat /\ Minute \in Nat \ {0}
      /\ now < Window + Minute /\ Window <= now
  BY WindowFacts, ConstantFacts DEF TypeInv, TypeOK
<1>2. shortIn[p] \in MaybeMinute /\ wake[p] \in Nat /\ batch[p] \in BatchType
      /\ position[p] \in 0 .. MaxRPM
  BY DEF TypeInv, TypeOK
<1>3. shortIn[p] \in Int
  <2>1. \A m \in Minutes : m \in Nat
    BY MinutesAreNat
  <2> QED BY <1>2, <2>1 DEF MaybeMinute, None
<1>4. batch[p].retryAfter \in Nat /\ batch[p].size \in Nat
  BY <1>1, <1>2, ConstantFacts DEF BatchType
<1>5. position[p] \in Nat
  BY <1>2, ConstantFacts
<1>6. position[p] <= batch[p].size
  BY DEF TypeInv, LoopShape
<1> QED BY <1>1, <1>2, <1>3, <1>4, <1>5, <1>6

(* Outside its batch and its pauses a process is past the window of its    *)
(* last short decision.                                                    *)
LEMMA WaitedOut ==
  ASSUME WaitInv, NEW p \in Processes, pc[p] \notin {"execute", "inflight", "pause"}
  PROVE  shortIn[p] < Window
BY DEF WaitInv, WaitAt, InHand

(* The limiter's answer: a short one is followed by a pause to the end of  *)
(* the window, at once or after its slots.                                 *)
LEMMA TryAcquireWaits ==
  ASSUME WaitInv, NEW p \in Processes, TryAcquire(p), TypeInv'
  PROVE  WaitAt(p)'
<1> DEFINE d == Decision(p).batch
<1>1. /\ pc[p] = "reserve" /\ now' = now
      /\ shortIn' = [shortIn EXCEPT ![p] = IF d.size < want[p] THEN Window ELSE @]
  BY DEF TryAcquire
<1>2. /\ d \in BatchType /\ d.size <= want[p]
      /\ d.size < want[p] => d.retryAfter = Window + Minute - now
  BY <1>1, DecisionFacts DEF WaitInv
<1>3. d.size \in Nat /\ want[p] \in Nat /\ want[p] >= 1
  BY <1>1, <1>2, ConstantFacts DEF WaitInv, TypeInv, TypeOK, LoopShape, BatchType
<1>4. Window \in Nat /\ now \in Nat /\ Minute \in Nat /\ now < Window + Minute
  BY WaitTypes DEF WaitInv
<1>5. Window' = Window
  BY <1>1 DEF Window
<1>6. /\ pc \in [Processes -> Labels] /\ batch \in [Processes -> BatchType]
      /\ position \in [Processes -> 0 .. MaxRPM] /\ wake \in [Processes -> Nat]
      /\ shortIn \in [Processes -> MaybeMinute]
  BY DEF WaitInv, TypeInv, TypeOK
<1>7. CASE d.size = want[p]
  <2>1. shortIn'[p] = shortIn[p]
    BY <1>1, <1>3, <1>6, <1>7
  <2>2. shortIn[p] < Window
    BY <1>1, WaitedOut
  <2> QED BY <1>5, <2>1, <2>2 DEF WaitAt
<1>8. CASE d.size < want[p] /\ d.size = 0
  <2>1. shortIn'[p] = Window /\ d.retryAfter = Window + Minute - now
    BY <1>1, <1>2, <1>6, <1>8
  <2>2. ~(d.retryAfter <= 0)
    BY <1>4, <2>1
  <2>3. PauseBeforeRetry(p, d.retryAfter)
    BY <1>8, <2>2 DEF TryAcquire
  <2>4. pc'[p] = "pause" /\ batch'[p] = NoBatch /\ position'[p] = 0
        /\ wake'[p] = now + d.retryAfter
    BY <1>6, <2>3 DEF PauseBeforeRetry
  <2>5. wake'[p] = Window + Minute
    BY <1>4, <2>1, <2>4
  <2>6. ~InHand(p)'
    BY <2>4, NoBatchHasType DEF InHand
  <2> QED BY <1>4, <2>1, <2>4, <2>5, <2>6 DEF WaitAt
<1>9. CASE d.size < want[p] /\ d.size # 0
  <2>1. shortIn'[p] = Window /\ d.retryAfter = Window + Minute - now
    BY <1>1, <1>2, <1>6, <1>9
  <2>2. pc'[p] = "execute" /\ batch'[p] = d
    BY <1>6, <1>9 DEF TryAcquire
  <2>3. shortIn'[p] + Minute <= now' + batch'[p].retryAfter
    BY <1>1, <1>4, <2>1, <2>2
  <2> QED BY <2>2, <2>3 DEF WaitAt, InHand
<1> QED BY <1>2, <1>3, <1>7, <1>8, <1>9

(* The last slot of a short batch pauses for what was left of the window   *)
(* when it was granted, and so beyond its end.                             *)
LEMMA PauseAfterSlotWaits ==
  ASSUME WaitInv, NEW p \in Processes, pc[p] \in {"execute", "inflight"},
         PauseAfterSlot(p), TypeInv'
  PROVE  WaitAt(p)'
<1>1. /\ now' = now /\ pc' = [pc EXCEPT ![p] = "pause"]
      /\ UNCHANGED <<batch, position, shortIn>>
  BY DEF PauseAfterSlot
<1>2. pc'[p] = "pause"
  BY <1>1 DEF WaitInv, TypeInv, TypeOK
<1>3. Window' = Window
  BY <1>1 DEF Window
<1>4. InHand(p)
  BY DEF InHand
<1> USE WaitTypes DEF WaitInv
<1>5. CASE shortIn[p] < Window
  BY <1>1, <1>3, <1>5 DEF WaitAt
<1>6. CASE shortIn[p] + Minute <= now + batch[p].retryAfter /\ position[p] < batch[p].size
  BY <1>1, <1>2, <1>6 DEF WaitAt, InHand
<1>7. CASE shortIn[p] + Minute <= now + batch[p].retryAfter
           /\ ~(position[p] < batch[p].size)
  <2>1. position[p] = batch[p].size
    BY <1>7
  <2>2. PICK d \in NextDelays(TrafficProfile, rpm[p], position[p], batch[p].size) :
          wake' = [wake EXCEPT ![p] = now + IF position[p] = batch[p].size
                                            THEN Greatest(d, batch[p].retryAfter) ELSE d]
    BY DEF PauseAfterSlot
  <2>3. wake'[p] = now + Greatest(d, batch[p].retryAfter)
    BY <2>1, <2>2 DEF TypeInv, TypeOK
  <2>4. d \in Nat
    <3>1. /\ batch[p].size >= 1 /\ rpm[p] \in 1 .. Minute
      BY ConstantFacts DEF TypeInv, TypeOK, LoopShape
    <3> QED BY <2>2, <3>1, ConstantFacts, NextDelaysPositive
  <2>5. wake'[p] >= now + batch[p].retryAfter
    BY <2>3, <2>4 DEF Greatest
  <2>6. shortIn'[p] + Minute <= wake'[p]
    <3>1. wake'[p] \in Nat
      BY DEF TypeInv, TypeOK
    <3>2. shortIn'[p] = shortIn[p]
      BY <1>1
    <3> QED BY <1>7, <2>5, <3>1, <3>2
  <2>7. ~InHand(p)'
    BY <1>1, <1>2, <1>7 DEF InHand
  <2> QED BY <1>2, <2>6, <2>7 DEF WaitAt
<1> QED BY <1>4, <1>5, <1>6, <1>7 DEF WaitAt

LEMMA WakeWaits ==
  ASSUME WaitInv, NEW p \in Processes, Wake(p), TypeInv'
  PROVE  WaitAt(p)'
<1>1. /\ now' = now /\ pc[p] = "pause" /\ now >= wake[p] /\ UNCHANGED shortIn
  BY DEF Wake
<1>2. Window' = Window
  BY <1>1 DEF Window
<1> USE WaitTypes DEF WaitInv
<1>3. CASE shortIn[p] < Window
  BY <1>1, <1>2, <1>3 DEF WaitAt
<1>4. CASE InHand(p) /\ shortIn[p] + Minute <= now + batch[p].retryAfter
  <2>1. position[p] < batch[p].size
    BY <1>1, <1>4 DEF InHand
  <2>2. pc'[p] = "execute" /\ batch' = batch
    BY <2>1 DEF Wake, TypeInv, TypeOK
  <2> QED BY <1>1, <1>4, <2>2 DEF WaitAt, InHand
<1>5. CASE shortIn[p] + Minute <= wake[p]
  <2>1. shortIn[p] < Window
    BY <1>1, <1>5
  <2> QED BY <1>1, <1>2, <2>1 DEF WaitAt
<1> QED BY <1>3, <1>4, <1>5 DEF WaitAt

LEMMA WaitStep == WaitInv /\ [Next]_vars => WaitInv'
<1> SUFFICES ASSUME WaitInv, [Next]_vars PROVE WaitInv'
  OBVIOUS
<1>1. TypeInv /\ TypeInv'
  BY TypeStep DEF WaitInv
<1>2. ASSUME NEW p \in Processes, ProcessStep(p) PROVE WaitInv'
  <2>1. now' = now /\ Window' = Window /\ Apart(p)
    BY <1>1, <1>2, StepsApart
  <2>2. ASSUME NEW q \in Processes, q # p PROVE WaitAt(q)'
    <3>1. WaitAt(q)
      BY DEF WaitInv
    <3> QED BY <2>1, <2>2, <3>1 DEF WaitAt, InHand, Apart
  <2>3. WaitAt(p)'
    <3>1. CASE Start(p) \/ ReadFixed(p) \/ ReadUniform(p) \/ AcquireCancelled(p)
               \/ ScheduleFails(p) \/ AcquireFails(p)
      <4>1. pc[p] \in {"absent", "schedule", "reserve"} /\ shortIn' = shortIn
        BY <3>1 DEF Start, ReadFixed, ReadUniform, AcquireCancelled, ScheduleFails,
                    AcquireFails, loop
      <4>2. shortIn[p] < Window
        BY <4>1, WaitedOut
      <4> QED BY <2>1, <4>1, <4>2 DEF WaitAt
    <3>2. CASE TryAcquire(p)
      BY <1>1, <3>2, TryAcquireWaits
    <3>3. CASE Send(p)
      <4>1. pc[p] = "execute" /\ UNCHANGED <<batch, shortIn>> /\ pc'[p] = "inflight"
        BY <1>1, <3>3 DEF Send, loop, TypeInv, TypeOK
      <4>2. shortIn[p] < Window \/ shortIn[p] + Minute <= now + batch[p].retryAfter
        BY <4>1 DEF WaitInv, WaitAt
      <4> QED BY <2>1, <4>1, <4>2 DEF WaitAt, InHand
    <3>4. CASE SkipSlot(p) \/ Return(p)
      BY <1>1, <3>4, PauseAfterSlotWaits DEF SkipSlot, Return
    <3>5. CASE Wake(p)
      BY <1>1, <3>5, WakeWaits
    <3>6. CASE ReturnFromRun(p) \/ Crash(p)
      <4>1. shortIn'[p] = None
        BY <1>1, <3>6 DEF ReturnFromRun, Crash, End, TypeInv, TypeOK
      <4>2. Window \in Nat
        BY <1>1, WaitTypes
      <4> QED BY <2>1, <4>1, <4>2 DEF WaitAt, None
    <3>7. CASE Shutdown(p)
      <4>1. UNCHANGED <<pc, batch, position, wake, shortIn>>
        BY <3>7 DEF Shutdown, loop
      <4> QED BY <2>1, <4>1 DEF WaitInv, WaitAt, InHand
    <3> QED BY <1>2, <3>1, <3>2, <3>3, <3>4, <3>5, <3>6, <3>7 DEF ProcessStep, Step
  <2> QED BY <1>1, <2>2, <2>3 DEF WaitInv
<1>3. CASE Tick
  <2>1. UNCHANGED <<pc, batch, position, wake, shortIn>> /\ now' = now + 1
    BY <1>3 DEF Tick, loop
  <2>2. Window \in Nat /\ Window' \in Nat /\ Window <= Window'
    BY <1>1, <1>3, TickFacts
  <2>3. ASSUME NEW q \in Processes PROVE WaitAt(q)'
    <3>1. WaitAt(q)
      BY DEF WaitInv
    <3>2. /\ now \in Nat /\ Minute \in Nat /\ shortIn[q] \in Int /\ wake[q] \in Nat
          /\ batch[q].retryAfter \in Nat
      BY <1>1, WaitTypes
    <3>3. InHand(q)' <=> InHand(q)
      BY <2>1 DEF InHand
    <3> QED BY <2>1, <2>2, <3>1, <3>2, <3>3 DEF WaitAt
  <2> QED BY <1>1, <2>3 DEF WaitInv
<1>4. CASE UNCHANGED vars
  <2>1. UNCHANGED <<now, pc, batch, position, wake, shortIn>>
    BY <1>4 DEF vars
  <2> QED BY <1>1, <2>1 DEF WaitInv, WaitAt, InHand, Window
<1> QED BY <1>2, <1>3, <1>4, NextSteps

(* A short decision keeps a process away from the limiter until the window *)
(* is over, whether or not it had permits to use first, and however far    *)
(* its slots and pauses took it.                                           *)
THEOREM SpentWindowIsWaitedOut == Spec => []ShortDecisionWaitsOut
<1>1. Init => WaitInv
  <2> SUFFICES ASSUME Init PROVE WaitInv
    OBVIOUS
  <2>1. TypeInv
    BY TypeInit
  <2>2. \A p \in Processes : shortIn[p] = None
    BY DEF Init
  <2>3. Window \in Nat
    BY <2>1, WindowFacts DEF TypeInv, TypeOK
  <2> QED BY <2>1, <2>2, <2>3 DEF WaitInv, WaitAt, None
<1>2. WaitInv => ShortDecisionWaitsOut
  BY WaitedOut DEF ShortDecisionWaitsOut
<1> QED BY <1>1, <1>2, WaitStep, PTL DEF Spec

-----------------------------------------------------------------------------
(* A grant is within the RPM that was read                                 *)

(* A batch in hand is within the RPM it was asked with, and an RPM that    *)
(* was read in the window of the stored value is that value.               *)
GrantAt(p) ==
  /\ pc[p] = "reserve" \/ batch[p].size > 0 => readIn[p] # None
  /\ batch[p].size > 0 => /\ pc[p] \in {"execute", "inflight", "pause"}
                          /\ batch[p].first + batch[p].size <= rpm[p]
  /\ readIn[p] # None /\ readIn[p] = schedule.window => rpm[p] = schedule.rpm

GrantInv ==
  /\ RPMInv
  /\ Schedule = "fixed" => schedule.window = None
  /\ \A p \in Processes : GrantAt(p)

(* acquire_rate_limit.lua and local.go grant nothing beyond the caller's   *)
(* RPM, whatever the counter was left at by callers with a larger one.     *)
LEMMA DecisionWithinRPM ==
  ASSUME TypeInv, NEW p \in Processes, pc[p] = "reserve", Decision(p).batch.size > 0
  PROVE  Decision(p).batch.first + Decision(p).batch.size <= rpm[p]
<1> DEFINE key == limiter[LimiterOf(p)]
           count == IF now < key.expires /\ key.window = Window THEN key.count ELSE 0
           granted == Least(want[p], Greatest(rpm[p] - count, 0))
<1>1. Decision(p).batch.first = count /\ Decision(p).batch.size = granted
  BY DEF Decision, Acquire
<1>2. LimiterOf(p) \in Limiters
  BY DEF Limiters
<1>3. key.count \in Nat
  BY <1>2, ConstantFacts DEF TypeInv, TypeOK, LimiterKey
<1>4. rpm[p] \in Nat /\ want[p] \in Nat
  BY ConstantFacts DEF TypeInv, TypeOK
<1> HIDE DEF key
<1>5. count \in Nat
  BY <1>3
<1> HIDE DEF count
<1> QED BY <1>1, <1>4, <1>5 DEF Least, Greatest

(* A call of the schedule script leaves the value of a window alone for    *)
(* everyone who has read it.                                               *)
LEMMA SelectKeepsRead ==
  ASSUME GrantInv, NEW c \in MinRPM .. MaxRPM, Schedule = "uniform",
         schedule' = Select(schedule, c), NEW q \in Processes,
         readIn[q] # None, readIn[q] = schedule'.window
  PROVE  rpm[q] = schedule'.rpm
<1>1. /\ schedule'.window = ScheduleWindow
      /\ schedule.window = ScheduleWindow => schedule'.rpm = schedule.rpm
  BY SelectFacts DEF GrantInv, RPMInv, TypeInv, TypeOK
<1>2. schedule.window = ScheduleWindow /\ schedule.rpm = rpm[q]
  BY <1>1 DEF GrantInv, RPMInv, ReadShape
<1> QED BY <1>1, <1>2

(* What one process does to the schedule's key matters to no other one.    *)
LEMMA ScheduleForOthers ==
  ASSUME GrantInv, NEW p \in Processes, ProcessStep(p)
  PROVE  /\ Schedule = "fixed" => schedule'.window = None
         /\ \A q \in Processes :
              readIn[q] # None /\ readIn[q] = schedule'.window => rpm[q] = schedule'.rpm
<1>1. CASE schedule' = schedule
  BY <1>1 DEF GrantInv, GrantAt
<1>2. CASE Schedule = "uniform" /\ \E c \in MinRPM .. MaxRPM : schedule' = Select(schedule, c)
  BY <1>2, SelectKeepsRead
<1>3. \/ schedule' = schedule
      \/ Schedule = "uniform" /\ \E c \in MinRPM .. MaxRPM : schedule' = Select(schedule, c)
  BY Zenon DEF ProcessStep, Step, Start, ReadFixed, ReadUniform, TryAcquire,
     AcquireCancelled, Send, SkipSlot, Return, PauseAfterSlot, Wake, ReturnFromRun, Crash,
     End, ScheduleFails, AcquireFails, Shutdown, redis
<1> QED BY <1>1, <1>2, <1>3

LEMMA TryAcquireGrants ==
  ASSUME GrantInv, NEW p \in Processes, TryAcquire(p)
  PROVE  GrantAt(p)'
<1> USE DEF GrantInv, RPMInv
<1>1. pc[p] = "reserve" /\ UNCHANGED <<schedule, rpm, readIn>>
  BY DEF TryAcquire
<1>2. /\ readIn[p] # None
      /\ readIn[p] = schedule.window => rpm[p] = schedule.rpm
  BY <1>1 DEF GrantAt
<1>3. /\ pc \in [Processes -> Labels] /\ batch \in [Processes -> BatchType]
  BY DEF TypeInv, TypeOK
<1>4. CASE Decision(p).batch.size = 0
  <2>1. pc'[p] = "pause" /\ batch'[p] = NoBatch
    BY <1>3, <1>4 DEF TryAcquire, PauseBeforeRetry
  <2> QED BY <1>1, <1>2, <2>1, NoBatchHasType DEF GrantAt
<1>5. CASE Decision(p).batch.size # 0
  <2>1. pc'[p] = "execute" /\ batch'[p] = Decision(p).batch
    BY <1>3, <1>5 DEF TryAcquire
  <2>2. Decision(p).batch.size > 0
    BY <1>1, <1>5, DecisionFacts, ConstantFacts DEF BatchType
  <2>3. Decision(p).batch.first + Decision(p).batch.size <= rpm[p]
    BY <1>1, <2>2, DecisionWithinRPM
  <2> QED BY <1>1, <1>2, <2>1, <2>3 DEF GrantAt
<1> QED BY <1>4, <1>5

(* A step after which nothing of a batch is left.                          *)
LEMMA NoBatchGrants ==
  ASSUME NEW p \in Processes, batch'[p] = NoBatch, pc'[p] # "reserve",
         readIn'[p] # None /\ readIn'[p] = schedule'.window => rpm'[p] = schedule'.rpm
  PROVE  GrantAt(p)'
BY NoBatchHasType DEF GrantAt

(* A read of the RPM, at a moment when no batch is in hand.                *)
LEMMA ReadGrants ==
  ASSUME GrantInv, NEW p \in Processes, ReadFixed(p) \/ ReadUniform(p)
  PROVE  GrantAt(p)'
<1> USE DEF GrantInv, RPMInv
<1>1. pc[p] = "schedule" /\ UNCHANGED batch
  BY DEF ReadFixed, ReadUniform
<1>2. ~(batch[p].size > 0)
  BY <1>1 DEF GrantAt
<1>3. /\ rpm \in [Processes -> 0 .. MaxRPM] /\ readIn \in [Processes -> MaybeMinute]
  BY DEF TypeInv, TypeOK
<1>4. ScheduleWindow \in Nat /\ None \notin Nat
  BY WindowFacts DEF TypeInv, TypeOK, None
<1>5. readIn'[p] = ScheduleWindow
  BY <1>3 DEF ReadFixed, ReadUniform, UseRPM
<1>6. readIn'[p] = schedule'.window => rpm'[p] = schedule'.rpm
  <2>1. CASE ReadFixed(p)
    <3>1. schedule'.window = None
      BY <2>1 DEF ReadFixed, redis
    <3> QED BY <1>4, <1>5, <3>1
  <2>2. CASE ReadUniform(p)
    <3>1. PICK c \in MinRPM .. MaxRPM :
            schedule' = Select(schedule, c) /\ UseRPM(p, Select(schedule, c).rpm)
      BY <2>2 DEF ReadUniform
    <3> QED BY <1>3, <3>1 DEF UseRPM
  <2> QED BY <2>1, <2>2
<1> QED BY <1>1, <1>2, <1>4, <1>5, <1>6 DEF GrantAt

LEMMA GrantStep == GrantInv /\ [Next]_vars => GrantInv'
<1> SUFFICES ASSUME GrantInv, [Next]_vars PROVE GrantInv'
  OBVIOUS
<1>1. RPMInv /\ RPMInv' /\ TypeInv
  BY RPMStep DEF GrantInv, RPMInv
<1>2. ASSUME NEW p \in Processes, ProcessStep(p) PROVE GrantInv'
  <2>1. Apart(p)
    BY <1>1, <1>2, StepsApart
  <2>2. /\ Schedule = "fixed" => schedule'.window = None
        /\ \A q \in Processes :
             readIn[q] # None /\ readIn[q] = schedule'.window => rpm[q] = schedule'.rpm
    BY <1>2, ScheduleForOthers
  <2>3. ASSUME NEW q \in Processes, q # p PROVE GrantAt(q)'
    <3>1. GrantAt(q)
      BY DEF GrantInv
    <3> QED BY <2>1, <2>2, <2>3, <3>1 DEF GrantAt, Apart
  <2>4. GrantAt(p)
    BY DEF GrantInv
  <2>5. GrantAt(p)'
    <3>0. /\ pc \in [Processes -> Labels] /\ batch \in [Processes -> BatchType]
          /\ readIn \in [Processes -> MaybeMinute]
      BY <1>1 DEF TypeInv, TypeOK
    <3>1. CASE ReadFixed(p) \/ ReadUniform(p)
      BY <3>1, ReadGrants
    <3>2. CASE TryAcquire(p)
      BY <3>2, TryAcquireGrants
    <3>3. CASE Start(p) \/ Send(p) \/ SkipSlot(p) \/ Return(p) \/ Shutdown(p)
      <4>1. UNCHANGED <<batch, rpm, readIn>>
        BY <3>3 DEF Start, Send, SkipSlot, Return, PauseAfterSlot, Shutdown, loop
      <4>2. \/ pc'[p] = pc[p]
            \/ pc[p] = "absent" /\ pc'[p] = "schedule"
            \/ pc[p] \in {"execute", "inflight"} /\ pc'[p] \in {"inflight", "pause"}
        BY <3>0, <3>3 DEF Start, Send, SkipSlot, Return, PauseAfterSlot, Shutdown
      <4> QED BY <2>2, <2>4, <4>1, <4>2 DEF GrantAt
    <3>4. CASE AcquireCancelled(p)
      <4>1. UNCHANGED <<rpm, readIn>> /\ batch'[p] = NoBatch /\ pc'[p] = "pause"
        BY <3>0, <3>4 DEF AcquireCancelled, PauseBeforeRetry
      <4> QED BY <2>2, <4>1, NoBatchGrants
    <3>5. CASE ScheduleFails(p) \/ AcquireFails(p)
      <4>1. UNCHANGED <<rpm, readIn>>
        BY <3>5 DEF ScheduleFails, AcquireFails
      <4>2. \/ UNCHANGED <<pc, batch>>
            \/ batch'[p] = NoBatch /\ pc'[p] = "pause"
        BY <3>0, <3>5 DEF ScheduleFails, AcquireFails, CommandFails, PauseBeforeRetry
      <4>3. CASE UNCHANGED <<pc, batch>>
        BY <2>2, <2>4, <4>1, <4>3 DEF GrantAt
      <4>4. CASE batch'[p] = NoBatch /\ pc'[p] = "pause"
        BY <2>2, <4>1, <4>4, NoBatchGrants
      <4> QED BY <4>2, <4>3, <4>4
    <3>6. CASE Wake(p)
      <4>1. UNCHANGED <<rpm, readIn>> /\ pc[p] = "pause"
        BY <3>6 DEF Wake
      <4>2. \/ batch' = batch /\ pc'[p] = "execute"
            \/ batch'[p] = NoBatch /\ pc'[p] = "schedule"
        BY <3>0, <3>6 DEF Wake
      <4>3. CASE batch' = batch /\ pc'[p] = "execute"
        BY <2>2, <2>4, <4>1, <4>3 DEF GrantAt
      <4>4. CASE batch'[p] = NoBatch /\ pc'[p] = "schedule"
        BY <2>2, <4>1, <4>4, NoBatchGrants
      <4> QED BY <4>2, <4>3, <4>4
    <3>7. CASE ReturnFromRun(p) \/ Crash(p)
      <4>1. batch'[p] = NoBatch /\ pc'[p] = "ended" /\ readIn'[p] = None
        BY <3>0, <3>7 DEF ReturnFromRun, Crash, End
      <4> QED BY <4>1, NoBatchGrants
    <3> QED BY <1>2, <3>1, <3>2, <3>3, <3>4, <3>5, <3>6, <3>7 DEF ProcessStep, Step
  <2> QED BY <1>1, <2>2, <2>3, <2>5 DEF GrantInv
<1>3. CASE Tick \/ UNCHANGED vars
  <2>1. UNCHANGED <<schedule, pc, batch, rpm, readIn>>
    BY <1>3 DEF Tick, vars, redis, loop
  <2> QED BY <1>1, <2>1 DEF GrantInv, GrantAt
<1> QED BY <1>2, <1>3, NextSteps

(* A process that has read the value in force is granted no permit beyond  *)
(* it, also when processes with an older and larger one drew before it.    *)
THEOREM FreshReaderStaysWithin == Spec => []FreshGrantWithinSelectedRPM
<1>1. Init => GrantInv
  <2> SUFFICES ASSUME Init PROVE GrantInv
    OBVIOUS
  <2>1. RPMInv
    BY TypeInit DEF Init, RPMInv, ReadShape, SameRPMInWindow
  <2>2. schedule.window = None
    BY DEF Init, NoSchedule
  <2>3. \A p \in Processes : batch[p] = NoBatch /\ pc[p] = "absent" /\ readIn[p] = None
    BY DEF Init
  <2> QED BY <2>1, <2>2, <2>3, NoBatchHasType DEF GrantInv, GrantAt
<1>2. GrantInv => FreshGrantWithinSelectedRPM
  BY DEF GrantInv, GrantAt, FreshGrantWithinSelectedRPM
<1> QED BY <1>1, <1>2, GrantStep, PTL DEF Spec

-----------------------------------------------------------------------------
(* What is carried into another minute is one batch                        *)

(* The most permits a batch can have.                                      *)
BatchBound == IF TrafficProfile.type = "burst" THEN TrafficProfile.max ELSE 1

(* What process p sent in minute w with permits of another one.            *)
Late(p, w) == {s \in sent : s.by = p /\ s.at = w /\ s.window # w}

(* Those requests stand on permits of a single batch.                      *)
OneBatch(p, w) ==
  \E v \in Minutes, first \in Nat :
    \A s \in Late(p, w) : s.window = v /\ s.slot \in first + 1 .. first + BatchBound

(* While an earlier minute's batch is in hand it is that batch: one that   *)
(* is reserved now is of the current minute.                               *)
InHandIsLate(p) ==
  batch[p].size > 0 /\ batch[p].window # Window =>
    \A s \in Late(p, Window) :
      /\ s.window = batch[p].window
      /\ s.slot \in batch[p].first + 1 .. batch[p].first + batch[p].size

BatchBounded(p) ==
  /\ pc[p] = "reserve" => want[p] <= BatchBound
  /\ batch[p].size <= BatchBound

CarryInv ==
  /\ TypeInv
  /\ \A s \in sent : s.at <= Window
  /\ \A p \in Processes :
       /\ BatchBounded(p) /\ InHandIsLate(p)
       /\ \A w \in Minutes : OneBatch(p, w)

LEMMA BatchBoundFacts ==
  /\ BatchBound \in Nat \ {0}
  /\ \A r \in MinRPM .. MaxRPM : \A n \in BatchSizes(TrafficProfile, r) : n <= BatchBound
<1> USE ConstantFacts
<1>1. CASE TrafficProfile.type = "burst"
  <2>1. BatchBound = TrafficProfile.max
    BY <1>1 DEF BatchBound
  <2>2. /\ TrafficProfile.min \in Nat /\ TrafficProfile.max \in Nat
        /\ TrafficProfile.min >= 2 /\ TrafficProfile.max >= TrafficProfile.min
    BY <1>1, RateAssumption DEF Accepted
  <2>3. ASSUME NEW r \in MinRPM .. MaxRPM, NEW n \in BatchSizes(TrafficProfile, r)
        PROVE  n <= TrafficProfile.max
    <3> DEFINE most == Least(TrafficProfile.max, r)
    <3>1. most \in Int /\ most <= TrafficProfile.max
      BY <2>2 DEF Least
    <3>2. Least(TrafficProfile.min, most) \in Int
      BY <2>2, <3>1 DEF Least
    <3>3. n \in Least(TrafficProfile.min, most) .. most
      BY <1>1, <2>3 DEF BatchSizes
    <3> HIDE DEF most
    <3> QED BY <2>2, <3>1, <3>2, <3>3
  <2> QED BY <2>1, <2>2, <2>3
<1>2. CASE TrafficProfile.type # "burst"
  BY <1>2 DEF BatchBound, BatchSizes
<1> QED BY <1>1, <1>2

(* Sizes stay bounded: by the draw, the limiter's answer, or NoBatch.      *)
LEMMA BoundedStep ==
  ASSUME CarryInv, NEW p \in Processes, ProcessStep(p)
  PROVE  BatchBounded(p)'
<1> USE BatchBoundFacts, NoBatchHasType DEF CarryInv
<1>0. /\ pc \in [Processes -> Labels] /\ batch \in [Processes -> BatchType]
      /\ want \in [Processes -> 0 .. MaxRPM] /\ BatchBounded(p)
  BY DEF TypeInv, TypeOK
<1>1. ASSUME NEW r \in MinRPM .. MaxRPM, UseRPM(p, r), batch' = batch PROVE BatchBounded(p)'
  <2>1. PICK n \in BatchSizes(TrafficProfile, r) : want' = [want EXCEPT ![p] = n]
    BY <1>1 DEF UseRPM
  <2> QED BY <1>0, <1>1, <2>1 DEF BatchBounded
<1>2. CASE ReadFixed(p)
  <2>1. MinRPM \in MinRPM .. MaxRPM
    BY ConstantFacts
  <2> QED BY <1>1, <1>2, <2>1 DEF ReadFixed
<1>3. CASE ReadUniform(p)
  <2>1. PICK c \in MinRPM .. MaxRPM : UseRPM(p, Select(schedule, c).rpm)
    BY <1>3 DEF ReadUniform
  <2>2. Select(schedule, c).rpm \in MinRPM .. MaxRPM
    BY SelectFacts DEF TypeInv, TypeOK
  <2> QED BY <1>1, <1>3, <2>1, <2>2 DEF ReadUniform
<1>4. CASE TryAcquire(p)
  <2>1. pc[p] = "reserve" /\ pc'[p] \in {"execute", "pause"}
        /\ (batch'[p] = NoBatch \/ batch'[p] = Decision(p).batch)
    BY <1>0, <1>4 DEF TryAcquire, PauseBeforeRetry
  <2>2. Decision(p).batch.size <= want[p] /\ Decision(p).batch \in BatchType
    BY <2>1, DecisionFacts
  <2>3. Decision(p).batch.size \in Int /\ want[p] \in Int
    BY <1>0, <2>2, ConstantFacts DEF BatchType
  <2>4. Decision(p).batch.size <= BatchBound
    BY <1>0, <2>1, <2>2, <2>3 DEF BatchBounded
  <2> QED BY <2>1, <2>4 DEF BatchBounded
<1>5. CASE Start(p) \/ Send(p) \/ SkipSlot(p) \/ Return(p) \/ Shutdown(p)
  <2>1. batch' = batch /\ want' = want /\ (pc'[p] # "reserve" \/ pc'[p] = pc[p])
    BY <1>0, <1>5 DEF Start, Send, SkipSlot, Return, PauseAfterSlot, Shutdown, loop
  <2> QED BY <1>0, <2>1 DEF BatchBounded
<1>6. CASE AcquireCancelled(p) \/ ReturnFromRun(p) \/ Crash(p)
  <2>1. batch'[p] = NoBatch /\ pc'[p] # "reserve"
    BY <1>0, <1>6 DEF AcquireCancelled, PauseBeforeRetry, ReturnFromRun, Crash, End
  <2> QED BY <2>1 DEF BatchBounded
<1>7. CASE ScheduleFails(p) \/ AcquireFails(p)
  <2>1. want' = want /\ (UNCHANGED <<pc, batch>> \/ (batch'[p] = NoBatch /\ pc'[p] = "pause"))
    BY <1>0, <1>7 DEF ScheduleFails, AcquireFails, CommandFails, PauseBeforeRetry
  <2> QED BY <1>0, <2>1 DEF BatchBounded
<1>8. CASE Wake(p)
  <2>1. (batch' = batch \/ batch'[p] = NoBatch) /\ pc'[p] # "reserve"
    BY <1>0, <1>8 DEF Wake
  <2> QED BY <1>0, <2>1 DEF BatchBounded
<1> QED BY <1>2, <1>3, <1>4, <1>5, <1>6, <1>7, <1>8 DEF ProcessStep, Step

(* A step that sends nothing keeps the batch in hand, drops it, or takes   *)
(* one of the current minute.                                              *)
LEMMA BatchKept ==
  ASSUME TypeInv, NEW p \in Processes, ProcessStep(p)
  PROVE  \/ batch'[p] = batch[p]
         \/ batch'[p] = NoBatch
         \/ batch'[p].window = Window
<1>0. batch \in [Processes -> BatchType]
  BY DEF TypeInv, TypeOK
<1>1. CASE TryAcquire(p)
  <2>1. pc[p] = "reserve" /\ (batch'[p] = NoBatch \/ batch'[p] = Decision(p).batch)
    BY <1>0, <1>1 DEF TryAcquire, PauseBeforeRetry
  <2>2. Decision(p).batch.window = Window
    BY <2>1, DecisionFacts
  <2> QED BY <2>1, <2>2
<1>2. CASE ~TryAcquire(p)
  <2>1. CASE Start(p) \/ ReadFixed(p) \/ ReadUniform(p) \/ Send(p) \/ SkipSlot(p)
             \/ Return(p) \/ Shutdown(p)
    BY <2>1 DEF Start, ReadFixed, ReadUniform, Send, SkipSlot, Return, PauseAfterSlot,
                Shutdown, loop
  <2>2. CASE AcquireCancelled(p) \/ ReturnFromRun(p) \/ Crash(p)
    BY <1>0, <2>2 DEF AcquireCancelled, PauseBeforeRetry, ReturnFromRun, Crash, End
  <2>3. CASE ScheduleFails(p) \/ AcquireFails(p)
    BY <1>0, <2>3 DEF ScheduleFails, AcquireFails, CommandFails, PauseBeforeRetry
  <2>4. CASE Wake(p)
    BY <1>0, <2>4 DEF Wake
  <2> QED BY <1>2, <2>1, <2>2, <2>3, <2>4 DEF ProcessStep, Step
<1> QED BY <1>1, <1>2

LEMMA OnlySendSends ==
  ASSUME NEW p \in Processes, ProcessStep(p) PROVE Send(p) \/ sent' = sent
BY Zenon DEF ProcessStep, Step, Start, ReadFixed, ReadUniform, TryAcquire,
   AcquireCancelled, SkipSlot, Return, PauseAfterSlot, Wake, ReturnFromRun, Crash, End,
   ScheduleFails, AcquireFails, Shutdown

(* Send, with a permit of an earlier minute or of this one.                *)
LEMMA SendCarries ==
  ASSUME CarryInv, NEW p \in Processes, Send(p), Window' = Window
  PROVE  /\ \A s \in sent' : s.at <= Window
         /\ \A q \in Processes : \A w \in Minutes :
              q # p \/ w # Window => Late(q, w)' = Late(q, w)
         /\ InHandIsLate(p)' /\ OneBatch(p, Window)'
<1> DEFINE req == [window |-> batch[p].window, slot |-> batch[p].first + position[p],
                   by |-> p, at |-> Window]
<1> USE DEF CarryInv
<1>1. sent' = sent \union {req} /\ batch' = batch
  BY DEF Send, loop
<1>2. /\ req.window = batch[p].window /\ req.slot = batch[p].first + position[p]
      /\ req.by = p /\ req.at = Window
  OBVIOUS
<1> HIDE DEF req
<1>3. Window \in Nat /\ Window \in Minutes
  BY WindowFacts DEF TypeInv, TypeOK
<1>4. \A s \in sent' : s.at <= Window
  BY <1>1, <1>2, <1>3
<1>5. \A q \in Processes : \A w \in Minutes :
        q # p \/ w # Window => Late(q, w)' = Late(q, w)
  BY <1>1, <1>2 DEF Late
<1>6. /\ batch[p].size > 0 /\ batch[p].window \in Minutes
      /\ position[p] \in 1 .. batch[p].size
      /\ batch[p].first \in Nat /\ batch[p].size \in Nat
    BY ConstantFacts DEF TypeInv, TypeOK, LoopShape, Send, BatchType
<1>7. CASE batch[p].window = Window
  <2>1. Late(p, Window)' = Late(p, Window)
    BY <1>1, <1>2, <1>7 DEF Late
  <2>2. OneBatch(p, Window)'
    BY <1>3, <2>1 DEF OneBatch
  <2>3. InHandIsLate(p)'
    BY <1>1, <1>7 DEF InHandIsLate
  <2> QED BY <1>4, <1>5, <2>2, <2>3
<1>8. CASE batch[p].window # Window
  <2>1. Late(p, Window)' = Late(p, Window) \union {req}
    BY <1>1, <1>2, <1>8 DEF Late
  <2>2. ASSUME NEW s \in Late(p, Window)'
        PROVE  /\ s.window = batch[p].window
               /\ s.slot \in batch[p].first + 1 .. batch[p].first + batch[p].size
    <3>1. CASE s \in Late(p, Window)
      BY <1>6, <1>8, <3>1 DEF InHandIsLate
    <3>2. CASE s = req
      BY <1>2, <1>6, <3>2
    <3> QED BY <2>1, <2>2, <3>1, <3>2
  <2>3. InHandIsLate(p)'
    BY <1>1, <2>2 DEF InHandIsLate
  <2>4. batch[p].size <= BatchBound
    BY DEF BatchBounded
  <2>5. \A s \in Late(p, Window)' :
          /\ s.window = batch[p].window
          /\ s.slot \in batch[p].first + 1 .. batch[p].first + BatchBound
    BY <1>6, <2>2, <2>4, BatchBoundFacts
  <2>6. OneBatch(p, Window)'
    BY <1>6, <2>5 DEF OneBatch
  <2> QED BY <1>4, <1>5, <2>3, <2>6
<1> QED BY <1>7, <1>8

LEMMA CarryStep == CarryInv /\ [Next]_vars => CarryInv'
<1> SUFFICES ASSUME CarryInv, [Next]_vars PROVE CarryInv'
  OBVIOUS
<1>1. TypeInv /\ TypeInv'
  BY TypeStep DEF CarryInv
<1>2. Window \in Nat /\ Window \in Minutes
  BY <1>1, WindowFacts DEF TypeInv, TypeOK
<1>3. ASSUME NEW p \in Processes, ProcessStep(p) PROVE CarryInv'
  <2>1. Window' = Window /\ Apart(p)
    BY <1>1, <1>3, StepsApart
  <2>2. BatchBounded(p)'
    BY <1>3, BoundedStep
  <2>3. \A q \in Processes : q # p => BatchBounded(q)'
    BY <2>1 DEF CarryInv, BatchBounded, Apart
  <2>4. CASE Send(p)
    <3>1. /\ \A s \in sent' : s.at <= Window
          /\ \A q \in Processes : \A w \in Minutes :
               q # p \/ w # Window => Late(q, w)' = Late(q, w)
          /\ InHandIsLate(p)' /\ OneBatch(p, Window)'
      BY <2>1, <2>4, SendCarries
    <3>2. \A q \in Processes : q # p => InHandIsLate(q)'
      BY <1>2, <2>1, <3>1 DEF CarryInv, InHandIsLate, Apart
    <3>3. ASSUME NEW q \in Processes, NEW w \in Minutes PROVE OneBatch(q, w)'
      <4>1. CASE q = p /\ w = Window
        BY <2>1, <3>1, <4>1
      <4>2. CASE q # p \/ w # Window
        <5>1. Late(q, w)' = Late(q, w)
          BY <3>1, <4>2
        <5>2. OneBatch(q, w)
          BY DEF CarryInv
        <5> QED BY <5>1, <5>2, Zenon DEF OneBatch
      <4> QED BY <4>1, <4>2
    <3> QED BY <1>1, <2>1, <2>2, <2>3, <3>1, <3>2, <3>3 DEF CarryInv
  <2>5. CASE sent' = sent
    <3>1. \A q : \A w : Late(q, w)' = Late(q, w)
      BY <2>5 DEF Late
    <3>2. \A q \in Processes : \A w \in Minutes : OneBatch(q, w)'
      BY <3>1 DEF CarryInv, OneBatch
    <3>3. ASSUME NEW q \in Processes PROVE InHandIsLate(q)'
      <4>1. batch'[q] = batch[q] \/ batch'[q] = NoBatch \/ batch'[q].window = Window
        BY <1>1, <1>3, <2>1, BatchKept DEF Apart
      <4>2. Late(q, Window)' = Late(q, Window)
        BY <2>1, <3>1
      <4>3. CASE batch'[q] = batch[q]
        BY <2>1, <4>2, <4>3 DEF CarryInv, InHandIsLate
      <4>4. CASE batch'[q] = NoBatch \/ batch'[q].window = Window
        BY <2>1, <4>4, NoBatchHasType DEF InHandIsLate
      <4> QED BY <4>1, <4>3, <4>4
    <3>4. \A s \in sent' : s.at <= Window'
      BY <2>1, <2>5 DEF CarryInv
    <3> QED BY <1>1, <2>2, <2>3, <3>2, <3>3, <3>4 DEF CarryInv
  <2> QED BY <1>3, <2>4, <2>5, OnlySendSends
<1>4. CASE Tick
  <2>1. UNCHANGED <<pc, want, batch, sent>>
    BY <1>4 DEF Tick, loop
  <2>2. Window' \in Nat /\ Window <= Window'
    BY <1>1, <1>4, TickFacts
  <2>3. \A s \in sent : s.at \in Nat /\ s.at <= Window
    <3>1. \A m \in Minutes : m \in Nat
      BY MinutesAreNat
    <3> QED BY <1>1, <3>1 DEF CarryInv, TypeInv, TypeOK, Request
  <2>4. \A s \in sent' : s.at <= Window'
    BY <1>2, <2>1, <2>2, <2>3
  <2>5. \A q \in Processes : BatchBounded(q)'
    BY <2>1 DEF CarryInv, BatchBounded
  <2>6. \A q \in Processes : \A w \in Minutes : OneBatch(q, w)'
    BY <2>1 DEF CarryInv, OneBatch, Late
  <2>7. ASSUME NEW q \in Processes PROVE InHandIsLate(q)'
    <3>1. CASE Window' = Window
      BY <2>1, <3>1 DEF CarryInv, InHandIsLate, Late
    <3>2. CASE Window' # Window
      <4>1. \A s \in sent' : s.at # Window'
        BY <1>2, <2>1, <2>2, <2>3, <3>2
      <4> QED BY <4>1 DEF InHandIsLate, Late
    <3> QED BY <3>1, <3>2
  <2> QED BY <1>1, <2>4, <2>5, <2>6, <2>7 DEF CarryInv
<1>5. CASE UNCHANGED vars
  <2>1. UNCHANGED <<now, pc, want, batch, sent>>
    BY <1>5 DEF vars
  <2>2. Window' = Window
    BY <2>1 DEF Window
  <2>3. \A q \in Processes : BatchBounded(q)' /\ InHandIsLate(q)'
    BY <2>1, <2>2 DEF CarryInv, BatchBounded, InHandIsLate, Late
  <2>4. \A q \in Processes : \A w \in Minutes : OneBatch(q, w)'
    BY <2>1 DEF CarryInv, OneBatch, Late
  <2> QED BY <1>1, <2>1, <2>2, <2>3, <2>4 DEF CarryInv
<1> QED BY <1>3, <1>4, <1>5, NextSteps

(* Requests of one batch sent in one minute are told apart by their slots. *)
LEMMA OneBatchIsSmall ==
  ASSUME TypeInv, NEW p \in Processes, NEW w \in Minutes, OneBatch(p, w)
  PROVE  Cardinality(Late(p, w)) <= BatchBound
<1> DEFINE S == Late(p, w)
<1>1. PICK v \in Minutes, first \in Nat :
        \A s \in S : s.window = v /\ s.slot \in first + 1 .. first + BatchBound
  BY DEF OneBatch
<1> DEFINE I == first + 1 .. first + BatchBound
           f == [s \in S |-> s.slot]
<1>2. \A s \in S : s \in Request /\ s.by = p /\ s.at = w
  BY DEF Late, TypeInv, TypeOK
<1>3. ASSUME NEW s \in S, NEW t \in S, s.slot = t.slot PROVE s = t
  BY <1>1, <1>2, <1>3 DEF Request
<1>4. f \in [S -> I]
  BY <1>1
<1>5. \A s, t \in S : f[s] = f[t] => s = t
  BY <1>3
<1>6. f \in Injection(S, I)
  BY <1>4, <1>5 DEF Injection, IsInjective
<1>7. BatchBound \in Nat
  BY BatchBoundFacts
<1>8. IsFiniteSet(I) /\ Cardinality(I) = BatchBound
  <2>1. first + 1 \in Int /\ first + BatchBound \in Int
    BY <1>7
  <2> DEFINE lo == first + 1
             hi == first + BatchBound
  <2>2. hi - lo + 1 = BatchBound /\ ~(lo > hi)
    BY <1>7, BatchBoundFacts
  <2> HIDE DEF lo, hi
  <2>3. IsFiniteSet(lo .. hi)
        /\ Cardinality(lo .. hi) = IF lo > hi THEN 0 ELSE hi - lo + 1
    BY <2>1, FS_Interval, Zenon DEF lo, hi
  <2>4. IsFiniteSet(lo .. hi) /\ Cardinality(lo .. hi) = BatchBound
    BY <2>2, <2>3
  <2> QED BY <2>4 DEF lo, hi
<1> HIDE DEF S, I, f
<1>9. Cardinality(S) <= Cardinality(I)
  BY <1>6, <1>8, FS_Injection
<1> QED BY <1>8, <1>9 DEF S

(* In any minute a process sends at most one batch on permits of another   *)
(* minute: whatever it paused for, it cannot take a second batch into it.  *)
THEOREM CarryOverIsOneBatch == Spec => []CarryOverBounded
<1>1. Init => CarryInv
  <2> SUFFICES ASSUME Init PROVE CarryInv
    OBVIOUS
  <2>1. TypeInv
    BY TypeInit
  <2>2. sent = {} /\ \A p \in Processes : batch[p] = NoBatch /\ pc[p] = "absent"
    BY DEF Init
  <2>3. \A p \in Processes : BatchBounded(p) /\ InHandIsLate(p)
    BY <2>2, NoBatchHasType, BatchBoundFacts DEF BatchBounded, InHandIsLate
  <2>4. \A p : \A w : Late(p, w) = {}
    BY <2>2 DEF Late
  <2>5. \A p \in Processes : \A w \in Minutes : OneBatch(p, w)
    BY <2>4 DEF OneBatch
  <2> QED BY <2>1, <2>2, <2>3, <2>5 DEF CarryInv
<1>2. CarryInv => CarryOverBounded
  <2> SUFFICES ASSUME CarryInv, NEW p \in Processes, NEW w \in Minutes
               PROVE  Cardinality(Late(p, w)) <= BatchBound
    BY Zenon DEF CarryOverBounded, Late, BatchBound
  <2> QED BY OneBatchIsSmall DEF CarryInv
<1> QED BY <1>1, <1>2, CarryStep, PTL DEF Spec
=============================================================================
