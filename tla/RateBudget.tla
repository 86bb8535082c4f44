----------------------------- MODULE RateBudget -----------------------------
(***************************************************************************)
(* Runner processes of one TrafficScenario sharing a request budget.       *)
(*                                                                         *)
(* Every process runs the scheduler loop (Scheduler.Run): read the RPM     *)
(* from the schedule, reserve a batch of permits from the limiter, execute *)
(* one request per permit with the profile's pauses, start again.  The     *)
(* limiter is a fixed one-minute window, kept in Redis and shared, or kept *)
(* in the process.  Between any two calls of the loop time may pass, the   *)
(* process may be told to stop, and it may die; a Redis command may fail   *)
(* before it is applied or after it, and go-redis then sends it again.     *)
(***************************************************************************)
EXTENDS Profile, FiniteSets

CONSTANTS
  Processes,        \* runner processes over the life of the scenario
  Concurrent,       \* how many run at once: spec.replicas plus MaxSurge
  Backend,          \* rate.limiter: "redis" or "local"
  Schedule,         \* rate.schedule.type: "fixed" or "uniform"
  MinRPM, MaxRPM,   \* the schedule's range; equal for a fixed schedule
  ScheduleMinutes,  \* rate.schedule.windowMinutes
  TrafficProfile,   \* rate.profile, a record of module Profile
  Second,           \* time.Second in ticks
  MaxRetries,       \* redis.Options.MaxRetries
  Horizon           \* bound: minutes the clock may run

ASSUME RateAssumption ==
  /\ Concurrent \in Nat
  /\ Backend \in {"redis", "local"}
  /\ Schedule \in {"fixed", "uniform"}
  /\ MinRPM \in 1 .. Minute /\ MaxRPM \in MinRPM .. Minute
  /\ Schedule = "fixed" => MinRPM = MaxRPM
  /\ ScheduleMinutes \in Nat \ {0}
  /\ TrafficProfile.type \in STRING
  /\ TrafficProfile.min \in Nat /\ TrafficProfile.max \in Nat
  /\ TrafficProfile.divisor \in Nat
  /\ Accepted(TrafficProfile)
  /\ Second \in Nat \ {0}
  /\ MaxRetries \in Nat
  /\ Horizon \in Nat \ {0}

VARIABLES
  now,          \* Redis TIME (the process clock for the local limiter)
  limiter,      \* limiter state, one per limiter in use
  schedule,     \* the Redis hash of the uniform schedule
  pc,           \* where each process is in Run
  stopping,     \* its context is cancelled
  attempt,      \* retries go-redis has spent on the command in flight
  rpm,          \* requestsPerMinute of the current iteration
  want,         \* requestedPermits of the current iteration
  batch,        \* the decision of the limiter being executed
  position,     \* slot of the batch being executed or paused after
  wake,         \* when the current pause ends
  readIn,       \* history: schedule window in which rpm was read
  shortIn,      \* history: window of the last short decision received
  sent          \* history: requests put on the wire

vars == <<now, limiter, schedule, pc, stopping, attempt, rpm, want, batch,
          position, wake, readIn, shortIn, sent>>
redis == <<limiter, schedule>>
loop == <<rpm, want, batch, position, wake, readIn, shortIn>>

----------------------------------------------------------------------------
None == -1
NoBatch == [window |-> None, first |-> 0, size |-> 0, retryAfter |-> 0]
NoLimiter == [window |-> None, count |-> 0, expires |-> 0]
NoSchedule == [window |-> None, rpm |-> 0, expires |-> 0]

\* The limiter a process asks: the Redis key, or the one in its own memory.
LimiterOf(p) == IF Backend = "redis" THEN "redis" ELSE p
Limiters == {LimiterOf(p) : p \in Processes}

WindowStart(t, length) == t - (t % length)
Window == WindowStart(now, Minute)
ScheduleLength == ScheduleMinutes * Minute
ScheduleWindow == WindowStart(now, ScheduleLength)

\* Mutant: the counter key lives until its window is half over.
ShortLivedGrant(key, requests, permits) ==
  LET count == IF now < key.expires /\ key.window = Window THEN key.count ELSE 0
      granted == Least(permits, Greatest(requests - count, 0))
      retryAfter == Window + Minute - now
  IN  [key |-> [window |-> Window, count |-> count + granted,
                expires |-> Window + Minute \div 2],
       batch |-> [window |-> Window, first |-> count, size |-> granted,
                  retryAfter |-> IF granted = permits THEN 0 ELSE retryAfter]]

\* Mutant: the window's budget is not compared with what is already granted.
UnclampedGrant(key, requests, permits) ==
  LET count == IF now < key.expires /\ key.window = Window THEN key.count ELSE 0
      retryAfter == Window + Minute - now
  IN  [key |-> [window |-> Window, count |-> count + permits,
                expires |-> now + retryAfter + Minute],
       batch |-> [window |-> Window, first |-> count, size |-> permits,
                  retryAfter |-> 0]]

(* The limiter: both acquire_rate_limit.lua, one atomic Redis script, and  *)
(* LocalLimiter.TryAcquire under its mutex.  A key past its expiry or of   *)
(* another window counts from zero (the local limiter has no expiry, and   *)
(* none can show: the key outlives its window by a minute).  The decision  *)
(* also names the permits it stands for: first + 1 .. first + size of the  *)
(* window's budget.                                                        *)
Acquire(key, requests, permits) ==
  LET count == IF now < key.expires /\ key.window = Window THEN key.count ELSE 0
      granted == Least(permits, Greatest(requests - count, 0))
      retryAfter == Window + Minute - now
  IN  [key |-> [window |-> Window, count |-> count + granted,
                expires |-> now + retryAfter + Minute],
       batch |-> [window |-> Window, first |-> count, size |-> granted,
                  retryAfter |-> IF granted = permits THEN 0 ELSE retryAfter]]

\* Mutant: every caller stores its own candidate.
OverwritingSelect(key, candidate) ==
  [window |-> ScheduleWindow, rpm |-> candidate,
   expires |-> ScheduleWindow + 2 * ScheduleLength]

(* select_uniform_window.lua: the first caller of a window stores its      *)
(* candidate, every later one reads it.                                    *)
Select(key, candidate) ==
  [window |-> ScheduleWindow,
   rpm |-> IF now < key.expires /\ key.window = ScheduleWindow
           THEN key.rpm ELSE candidate,
   expires |-> ScheduleWindow + 2 * ScheduleLength]

(* Process p has reserved the k-th permit of window w and not spent it.    *)
Holds(p, w, k) ==
  /\ pc[p] \in {"execute", "inflight", "pause"}
  /\ w = batch[p].window
  /\ k > batch[p].first + (IF pc[p] = "execute" THEN position[p] - 1 ELSE position[p])
  /\ k <= batch[p].first + batch[p].size

Running(p) == pc[p] \in {"schedule", "reserve", "execute", "inflight", "pause"}

----------------------------------------------------------------------------
Init ==
  /\ now = 0
  /\ limiter = [l \in Limiters |-> NoLimiter]
  /\ schedule = NoSchedule
  /\ pc = [p \in Processes |-> "absent"]
  /\ stopping = [p \in Processes |-> FALSE]
  /\ attempt = [p \in Processes |-> 0]
  /\ rpm = [p \in Processes |-> 0]
  /\ want = [p \in Processes |-> 0]
  /\ batch = [p \in Processes |-> NoBatch]
  /\ position = [p \in Processes |-> 0]
  /\ wake = [p \in Processes |-> 0]
  /\ readIn = [p \in Processes |-> None]
  /\ shortIn = [p \in Processes |-> None]
  /\ sent = {}

\* The Deployment starts a process; nothing of an earlier one is inherited.
Start(p) ==
  /\ pc[p] = "absent"
  /\ Cardinality({q \in Processes : Running(q)}) < Concurrent
  /\ pc' = [pc EXCEPT ![p] = "schedule"]
  /\ UNCHANGED <<now, redis, stopping, attempt, loop, sent>>

\* s.wait(ctx, delay) with nothing left of the batch after it.
PauseBeforeRetry(p, delay) ==
  /\ pc' = [pc EXCEPT ![p] = "pause"]
  /\ batch' = [batch EXCEPT ![p] = NoBatch]
  /\ position' = [position EXCEPT ![p] = 0]
  /\ wake' = [wake EXCEPT ![p] = now + delay]

\* The RPM of this iteration is known; reserveBatch draws the batch size.
UseRPM(p, requestsPerMinute) ==
  /\ rpm' = [rpm EXCEPT ![p] = requestsPerMinute]
  /\ want' \in {[want EXCEPT ![p] = n] :
                  n \in BatchSizes(TrafficProfile, requestsPerMinute)}
  /\ readIn' = [readIn EXCEPT ![p] = ScheduleWindow]
  /\ pc' = [pc EXCEPT ![p] = "reserve"]
  /\ attempt' = [attempt EXCEPT ![p] = 0]

\* currentRequestsPerMinute with rateschedule.Fixed.
ReadFixed(p) ==
  /\ pc[p] = "schedule" /\ ~stopping[p]
  /\ Schedule = "fixed"
  /\ UseRPM(p, MinRPM)
  /\ UNCHANGED <<now, redis, stopping, batch, position, wake, shortIn, sent>>

\* currentRequestsPerMinute with rateschedule.RedisUniform.
ReadUniform(p) ==
  /\ pc[p] = "schedule" /\ ~stopping[p]
  /\ Schedule = "uniform"
  /\ \E candidate \in MinRPM .. MaxRPM :
       /\ schedule' = Select(schedule, candidate)
       /\ UseRPM(p, Select(schedule, candidate).rpm)
  /\ UNCHANGED <<now, limiter, stopping, batch, position, wake, shortIn, sent>>

(* A Redis command comes back with an error.  go-redis sends it again up   *)
(* to MaxRetries times when the error allows it; then Run pauses a second. *)
CommandFails(p) ==
  \/ /\ attempt[p] < MaxRetries
     /\ attempt' = [attempt EXCEPT ![p] = @ + 1]
     /\ UNCHANGED <<pc, batch, position, wake>>
  \/ /\ attempt' = [attempt EXCEPT ![p] = 0]
     /\ PauseBeforeRetry(p, Second)

\* The schedule script fails, or was applied and its reply is lost.
ScheduleFails(p) ==
  /\ pc[p] = "schedule" /\ ~stopping[p]
  /\ Schedule = "uniform"
  /\ \/ schedule' = schedule
     \/ \E candidate \in MinRPM .. MaxRPM : schedule' = Select(schedule, candidate)
  /\ CommandFails(p)
  /\ UNCHANGED <<now, limiter, stopping, rpm, want, readIn, shortIn, sent>>

\* What the limiter answers process p at this moment.
Decision(p) == Acquire(limiter[LimiterOf(p)], rpm[p], want[p])

\* Mutant: a short batch does not stay away for the rest of the window.
ImpatientTryAcquire(p) ==
  /\ pc[p] = "reserve"
  /\ limiter' = [limiter EXCEPT ![LimiterOf(p)] = Decision(p).key]
  /\ shortIn' = [shortIn EXCEPT ![p] = IF Decision(p).batch.size < want[p]
                                       THEN Window ELSE @]
  /\ attempt' = [attempt EXCEPT ![p] = 0]
  /\ IF Decision(p).batch.size = 0
     THEN PauseBeforeRetry(p, Second)
     ELSE /\ pc' = [pc EXCEPT ![p] = "execute"]
          /\ batch' = [batch EXCEPT ![p] = Decision(p).batch]
          /\ position' = [position EXCEPT ![p] = 1]
          /\ wake' = wake
  /\ UNCHANGED <<now, schedule, stopping, rpm, want, readIn, sent>>

(* reserveBatch: the limiter is asked with the RPM read earlier; the       *)
(* answer is a batch to execute or, when nothing is left, a pause.         *)
TryAcquire(p) ==
  /\ pc[p] = "reserve"
  /\ limiter' = [limiter EXCEPT ![LimiterOf(p)] = Decision(p).key]
  /\ shortIn' = [shortIn EXCEPT ![p] = IF Decision(p).batch.size < want[p]
                                       THEN Window ELSE @]
  /\ attempt' = [attempt EXCEPT ![p] = 0]
  /\ IF Decision(p).batch.size = 0
     THEN PauseBeforeRetry(p, IF Decision(p).batch.retryAfter <= 0 THEN Second
                              ELSE Decision(p).batch.retryAfter)
     ELSE /\ pc' = [pc EXCEPT ![p] = "execute"]
          /\ batch' = [batch EXCEPT ![p] = Decision(p).batch]
          /\ position' = [position EXCEPT ![p] = 1]
          /\ wake' = wake
  /\ UNCHANGED <<now, schedule, stopping, rpm, want, readIn, sent>>

(* The limiter script fails, or was applied and its reply is lost: its     *)
(* permits are then reserved for nobody.                                   *)
AcquireFails(p) ==
  /\ pc[p] = "reserve"
  /\ Backend = "redis"
  /\ \/ limiter' = limiter
     \/ limiter' = [limiter EXCEPT ![LimiterOf(p)] = Decision(p).key]
  /\ CommandFails(p)
  /\ UNCHANGED <<now, schedule, stopping, rpm, want, readIn, shortIn, sent>>

\* TryAcquire returns ctx.Err() at once; Run then waits on the same context.
AcquireCancelled(p) ==
  /\ pc[p] = "reserve" /\ stopping[p]
  /\ attempt' = [attempt EXCEPT ![p] = 0]
  /\ PauseBeforeRetry(p, Second)
  /\ UNCHANGED <<now, redis, stopping, rpm, want, readIn, shortIn, sent>>

\* executeReservedSlot puts a request on the wire.
Send(p) ==
  /\ pc[p] = "execute" /\ ~stopping[p]
  /\ sent' = sent \cup {[window |-> batch[p].window,
                         slot |-> batch[p].first + position[p],
                         by |-> p, at |-> Window]}
  /\ pc' = [pc EXCEPT ![p] = "inflight"]
  /\ UNCHANGED <<now, redis, stopping, attempt, loop>>

\* The pause after a slot; the last slot of a short batch waits longer.
PauseAfterSlot(p) ==
  /\ \E d \in NextDelays(TrafficProfile, rpm[p], position[p], batch[p].size) :
       wake' = [wake EXCEPT ![p] =
                  now + IF position[p] = batch[p].size
                        THEN Greatest(d, batch[p].retryAfter) ELSE d]
  /\ pc' = [pc EXCEPT ![p] = "pause"]
  /\ UNCHANGED <<now, redis, stopping, attempt, rpm, want, batch, position,
                 readIn, shortIn, sent>>

(* No operation of the slot could run (every store it reads is empty, a    *)
(* header is missing, the context is cancelled): the permit goes unused.   *)
SkipSlot(p) == pc[p] = "execute" /\ PauseAfterSlot(p)

\* Mutant: a request is not bound to its timeout nor to the context.
UnboundedReturn(p) == pc[p] = "inflight" /\ ~stopping[p] /\ PauseAfterSlot(p)

\* The target answers, or the operation's timeout ends the request.
Return(p) == pc[p] = "inflight" /\ PauseAfterSlot(p)

\* Mutant: the loop over the batch runs one position too far.
OverrunningWake(p) ==
  /\ pc[p] = "pause" /\ now >= wake[p]
  /\ IF position[p] <= batch[p].size /\ batch[p] # NoBatch
     THEN /\ pc' = [pc EXCEPT ![p] = "execute"]
          /\ position' = [position EXCEPT ![p] = @ + 1]
          /\ batch' = batch
     ELSE /\ pc' = [pc EXCEPT ![p] = "schedule"]
          /\ position' = [position EXCEPT ![p] = 0]
          /\ batch' = [batch EXCEPT ![p] = NoBatch]
  /\ wake' = [wake EXCEPT ![p] = 0]
  /\ UNCHANGED <<now, redis, stopping, attempt, rpm, want, readIn, shortIn, sent>>

\* The timer fires: the next slot of the batch, or a new iteration.
Wake(p) ==
  /\ pc[p] = "pause" /\ now >= wake[p]
  /\ IF position[p] < batch[p].size
     THEN /\ pc' = [pc EXCEPT ![p] = "execute"]
          /\ position' = [position EXCEPT ![p] = @ + 1]
          /\ batch' = batch
     ELSE /\ pc' = [pc EXCEPT ![p] = "schedule"]
          /\ position' = [position EXCEPT ![p] = 0]
          /\ batch' = [batch EXCEPT ![p] = NoBatch]
  /\ wake' = [wake EXCEPT ![p] = 0]
  /\ UNCHANGED <<now, redis, stopping, attempt, rpm, want, readIn, shortIn, sent>>

\* SIGTERM cancels the context Run was given.
Shutdown(p) ==
  /\ Running(p) /\ ~stopping[p]
  /\ stopping' = [stopping EXCEPT ![p] = TRUE]
  /\ UNCHANGED <<now, redis, pc, attempt, loop, sent>>

\* The process is gone and with it everything it kept in memory.
End(p) ==
  /\ pc' = [pc EXCEPT ![p] = "ended"]
  /\ attempt' = [attempt EXCEPT ![p] = 0]
  /\ rpm' = [rpm EXCEPT ![p] = 0]
  /\ want' = [want EXCEPT ![p] = 0]
  /\ batch' = [batch EXCEPT ![p] = NoBatch]
  /\ position' = [position EXCEPT ![p] = 0]
  /\ wake' = [wake EXCEPT ![p] = 0]
  /\ readIn' = [readIn EXCEPT ![p] = None]
  /\ shortIn' = [shortIn EXCEPT ![p] = None]
  /\ UNCHANGED <<now, redis, stopping, sent>>

\* Run returns: at the schedule read, or because the wait was cancelled.
ReturnFromRun(p) == stopping[p] /\ pc[p] \in {"schedule", "pause"} /\ End(p)

\* The process is killed, at any point of the loop.
Crash(p) == Running(p) /\ End(p)

Tick ==
  /\ now + 1 < Horizon * Minute
  /\ now' = now + 1
  /\ UNCHANGED <<redis, pc, stopping, attempt, loop, sent>>

\* The steps a process takes of its own accord.
Step(p) ==
  \/ ReadFixed(p) \/ ReadUniform(p)
  \/ TryAcquire(p) \/ AcquireCancelled(p)
  \/ Send(p) \/ SkipSlot(p) \/ Return(p) \/ Wake(p)
  \/ ReturnFromRun(p)

Next ==
  \/ \E p \in Processes :
       \/ Start(p) \/ Step(p)
       \/ ScheduleFails(p) \/ AcquireFails(p)
       \/ Shutdown(p) \/ Crash(p)
  \/ Tick

Spec == Init /\ [][Next]_vars

\* The Go runtime schedules a runnable loop; Execute ends by its timeout.
Fairness == \A p \in Processes : WF_vars(Step(p))

FairSpec == Spec /\ Fairness

----------------------------------------------------------------------------
Minutes == {m * Minute : m \in 0 .. Horizon - 1}
MaybeMinute == Minutes \cup {None}
LimiterKey == [window : MaybeMinute, count : 0 .. MaxRPM, expires : Nat]
ScheduleKey == [window : MaybeMinute, rpm : 0 .. MaxRPM, expires : Nat]
BatchType == [window : MaybeMinute, first : 0 .. MaxRPM, size : 0 .. MaxRPM,
              retryAfter : 0 .. Minute]
Request == [window : Minutes, slot : 1 .. MaxRPM, by : Processes, at : Minutes]
Labels == {"absent", "schedule", "reserve", "execute", "inflight", "pause", "ended"}

\* Type correctness of the loop, the limiter and the schedule.
TypeOK ==
  /\ now \in 0 .. Horizon * Minute - 1
  /\ limiter \in [Limiters -> LimiterKey]
  /\ schedule \in ScheduleKey
  /\ pc \in [Processes -> Labels]
  /\ stopping \in [Processes -> BOOLEAN]
  /\ attempt \in [Processes -> 0 .. MaxRetries]
  /\ rpm \in [Processes -> 0 .. MaxRPM]
  /\ want \in [Processes -> 0 .. MaxRPM]
  /\ batch \in [Processes -> BatchType]
  /\ position \in [Processes -> 0 .. MaxRPM]
  /\ wake \in [Processes -> Nat]
  /\ readIn \in [Processes -> MaybeMinute]
  /\ shortIn \in [Processes -> MaybeMinute]
  /\ sent \subseteq Request

(* The script reserves atomically: no permit of a window is ever in two    *)
(* hands or spent twice.  Two processes behind one limiter never hold the  *)
(* same permit, and a permit in hand has not been spent before, however    *)
(* calls, retries, lost replies, key expiry and crashes interleave.        *)
PermitsExclusive ==
  \A p, q \in Processes : LimiterOf(p) = LimiterOf(q) =>
    /\ \A w \in Minutes, k \in 1 .. MaxRPM :
         Holds(p, w, k) /\ Holds(q, w, k) => p = q
    /\ \A s \in sent : s.by = q => ~Holds(p, s.window, s.slot)
    /\ \A s, t \in sent :
         (s.by = p /\ t.by = q /\ s.window = t.window /\ s.slot = t.slot) => s = t

(* README: concurrent runner replicas "cannot exceed the shared window     *)
(* budget".  The requests paid for by one limiter's window are never more  *)
(* than the largest RPM of the schedule: exactly the budget when the       *)
(* schedule is fixed.                                                      *)
WindowBudget ==
  \A l \in Limiters, w \in Minutes :
    Cardinality({s \in sent : LimiterOf(s.by) = l /\ s.window = w}) <= MaxRPM

(* rateschedule.RedisUniform: "The first runner reaching Redis proposes    *)
(* the value; all other replicas read that same value until Redis TIME     *)
(* enters the next window."  Values read in one schedule window agree.     *)
SameRPMInWindow ==
  \A p, q \in Processes :
    (readIn[p] # None /\ readIn[p] = readIn[q]) => rpm[p] = rpm[q]

(* A process told that its window's budget is spent stays away from Redis  *)
(* until the window is over, also when the short grant was executed first  *)
(* (scheduler.go:121,137): the loop never polls an exhausted budget.       *)
ShortDecisionWaitsOut ==
  \A p \in Processes : pc[p] \in {"schedule", "reserve"} => shortIn[p] < Window

(* A batch granted late may be sent after its window, beside the whole     *)
(* budget of the next one.  The excess is bounded: in any minute a process *)
(* sends at most one batch of permits that belong to an earlier window.    *)
CarryOverBounded ==
  \A p \in Processes, w \in Minutes :
    Cardinality({s \in sent : s.by = p /\ s.at = w /\ s.window # w})
      <= IF TrafficProfile.type = "burst" THEN TrafficProfile.max ELSE 1

(* The RPM is read in one step and spent in another (scheduler.go:103,113) *)
(* so a process may spend the value of a schedule window that has ended.   *)
(* The damage stays with that process: who read the current value is never *)
(* granted a permit beyond it, whatever stale readers have taken.          *)
FreshGrantWithinSelectedRPM ==
  \A p \in Processes :
    batch[p].size > 0 /\ readIn[p] = schedule.window =>
      batch[p].first + batch[p].size <= schedule.rpm

(* A cancelled process leaves the loop, from any point of it and whatever  *)
(* its permits, its pause and its Redis command are doing.                 *)
ShutdownCompletes == \A p \in Processes : stopping[p] ~> ~Running(p)

(* README: a runner failure after reservation "cannot exceed the           *)
(* configured rate", and replicas "cannot exceed the shared window         *)
(* budget".  The requests actually sent in a minute stay within the RPM of *)
(* a fixed schedule.  The code does not guarantee this: see CarryOver.     *)
SentWithinMinuteBudget ==
  \A w \in Minutes : Cardinality({s \in sent : s.at = w}) <= MaxRPM
=============================================================================
