---------------------------- MODULE BatchPacing ----------------------------
(***************************************************************************)
(* One runner pacing its own requests: the batches it draws, the part of a *)
(* batch the limiter grants, and the pauses between the slots, for every   *)
(* profile the configuration may name and an RPM that changes from batch   *)
(* to batch.  Time is counted, not passed: the module adds up pauses.      *)
(***************************************************************************)
EXTENDS Profile

CONSTANTS
  Profiles,      \* profile configurations, accepted or not
  MaxRPM         \* largest RPM a schedule may select

ASSUME PacingAssumption ==
  /\ MaxRPM \in 1 .. Minute
  /\ \A p \in Profiles : /\ p.type \in STRING
                         /\ p.min \in Nat /\ p.max \in Nat /\ p.divisor \in Nat

VARIABLES
  profile,       \* the runner's profile, fixed at start
  rpm,           \* RPM of the current, or the last, reservation
  granted,       \* permits it was granted
  retryAfter,    \* what its decision says is left of the limiter's window,
                 \* 0 when it was granted in full
  position,      \* slot about to run, 0 between batches
  paused         \* pauses taken since the reservation

vars == <<profile, rpm, granted, retryAfter, position, paused>>

\* The profiles whose pauses are determined by the RPM and the batch.
Steady == profile.type \in {"", "fixed", "burst"}

Init ==
  /\ profile \in {p \in Profiles : Accepted(p)}
  /\ rpm \in 1 .. MaxRPM
  /\ granted = 0 /\ retryAfter = 0
  /\ position = 0 /\ paused = 0

(* The scheduler asks for a batch and the limiter grants all of it, or     *)
(* less and tells how long its window still lasts.  Granted nothing, the   *)
(* scheduler waits that long.                                              *)
Reserve ==
  /\ position = 0
  /\ rpm' \in 1 .. MaxRPM
  /\ \E want \in BatchSizes(profile, rpm') :
       \/ granted' = want /\ retryAfter' = 0
       \/ granted' \in 0 .. want - 1 /\ retryAfter' \in 1 .. Minute
  /\ position' = IF granted' = 0 THEN 0 ELSE 1
  /\ paused' = IF granted' = 0 THEN retryAfter' ELSE 0
  /\ UNCHANGED profile

\* Mutant: a batch that was cut short is followed by the window's rest alone.
ImpatientPause(d) ==
  IF position = granted /\ retryAfter > 0 THEN retryAfter ELSE d

(* The pause after a slot when the profile asks for d: the last slot of a  *)
(* batch that was cut short waits at least for the window's rest.          *)
Pause(d) == IF position = granted THEN Greatest(d, retryAfter) ELSE d

\* One slot of the batch and the pause after it.
RunSlot ==
  /\ position > 0
  /\ \E d \in NextDelays(profile, rpm, position, granted) :
       paused' = paused + Pause(d)
  /\ position' = IF position < granted THEN position + 1 ELSE 0
  /\ UNCHANGED <<profile, rpm, granted, retryAfter>>

Next == Reserve \/ RunSlot

Spec == Init /\ [][Next]_vars

----------------------------------------------------------------------------
\* Type correctness of the pacing state.
TypeOK ==
  /\ profile \in Profiles
  /\ rpm \in 1 .. MaxRPM
  /\ granted \in 0 .. MaxRPM /\ position \in 0 .. granted
  /\ retryAfter \in 0 .. Minute
  /\ paused \in Nat

(* README: a burst is "followed by a compensating pause, so the long-term  *)
(* mean remains the RPM selected by the schedule".  When a reservation of  *)
(* a fixed or burst profile has been used up, the pauses taken are exactly *)
(* the mean interval of each slot it ran, although batches differ in size  *)
(* and are cut short.  Only a wait for the limiter's window, which comes   *)
(* with every partial grant (scheduler.go:137), can make them longer, and  *)
(* nothing makes them shorter.                                             *)
MeanPreserved ==
  (Steady /\ position = 0) =>
    /\ paused >= granted * MeanDelay(rpm)
    /\ retryAfter = 0 => paused = granted * MeanDelay(rpm)

(* README: "a low-rate burst cycle never spans more than one minute".      *)
(* Whatever the burst sizes configured and the RPM selected (burst.go:13), *)
(* every slot of a batch runs within a minute of its reservation, and so   *)
(* does the pause that closes it, except that a batch cut short may wait   *)
(* for the rest of the window that was left at its reservation.            *)
BurstWithinMinute ==
  Steady =>
    /\ position > 0 => paused < Minute
    /\ paused <= Minute \/ (position = 0 /\ paused - retryAfter < Minute)
    /\ retryAfter = 0 => paused <= Minute

(* The pause a burst leaves before its next reservation is at least the    *)
(* mean interval, so the compensation never turns into a negative or zero  *)
(* timer that would let bursts run into each other (burst.go:28).          *)
ClosingPauseCoversMean ==
  (position > 0 /\ profile.type = "burst")
     => ClosingDelay(profile, rpm, granted) >= MeanDelay(rpm)
=============================================================================
