------------------------- MODULE BatchPacingProofs -------------------------
(***************************************************************************)
(* Proofs that the pacing of a runner keeps the mean rate and the minute   *)
(* bound for every set of profiles, every minute length and every RPM.     *)
(***************************************************************************)
EXTENDS BatchPacing, ProfileTheorems

Mean == MeanDelay(rpm)
Intra == IntraBurstDelay(profile, rpm)

(* The inductive invariant: where the sums stand inside a batch.  Neither  *)
(* MeanPreserved nor BurstWithinMinute is inductive: at the last slot both *)
(* rest on the exact sum of the pauses taken before it.                    *)
Shape ==
  /\ Accepted(profile)
  /\ granted <= rpm
  /\ profile.type # "burst" => granted <= 1

BetweenBatches ==
  (Steady /\ position = 0) =>
    /\ paused >= granted * Mean
    /\ retryAfter = 0 => paused = granted * Mean /\ paused <= Minute
    /\ paused <= Minute \/ paused - retryAfter < Minute

InBatch ==
  position > 0 =>
    /\ profile.type \in {"", "fixed"} => paused = 0
    /\ profile.type = "burst" => paused = (position - 1) * Intra

PacingInv == TypeOK /\ Shape /\ BetweenBatches /\ InBatch

LEMMA PacingInit == Init => PacingInv
<1> SUFFICES ASSUME Init PROVE PacingInv
  OBVIOUS
<1> USE MinuteAssumption, PacingAssumption
<1>1. TypeOK
  BY DEF Init, TypeOK
<1>2. Shape
  BY DEF Init, Shape
<1>3. granted * Mean = 0
  <2>1. Mean \in Nat
    BY MeanDelayBounds DEF Init, Mean
  <2> QED BY <2>1 DEF Init
<1>4. BetweenBatches /\ InBatch
  BY <1>3 DEF Init, BetweenBatches, InBatch
<1> QED BY <1>1, <1>2, <1>4 DEF PacingInv

(* What every state of the invariant says about the counters.              *)
LEMMA CounterFacts ==
  ASSUME PacingInv
  PROVE  /\ granted \in Nat /\ position \in Nat /\ position <= granted /\ granted <= rpm
         /\ paused \in Nat /\ retryAfter \in Nat /\ retryAfter <= Minute
BY MinuteAssumption, PacingAssumption DEF PacingInv, TypeOK, Shape

(* What every state of the invariant says about the profile and the RPM.   *)
LEMMA PacingFacts ==
  ASSUME PacingInv
  PROVE  /\ ProfileFields(profile) /\ Accepted(profile)
         /\ rpm \in 1 .. Minute /\ rpm \in Nat
         /\ Mean \in Nat /\ Mean >= 1 /\ Mean <= Minute /\ rpm * Mean <= Minute
         /\ profile.type = "burst" => Intra \in Nat /\ Intra <= Mean
<1>1. ProfileFields(profile) /\ rpm \in 1 .. Minute /\ rpm \in Nat
  BY PacingAssumption, MinuteAssumption DEF PacingInv, TypeOK, ProfileFields
<1>2. Mean \in Nat /\ Mean >= 1 /\ Mean <= Minute /\ rpm * Mean <= Minute
  BY <1>1, MeanDelayBounds, MinuteAssumption DEF Mean
<1>3. Accepted(profile)
  BY DEF PacingInv, Shape
<1>4. profile.type = "burst" => Intra \in Nat /\ Intra <= Mean
  BY <1>1, <1>2, <1>3, IntraBurstDelayBounds DEF Intra, Mean
<1> QED BY <1>1, <1>2, <1>3, <1>4

(* The pauses before a slot of a burst leave room for it in the minute.    *)
LEMMA BeforeSlot ==
  ASSUME PacingInv, NEW n \in Nat, n < rpm, profile.type = "burst"
  PROVE  n * Intra \in Nat /\ n * Intra < Minute
<1>1. /\ Mean \in Nat /\ Mean >= 1 /\ rpm \in Nat /\ rpm * Mean <= Minute
      /\ Intra \in Nat /\ Intra <= Mean
  BY PacingFacts
<1>2. n * Intra \in Nat /\ n * Mean \in Nat /\ n * Intra <= n * Mean
  BY <1>1
<1>3. n * Mean + Mean <= rpm * Mean
  <2>1. (n + 1) * Mean <= rpm * Mean
    BY <1>1
  <2>2. (n + 1) * Mean = n * Mean + Mean
    BY <1>1
  <2> QED BY <2>1, <2>2
<1>4. rpm * Mean \in Nat
  BY <1>1
<1> QED BY <1>1, <1>2, <1>3, <1>4, MinuteAssumption

LEMMA ReserveKeepsInv == PacingInv /\ Reserve => PacingInv'
<1> SUFFICES ASSUME PacingInv, Reserve PROVE PacingInv'
  OBVIOUS
<1> USE MinuteAssumption, PacingAssumption
<1>1. ProfileFields(profile) /\ Accepted(profile)
  BY PacingFacts
<1>2. /\ profile' = profile /\ rpm' \in 1 .. MaxRPM
      /\ position' = (IF granted' = 0 THEN 0 ELSE 1)
      /\ paused' = (IF granted' = 0 THEN retryAfter' ELSE 0)
  BY DEF Reserve
<1>3. rpm' \in 1 .. Minute
  BY <1>2
<1>4. PICK want \in BatchSizes(profile, rpm') :
        \/ granted' = want /\ retryAfter' = 0
        \/ granted' \in 0 .. want - 1 /\ retryAfter' \in 1 .. Minute
  BY DEF Reserve
<1>5. want \in 1 .. rpm'
  BY <1>1, <1>3, <1>4, BatchSizesBounds
<1>6. /\ granted' \in Nat /\ granted' <= want /\ granted' <= rpm'
      /\ granted' \in 0 .. MaxRPM /\ retryAfter' \in 0 .. Minute
      /\ granted' = 0 => retryAfter' \in 1 .. Minute
  BY <1>2, <1>4, <1>5
<1>7. position' \in 0 .. granted' /\ paused' \in Nat
  BY <1>2, <1>6
<1>8. TypeOK'
  <2>1. profile \in Profiles
    BY DEF PacingInv, TypeOK
  <2> QED BY <2>1, <1>2, <1>6, <1>7 DEF TypeOK
<1>9. Shape'
  <2>1. profile.type # "burst" => want = 1
    BY <1>4 DEF BatchSizes
  <2> QED BY <2>1, <1>1, <1>2, <1>6 DEF Shape
<1>10. InBatch'
  <2>1. position' > 0 => position' - 1 = 0 /\ paused' = 0
    BY <1>2, <1>6
  <2>2. profile'.type = "burst" => Intra' \in Nat
    BY <1>1, <1>2, <1>3, MeanDelayBounds, IntraBurstDelayBounds DEF Intra
  <2>3. (position' > 0 /\ profile'.type = "burst") => (position' - 1) * Intra' = 0
    BY <2>1, <2>2
  <2> QED BY <2>1, <2>3 DEF InBatch
<1>11. BetweenBatches'
  <2>1. Mean' \in Nat
    BY <1>3, MeanDelayBounds DEF Mean
  <2>2. position' = 0 =>
          granted' = 0 /\ paused' = retryAfter' /\ retryAfter' \in 1 .. Minute
    BY <1>2, <1>6
  <2>3. 0 * Mean' = 0
    <3>1. \A n \in Nat : 0 * n = 0
      OBVIOUS
    <3> QED BY <2>1, <3>1, Zenon
  <2> QED BY <2>2, <2>3 DEF BetweenBatches
<1> QED BY <1>8, <1>9, <1>10, <1>11 DEF PacingInv

LEMMA RunSlotKeepsInv == PacingInv /\ RunSlot => PacingInv'
<1> SUFFICES ASSUME PacingInv, RunSlot PROVE PacingInv'
  OBVIOUS
<1> USE MinuteAssumption, PacingAssumption
<1>1. /\ ProfileFields(profile) /\ Accepted(profile)
      /\ rpm \in 1 .. Minute /\ rpm \in Nat
      /\ Mean \in Nat /\ Mean >= 1 /\ Mean <= Minute /\ rpm * Mean <= Minute
      /\ profile.type = "burst" => Intra \in Nat /\ Intra <= Mean
  BY PacingFacts
<1>2. /\ profile' = profile /\ rpm' = rpm /\ granted' = granted
      /\ retryAfter' = retryAfter
      /\ Mean' = Mean /\ Intra' = Intra /\ Steady' = Steady
  BY DEF RunSlot, Mean, Intra, Steady
<1>3. /\ granted \in Nat /\ position \in Nat /\ position >= 1
      /\ position <= granted /\ granted <= rpm /\ paused \in Nat
      /\ retryAfter \in Nat /\ retryAfter <= Minute
  BY CounterFacts DEF RunSlot
<1>4. PICK d \in NextDelays(profile, rpm, position, granted) :
        paused' = paused + Pause(d)
  BY DEF RunSlot
<1>5. d \in Nat
  BY <1>1, <1>3, <1>4, NextDelaysPositive
<1>6. /\ Pause(d) \in Nat
      /\ position < granted => Pause(d) = d
      /\ position = granted =>
           /\ Pause(d) >= d
           /\ retryAfter = 0 => Pause(d) = d
           /\ Pause(d) = d \/ Pause(d) = retryAfter
  BY <1>3, <1>5 DEF Pause, Greatest
<1>7. \/ position < granted /\ position' = position + 1
      \/ position = granted /\ position' = 0
  BY <1>3 DEF RunSlot
<1>8. TypeOK'
  <2>1. paused' \in Nat
    BY <1>3, <1>4, <1>6
  <2>2. /\ profile \in Profiles /\ rpm \in 1 .. MaxRPM /\ granted \in 0 .. MaxRPM
        /\ retryAfter \in 0 .. Minute
    BY DEF PacingInv, TypeOK
  <2>3. position' \in 0 .. granted
    BY <1>3, <1>7
  <2> QED BY <2>1, <2>2, <2>3, <1>2 DEF TypeOK
<1>9. Shape'
  BY <1>2 DEF PacingInv, Shape
<1>10. CASE profile.type = "uniform"
  <2>1. BetweenBatches' /\ InBatch'
    BY <1>2, <1>10 DEF BetweenBatches, InBatch, Steady
  <2> QED BY <2>1, <1>8, <1>9 DEF PacingInv
<1>11. CASE profile.type \in {"", "fixed"}
  <2>1. d = Mean
    BY <1>4, <1>11 DEF NextDelays, Mean
  <2>0. profile.type # "burst" /\ position > 0
    <3>1. profile.type # "burst"
      BY ONLY <1>11
    <3>2. position > 0
      BY <1>3
    <3> QED BY <3>1, <3>2
  <2>2. granted = 1
    <3>1. granted <= 1
      BY <2>0 DEF PacingInv, Shape
    <3> QED BY <3>1, <1>3
  <2>3. position = granted /\ position' = 0
    BY <2>2, <1>3, <1>7
  <2>4. paused = 0
    BY <2>0, <1>11 DEF PacingInv, InBatch
  <2>5. granted * Mean = Mean
    BY <2>2, <1>1
  <2>6. /\ paused' >= granted * Mean
        /\ retryAfter = 0 => paused' = granted * Mean /\ paused' <= Minute
        /\ paused' <= Minute
    BY <2>1, <2>3, <2>4, <2>5, <1>1, <1>3, <1>4, <1>6
  <2>7. BetweenBatches' /\ InBatch'
    BY <2>3, <2>6, <1>2 DEF BetweenBatches, InBatch
  <2> QED BY <2>7, <1>8, <1>9 DEF PacingInv
<1>12. CASE profile.type = "burst"
  <2>1. Intra \in Nat /\ Intra <= Mean
    BY <1>1, <1>12
  <2>2. paused = (position - 1) * Intra
    BY <1>3, <1>12 DEF PacingInv, InBatch
  <2>3. CASE position < granted
    <3>1. d = Intra /\ Pause(d) = Intra
      BY <2>3, <1>4, <1>6, <1>12 DEF NextDelays, Intra
    <3>2. position' = position + 1
      BY <2>3, <1>3, <1>7
    <3>3. paused' = (position' - 1) * Intra
      BY <3>1, <3>2, <2>1, <2>2, <1>3, <1>4
    <3>4. InBatch' /\ BetweenBatches'
      BY <3>2, <3>3, <1>2, <1>3, <1>12 DEF InBatch, BetweenBatches
    <3> QED BY <3>4, <1>8, <1>9 DEF PacingInv
  <2>4. CASE position = granted
    <3> DEFINE before == (granted - 1) * Intra
               whole == granted * Mean
    <3>1. d = whole - before
      BY <2>4, <1>3, <1>4, <1>12 DEF NextDelays, ClosingDelay, Intra, Mean
    <3>2. position' = 0
      BY <2>4, <1>3, <1>7
    <3>3. granted - 1 \in Nat /\ granted - 1 < rpm
      BY <2>4, <1>1, <1>3
    <3>4. before \in Nat /\ before < Minute /\ paused = before
      BY <3>3, <2>2, <2>4, <1>12, BeforeSlot
    <3>5. whole \in Nat /\ whole <= Minute
      <4>1. whole <= rpm * Mean /\ whole \in Nat /\ rpm * Mean \in Nat
        BY <1>1, <1>3
      <4> QED BY <4>1, <1>1
    <3> HIDE DEF before, whole
    <3>6. /\ paused' >= whole
          /\ retryAfter = 0 => paused' = whole /\ paused' <= Minute
          /\ paused' <= Minute \/ paused' - retryAfter < Minute
      BY <3>1, <3>4, <3>5, <2>4, <1>3, <1>4, <1>5, <1>6
    <3>7. BetweenBatches' /\ InBatch'
      BY <3>2, <3>6, <1>2 DEF BetweenBatches, InBatch, whole
    <3> QED BY <3>7, <1>8, <1>9 DEF PacingInv
  <2> QED BY <2>3, <2>4, <1>3
<1> QED BY <1>1, <1>10, <1>11, <1>12 DEF Accepted

(* PacingInv holds in every reachable state of the pacing loop             *)
(* (scheduler.go:130-143 with the profiles of internal/runner/profile).    *)
THEOREM PacingInvariant == Spec => []PacingInv
<1>1. Init => PacingInv
  BY PacingInit
<1>2. PacingInv /\ [Next]_vars => PacingInv'
  <2> SUFFICES ASSUME PacingInv, [Next]_vars PROVE PacingInv'
    OBVIOUS
  <2>1. CASE Reserve
    BY <2>1, ReserveKeepsInv
  <2>2. CASE RunSlot
    BY <2>2, RunSlotKeepsInv
  <2>3. CASE UNCHANGED vars
    BY <2>3 DEF vars, PacingInv, TypeOK, Shape, BetweenBatches, InBatch,
                  Steady, Mean, Intra
  <2> QED BY <2>1, <2>2, <2>3 DEF Next
<1> QED BY <1>1, <1>2, PTL DEF Spec

(* Every batch is within the RPM, every position within its batch, and the *)
(* pauses add up to a natural number, whatever the profile and the draws.  *)
THEOREM TypeCorrect == Spec => []TypeOK
<1>1. PacingInv => TypeOK
  BY DEF PacingInv
<1> QED BY <1>1, PacingInvariant, PTL

(* A reservation of a fixed or burst profile is paced at the mean rate,    *)
(* exactly when it was granted in full and no faster when it was cut, for  *)
(* every profile set, minute length and RPM: burst.go:28-29 compensates    *)
(* exactly and scheduler.go:137-139 only ever adds to the pause.           *)
THEOREM MeanIsPreserved == Spec => []MeanPreserved
<1>1. PacingInv => MeanPreserved
  BY DEF PacingInv, BetweenBatches, MeanPreserved, Mean
<1> QED BY <1>1, PacingInvariant, PTL

(* Every slot of a fixed or burst profile runs within a minute of its      *)
(* reservation, and only the rest of a limiter's window that cut the batch *)
(* takes its closing pause beyond that minute.                             *)
THEOREM BurstStaysWithinMinute == Spec => []BurstWithinMinute
<1>1. PacingInv => BurstWithinMinute
  <2> SUFFICES ASSUME PacingInv, Steady
               PROVE  /\ position > 0 => paused < Minute
                      /\ \/ paused <= Minute
                         \/ position = 0 /\ paused - retryAfter < Minute
                      /\ retryAfter = 0 => paused <= Minute
    BY DEF BurstWithinMinute
  <2>1. /\ position \in Nat /\ paused \in Nat /\ granted \in Nat
        /\ position <= granted /\ granted <= rpm /\ rpm \in Nat
    BY CounterFacts, PacingFacts
  <2>2. CASE position = 0
    BY <2>1, <2>2 DEF PacingInv, BetweenBatches
  <2>3. CASE position > 0 /\ profile.type # "burst"
    <3>1. paused = 0
      BY <2>3 DEF Steady, PacingInv, InBatch
    <3> QED BY <3>1, <2>3, MinuteAssumption
  <2>4. CASE position > 0 /\ profile.type = "burst"
    <3>1. paused = (position - 1) * Intra
      BY <2>4 DEF PacingInv, InBatch
    <3>2. position - 1 \in Nat /\ position - 1 < rpm
      BY <2>1, <2>4
    <3>3. paused < Minute
      BY <3>1, <3>2, <2>4, BeforeSlot
    <3> QED BY <3>3, <2>1, MinuteAssumption
  <2> QED BY <2>1, <2>2, <2>3, <2>4
<1> QED BY <1>1, PacingInvariant, PTL

(* The compensating pause covers the mean interval in every reachable      *)
(* state: a burst's timer is never zero or negative.                       *)
THEOREM ClosingPauseIsPositive == Spec => []ClosingPauseCoversMean
<1>1. PacingInv => ClosingPauseCoversMean
  <2> SUFFICES ASSUME PacingInv, position > 0, profile.type = "burst"
               PROVE  ClosingDelay(profile, rpm, granted) >= MeanDelay(rpm)
    BY DEF ClosingPauseCoversMean
  <2>1. ProfileFields(profile) /\ Accepted(profile) /\ rpm \in 1 .. Minute
    BY PacingFacts
  <2>2. granted \in Nat /\ granted >= 1
    BY CounterFacts
  <2> QED BY <2>1, <2>2, ClosingDelayBounds
<1> QED BY <1>1, PacingInvariant, PTL
=============================================================================
