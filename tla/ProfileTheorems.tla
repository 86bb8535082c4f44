-------------------------- MODULE ProfileTheorems --------------------------
(* Facts about the delays of module Profile, for every minute length. *)
EXTENDS Profile, TLAPS

ProfileFields(p) ==
  /\ p.type \in STRING
  /\ p.min \in Nat /\ p.max \in Nat /\ p.divisor \in Nat

(* meanDelay: at least one tick, and the requested number of intervals     *)
(* fits into a minute.                                                     *)
LEMMA MeanDelayBounds ==
  ASSUME NEW rpm \in 1 .. Minute
  PROVE  MeanDelay(rpm) \in 1 .. Minute /\ rpm * MeanDelay(rpm) <= Minute
<1> USE MinuteAssumption
<1>1. rpm * (Minute \div rpm) <= Minute /\ Minute < rpm * (Minute \div rpm) + rpm
      /\ (Minute \div rpm) \in Int
  OBVIOUS
<1>2. (Minute \div rpm) >= 1
  BY <1>1
<1>3. (Minute \div rpm) <= Minute
  BY <1>1, <1>2
<1> QED BY <1>1, <1>2, <1>3 DEF MeanDelay

(* burst.go: the pause inside a burst is at least a tick and at most the   *)
(* mean interval, so the clamp to one tick never lengthens the burst.      *)
LEMMA IntraBurstDelayBounds ==
  ASSUME NEW p, ProfileFields(p), Accepted(p), p.type = "burst",
         NEW rpm \in 1 .. Minute
  PROVE  IntraBurstDelay(p, rpm) \in 1 .. MeanDelay(rpm)
<1> DEFINE mean == MeanDelay(rpm)
           d == EffectiveDivisor(p)
<1>1. mean \in Nat /\ mean >= 1
  BY MeanDelayBounds, MinuteAssumption
<1>2. d \in Nat /\ d >= 1
  BY DEF EffectiveDivisor, Accepted, ProfileFields, MinimumBurstDelayDivisor,
         MaximumBurstDelayDivisor, DefaultBurstDelayDivisor
<1> HIDE DEF mean, d
<1>3. (mean \div d) \in Nat /\ (mean \div d) <= mean
  <2>1. (mean \div d) \in Int /\ d * (mean \div d) <= mean
        /\ mean < d * (mean \div d) + d
    BY <1>1, <1>2
  <2>2. (mean \div d) >= 0
    BY <2>1, <1>1, <1>2
  <2>3. (mean \div d) <= d * (mean \div d)
    BY <2>1, <2>2, <1>2
  <2>4. d * (mean \div d) \in Int
    BY <2>1, <1>2
  <2> QED BY <2>1, <2>2, <2>3, <2>4, <1>1
<1>4. Greatest(mean \div d, 1) \in 1 .. mean
  BY <1>1, <1>3 DEF Greatest
<1> QED BY <1>4 DEF IntraBurstDelay, mean, d

(* burst.go:28: the compensating pause is never shorter than the mean.     *)
LEMMA ClosingDelayBounds ==
  ASSUME NEW p, ProfileFields(p), Accepted(p), p.type = "burst",
         NEW rpm \in 1 .. Minute, NEW size \in Nat, size >= 1
  PROVE  ClosingDelay(p, rpm, size) \in Nat
         /\ ClosingDelay(p, rpm, size) >= MeanDelay(rpm)
<1> DEFINE mean == MeanDelay(rpm)
           intra == IntraBurstDelay(p, rpm)
<1>1. mean \in Nat /\ intra \in Nat /\ intra <= mean
  BY MeanDelayBounds, IntraBurstDelayBounds, MinuteAssumption
<1> HIDE DEF mean, intra
<1>2. (size - 1) * intra <= (size - 1) * mean
  <2>1. size - 1 \in Nat
    OBVIOUS
  <2> QED BY <2>1, <1>1
<1>3. size * mean - (size - 1) * mean = mean
  BY <1>1
<1>4. (size - 1) * intra \in Int /\ (size - 1) * mean \in Int /\ size * mean \in Int
  BY <1>1
<1>5. size * mean - (size - 1) * intra >= mean
  BY <1>1, <1>2, <1>3, <1>4
<1> QED BY <1>1, <1>4, <1>5 DEF ClosingDelay, mean, intra

(* Every batch size a profile draws is a positive number of permits within *)
(* the budget, so reserveBatch's own check never rejects it.               *)
LEMMA BatchSizesBounds ==
  ASSUME NEW p, ProfileFields(p), Accepted(p), NEW rpm \in 1 .. Minute
  PROVE  BatchSizes(p, rpm) \subseteq 1 .. rpm
<1>1. rpm \in Nat \ {0}
  BY MinuteAssumption
<1>2. CASE p.type = "burst"
  <2>1. p.min \in Nat /\ p.max \in Nat /\ p.min >= 2 /\ p.max >= p.min
    BY <1>2 DEF ProfileFields, Accepted
  <2>2. Least(p.max, rpm) \in 1 .. rpm
    BY <2>1, <1>1 DEF Least
  <2>3. Least(p.min, Least(p.max, rpm)) \in 1 .. Least(p.max, rpm)
    BY <2>1, <2>2, <1>1 DEF Least
  <2>4. BatchSizes(p, rpm) = Least(p.min, Least(p.max, rpm)) .. Least(p.max, rpm)
    BY <1>2 DEF BatchSizes
  <2> HIDE DEF Least
  <2> QED BY <2>2, <2>3, <2>4, <1>1
<1>3. CASE p.type # "burst"
  BY <1>1, <1>3 DEF BatchSizes
<1> QED BY <1>2, <1>3

(* Every pause a profile asks for is a positive number of ticks.           *)
LEMMA NextDelaysPositive ==
  ASSUME NEW p, ProfileFields(p), Accepted(p), NEW rpm \in 1 .. Minute,
         NEW size \in Nat, size >= 1, NEW position \in Nat
  PROVE  NextDelays(p, rpm, position, size) \subseteq Nat \ {0}
<1>1. MeanDelay(rpm) \in Nat \ {0}
  BY MeanDelayBounds, MinuteAssumption
<1>2. CASE p.type \in {"", "fixed"}
  BY <1>1, <1>2 DEF NextDelays
<1>3. CASE p.type = "uniform"
  <2>1. NextDelays(p, rpm, position, size) = 1 .. 2 * MeanDelay(rpm)
    BY <1>3 DEF NextDelays
  <2> QED BY <2>1, <1>1
<1>4. CASE p.type = "burst"
  <2>1. NextDelays(p, rpm, position, size)
          \subseteq {IntraBurstDelay(p, rpm), ClosingDelay(p, rpm, size)}
    BY <1>4 DEF NextDelays
  <2>2. IntraBurstDelay(p, rpm) \in Nat \ {0}
    BY <1>4, <1>1, IntraBurstDelayBounds
  <2>3. ClosingDelay(p, rpm, size) \in Nat \ {0}
    BY <1>4, <1>1, ClosingDelayBounds
  <2> QED BY <2>1, <2>2, <2>3
<1> QED BY <1>2, <1>3, <1>4 DEF Accepted
=============================================================================
