------------------------------ MODULE Profile ------------------------------
(***************************************************************************)
(* The traffic profiles of internal/runner/profile: how many request slots *)
(* the scheduler asks for at once and how long it pauses after each slot.  *)
(* A random draw of the code is the set of values it may return.           *)
(***************************************************************************)
EXTENDS Integers

CONSTANT Minute   \* time.Minute in clock ticks (nanoseconds in the code)

ASSUME MinuteAssumption == Minute \in Nat \ {0}

DefaultBurstDelayDivisor == 10
MinimumBurstDelayDivisor == 2
MaximumBurstDelayDivisor == 100

Least(a, b) == IF a <= b THEN a ELSE b
Greatest(a, b) == IF a >= b THEN a ELSE b

(***************************************************************************)
(* A profile is [type, min, max, divisor]; the three burst fields are zero *)
(* when the configuration leaves them out.                                 *)
(***************************************************************************)
EffectiveDivisor(p) ==
  IF p.divisor = 0 THEN DefaultBurstDelayDivisor ELSE p.divisor

\* What profile.New accepts.
Accepted(p) ==
  \/ /\ p.type \in {"", "fixed", "uniform"}
     /\ p.min = 0 /\ p.max = 0 /\ p.divisor = 0
  \/ /\ p.type = "burst"
     /\ p.min >= 2 /\ p.max >= p.min
     /\ EffectiveDivisor(p)
          \in MinimumBurstDelayDivisor .. MaximumBurstDelayDivisor

MeanDelay(rpm) == Minute \div rpm

\* Mutant: the divisor stretches the pause inside a burst.
StretchedIntraBurstDelay(p, rpm) == MeanDelay(rpm) * EffectiveDivisor(p)

\* The pause between two requests of one burst, never below one tick.
IntraBurstDelay(p, rpm) ==
  Greatest(MeanDelay(rpm) \div EffectiveDivisor(p), 1)

\* The compensating pause that follows the last request of a burst.
ClosingDelay(p, rpm, size) ==
  size * MeanDelay(rpm) - (size - 1) * IntraBurstDelay(p, rpm)

\* Mutant: the effective group size is not capped at the current RPM.
UncappedBatchSizes(p, rpm) == IF p.type = "burst" THEN p.min .. p.max ELSE {1}

\* The batch sizes a runner may draw at this RPM.
BatchSizes(p, rpm) ==
  IF p.type = "burst"
  THEN LET maxSize == Least(p.max, rpm)
           minSize == Least(p.min, maxSize)
       IN  minSize .. maxSize
  ELSE {1}

\* Mutant: the closing pause forgets the time already spent inside the burst.
UncompensatedNextDelays(p, rpm, position, size) ==
  CASE p.type \in {"", "fixed"} -> {MeanDelay(rpm)}
    [] p.type = "uniform" -> 1 .. 2 * MeanDelay(rpm)
    [] OTHER -> IF position < size THEN {IntraBurstDelay(p, rpm)}
                ELSE {size * MeanDelay(rpm)}

\* The pauses that may follow the request at this position of a batch.
NextDelays(p, rpm, position, size) ==
  CASE p.type \in {"", "fixed"} -> {MeanDelay(rpm)}
    [] p.type = "uniform" -> 1 .. 2 * MeanDelay(rpm)
    [] OTHER -> IF position < size THEN {IntraBurstDelay(p, rpm)}
                ELSE {ClosingDelay(p, rpm, size)}
=============================================================================
