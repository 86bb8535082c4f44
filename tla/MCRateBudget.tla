---------------------------- MODULE MCRateBudget ----------------------------
(* Model-checking instances of RateBudget. *)
EXTENDS RateBudget, TLC

Fixed == [type |-> "fixed", min |-> 0, max |-> 0, divisor |-> 0]
Uniform == [type |-> "uniform", min |-> 0, max |-> 0, divisor |-> 0]
Burst == [type |-> "burst", min |-> 2, max |-> 2, divisor |-> 2]

ProcessSymmetry == Permutations(Processes)
=============================================================================
