--------------------------- MODULE MCBatchPacing ---------------------------
(* Model-checking instance of BatchPacing. *)
EXTENDS BatchPacing

\* Every type with burst fields present and absent; New rejects some of them.
MCProfiles ==
  [type : {"", "fixed", "uniform", "burst"}, min : {0, 1, 2, 5}, max : {0, 2, 6, 20},
   divisor : {0, 2, 3, 100}]
=============================================================================
