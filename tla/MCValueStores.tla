--------------------------- MODULE MCValueStores ---------------------------
(* Model-checking instance of ValueStores.  In Redis, a rolling update     *)
(* shrinks the pool; one call is of a replica of the new configuration.    *)
EXTENDS ValueStores

Shrinking == [c \in Clients |-> IF c = "new" THEN 2 ELSE 3]
=============================================================================
