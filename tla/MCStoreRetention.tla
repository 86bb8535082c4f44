-------------------------- MODULE MCStoreRetention --------------------------
(* Model-checking instance of StoreRetention: a rolling update keeps a Pod *)
(* of the old configuration next to one of the new.                        *)
EXTENDS StoreRetention

OldAndNew == {"old", "new"}
=============================================================================
