----------------------------- MODULE RedisStore -----------------------------
(***************************************************************************)
(* One pool of RedisStore (redis_store.go): a Redis list that every        *)
(* replica of the runner shares.  Put is one MULTI of RPUSH and LTRIM;     *)
(* Random is two commands, LLEN and LINDEX, between which other clients    *)
(* run.  go-redis resends a command whose answer is lost up to MaxRetries  *)
(* times, whether or not Redis executed it.                                *)
(*                                                                         *)
(* The scenario exists and declares the store throughout, so the key       *)
(* neither expires nor is deleted.  The replicas of a rolling update have  *)
(* each their own capacity.  A command that Redis executes, it executes    *)
(* before the client stops waiting for its answer.                         *)
(***************************************************************************)
EXTENDS Integers, Sequences

CONSTANTS
  Clients,    \* the Execute calls of all replicas
  Values,     \* what responses are captured as
  Empty,      \* the empty string
  limits,     \* the capacity in each client's configuration
  MaxRetries  \* redisMaxRetries

VARIABLES
  list,       \* the Redis list
  call        \* what each client is calling, or what its last call returned

vars == <<list, call>>

----------------------------------------------------------------------------

Putting(v, n) == [op |-> "put", value |-> v, tries |-> n]
Measuring(n) == [op |-> "llen", tries |-> n]
Reading(i, n) == [op |-> "lindex", index |-> i, tries |-> n]
Returned(result, v) == [op |-> "idle", result |-> result, value |-> v]

Answer(c, a) == call' = [call EXCEPT ![c] = a]

Init ==
  /\ list = <<>>
  /\ call = [c \in Clients |-> Returned("none", Empty)]

Begin(c) ==
  /\ call[c].op = "idle"
  /\ \/ \E v \in Values : Answer(c, Putting(v, 0))
     \/ Answer(c, Measuring(0))
  /\ UNCHANGED list

(* LTRIM key -limit -1 keeps the last limit elements.                      *)
Trim(l, limit) ==
  LET dropped == IF limit < Len(l) THEN Len(l) - limit ELSE 0
  IN  [i \in 1 .. Len(l) - dropped |-> l[i + dropped]]

(* The MULTI is executed; its answer arrives or is lost.                   *)
Put(c) ==
  /\ call[c].op = "put"
  /\ call[c].value # Empty
  /\ list' = Trim(Append(list, call[c].value), limits[c])
  /\ \/ Answer(c, Returned("ok", call[c].value))
     \/ /\ call[c].tries < MaxRetries
        /\ Answer(c, [call[c] EXCEPT !.tries = @ + 1])
     \/ /\ call[c].tries = MaxRetries
        /\ Answer(c, Returned("failed", call[c].value))

(* Mutant: the index is drawn up to and including the length.              *)
InclusiveMeasure(c) ==
  /\ call[c].op = "llen"
  /\ \/ list = <<>> /\ Answer(c, Returned("missing", Empty))
     \/ list # <<>> /\ \E i \in 0 .. Len(list) : Answer(c, Reading(i, 0))
  /\ UNCHANGED list

(* LLEN: an empty pool is answered at once, else an index is drawn.        *)
Measure(c) ==
  /\ call[c].op = "llen"
  /\ \/ list = <<>> /\ Answer(c, Returned("missing", Empty))
     \/ \E i \in 0 .. Len(list) - 1 : Answer(c, Reading(i, 0))
  /\ UNCHANGED list

(* LINDEX: another replica may have shortened the list meanwhile.          *)
Read(c) ==
  /\ call[c].op = "lindex"
  /\ IF call[c].index < Len(list)
       THEN Answer(c, Returned("ok", list[call[c].index + 1]))
       ELSE Answer(c, Returned("missing", Empty))
  /\ UNCHANGED list

(* A command that does not reach Redis, or a read whose answer is lost, is *)
(* sent again.                                                             *)
Resend(c) ==
  /\ call[c].op \in {"put", "llen", "lindex"}
  /\ call[c].op = "put" => call[c].value # Empty
  /\ call[c].tries < MaxRetries
  /\ Answer(c, [call[c] EXCEPT !.tries = @ + 1])
  /\ UNCHANGED list

(* The last attempt fails, the context ends, or the value is empty.        *)
Fail(c) ==
  /\ call[c].op \in {"put", "llen", "lindex"}
  /\ Answer(c, Returned("failed", Empty))
  /\ UNCHANGED list

Next ==
  \E c \in Clients :
    Begin(c) \/ Put(c) \/ Measure(c) \/ Read(c) \/ Resend(c) \/ Fail(c)

Spec == Init /\ [][Next]_vars

----------------------------------------------------------------------------

(* A draw is one call to the client, whichever command it has reached.     *)
Observed(c) ==
  IF call[c].op \in {"llen", "lindex"} THEN [op |-> "random"] ELSE call[c]
=============================================================================
