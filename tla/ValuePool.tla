----------------------------- MODULE ValuePool -----------------------------
(***************************************************************************)
(* What a ValueStore promises of one named pool: a bounded queue that      *)
(* keeps the newest captured values and hands out any of them.  Both       *)
(* implementations, MemoryStore and RedisStore, are shown to implement it. *)
(*                                                                         *)
(* Clients are the Execute calls in flight; each one calls Put or Random   *)
(* and reads the result before it calls again.  A Put is attempted up to   *)
(* Attempts times: an attempt whose answer is lost may or may not have     *)
(* stored the value, so a value can be stored more than once and a Put     *)
(* that fails can have stored it.                                          *)
(***************************************************************************)
EXTENDS Naturals, Sequences

CONSTANTS
  Clients,    \* the Execute calls that share the pool
  Values,     \* what responses are captured as
  Empty,      \* the empty string
  Limit,      \* the capacity each client's configuration gives the pool
  Attempts    \* how often one Put is sent at most

VARIABLES
  pool,       \* the values kept, oldest first
  call        \* what each client is calling, or what its last call returned

vars == <<pool, call>>

----------------------------------------------------------------------------

Putting(v, n) == [op |-> "put", value |-> v, tries |-> n]
Drawing == [op |-> "random"]
Returned(result, v) == [op |-> "idle", result |-> result, value |-> v]

Newest(s, n) ==
  IF Len(s) <= n THEN s ELSE SubSeq(s, Len(s) - n + 1, Len(s))

Answer(c, a) == call' = [call EXCEPT ![c] = a]

Init ==
  /\ pool = <<>>
  /\ call = [c \in Clients |-> Returned("none", Empty)]

BeginPut(c, v) ==
  /\ call[c].op = "idle"
  /\ Answer(c, Putting(v, 0))
  /\ UNCHANGED pool

BeginRandom(c) ==
  /\ call[c].op = "idle"
  /\ Answer(c, Drawing)
  /\ UNCHANGED pool

(* An attempt that stores the value; the client learns of it, or the       *)
(* answer is lost and it tries again or gives up.                          *)
Store(c) ==
  /\ call[c].op = "put"
  /\ call[c].value # Empty
  /\ call[c].tries < Attempts
  /\ pool' = Newest(Append(pool, call[c].value), Limit[c])
  /\ \/ Answer(c, Returned("ok", call[c].value))
     \/ Answer(c, Returned("failed", call[c].value))
     \/ Answer(c, Putting(call[c].value, call[c].tries + 1))

(* An attempt that does not reach the pool.                                *)
Lose(c) ==
  /\ call[c].op = "put"
  /\ call[c].tries < Attempts
  /\ Answer(c, Putting(call[c].value, call[c].tries + 1))
  /\ UNCHANGED pool

(* The client's context ends, or its last attempt was lost.                *)
Fail(c) ==
  /\ call[c].op \in {"put", "random"}
  /\ Answer(c, Returned("failed", Empty))
  /\ UNCHANGED pool

Draw(c) ==
  /\ call[c].op = "random"
  /\ \E i \in DOMAIN pool : Answer(c, Returned("ok", pool[i]))
  /\ UNCHANGED pool

(* During a rolling update that shrinks the pool two capacities are in     *)
(* use, and a draw may find that the value it chose has just been evicted: *)
(* the pool then holds what the smaller one allows and less than the other *)
(* does.                                                                   *)
Shrunk == \E c, d \in Clients : Limit[c] <= Len(pool) /\ Len(pool) < Limit[d]

Miss(c) ==
  /\ call[c].op = "random"
  /\ pool = <<>> \/ Shrunk
  /\ Answer(c, Returned("missing", Empty))
  /\ UNCHANGED pool

Next ==
  \E c \in Clients :
    \/ \E v \in Values : BeginPut(c, v)
    \/ BeginRandom(c)
    \/ Store(c)
    \/ Lose(c)
    \/ Fail(c)
    \/ Draw(c)
    \/ Miss(c)

Spec == Init /\ [][Next]_vars
=============================================================================
