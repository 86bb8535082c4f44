---------------------------- MODULE MemoryStore ----------------------------
(***************************************************************************)
(* One pool of MemoryStore (store.go): a ring of at most limit values      *)
(* behind a lock.  Every call runs under that lock in one step, after the  *)
(* checks of its context and its value, so the clients are the concurrent  *)
(* Execute calls of one runner process.                                    *)
(***************************************************************************)
EXTENDS Naturals, Sequences

CONSTANTS
  Clients,    \* the Execute calls of the process
  Values,     \* what responses are captured as
  Empty,      \* the empty string
  limit       \* the configured capacity

VARIABLES
  values,     \* the ring
  next,       \* where the oldest value of a full ring is, counted from 0
  call        \* what each client is calling, or what its last call returned

vars == <<values, next, call>>

----------------------------------------------------------------------------

Putting(v) == [op |-> "put", value |-> v, tries |-> 0]
Drawing == [op |-> "random"]
Returned(result, v) == [op |-> "idle", result |-> result, value |-> v]

Answer(c, a) == call' = [call EXCEPT ![c] = a]

Init ==
  /\ values = <<>>
  /\ next = 0
  /\ call = [c \in Clients |-> Returned("none", Empty)]

(* Execute captures a value, or resolves a store variable.                 *)
Begin(c) ==
  /\ call[c].op = "idle"
  /\ \/ \E v \in Values : Answer(c, Putting(v))
     \/ Answer(c, Drawing)
  /\ UNCHANGED <<values, next>>

(* Mutant: the write position also advances while the ring still grows.    *)
AdvancingInsert(v) ==
  /\ values' = IF Len(values) < limit THEN Append(values, v)
                                      ELSE [values EXCEPT ![next + 1] = v]
  /\ next' = (next + 1) % limit

(* Mutant: a full ring always replaces its first slot.                     *)
StuckInsert(v) ==
  /\ values' = IF Len(values) < limit THEN Append(values, v)
                                      ELSE [values EXCEPT ![next + 1] = v]
  /\ UNCHANGED next

(* What happens to the ring under the write lock.                          *)
Insert(v) ==
  \/ /\ Len(values) < limit
     /\ values' = Append(values, v)
     /\ UNCHANGED next
  \/ /\ Len(values) >= limit
     /\ values' = [values EXCEPT ![next + 1] = v]
     /\ next' = (next + 1) % limit

Put(c) ==
  /\ call[c].op = "put"
  /\ call[c].value # Empty
  /\ Insert(call[c].value)
  /\ Answer(c, Returned("ok", call[c].value))

Random(c) ==
  /\ call[c].op = "random"
  /\ \/ values = <<>> /\ Answer(c, Returned("missing", Empty))
     \/ \E i \in DOMAIN values : Answer(c, Returned("ok", values[i]))
  /\ UNCHANGED <<values, next>>

(* The context has ended before the call looks at the pool, or the value   *)
(* to put is empty; nothing has been stored.                               *)
Refuse(c) ==
  /\ call[c].op \in {"put", "random"}
  /\ Answer(c, Returned("failed", Empty))
  /\ UNCHANGED <<values, next>>

Next == \E c \in Clients : Begin(c) \/ Put(c) \/ Random(c) \/ Refuse(c)

Spec == Init /\ [][Next]_vars

----------------------------------------------------------------------------

(* The types, with what store.go relies on to index the ring: it never     *)
(* outgrows its capacity and only a full ring has a write position.        *)
TypeOK ==
  /\ values \in Seq(Values \ {Empty})
  /\ Len(values) <= limit
  /\ next \in 0 .. limit - 1
  /\ Len(values) < limit => next = 0

(* The ring read from its oldest value on.                                 *)
FromOldest ==
  [i \in 1 .. Len(values) |-> values[((next + i - 1) % Len(values)) + 1]]
=============================================================================
