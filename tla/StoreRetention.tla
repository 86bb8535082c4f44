--------------------------- MODULE StoreRetention ---------------------------
(***************************************************************************)
(* The Redis key of one named store of a Redis-backed scenario, and who    *)
(* keeps it.  Every runner process calls RedisStore.ReconcileKeys when it  *)
(* starts and again every maintenance interval: a scan for keys, then one  *)
(* pipeline that persists the keys of declared stores and gives all others *)
(* an expiry if they have none.  A process acts on the configuration it    *)
(* started with, so during a rollout processes disagree.                   *)
(*                                                                         *)
(* Time passes in ticks and TTL is in ticks.  A process whose interval has *)
(* passed maintains its keys, or fails to, before the next tick.  Pods     *)
(* start with the newest configuration and stop at any time: killed,       *)
(* replaced, or their scenario suspended.                                  *)
(***************************************************************************)
EXTENDS Integers

CONSTANTS
  Processes,
  TTL,          \* redisRemovedStoreTTL
  Interval,     \* storeMaintenanceCheckInterval
  MaxFailures,  \* bound: maintenance calls in a row that fail in one process
  MaxEdits      \* bound: changes to the scenario

ASSUME RetentionAssumption ==
  /\ TTL \in Nat /\ Interval \in Nat \ {0}
  /\ MaxFailures \in Nat /\ MaxEdits \in Nat
  /\ (MaxFailures + 1) * Interval < TTL   \* 168 hours against ten minutes

Forever == TTL + 1

VARIABLES
  declared,   \* does the scenario declare the store?
  suspended,  \* spec.suspend
  edits,      \* changes made so far
  exists,     \* is there a key, that is, are there values?
  ttl,        \* what is left of its expiry, Forever if it has none
  proc,       \* the processes
  unwanted    \* history: how long only processes without the store have run

vars == <<declared, suspended, edits, exists, ttl, proc, unwanted>>

Off == [at |-> "off", declares |-> FALSE, age |-> 0, failures |-> 0]

Running(p) == proc[p].at \in {"running", "maintain", "apply"}
Declares(p) == proc[p].declares

Init ==
  /\ declared \in BOOLEAN /\ suspended = FALSE /\ edits = 0
  /\ exists = FALSE /\ ttl = Forever
  /\ proc = [p \in Processes |-> Off]
  /\ unwanted = 0

-----------------------------------------------------------------------------
(* Users and Pods                                                          *)

Edit ==
  /\ edits < MaxEdits /\ edits' = edits + 1
  /\ \/ declared' = ~declared /\ UNCHANGED suspended
     \/ suspended' = ~suspended /\ UNCHANGED declared
  /\ UNCHANGED <<exists, ttl, proc, unwanted>>

Become(p, s) ==
  /\ proc' = [proc EXCEPT ![p] = s]
  /\ UNCHANGED <<declared, suspended, edits, unwanted>>

\* newRuntimeState: the first call of ReconcileKeys precedes everything else.
Start(p) ==
  /\ proc[p].at = "off" /\ ~suspended
  /\ proc' = [proc EXCEPT ![p] = [@ EXCEPT !.at = "initialScan", !.declares = declared]]
  /\ unwanted' = IF declared THEN 0 ELSE unwanted
  /\ UNCHANGED <<declared, suspended, edits, exists, ttl>>

Stop(p) ==
  /\ proc[p].at # "off"
  /\ Become(p, Off)
  /\ UNCHANGED <<exists, ttl>>

(* A captured value: RPUSH creates the key without an expiry and leaves    *)
(* the expiry of an existing one alone.                                    *)
Put(p) ==
  /\ Running(p) /\ Declares(p) /\ ~exists
  /\ exists' = TRUE /\ ttl' = Forever
  /\ UNCHANGED <<declared, suspended, edits, proc, unwanted>>

-----------------------------------------------------------------------------
(* RedisStore.ReconcileKeys                                                *)

(* After the call: the process runs, or begins to.                         *)
Maintained(p) == [proc[p] EXCEPT !.at = "running", !.failures = 0]

(* The scan; without a key the pipeline is not sent.                       *)
Scan(p) ==
  /\ proc[p].at \in {"initialScan", "maintain"}
  /\ Become(p, IF exists
                 THEN [proc[p] EXCEPT !.at = IF @ = "maintain" THEN "apply"
                                                              ELSE "initialApply"]
                 ELSE Maintained(p))
  /\ UNCHANGED <<exists, ttl>>

(* Mutant: EXPIRE without NX.                                              *)
RenewingReconcile(p) ==
  /\ ttl' = CASE Declares(p) -> Forever
              [] exists /\ ~Declares(p) -> TTL
              [] OTHER -> ttl
  /\ UNCHANGED exists

(* Mutant: declared stores are left as they are.                           *)
ForgetfulReconcile(p) ==
  /\ ttl' = IF exists /\ ~Declares(p) /\ ttl = Forever THEN TTL ELSE ttl
  /\ UNCHANGED exists

(* The pipeline's command for the key: PERSIST, or EXPIRE with NX; both do *)
(* nothing to a key that has gone since the scan.                          *)
Reconcile(p) ==
  /\ ttl' = CASE Declares(p) -> Forever
              [] exists /\ ~Declares(p) /\ ttl = Forever -> TTL
              [] OTHER -> ttl
  /\ UNCHANGED exists

Apply(p) ==
  /\ proc[p].at \in {"initialApply", "apply"}
  /\ Reconcile(p)
  /\ Become(p, Maintained(p))

(* Redis executes the pipeline and its answer is lost: go-redis sends it   *)
(* again.                                                                  *)
Resend(p) ==
  /\ proc[p].at \in {"initialApply", "apply"}
  /\ Reconcile(p)
  /\ UNCHANGED <<declared, suspended, edits, proc, unwanted>>

(* Redis does not answer the scan or the pipeline, which it may have       *)
(* executed nevertheless.  The process does not start; if it runs, it logs *)
(* the failure and waits for the next interval.                            *)
Fail(p) ==
  /\ \/ /\ proc[p].at \in {"initialScan", "maintain"} /\ UNCHANGED <<exists, ttl>>
     \/ /\ proc[p].at \in {"initialApply", "apply"}
        /\ Reconcile(p) \/ UNCHANGED <<exists, ttl>>
  /\ \/ /\ proc[p].at \in {"initialScan", "initialApply"}
        /\ Become(p, Off)
     \/ /\ proc[p].at \in {"maintain", "apply"}
        /\ proc[p].failures < MaxFailures
        /\ Become(p, [proc[p] EXCEPT !.at = "running", !.failures = @ + 1])

-----------------------------------------------------------------------------
(* Time                                                                    *)

(* Mutant: stores are only reconciled when a process starts.               *)
UnmaintainedElapse(s) == s

(* Mutant: the ticker fires one tick late.                                 *)
LateElapse(s) ==
  CASE s.at = "running" /\ s.age < Interval -> [s EXCEPT !.age = @ + 1]
    [] s.at = "running" /\ s.age = Interval -> [s EXCEPT !.age = 0, !.at = "maintain"]
    [] OTHER -> s

(* The ticker of maintainStores.                                           *)
Elapse(s) ==
  CASE s.at = "running" /\ s.age + 1 < Interval -> [s EXCEPT !.age = @ + 1]
    [] s.at = "running" /\ s.age + 1 = Interval ->
         [s EXCEPT !.age = 0, !.at = "maintain"]
    [] OTHER -> s

(* Processes run, and no process is left that declares the store.          *)
Unwanted ==
  /\ \E p \in Processes : Running(p)
  /\ \A p \in Processes : ~Declares(p)

(* A tick: a process that is due has maintained before the next one.       *)
Tick ==
  /\ \A p \in Processes : proc[p].at \in {"off", "running"}
  /\ exists' = (exists /\ ttl # 1)
  /\ ttl' = IF ttl \in {1, Forever} THEN Forever ELSE ttl - 1
  /\ proc' = [p \in Processes |-> Elapse(proc[p])]
  /\ unwanted' = IF exists' /\ Unwanted THEN unwanted + 1 ELSE 0
  /\ UNCHANGED <<declared, suspended, edits>>

-----------------------------------------------------------------------------

Next ==
  \/ Edit
  \/ Tick
  \/ \E p \in Processes :
       Start(p) \/ Stop(p) \/ Put(p) \/ Scan(p) \/ Apply(p) \/ Resend(p) \/ Fail(p)

Spec == Init /\ [][Next]_vars

(* The rollout: a process that disagrees with the scenario is stopped.     *)
Replace(p) ==
  /\ suspended \/ Declares(p) # declared
  /\ Stop(p)

(* Time passes, Redis answers in the end, the Deployment replaces outdated *)
(* Pods and starts missing ones.  A Pod may still be killed at any time,   *)
(* but not every time before it has maintained its keys: hence SF.         *)
Fairness ==
  /\ WF_vars(Tick)
  /\ \A p \in Processes :
       /\ WF_vars(Start(p)) /\ WF_vars(Replace(p))
       /\ SF_vars(Scan(p)) /\ SF_vars(Apply(p))

FairSpec == Spec /\ Fairness

-----------------------------------------------------------------------------

(* The types; there is no expiry without a key.                            *)
TypeOK ==
  /\ declared \in BOOLEAN /\ suspended \in BOOLEAN /\ exists \in BOOLEAN
  /\ edits \in 0 .. MaxEdits
  /\ ttl \in 1 .. Forever
  /\ ~exists => ttl = Forever
  /\ proc \in [Processes ->
       [at : {"off", "initialScan", "initialApply", "running", "maintain", "apply"},
        declares : BOOLEAN, age : 0 .. Interval - 1, failures : 0 .. MaxFailures]]
  /\ unwanted \in Nat

(* Values never expire under a running process that declares their store,  *)
(* although processes of an earlier configuration keep giving the key an   *)
(* expiry (ReconcileKeys) and maintenance calls fail.                      *)
NeverExpiresInUse ==
  [][exists /\ ~exists' => \A p \in Processes : Running(p) => ~Declares(p)]_vars

(* A removed store is gone in time: once no process declares it and some   *)
(* process runs, its key outlives the seven days by the time one           *)
(* maintenance takes to succeed at most, however often processes restart   *)
(* and repeat the call (ExpireNX).                                         *)
RemovedStoreExpires == unwanted < TTL + (MaxFailures + 1) * Interval

(* A scenario that declares the store for good and runs ends up with a     *)
(* store without an expiry, whatever earlier configurations left behind.   *)
RestoredStorePersists ==
  <>[](declared /\ ~suspended) => <>[](ttl = Forever)
=============================================================================
