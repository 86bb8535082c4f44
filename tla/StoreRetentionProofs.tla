------------------------ MODULE StoreRetentionProofs ------------------------
(***************************************************************************)
(* Proofs about StoreRetention, for any set of runner processes and any    *)
(* seven days, interval and run of failures that RetentionAssumption       *)
(* allows: a store in use never expires, and a removed one does in time.   *)
(*                                                                         *)
(* Both rest on how long ago a running process maintained its keys: its    *)
(* debt.  The expiry of a store that a running process declares was set    *)
(* after that maintenance, so what is left of it and the debt make up TTL; *)
(* and a key without expiry that nobody declares was left alone since the  *)
(* last maintenance of every running process.                              *)
(***************************************************************************)
EXTENDS StoreRetention, TLAPS

Steps == {"off", "initialScan", "initialApply", "running", "maintain", "apply"}

ProcessStates ==
  [at : Steps, declares : BOOLEAN, age : 0 .. Interval - 1, failures : 0 .. MaxFailures]

(* Ticks since a running process last maintained its keys.                 *)
Debt(s) ==
  s.failures * Interval + s.age + (IF s.at \in {"maintain", "apply"} THEN Interval ELSE 0)

(* The longest a process can go without maintaining its keys.              *)
MaxDebt == (MaxFailures + 1) * Interval

(* A process counts ticks and failures while it runs, and declares nothing *)
(* while it is off.                                                        *)
Regular(s) ==
  /\ s.at # "running" => s.age = 0
  /\ s.at \in {"off", "initialScan", "initialApply"} => s.failures = 0
  /\ s.at = "off" => ~s.declares

(* The expiry of a store in use is younger than any of its users' last     *)
(* maintenance.                                                            *)
YoungerThanMaintenance ==
  \A p \in Processes : Running(p) /\ Declares(p) => ttl + Debt(proc[p]) >= TTL

(* The history variable counts a key that exists and nobody declares.      *)
UnwantedIsUndeclared ==
  unwanted > 0 => exists /\ \A p \in Processes : ~Declares(p)

(* Such a key without an expiry waits for the next maintenance of a        *)
(* running process; with one, it has had that wait already.                *)
UnwantedIsDue ==
  /\ ttl = Forever => /\ unwanted <= MaxDebt
                      /\ \A p \in Processes : Running(p) => unwanted <= Debt(proc[p])
  /\ ttl # Forever => unwanted + ttl <= TTL + MaxDebt

IInv ==
  /\ TypeOK
  /\ \A p \in Processes : Regular(proc[p])
  /\ YoungerThanMaintenance
  /\ UnwantedIsUndeclared
  /\ UnwantedIsDue

-----------------------------------------------------------------------------
(* The debt of one process                                                 *)

(* Interval after interval.                                                *)
LEMMA Products ==
  ASSUME NEW n \in Nat, NEW m \in Nat, NEW i \in Nat, n <= m
  PROVE  /\ n * i \in Nat
         /\ (n + 1) * i = n * i + i
         /\ n * i <= m * i
<1>1. n * i \in Nat /\ (n + 1) * i = n * i + i
  OBVIOUS
<1>2. PICK k \in Nat : m = n + k
  <2> WITNESS m - n \in Nat
  <2> QED OBVIOUS
<1>3. k * i \in Nat /\ (n + k) * i = n * i + k * i
  OBVIOUS
<1> QED BY <1>1, <1>2, <1>3

(* What the proofs use of the constants.                                   *)
LEMMA Constants ==
  /\ TTL \in Nat /\ Interval \in Nat /\ Interval > 0 /\ MaxFailures \in Nat
  /\ MaxEdits \in Nat /\ MaxDebt \in Nat /\ MaxDebt < TTL
  /\ Forever \in Nat /\ Forever = TTL + 1
<1>1. TTL \in Nat /\ Interval \in Nat /\ Interval > 0 /\ MaxFailures \in Nat /\ MaxEdits \in Nat
  BY RetentionAssumption
<1>2. (MaxFailures + 1) * Interval < TTL
  BY RetentionAssumption
<1>3. MaxFailures * Interval \in Nat
      /\ (MaxFailures + 1) * Interval = MaxFailures * Interval + Interval
  BY <1>1, Products
<1> QED BY <1>1, <1>2, <1>3 DEF MaxDebt, Forever

(* A process maintains before a run of failures is longer than MaxFailures *)
(* intervals and the one under way.                                        *)
LEMMA DebtBounds ==
  ASSUME NEW s \in ProcessStates, Regular(s)
  PROVE  /\ Debt(s) \in Nat
         /\ MaxDebt \in Nat
         /\ Debt(s) <= MaxDebt
         /\ s.at = "running" => Debt(s) < MaxDebt
<1> USE Constants
<1> DEFINE product == s.failures * Interval
           most == MaxFailures * Interval
<1>1. s.failures \in Nat /\ s.failures <= MaxFailures /\ s.age \in 0 .. Interval - 1
  BY DEF ProcessStates
<1>2. product \in Nat /\ product <= most /\ most \in Nat /\ MaxDebt = most + Interval
  BY <1>1, Products DEF MaxDebt
<1>3. s.at # "running" => s.age = 0
  BY DEF Regular
<1>4. Debt(s) = product + s.age + (IF s.at \in {"maintain", "apply"} THEN Interval ELSE 0)
  BY DEF Debt
<1> HIDE DEF product, most
<1> QED BY <1>1, <1>2, <1>3, <1>4

(* Records of processes.                                                   *)
LEMMA Updates ==
  ASSUME NEW s \in ProcessStates, NEW a \in Steps,
         NEW n \in 0 .. Interval - 1, NEW f \in 0 .. MaxFailures, NEW b \in BOOLEAN
  PROVE  /\ [s EXCEPT !.at = a, !.failures = f] \in ProcessStates
         /\ [s EXCEPT !.age = n, !.at = a] \in ProcessStates
         /\ [s EXCEPT !.at = a, !.declares = b] \in ProcessStates
BY DEF ProcessStates

(* A call of ReconcileKeys that succeeds starts the count again.           *)
LEMMA MaintainedDebt ==
  ASSUME NEW s \in ProcessStates, Regular(s), s.at \notin {"off", "running"}
  PROVE  LET t == [s EXCEPT !.at = "running", !.failures = 0]
         IN  /\ t \in ProcessStates /\ Regular(t)
             /\ t.at = "running" /\ t.declares = s.declares
             /\ Debt(t) = 0
<1> USE Constants
<1> DEFINE t == [s EXCEPT !.at = "running", !.failures = 0]
<1>1. /\ t.at = "running" /\ t.declares = s.declares /\ t.age = s.age /\ s.age = 0
      /\ t.failures = 0
  BY DEF ProcessStates, Steps, Regular
<1>2. t \in ProcessStates
  <2>1. "running" \in Steps /\ 0 \in 0 .. MaxFailures /\ 0 \in 0 .. Interval - 1
    BY DEF Steps
  <2> QED BY <2>1, Updates
<1>3. Regular(t)
  BY <1>1 DEF Regular
<1>4. Debt(t) = 0 * Interval + 0 + 0
  BY <1>1 DEF Debt
<1>5. Debt(t) = 0
  BY <1>4
<1> QED BY <1>1, <1>2, <1>3, <1>5

(* One that fails lets it go on.                                           *)
LEMMA FailedDebt ==
  ASSUME NEW s \in ProcessStates, Regular(s), s.at \in {"maintain", "apply"},
         s.failures < MaxFailures
  PROVE  LET t == [s EXCEPT !.at = "running", !.failures = @ + 1]
         IN  /\ t \in ProcessStates /\ Regular(t)
             /\ t.at = "running" /\ t.declares = s.declares
             /\ Debt(t) = Debt(s)
<1> USE Constants
<1> DEFINE t == [s EXCEPT !.at = "running", !.failures = @ + 1]
<1>1. t \in ProcessStates
  <2>1. "running" \in Steps /\ s.failures + 1 \in 0 .. MaxFailures /\ 0 \in 0 .. Interval - 1
    BY DEF Steps, ProcessStates
  <2> QED BY <2>1, Updates
<1>2. /\ t.at = "running" /\ t.declares = s.declares /\ t.age = s.age /\ s.age = 0
      /\ t.failures = s.failures + 1 /\ s.failures \in Nat
  BY DEF ProcessStates, Steps, Regular
<1>3. (s.failures + 1) * Interval = s.failures * Interval + Interval
      /\ s.failures * Interval \in Nat
  BY <1>2, Products
<1>4. Debt(t) = (s.failures + 1) * Interval + 0 + 0
  BY <1>2 DEF Debt
<1>5. Debt(s) = s.failures * Interval + 0 + Interval
  BY <1>2 DEF Debt
<1>6. Debt(t) = Debt(s)
  BY <1>3, <1>4, <1>5
<1>7. Regular(t)
  BY <1>2 DEF Regular
<1> QED BY <1>1, <1>2, <1>6, <1>7

(* The scan finds a key: the pipeline is to follow.                        *)
LEMMA ScannedDebt ==
  ASSUME NEW s \in ProcessStates, Regular(s), s.at \in {"initialScan", "maintain"}
  PROVE  LET t == [s EXCEPT !.at = IF @ = "maintain" THEN "apply" ELSE "initialApply"]
         IN  /\ t \in ProcessStates /\ Regular(t)
             /\ t.declares = s.declares
             /\ t.at = IF s.at = "maintain" THEN "apply" ELSE "initialApply"
             /\ Debt(t) = Debt(s)
BY DEF ProcessStates, Steps, Regular, Debt

(* A tick adds one to the debt of a running process, also when it is the   *)
(* last of its interval.                                                   *)
LEMMA ElapsedDebt ==
  ASSUME NEW s \in ProcessStates, Regular(s), s.at \in {"off", "running"}
  PROVE  /\ Elapse(s) \in ProcessStates /\ Regular(Elapse(s))
         /\ Elapse(s).declares = s.declares
         /\ s.at = "off" => Elapse(s).at = "off"
         /\ s.at = "running" => /\ Elapse(s).at \in {"running", "maintain"}
                                /\ Debt(Elapse(s)) = Debt(s) + 1
<1> USE Constants
<1> DEFINE product == s.failures * Interval
<1>1. s.failures \in Nat /\ s.age \in 0 .. Interval - 1 /\ Interval \in Nat
  BY DEF ProcessStates
<1>2. product \in Nat
  BY <1>1, Products
<1>3. CASE s.at = "off"
  <2>1. Elapse(s) = s
    BY <1>3 DEF Elapse
  <2> QED BY <1>3, <2>1
<1>4. CASE s.at = "running" /\ s.age + 1 < Interval
  <2> DEFINE t == [s EXCEPT !.age = @ + 1]
  <2>1. Elapse(s) = t
    BY <1>1, <1>4 DEF Elapse
  <2>2. t \in ProcessStates /\ Regular(t)
    BY <1>1, <1>4 DEF ProcessStates, Regular, Steps
  <2>3. /\ t.at = "running" /\ t.age = s.age + 1 /\ t.failures = s.failures
        /\ t.declares = s.declares
    BY <1>4 DEF ProcessStates
  <2>4. Debt(t) = product + (s.age + 1) + 0 /\ Debt(s) = product + s.age + 0
    BY <1>4, <2>3 DEF Debt
  <2> HIDE DEF product, t
  <2>5. Debt(t) = Debt(s) + 1
    BY <1>1, <1>2, <2>4
  <2> QED BY <1>4, <2>1, <2>2, <2>3, <2>5
<1>5. CASE s.at = "running" /\ s.age + 1 = Interval
  <2> DEFINE t == [s EXCEPT !.age = 0, !.at = "maintain"]
  <2>1. Elapse(s) = t
    BY <1>1, <1>5 DEF Elapse
  <2>2. t \in ProcessStates
    <3>1. "maintain" \in Steps /\ 0 \in 0 .. Interval - 1 /\ s.failures \in 0 .. MaxFailures
      BY DEF Steps, ProcessStates
    <3> QED BY <3>1, Updates
  <2>3. /\ t.at = "maintain" /\ t.age = 0 /\ t.failures = s.failures
        /\ t.declares = s.declares
    BY <1>5 DEF ProcessStates
  <2>6. Regular(t)
    BY <2>3 DEF Regular
  <2>4. Debt(t) = product + 0 + Interval /\ Debt(s) = product + s.age + 0
    BY <1>5, <2>3 DEF Debt
  <2> HIDE DEF product, t
  <2>5. Debt(t) = Debt(s) + 1
    BY <1>1, <1>2, <1>5, <2>4
  <2> QED BY <1>5, <2>1, <2>2, <2>3, <2>5, <2>6
<1> QED BY <1>1, <1>3, <1>4, <1>5

-----------------------------------------------------------------------------
(* The invariant is inductive                                              *)

RunningState(s) == s.at \in {"running", "maintain", "apply"}

LEMMA TypeOfProc ==
  TypeOK <=> /\ declared \in BOOLEAN /\ suspended \in BOOLEAN /\ exists \in BOOLEAN
             /\ edits \in 0 .. MaxEdits
             /\ ttl \in 1 .. Forever
             /\ ~exists => ttl = Forever
             /\ proc \in [Processes -> ProcessStates]
             /\ unwanted \in Nat
BY DEF TypeOK, ProcessStates, Steps

LEMMA RetentionInit == Init => IInv
<1> SUFFICES ASSUME Init PROVE IInv
  OBVIOUS
<1> USE Constants
<1>1. Off \in ProcessStates /\ Regular(Off) /\ Off.at = "off" /\ ~Off.declares
  BY DEF Off, ProcessStates, Steps, Regular
<1>2. TypeOK
  <2>1. ttl \in 1 .. Forever /\ 0 \in 0 .. MaxEdits
    BY DEF Init, Forever
  <2>2. proc \in [Processes -> ProcessStates]
    BY <1>1 DEF Init
  <2> QED BY <2>1, <2>2, TypeOfProc DEF Init
<1>3. \A p \in Processes : proc[p] = Off
  BY DEF Init
<1>4. YoungerThanMaintenance
  BY <1>1, <1>3 DEF YoungerThanMaintenance, Running
<1>5. UnwantedIsUndeclared /\ UnwantedIsDue
  BY <1>1, <1>3 DEF UnwantedIsUndeclared, UnwantedIsDue, Running, Init
<1> QED BY <1>1, <1>2, <1>3, <1>4, <1>5 DEF IInv

(* What a step of one process must see to: its own share of the invariant, *)
(* and that it only renews the expiry, sets one where there is none, or    *)
(* leaves it alone.                                                        *)
Harmless(t) ==
  /\ declared' \in BOOLEAN /\ suspended' \in BOOLEAN /\ exists' \in BOOLEAN
  /\ edits' \in 0 .. MaxEdits /\ ttl' \in 1 .. Forever /\ unwanted' \in Nat
  /\ ~exists' => ttl' = Forever
  /\ ttl' = ttl \/ ttl' >= TTL
  /\ RunningState(t) /\ t.declares => ttl' + Debt(t) >= TTL
  /\ unwanted' > 0 =>
       /\ unwanted' = unwanted /\ exists' = exists /\ ~t.declares
       /\ ttl' = Forever => ttl = Forever /\ (RunningState(t) => unwanted <= Debt(t))
       /\ ttl' # Forever => ttl' = ttl \/ (ttl = Forever /\ ttl' = TTL)

LEMMA OneProcess ==
  ASSUME IInv, NEW p \in Processes, NEW t \in ProcessStates, Regular(t),
         proc' = [proc EXCEPT ![p] = t], Harmless(t)
  PROVE  IInv'
<1> USE Constants
<1>1. /\ proc \in [Processes -> ProcessStates] /\ ttl \in Nat /\ unwanted \in Nat
      /\ ttl' \in Nat /\ unwanted' \in Nat
  BY TypeOfProc DEF IInv, Harmless
<1>2. /\ proc' \in [Processes -> ProcessStates] /\ proc'[p] = t
      /\ \A q \in Processes : q # p => proc'[q] = proc[q]
  BY <1>1
<1>3. TypeOK'
  BY <1>2 DEF TypeOK, ProcessStates, Steps, Harmless
<1>4. \A q \in Processes : Regular(proc'[q])
  BY <1>2 DEF IInv
<1>5. \A q \in Processes : Debt(proc[q]) \in Nat /\ Debt(proc'[q]) \in Nat
  BY <1>1, <1>2, <1>4, DebtBounds DEF IInv
<1>6. YoungerThanMaintenance'
  <2> SUFFICES ASSUME NEW q \in Processes, Running(q)', Declares(q)'
               PROVE  ttl' + Debt(proc'[q]) >= TTL
    BY DEF YoungerThanMaintenance
  <2>1. CASE q = p
    BY <2>1, <1>2 DEF Running, Declares, RunningState, Harmless
  <2>2. CASE q # p
    <3>1. ttl + Debt(proc[q]) >= TTL /\ proc'[q] = proc[q]
      BY <2>2, <1>2 DEF IInv, YoungerThanMaintenance, Running, Declares
    <3>2. ttl' = ttl \/ ttl' >= TTL
      BY DEF Harmless
    <3> QED BY <3>1, <3>2, <1>1, <1>5
  <2> QED BY <2>1, <2>2
<1>7. UnwantedIsUndeclared'
  <2> SUFFICES ASSUME unwanted' > 0 PROVE exists' /\ \A q \in Processes : ~Declares(q)'
    BY DEF UnwantedIsUndeclared
  <2>1. unwanted > 0 /\ exists' = exists /\ ~t.declares
    BY DEF Harmless
  <2>2. exists /\ \A q \in Processes : ~Declares(q)
    BY <2>1 DEF IInv, UnwantedIsUndeclared
  <2> QED BY <2>1, <2>2, <1>2 DEF Declares
<1>8. UnwantedIsDue'
  <2>1. /\ ttl = Forever => unwanted <= MaxDebt
        /\ ttl # Forever => unwanted + ttl <= TTL + MaxDebt
    BY DEF IInv, UnwantedIsDue
  <2>2. CASE ttl' = Forever
    <3>1. unwanted' <= MaxDebt
      BY <2>1, <2>2, <1>1 DEF Harmless
    <3>2. ASSUME NEW q \in Processes, Running(q)' PROVE unwanted' <= Debt(proc'[q])
      <4>1. CASE unwanted' = 0
        BY <4>1, <1>5
      <4>2. CASE unwanted' > 0
        <5>1. unwanted' = unwanted /\ ttl = Forever /\ (RunningState(t) => unwanted <= Debt(t))
          BY <2>2, <4>2 DEF Harmless
        <5>2. Running(q) => unwanted <= Debt(proc[q])
          BY <5>1 DEF IInv, UnwantedIsDue
        <5> QED BY <3>2, <5>1, <5>2, <1>2 DEF Running, RunningState
      <4> QED BY <4>1, <4>2, <1>1
    <3> QED BY <2>2, <3>1, <3>2 DEF UnwantedIsDue
  <2>3. CASE ttl' # Forever
    <3>1. ttl' <= TTL
      BY <2>3, <1>1 DEF Harmless
    <3>2. unwanted' > 0 => unwanted' = unwanted /\ (ttl' = ttl \/ (ttl = Forever /\ ttl' = TTL))
      BY <2>3 DEF Harmless
    <3>3. unwanted' + ttl' <= TTL + MaxDebt
      <4>1. CASE unwanted' = 0
        <5>1. \A x, n, d \in Nat : x <= n => 0 + x <= n + d
          OBVIOUS
        <5> QED BY <4>1, <3>1, <1>1, <5>1
      <4>2. CASE unwanted' > 0 /\ ttl' = ttl
        BY <4>2, <3>2, <2>1, <2>3, <1>1
      <4>3. CASE unwanted' > 0 /\ ttl = Forever /\ ttl' = TTL
        BY <4>3, <3>2, <2>1, <1>1
      <4>4. unwanted' = 0 \/ unwanted' > 0
        BY <1>1
      <4> QED BY <4>1, <4>2, <4>3, <4>4, <3>2
    <3> QED BY <2>3, <3>3 DEF UnwantedIsDue
  <2> QED BY <2>2, <2>3
<1> QED BY <1>3, <1>4, <1>6, <1>7, <1>8 DEF IInv

(* The facts about the acting process and the store that every step uses.  *)
LEMMA Facts ==
  ASSUME IInv, NEW p \in Processes
  PROVE  /\ proc \in [Processes -> ProcessStates] /\ proc[p] \in ProcessStates
         /\ Regular(proc[p]) /\ Debt(proc[p]) \in Nat
         /\ proc = [proc EXCEPT ![p] = proc[p]]
         /\ declared \in BOOLEAN /\ suspended \in BOOLEAN /\ exists \in BOOLEAN
         /\ edits \in 0 .. MaxEdits /\ ttl \in 1 .. Forever /\ ttl \in Nat
         /\ unwanted \in Nat
         /\ ~exists => ttl = Forever
         /\ Running(p) /\ Declares(p) => ttl + Debt(proc[p]) >= TTL
         /\ unwanted > 0 => exists /\ ~Declares(p)
         /\ ttl = Forever /\ Running(p) => unwanted <= Debt(proc[p])
<1>1. /\ proc \in [Processes -> ProcessStates] /\ proc[p] \in ProcessStates
      /\ declared \in BOOLEAN /\ suspended \in BOOLEAN /\ exists \in BOOLEAN
      /\ edits \in 0 .. MaxEdits /\ ttl \in 1 .. Forever /\ unwanted \in Nat
      /\ ~exists => ttl = Forever
  BY TypeOfProc DEF IInv
<1>2. Regular(proc[p])
  BY DEF IInv
<1>3. Debt(proc[p]) \in Nat
  BY <1>1, <1>2, DebtBounds
<1>4. proc = [proc EXCEPT ![p] = proc[p]]
  BY <1>1
<1>5. /\ Running(p) /\ Declares(p) => ttl + Debt(proc[p]) >= TTL
      /\ unwanted > 0 => exists /\ ~Declares(p)
      /\ ttl = Forever /\ Running(p) => unwanted <= Debt(proc[p])
  BY DEF IInv, YoungerThanMaintenance, UnwantedIsUndeclared, UnwantedIsDue
<1>6. ttl \in Nat
  BY <1>1, Constants
<1> QED BY <1>1, <1>2, <1>3, <1>4, <1>5, <1>6

(* PERSIST or EXPIRE NX, from a process that maintains its keys.           *)
LEMMA ReconcileFacts ==
  ASSUME IInv, NEW p \in Processes, Reconcile(p)
  PROVE  /\ exists' = exists /\ ttl' \in 1 .. Forever
         /\ ttl' = ttl \/ ttl' >= TTL
         /\ ~exists => ttl' = Forever
         /\ Declares(p) => ttl' = Forever
         /\ ~Declares(p) /\ exists /\ ttl = Forever => ttl' = TTL
         /\ ~Declares(p) /\ ~(exists /\ ttl = Forever) => ttl' = ttl
<1>1. Declares(p) \in BOOLEAN
  BY Facts DEF ProcessStates, Declares
<1> QED BY <1>1, Facts, Constants DEF Reconcile

LEMMA StartStep == ASSUME IInv, NEW p \in Processes, Start(p) PROVE IInv'
<1> USE Constants
<1> DEFINE t == [proc[p] EXCEPT !.at = "initialScan", !.declares = declared]
<1>1. /\ t \in ProcessStates /\ t.at = "initialScan" /\ t.declares = declared
      /\ t.age = proc[p].age /\ t.failures = proc[p].failures
  <2>1. "initialScan" \in Steps /\ 0 \in 0 .. Interval - 1 /\ 0 \in 0 .. MaxFailures
    BY DEF Steps
  <2>2. proc[p] \in ProcessStates /\ declared \in BOOLEAN
    BY Facts
  <2>3. t \in ProcessStates
    BY <2>1, <2>2, Updates
  <2>4. /\ t.age = proc[p].age /\ t.failures = proc[p].failures
        /\ t.at = "initialScan" /\ t.declares = declared
    BY <2>2 DEF ProcessStates
  <2> QED BY <2>3, <2>4
<1>2. Regular(t)
  BY <1>1, Facts DEF Start, Regular
<1>3. proc' = [proc EXCEPT ![p] = t]
  BY DEF Start
<1>4. ~RunningState(t)
  BY <1>1 DEF RunningState
<1>5. unwanted' \in Nat /\ (unwanted' > 0 => unwanted' = unwanted /\ ~declared)
  BY Facts DEF Start
<1> HIDE DEF t
<1>6. Harmless(t)
  BY <1>1, <1>4, <1>5, Facts DEF Start, Harmless
<1> QED BY <1>1, <1>2, <1>3, <1>6, OneProcess

LEMMA StopStep == ASSUME IInv, NEW p \in Processes, Stop(p) PROVE IInv'
<1> USE Constants
<1>1. Off \in ProcessStates /\ Regular(Off) /\ Off.at = "off" /\ ~Off.declares
  BY DEF Off, ProcessStates, Steps, Regular
<1>2. proc' = [proc EXCEPT ![p] = Off]
  BY DEF Stop, Become
<1>3. ~RunningState(Off)
  BY <1>1 DEF RunningState
<1>4. Harmless(Off)
  BY <1>1, <1>3, Facts DEF Stop, Become, Harmless
<1> QED BY <1>1, <1>2, <1>4, OneProcess

LEMMA PutStep == ASSUME IInv, NEW p \in Processes, Put(p) PROVE IInv'
<1> USE Constants
<1>1. proc' = [proc EXCEPT ![p] = proc[p]]
  BY Facts DEF Put
<1>2. ~exists /\ unwanted' = 0
  BY Facts DEF Put
<1>3. Harmless(proc[p])
  BY <1>2, Facts DEF Put, Harmless
<1> QED BY <1>1, <1>3, Facts, OneProcess

LEMMA ScanStep == ASSUME IInv, NEW p \in Processes, Scan(p) PROVE IInv'
<1> USE Constants
<1>1. CASE exists
  <2> DEFINE t == [proc[p] EXCEPT !.at = IF @ = "maintain" THEN "apply" ELSE "initialApply"]
  <2>1. proc[p].at \in {"initialScan", "maintain"} /\ proc' = [proc EXCEPT ![p] = t]
    BY <1>1 DEF Scan, Become
  <2>2. /\ t \in ProcessStates /\ Regular(t) /\ Debt(t) = Debt(proc[p])
        /\ t.declares = proc[p].declares
        /\ t.at = IF proc[p].at = "maintain" THEN "apply" ELSE "initialApply"
    BY <2>1, Facts, ScannedDebt
  <2> HIDE DEF t
  <2>3. RunningState(t) => Running(p)
    BY <2>1, <2>2 DEF RunningState, Running
  <2>4. Harmless(t)
    BY <2>2, <2>3, Facts DEF Scan, Become, Harmless, Declares
  <2> QED BY <2>1, <2>2, <2>4, OneProcess
<1>2. CASE ~exists
  <2>1. proc[p].at \notin {"off", "running"} /\ proc' = [proc EXCEPT ![p] = Maintained(p)]
    BY <1>2 DEF Scan, Become
  <2>2. Maintained(p) \in ProcessStates /\ Regular(Maintained(p)) /\ Debt(Maintained(p)) = 0
    BY <2>1, Facts, MaintainedDebt DEF Maintained
  <2>3. ttl' = Forever /\ unwanted' = 0 /\ unwanted = 0
    BY <1>2, Facts DEF Scan, Become
  <2>4. Harmless(Maintained(p))
    BY <2>2, <2>3, Facts DEF Scan, Become, Harmless
  <2> QED BY <2>1, <2>2, <2>4, OneProcess
<1> QED BY <1>1, <1>2

LEMMA ApplyStep == ASSUME IInv, NEW p \in Processes, Apply(p) PROVE IInv'
<1> USE Constants
<1> DEFINE t == Maintained(p)
<1>1. proc[p].at \notin {"off", "running"} /\ proc' = [proc EXCEPT ![p] = t]
  BY DEF Apply, Become
<1>2. t \in ProcessStates /\ Regular(t) /\ Debt(t) = 0 /\ t.declares = Declares(p)
  BY <1>1, Facts, MaintainedDebt DEF Maintained, Declares
<1> HIDE DEF t
<1>3. Reconcile(p) /\ UNCHANGED <<declared, suspended, edits, unwanted>>
  BY DEF Apply, Become
<1>4. unwanted > 0 => exists /\ ~Declares(p) /\ ttl' # Forever
  BY <1>3, Facts, ReconcileFacts
<1>5. Harmless(t)
  BY <1>2, <1>3, <1>4, Facts, ReconcileFacts DEF Harmless
<1> QED BY <1>1, <1>2, <1>5, OneProcess

LEMMA ResendStep == ASSUME IInv, NEW p \in Processes, Resend(p) PROVE IInv'
<1> USE Constants
<1>1. proc' = [proc EXCEPT ![p] = proc[p]]
  BY Facts DEF Resend
<1>2. Reconcile(p) /\ UNCHANGED <<declared, suspended, edits, unwanted>>
  BY DEF Resend
<1>3. unwanted > 0 => exists /\ ~Declares(p) /\ ttl' # Forever
  BY <1>2, Facts, ReconcileFacts
<1>4. Harmless(proc[p])
  BY <1>2, <1>3, Facts, ReconcileFacts DEF Harmless, RunningState, Running, Declares
<1> QED BY <1>1, <1>4, Facts, OneProcess

LEMMA FailStep == ASSUME IInv, NEW p \in Processes, Fail(p) PROVE IInv'
<1> USE Constants
<1>1. UNCHANGED <<declared, suspended, edits, unwanted>>
  BY DEF Fail, Become
<1>2. \/ Reconcile(p)
      \/ UNCHANGED <<exists, ttl>>
  BY DEF Fail
<1>3. /\ exists' = exists /\ ttl' \in 1 .. Forever
      /\ ttl' = ttl \/ ttl' >= TTL
      /\ ~exists => ttl' = Forever
      /\ Declares(p) => ttl' = Forever \/ ttl' = ttl
      /\ ~Declares(p) => ttl' = ttl \/ (ttl = Forever /\ ttl' = TTL)
  BY <1>2, Facts, ReconcileFacts
<1>4. CASE proc[p].at \in {"initialScan", "initialApply"}
  <2>1. Off \in ProcessStates /\ Regular(Off) /\ Off.at = "off" /\ ~Off.declares
    BY DEF Off, ProcessStates, Steps, Regular
  <2>2. proc' = [proc EXCEPT ![p] = Off]
    BY <1>4 DEF Fail, Become
  <2>3. ~RunningState(Off)
    BY <2>1 DEF RunningState
  <2>4. Harmless(Off)
    BY <1>1, <1>3, <2>1, <2>3, Facts DEF Harmless
  <2> QED BY <2>1, <2>2, <2>4, OneProcess
<1>5. CASE proc[p].at \in {"maintain", "apply"}
  <2> DEFINE t == [proc[p] EXCEPT !.at = "running", !.failures = @ + 1]
  <2>1. proc[p].failures < MaxFailures /\ proc' = [proc EXCEPT ![p] = t]
    BY <1>5 DEF Fail, Become
  <2>2. /\ t \in ProcessStates /\ Regular(t) /\ Debt(t) = Debt(proc[p])
        /\ t.declares = Declares(p)
    BY <1>5, <2>1, Facts, FailedDebt DEF Declares
  <2>3. Running(p)
    BY <1>5 DEF Running
  <2> HIDE DEF t
  <2>4. Declares(p) => ttl' + Debt(t) >= TTL
    BY <1>3, <2>2, <2>3, Facts
  <2>5. Harmless(t)
    BY <1>1, <1>3, <2>2, <2>3, <2>4, Facts DEF Harmless
  <2> QED BY <2>1, <2>2, <2>5, OneProcess
<1> QED BY <1>4, <1>5 DEF Fail

(* A tick ages the expiry, the debts and the history by one each.  The     *)
(* expiry of a key in use cannot be at its last tick: the debt of its user *)
(* would be TTL less one, more than MaxDebt allows.                        *)
LEMMA TickFacts ==
  ASSUME IInv, Tick, NEW q \in Processes
  PROVE  /\ proc'[q] \in ProcessStates /\ Regular(proc'[q])
         /\ proc'[q].declares = proc[q].declares
         /\ Running(q)' <=> Running(q)
         /\ Running(q) => /\ Debt(proc'[q]) = Debt(proc[q]) + 1
                          /\ Debt(proc[q]) < MaxDebt
                          /\ Debt(proc'[q]) <= MaxDebt
         /\ Running(q) /\ Declares(q) => ttl # 1
<1> USE Constants
<1>1. proc'[q] = Elapse(proc[q]) /\ proc[q].at \in {"off", "running"}
  BY DEF Tick
<1>2. /\ Elapse(proc[q]) \in ProcessStates /\ Regular(Elapse(proc[q]))
      /\ Elapse(proc[q]).declares = proc[q].declares
      /\ proc[q].at = "off" => Elapse(proc[q]).at = "off"
      /\ proc[q].at = "running" => /\ Elapse(proc[q]).at \in {"running", "maintain"}
                                  /\ Debt(Elapse(proc[q])) = Debt(proc[q]) + 1
  BY <1>1, Facts, ElapsedDebt
<1>3. Debt(proc'[q]) <= MaxDebt
  BY <1>1, <1>2, DebtBounds
<1>4. proc[q].at = "running" => Debt(proc[q]) < MaxDebt
  BY Facts, DebtBounds
<1>5. Running(q) <=> proc[q].at = "running"
  BY <1>1 DEF Running
<1>6. Running(q)' <=> proc[q].at = "running"
  BY <1>1, <1>2 DEF Running
<1>7. Running(q) /\ Declares(q) => ttl # 1
  BY <1>4, <1>5, Facts
<1> QED BY <1>1, <1>2, <1>3, <1>4, <1>5, <1>6, <1>7

LEMMA TickStep == ASSUME IInv, Tick PROVE IInv'
<1> USE Constants
<1>1. /\ declared \in BOOLEAN /\ suspended \in BOOLEAN /\ exists \in BOOLEAN
      /\ edits \in 0 .. MaxEdits /\ ttl \in 1 .. Forever /\ ttl \in Nat /\ unwanted \in Nat
      /\ ~exists => ttl = Forever
  BY TypeOfProc DEF IInv
<1>2. /\ exists' \in BOOLEAN /\ ttl' \in 1 .. Forever /\ ttl' \in Nat /\ unwanted' \in Nat
      /\ ~exists' => ttl' = Forever
      /\ ttl' = Forever <=> ttl \in {1, Forever}
      /\ ttl' # Forever => ttl' = ttl - 1
  BY <1>1 DEF Tick
<1>3. proc' \in [Processes -> ProcessStates] /\ \A q \in Processes : Regular(proc'[q])
  BY TickFacts DEF Tick
<1>4. TypeOK'
  BY <1>1, <1>2, <1>3 DEF TypeOK, ProcessStates, Steps, Tick
<1>5. YoungerThanMaintenance'
  <2> SUFFICES ASSUME NEW q \in Processes, Running(q)', Declares(q)'
               PROVE  ttl' + Debt(proc'[q]) >= TTL
    BY DEF YoungerThanMaintenance
  <2>1. /\ Debt(proc[q]) \in Nat /\ ttl + Debt(proc[q]) >= TTL /\ ttl # 1
        /\ Debt(proc'[q]) = Debt(proc[q]) + 1
    BY TickFacts, Facts DEF Declares
  <2> QED BY <2>1, <1>1, <1>2
<1>6. ASSUME unwanted' > 0
      PROVE  /\ exists' /\ exists /\ ttl # 1 /\ unwanted' = unwanted + 1
             /\ \E q \in Processes : Running(q)
             /\ \A q \in Processes : ~Declares(q)
  <2>1. exists' /\ Unwanted /\ unwanted' = unwanted + 1
    BY <1>6 DEF Tick
  <2> QED BY <2>1 DEF Tick, Unwanted
<1>7. UnwantedIsUndeclared'
  BY <1>6, TickFacts DEF UnwantedIsUndeclared, Declares
<1>8. ttl' = Forever => unwanted' <= MaxDebt
                        /\ \A q \in Processes : Running(q)' => unwanted' <= Debt(proc'[q])
  <2> SUFFICES ASSUME ttl' = Forever
               PROVE  unwanted' <= MaxDebt
                      /\ \A q \in Processes : Running(q)' => unwanted' <= Debt(proc'[q])
    OBVIOUS
  <2>1. CASE unwanted' = 0
    BY <2>1, TickFacts, Facts
  <2>2. CASE unwanted' > 0
    <3>1. ttl = Forever
      BY <1>2, <1>6, <2>2
    <3>2. ASSUME NEW q \in Processes, Running(q)
          PROVE  unwanted' <= Debt(proc'[q]) /\ unwanted' <= MaxDebt
      BY <3>1, <3>2, <1>1, <1>6, <2>2, TickFacts, Facts
    <3> QED BY <3>2, <1>6, <2>2, TickFacts
  <2> QED BY <2>1, <2>2, <1>2
<1>9. ttl' # Forever => unwanted' + ttl' <= TTL + MaxDebt
  <2> SUFFICES ASSUME ttl' # Forever PROVE unwanted' + ttl' <= TTL + MaxDebt
    OBVIOUS
  <2>1. CASE unwanted' = 0
    <3>1. ttl' <= TTL
      BY <1>2
    <3>2. \A x, n, d \in Nat : x <= n => 0 + x <= n + d
      OBVIOUS
    <3> QED BY <1>2, <2>1, <3>1, <3>2
  <2>2. CASE unwanted' > 0
    <3>1. unwanted + ttl <= TTL + MaxDebt
      BY <1>2 DEF IInv, UnwantedIsDue
    <3>2. ttl' = ttl - 1 /\ unwanted' = unwanted + 1
      BY <1>2, <1>6, <2>2
    <3>3. unwanted' + ttl' = unwanted + ttl
      BY <3>2, <1>1
    <3> QED BY <3>1, <3>3
  <2> QED BY <2>1, <2>2, <1>2
<1>10. UnwantedIsDue'
  BY <1>8, <1>9 DEF UnwantedIsDue
<1> QED BY <1>3, <1>4, <1>5, <1>7, <1>10 DEF IInv

LEMMA EditStep == ASSUME IInv, Edit PROVE IInv'
<1> USE Constants
<1>1. UNCHANGED <<exists, ttl, proc, unwanted>>
  BY DEF Edit
<1>2. declared' \in BOOLEAN /\ suspended' \in BOOLEAN
  BY DEF Edit, IInv, TypeOK
<1>3. edits' \in 0 .. MaxEdits
  BY DEF Edit, IInv, TypeOK
<1>4. TypeOK'
  BY <1>1, <1>2, <1>3 DEF IInv, TypeOK
<1> QED BY <1>1, <1>4 DEF IInv, YoungerThanMaintenance, UnwantedIsUndeclared, UnwantedIsDue,
            Running, Declares

LEMMA RetentionStep == IInv /\ [Next]_vars => IInv'
<1> SUFFICES ASSUME IInv, [Next]_vars PROVE IInv'
  OBVIOUS
<1>1. CASE Edit
  BY <1>1, EditStep
<1>2. CASE Tick
  BY <1>2, TickStep
<1>3. ASSUME NEW p \in Processes,
             Start(p) \/ Stop(p) \/ Put(p) \/ Scan(p) \/ Apply(p) \/ Resend(p) \/ Fail(p)
      PROVE  IInv'
  BY <1>3, StartStep, StopStep, PutStep, ScanStep, ApplyStep, ResendStep, FailStep
<1>4. CASE UNCHANGED vars
  BY <1>4 DEF vars, IInv, TypeOK, YoungerThanMaintenance, UnwantedIsUndeclared,
       UnwantedIsDue, Running, Declares
<1> QED BY <1>1, <1>2, <1>3, <1>4 DEF Next

LEMMA RetentionInductive == Spec => []IInv
BY RetentionInit, RetentionStep, PTL DEF Spec

-----------------------------------------------------------------------------
(* What ReconcileKeys and its ticker guarantee                             *)

(* Every process, key and expiry is of the kind the code expects, and a    *)
(* key that has gone has no expiry left (ReconcileKeys, Put).              *)
THEOREM TypeCorrect == Spec => []TypeOK
<1>1. IInv => TypeOK
  BY DEF IInv
<1> QED BY <1>1, RetentionInductive, PTL

(* Whatever processes of other configurations do to the key, and however   *)
(* many maintenance calls fail in a row within the bound: values never     *)
(* expire under a running process that declares their store.               *)
THEOREM InUseNeverExpires == Spec => NeverExpiresInUse
<1>1. ASSUME IInv, [Next]_vars, exists, ~exists', NEW q \in Processes, Running(q)
      PROVE  ~Declares(q)
  <2>1. exists' # exists => Tick
    BY <1>1 DEF Next, vars, Edit, Start, Stop, Put, Scan, Apply, Resend, Fail, Reconcile
  <2>2. Tick /\ ttl = 1
    BY <1>1, <2>1 DEF Tick
  <2> QED BY <1>1, <2>2, TickFacts
<1>2. IInv /\ [Next]_vars =>
        [exists /\ ~exists' => \A p \in Processes : Running(p) => ~Declares(p)]_vars
  BY <1>1
<1> QED BY <1>2, RetentionInductive, PTL DEF Spec, NeverExpiresInUse

(* A store no process declares is gone after the seven days and the time   *)
(* one maintenance takes to succeed, for any number of replicas, restarts  *)
(* and repeated calls (ExpireNX).                                          *)
THEOREM RemovedStoreIsGone == Spec => []RemovedStoreExpires
<1>1. IInv => RemovedStoreExpires
  <2> SUFFICES ASSUME IInv PROVE unwanted < TTL + MaxDebt
    BY DEF RemovedStoreExpires, MaxDebt
  <2> USE Constants
  <2>1. unwanted \in Nat /\ ttl \in 1 .. Forever
    BY TypeOfProc DEF IInv
  <2>2. CASE ttl = Forever
    <3>1. unwanted <= MaxDebt
      BY <2>2 DEF IInv, UnwantedIsDue
    <3>2. TTL > 0
      OBVIOUS
    <3> QED BY <2>1, <3>1, <3>2
  <2>3. CASE ttl # Forever
    <3>1. unwanted + ttl <= TTL + MaxDebt
      BY <2>3 DEF IInv, UnwantedIsDue
    <3> QED BY <2>1, <3>1
  <2> QED BY <2>2, <2>3
<1> QED BY <1>1, RetentionInductive, PTL
=============================================================================
