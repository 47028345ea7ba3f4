-------------------------- MODULE DriveTableProofs --------------------------
(***************************************************************************)
(* What each operation on the retransmission slots preserves, for every    *)
(* number of slots, requests, retries and every timeout.  The theorems of  *)
(* the machines built on the table (DriveOneTableProofs) rest on these.    *)
(***************************************************************************)
EXTENDS DriveTable, FiniteSetTheorems, WellFoundedInduction, TLAPS

(* Retries spent and submits made: at most Retries + 1 of them together.   *)
(* This much holds with or without a limit on the submits of one `step`.   *)
BudgetBound ==
  \A i \in Slots : req[i] # None => left[i] + sent[req[i]] <= Retries + 1

(* The inductive invariant of the table: the type of `sent` needs the      *)
(* budget, and the budget needs that no two slots hold one request.        *)
TableInv == TableTypeOK /\ Tracked /\ BudgetBound

LEMMA FirstFreeOne ==
  ASSUME NEW t, NEW i \in FirstFree(t)
  PROVE  /\ i \in Slots
         /\ t[i] = None
         /\ \A j \in FirstFree(t) : j = i
BY SlotTableAssumption DEF FirstFree, Slots

LEMMA InitTable == TableInit => TableInv
BY SlotTableAssumption, DriveAssumption
   DEF TableInit, TableInv, TableTypeOK, Tracked, BudgetBound, States, Slots

LEMMA StoreTable ==
  ASSUME TableInv, NEW r \in Requests, state[r] = "idle", Store(r),
         UNCHANGED clock
  PROVE  TableInv'
<1> USE SlotTableAssumption, DriveAssumption
<1>0. TableTypeOK /\ Tracked /\ BudgetBound
  BY DEF TableInv
<1>1. CASE FirstFree(req) = {}
  <2>1. UNCHANGED <<req, deadline, left, state, sent, lastTx>>
    BY <1>0, <1>1 DEF Store, TableTypeOK
  <2> QED BY <1>0, <2>1 DEF TableInv, TableTypeOK, Tracked, BudgetBound
<1>2. ASSUME NEW f \in FirstFree(req) PROVE TableInv'
  <2>1. f \in Slots /\ req[f] = None /\ FirstFree(req) = {f}
    BY <1>2, FirstFreeOne
  <2>2. \A i \in Slots : req[i] # r
    BY <1>0 DEF Tracked
  <2>3. /\ req' = [req EXCEPT ![f] = r]
        /\ deadline' = [deadline EXCEPT ![f] = DeadlineFromNow]
        /\ left' = [left EXCEPT ![f] = Retries]
        /\ state' = [state EXCEPT ![r] = "open"]
        /\ sent' = [sent EXCEPT ![r] = 1]
        /\ lastTx' = [lastTx EXCEPT ![r] = clock]
    BY <1>0, <2>1 DEF Store, TableTypeOK
  <2>4. TableTypeOK'
    <3>1. DeadlineFromNow \in 0 .. Modulus - 1
      BY <1>0 DEF DeadlineFromNow, Now, TableTypeOK
    <3> QED BY <1>0, <2>1, <2>3, <3>1 DEF TableTypeOK, States
  <2>5. Tracked'
    BY <1>0, <2>1, <2>2, <2>3 DEF Tracked, TableTypeOK
  <2>6. BudgetBound'
    BY <1>0, <2>1, <2>2, <2>3 DEF BudgetBound, TableTypeOK
  <2> QED BY <2>4, <2>5, <2>6 DEF TableInv
<1> QED BY <1>1, <1>2

LEMMA FreeTable ==
  ASSUME TableInv, NEW S \in SUBSET Slots, Free(S), UNCHANGED clock
  PROVE  TableInv'
<1> USE SlotTableAssumption, DriveAssumption
<1>0. TableTypeOK /\ Tracked /\ BudgetBound
  BY DEF TableInv
<1>1. TableTypeOK'
  BY <1>0 DEF Free, TableTypeOK, States
<1>2. Tracked'
  BY <1>0 DEF Free, Tracked, TableTypeOK
<1>3. BudgetBound'
  BY <1>0 DEF Free, BudgetBound, TableTypeOK
<1> QED BY <1>1, <1>2, <1>3 DEF TableInv

LEMMA StepTable ==
  ASSUME TableInv, Step, UNCHANGED clock
  PROVE  TableInv'
<1> USE SlotTableAssumption, DriveAssumption
<1>0. TableTypeOK /\ Tracked /\ BudgetBound
  BY DEF TableInv
<1>d. DeadlineFromNow \in 0 .. Modulus - 1
  BY <1>0 DEF DeadlineFromNow, Now, TableTypeOK
<1>e. \A i \in Slots : /\ Submits(i) => Resends(i)
                       /\ Resends(i) => req[i] # None /\ left[i] > 0
                       /\ Expires(i) => req[i] # None /\ left[i] = 0
  BY DEF Submits, Resends, Expires, Due
<1>1. TableTypeOK'
  <2>1. req' \in [Slots -> Requests \cup {None}]
    BY <1>0 DEF Step, TableTypeOK
  <2>2. deadline' \in [Slots -> 0 .. Modulus - 1]
    BY <1>0, <1>d DEF Step, TableTypeOK
  <2>3. left' \in [Slots -> 0 .. Retries]
    BY <1>0, <1>e DEF Step, TableTypeOK
  <2>4. state' \in [Requests -> States] /\ lastTx' \in [Requests -> 0 .. Horizon]
    BY <1>0 DEF Step, TableTypeOK, States
  <2>5. sent' \in [Requests -> 0 .. Retries + 1]
    <3>1. ASSUME NEW r \in Requests, NEW i \in Slots, Submits(i), req[i] = r
          PROVE  sent[r] + 1 \in 0 .. Retries + 1
      BY <1>0, <1>e, <3>1 DEF TableTypeOK, BudgetBound
    <3> QED BY <1>0, <3>1 DEF Step, TableTypeOK
  <2> QED BY <2>1, <2>2, <2>3, <2>4, <2>5, <1>0 DEF TableTypeOK
<1>2. Tracked'
  BY <1>0, <1>e DEF Step, Tracked, TableTypeOK, States
<1>3. BudgetBound'
  <2> SUFFICES ASSUME NEW i \in Slots, req'[i] # None
               PROVE  left'[i] + sent'[req'[i]] <= Retries + 1
    BY DEF BudgetBound
  <2>1. req'[i] = req[i] /\ req[i] \in Requests
    BY <1>0 DEF Step, TableTypeOK
  <2>2. left[i] + sent[req[i]] <= Retries + 1
    BY <1>0, <2>1 DEF BudgetBound
  <2>3. CASE Resends(i)
    <3>1. left'[i] = left[i] - 1
      BY <2>3 DEF Step
    <3>2. sent'[req[i]] <= sent[req[i]] + 1
      BY <2>1, <1>0 DEF Step, TableTypeOK
    <3>3. sent'[req[i]] \in Int /\ sent[req[i]] \in Int /\ left[i] \in Int
      BY <1>0, <1>1, <2>1 DEF TableTypeOK
    <3> QED BY <2>1, <2>2, <3>1, <3>2, <3>3
  <2>4. CASE ~Resends(i)
    <3>1. left'[i] = left[i]
      BY <2>4 DEF Step
    <3>2. \A j \in Slots : Submits(j) => req[j] # req[i]
      BY <1>0, <1>e, <2>1, <2>4 DEF Tracked
    <3>3. sent'[req[i]] = sent[req[i]]
      BY <2>1, <3>2 DEF Step
    <3> QED BY <2>1, <2>2, <3>1, <3>3
  <2> QED BY <2>3, <2>4
<1> QED BY <1>1, <1>2, <1>3 DEF TableInv

LEMMA TickTable ==
  ASSUME TableInv, Tick
  PROVE  TableInv'
BY DriveAssumption
   DEF TableInv, TableTypeOK, Tracked, BudgetBound, Tick, tableVars

LEMMA StutterTable ==
  ASSUME TableInv, UNCHANGED tableVars, UNCHANGED clock
  PROVE  TableInv'
BY DEF TableInv, TableTypeOK, Tracked, BudgetBound, tableVars

-----------------------------------------------------------------------------
(* Time.  While true time and a timeout beyond it stay below Modulus, the  *)
(* wrapped values the code compares are the true ones.                     *)
NoWrap == Horizon + Timeout < Modulus

(* A live slot's deadline is at least a timeout after its last submit *)
Timed ==
  \A i \in Slots : req[i] # None => deadline[i] >= lastTx[req[i]] + Timeout

LEMMA SmallMod ==
  ASSUME NEW a \in Nat, NEW m \in Nat, a < m
  PROVE  a % m = a
OBVIOUS

LEMMA TrueTime ==
  ASSUME NoWrap, TableTypeOK
  PROVE  Now = clock /\ DeadlineFromNow = clock + Timeout
<1> USE DriveAssumption
<1>1. clock \in Nat /\ clock < Modulus /\ clock + Timeout < Modulus
  BY DEF NoWrap, TableTypeOK
<1>2. Now = clock
  BY <1>1, SmallMod DEF Now
<1> QED BY <1>1, <1>2, SmallMod DEF DeadlineFromNow

LEMMA StoreTimed ==
  ASSUME NoWrap, TableInv, Timed, NEW r \in Requests, state[r] = "idle",
         Store(r), UNCHANGED clock
  PROVE  Timed' /\ PatientStep
<1> USE SlotTableAssumption, DriveAssumption
<1>0. TableTypeOK /\ Tracked
  BY DEF TableInv
<1>1. DeadlineFromNow = clock + Timeout /\ clock \in Nat
  BY <1>0, TrueTime DEF TableTypeOK
<1>2. \A i \in Slots : req[i] # r
  BY <1>0 DEF Tracked
<1>3. Timed'
  <2> SUFFICES ASSUME NEW i \in Slots, req'[i] # None
               PROVE  deadline'[i] >= lastTx'[req'[i]] + Timeout
    BY DEF Timed
  <2>1. CASE i \in FirstFree(req)
    BY <1>0, <1>1, <2>1 DEF Store, TableTypeOK
  <2>2. CASE i \notin FirstFree(req)
    BY <1>0, <1>2, <2>2 DEF Store, TableTypeOK, Timed
  <2> QED BY <2>1, <2>2
<1>4. PatientStep
  BY <1>0 DEF Store, PatientStep, TableTypeOK
<1> QED BY <1>3, <1>4

LEMMA FreeTimed ==
  ASSUME TableInv, Timed, NEW S \in SUBSET Slots, Free(S)
  PROVE  Timed' /\ PatientStep
<1>0. TableTypeOK /\ Tracked
  BY DEF TableInv
<1>1. Timed'
  BY <1>0 DEF Free, Timed, TableTypeOK
<1>2. PatientStep
  BY <1>0, DriveAssumption DEF Free, PatientStep, TableTypeOK
<1> QED BY <1>1, <1>2

LEMMA StepTimed ==
  ASSUME NoWrap, TableInv, Timed, Step, UNCHANGED clock
  PROVE  Timed' /\ PatientStep
<1> USE SlotTableAssumption, DriveAssumption
<1>0. TableTypeOK /\ Tracked
  BY DEF TableInv
<1>1. Now = clock /\ DeadlineFromNow = clock + Timeout /\ clock \in Nat
  BY <1>0, TrueTime DEF TableTypeOK
<1>e. \A i \in Slots : /\ Submits(i) => Resends(i)
                       /\ Resends(i) \/ Expires(i) => Due(i)
                       /\ Due(i) => req[i] # None /\ Now >= deadline[i]
  BY DEF Submits, Resends, Expires, Due
<1>2. ASSUME NEW i \in Slots, Due(i)
      PROVE  clock >= lastTx[req[i]] + Timeout
  <2>1. /\ req[i] # None /\ clock >= deadline[i]
        /\ deadline[i] >= lastTx[req[i]] + Timeout
    BY <1>1, <1>2, <1>e DEF Timed
  <2>2. deadline[i] \in Int /\ lastTx[req[i]] \in Int
    BY <1>0, <2>1 DEF TableTypeOK
  <2> QED BY <1>1, <2>1, <2>2
<1>3. PatientStep
  <2> SUFFICES ASSUME NEW r \in Requests
               PROVE  /\ sent'[r] > sent[r] /\ sent[r] > 0
                           => clock >= lastTx[r] + Timeout
                      /\ state[r] = "open" /\ state'[r] = "expired"
                           => clock >= lastTx[r] + Timeout
    BY DEF PatientStep
  <2>1. sent'[r] > sent[r] => \E i \in Slots : Due(i) /\ req[i] = r
    BY <1>0, <1>e DEF Step, TableTypeOK
  <2>2. state'[r] = "expired" /\ state[r] = "open"
          => \E i \in Slots : Due(i) /\ req[i] = r
    BY <1>0, <1>e DEF Step, TableTypeOK
  <2> QED BY <1>2, <2>1, <2>2
<1>4. Timed'
  <2> SUFFICES ASSUME NEW i \in Slots, req'[i] # None
               PROVE  deadline'[i] >= lastTx'[req'[i]] + Timeout
    BY DEF Timed
  <2>1. req'[i] = req[i] /\ req[i] \in Requests
    BY <1>0 DEF Step, TableTypeOK
  <2>2. lastTx[req[i]] <= clock \/ ~Resends(i)
    BY <1>0, <1>1, <1>2, <1>e, <2>1 DEF TableTypeOK
  <2>3. CASE Resends(i)
    <3>1. deadline'[i] = clock + Timeout
      BY <1>1, <2>3 DEF Step
    <3>2. lastTx'[req[i]] = clock \/ lastTx'[req[i]] = lastTx[req[i]]
      BY <2>1 DEF Step
    <3>3. lastTx[req[i]] \in Int
      BY <1>0, <2>1 DEF TableTypeOK
    <3> QED BY <1>1, <2>1, <2>2, <2>3, <3>1, <3>2, <3>3
  <2>4. CASE ~Resends(i)
    <3>1. deadline'[i] = deadline[i]
      BY <2>4 DEF Step
    <3>2. \A j \in Slots : Submits(j) => req[j] # req[i]
      BY <1>0, <1>e, <2>1, <2>4 DEF Tracked
    <3>3. lastTx'[req[i]] = lastTx[req[i]]
      BY <2>1, <3>2 DEF Step
    <3> QED BY <2>1, <3>1, <3>3 DEF Timed
  <2> QED BY <2>3, <2>4
<1> QED BY <1>3, <1>4

-----------------------------------------------------------------------------
(* The abstract exchange.  With no limit on the submits of one `step`,     *)
(* every retry a slot spends is a submit.                                  *)
LEMMA SubmitsAll ==
  ASSUME DueMax >= Cap, NEW i \in Slots
  PROVE  Submits(i) <=> Resends(i)
<1> USE SlotTableAssumption, DriveAssumption
<1> DEFINE S == {j \in 1 .. i - 1 : Resends(j)}
<1>1. i \in Int /\ i >= 1 /\ i <= Cap
  BY DEF Slots
<1>2. IsFiniteSet(1 .. i - 1) /\ Cardinality(1 .. i - 1) <= i - 1
  BY <1>1, FS_Interval
<1>3. S \in SUBSET (1 .. i - 1)
  OBVIOUS
<1>4. IsFiniteSet(S) /\ Cardinality(S) <= Cardinality(1 .. i - 1)
  BY <1>2, <1>3, FS_Subset
<1>5. Cardinality(S) \in Nat /\ Cardinality(1 .. i - 1) \in Nat
  BY <1>2, <1>4, FS_CardinalityType
<1>6. Cardinality(S) < DueMax
  BY <1>1, <1>2, <1>4, <1>5
<1> QED BY <1>6 DEF Submits

LEMMA StoreOpens ==
  ASSUME TableInv, Budget, NEW r \in Requests, state[r] = "idle", Store(r),
         FirstFree(req) # {}
  PROVE  Budget' /\ Exchanges!Open(r)
<1> USE SlotTableAssumption, DriveAssumption
<1>0. TableTypeOK /\ Tracked
  BY DEF TableInv
<1>1. \A i \in Slots : req[i] # r
  BY <1>0 DEF Tracked
<1>2. state' = [state EXCEPT ![r] = "open"] /\ sent' = [sent EXCEPT ![r] = 1]
  BY DEF Store
<1>3. Budget'
  <2> SUFFICES ASSUME NEW i \in Slots, req'[i] # None
               PROVE  left'[i] + sent'[req'[i]] = Retries + 1
    BY DEF Budget
  <2>1. CASE i \in FirstFree(req)
    BY <1>0, <1>2, <2>1 DEF Store, TableTypeOK
  <2>2. CASE i \notin FirstFree(req)
    BY <1>0, <1>1, <1>2, <2>2 DEF Store, TableTypeOK, Budget
  <2> QED BY <2>1, <2>2
<1> QED BY <1>2, <1>3 DEF Exchanges!Open

LEMMA FreeAnswers ==
  ASSUME TableInv, Budget, NEW i \in Slots, req[i] # None, Free({i})
  PROVE  Budget' /\ Exchanges!Answer(req[i])
<1>0. TableTypeOK /\ Tracked
  BY DEF TableInv
<1>1. req[i] \in Requests /\ state[req[i]] = "open"
  BY <1>0 DEF TableTypeOK, Tracked
<1>2. state' = [state EXCEPT ![req[i]] = "answered"] /\ UNCHANGED sent
  BY <1>0, <1>1 DEF Free, TableTypeOK
<1>3. Budget'
  BY <1>0 DEF Free, Budget, TableTypeOK
<1> QED BY <1>1, <1>2, <1>3 DEF Exchanges!Answer

LEMMA StepElapses ==
  ASSUME DueMax >= Cap, TableInv, Budget, Step
  PROVE  Budget' /\ \E R, X \in SUBSET Requests : Exchanges!Elapse(R, X)
<1> USE SlotTableAssumption, DriveAssumption
<1> DEFINE R == {r \in Requests : \E i \in Slots : Submits(i) /\ req[i] = r}
           X == {r \in Requests : \E i \in Slots : Expires(i) /\ req[i] = r}
<1>0. TableTypeOK /\ Tracked
  BY DEF TableInv
<1>e. \A i \in Slots : /\ Submits(i) <=> Resends(i)
                       /\ Resends(i) => req[i] # None /\ left[i] > 0
                       /\ Expires(i) => req[i] # None /\ left[i] = 0
  BY SubmitsAll DEF Resends, Expires, Due
<1>1. \A i \in Slots : req[i] # None =>
         /\ state[req[i]] = "open" /\ req[i] \in Requests
         /\ left[i] \in Nat /\ sent[req[i]] \in Nat
         /\ left[i] + sent[req[i]] = Retries + 1
  BY <1>0 DEF Tracked, TableTypeOK, Budget
<1>2. R \cap X = {}
  BY <1>0, <1>e DEF Tracked
<1>3. \A r \in R : state[r] = "open" /\ sent[r] <= Retries
  BY <1>1, <1>e
<1>4. \A r \in X : state[r] = "open" /\ sent[r] = Retries + 1
  BY <1>1, <1>e
<1>5. /\ state' = [r \in Requests |-> IF r \in X THEN "expired" ELSE state[r]]
      /\ sent' = [r \in Requests |-> IF r \in R THEN sent[r] + 1 ELSE sent[r]]
  BY DEF Step
<1>6. Exchanges!Elapse(R, X)
  BY <1>2, <1>3, <1>4, <1>5 DEF Exchanges!Elapse
<1>7. Budget'
  <2> SUFFICES ASSUME NEW i \in Slots, req'[i] # None
               PROVE  left'[i] + sent'[req'[i]] = Retries + 1
    BY DEF Budget
  <2>1. req'[i] = req[i]
    BY DEF Step
  <2>2. CASE Resends(i)
    <3>1. left'[i] = left[i] - 1 /\ sent'[req[i]] = sent[req[i]] + 1
      BY <1>1, <1>e, <2>1, <2>2 DEF Step
    <3> QED BY <1>1, <2>1, <3>1
  <2>3. CASE ~Resends(i)
    <3>1. \A j \in Slots : Submits(j) => req[j] # req[i]
      BY <1>0, <1>e, <2>1, <2>3 DEF Tracked
    <3>2. left'[i] = left[i] /\ sent'[req[i]] = sent[req[i]]
      BY <1>1, <2>1, <2>3, <3>1 DEF Step
    <3> QED BY <1>1, <2>1, <3>2
  <2> QED BY <2>2, <2>3
<1> QED BY <1>6, <1>7

-----------------------------------------------------------------------------
(* What a walk finds: the earliest deadline, and the first free slot       *)
LEMMA LeastNat ==
  ASSUME NEW D \in SUBSET Nat, D # {}
  PROVE  \E m \in D : \A n \in D : m <= n
<1>1. PICK m \in D : \A n \in D : <<n, m>> \notin OpToRel(<, Nat)
  BY NatLessThanWellFounded, WFMin
<1>2. \A n \in D : ~(n < m)
  BY <1>1 DEF OpToRel
<1>3. \A n \in D : m <= n
  BY <1>2
<1> QED BY <1>3

LEMMA SoonestIsLeast ==
  ASSUME NEW q, NEW d \in [Slots -> Nat], NEW i \in Slots, q[i] # None
  PROVE  /\ Soonest(q, d) \in Nat
         /\ \A j \in Slots : q[j] # None => Soonest(q, d) <= d[j]
         /\ \E j \in Slots : q[j] # None /\ Soonest(q, d) = d[j]
<1> DEFINE D == {d[j] : j \in {k \in Slots : q[k] # None}}
<1>1. D \subseteq Nat /\ D # {}
  OBVIOUS
<1>3. \E m \in D : \A n \in D : m <= n
  <2> HIDE DEF D
  <2> QED BY <1>1, LeastNat
<1>4. Soonest(q, d) = CHOOSE l \in D : \A n \in D : l <= n
  BY <1>1 DEF Soonest
<1>5. Soonest(q, d) \in D /\ \A n \in D : Soonest(q, d) <= n
  BY <1>3, <1>4
<1> QED BY <1>1, <1>5

LEMMA LeastFree ==
  ASSUME NEW t, NEW i \in Slots, t[i] = None
  PROVE  FirstFree(t) # {}
<1> DEFINE F == {j \in Slots : t[j] = None}
<1>1. F \in SUBSET Nat /\ F # {}
  BY SlotTableAssumption DEF Slots
<1>2. PICK m \in F : \A j \in F : m <= j
  <2> HIDE DEF F
  <2> QED BY <1>1, LeastNat
<1>3. \A j \in F : ~(j < m)
  BY <1>1, <1>2
<1>4. m \in FirstFree(t)
  BY <1>3, SlotTableAssumption DEF FirstFree, Slots
<1> QED BY <1>4

-----------------------------------------------------------------------------
(* A live slot's deadline is a timeout after its last submit *)
OnTime ==
  \A i \in Slots : req[i] # None =>
    deadline[i] = lastTx[req[i]] + Timeout /\ lastTx[req[i]] <= clock

LEMMA StoreOnTime ==
  ASSUME NoWrap, TableInv, OnTime, NEW r \in Requests, state[r] = "idle",
         Store(r), UNCHANGED clock
  PROVE  OnTime'
<1> USE SlotTableAssumption, DriveAssumption
<1>0. TableTypeOK /\ Tracked
  BY DEF TableInv
<1>1. DeadlineFromNow = clock + Timeout /\ clock \in Nat
  BY <1>0, TrueTime DEF TableTypeOK
<1>2. \A i \in Slots : req[i] # r
  BY <1>0 DEF Tracked
<1> SUFFICES ASSUME NEW i \in Slots, req'[i] # None
             PROVE  /\ deadline'[i] = lastTx'[req'[i]] + Timeout
                    /\ lastTx'[req'[i]] <= clock
  BY DEF OnTime
<1>3. CASE i \in FirstFree(req)
  <2>1. /\ req'[i] = r /\ deadline'[i] = clock + Timeout /\ lastTx'[r] = clock
    BY <1>0, <1>1, <1>3 DEF Store, TableTypeOK
  <2> QED BY <1>1, <2>1
<1>4. CASE i \notin FirstFree(req)
  <2>1. req'[i] = req[i] /\ req[i] \in Requests /\ deadline'[i] = deadline[i]
    BY <1>0, <1>4 DEF Store, TableTypeOK
  <2>2. lastTx'[req[i]] = lastTx[req[i]]
    BY <1>0, <1>2, <2>1 DEF Store, TableTypeOK
  <2> QED BY <2>1, <2>2 DEF OnTime
<1> QED BY <1>3, <1>4

LEMMA StepOnTime ==
  ASSUME NoWrap, DueMax >= Cap, TableInv, OnTime, Step, UNCHANGED clock
  PROVE  /\ OnTime'
         /\ \A i \in Slots : req'[i] # None => deadline'[i] > clock
<1> USE SlotTableAssumption, DriveAssumption
<1>0. TableTypeOK /\ Tracked
  BY DEF TableInv
<1>1. Now = clock /\ DeadlineFromNow = clock + Timeout /\ clock \in Nat
  BY <1>0, TrueTime DEF TableTypeOK
<1> SUFFICES ASSUME NEW i \in Slots, req'[i] # None
             PROVE  /\ deadline'[i] = lastTx'[req'[i]] + Timeout
                    /\ lastTx'[req'[i]] <= clock
                    /\ deadline'[i] > clock
  BY DEF OnTime
<1>2. /\ req'[i] = req[i] /\ req[i] \in Requests /\ ~Expires(i)
      /\ deadline[i] \in Nat /\ left[i] \in Nat
      /\ deadline[i] = lastTx[req[i]] + Timeout /\ lastTx[req[i]] <= clock
  BY <1>0 DEF Step, TableTypeOK, OnTime
<1>3. CASE Resends(i)
  <2>1. deadline'[i] = clock + Timeout
    BY <1>1, <1>3 DEF Step
  <2>2. lastTx'[req[i]] = clock
    BY <1>2, <1>3, SubmitsAll DEF Step
  <2> QED BY <1>1, <1>2, <2>1, <2>2
<1>4. CASE ~Resends(i)
  <2>1. deadline'[i] = deadline[i]
    BY <1>4 DEF Step
  <2>2. \A j \in Slots : Submits(j) => req[j] # req[i]
    BY <1>0, <1>2, <1>4 DEF Tracked, Submits
  <2>3. lastTx'[req[i]] = lastTx[req[i]]
    BY <1>2, <2>2 DEF Step
  <2>4. clock < deadline[i]
    BY <1>1, <1>2, <1>4 DEF Resends, Expires, Due
  <2> QED BY <1>2, <2>1, <2>3, <2>4
<1> QED BY <1>3, <1>4
=============================================================================
