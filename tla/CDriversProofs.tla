--------------------------- MODULE CDriversProofs ---------------------------
(***************************************************************************)
(* Theorems about the C drivers, for every number of slots, every set of   *)
(* requests and keys, every timeout and every number of retries: the state *)
(* machine and its two tables, and then the run functions on a descriptor  *)
(* and on a ring, for every number of runs and datagrams.                  *)
(***************************************************************************)
EXTENDS CDrivers, DriveTableProofs, SequenceTheorems

Inv == TypeOK /\ TableInv

LEMMA SlotOfOne ==
  ASSUME NEW p, NEW i \in SlotOf(p)
  PROVE  /\ i \in Slots
         /\ req[i] # None
         /\ IdOf[req[i]] = IdOf[pend[p]]
         /\ SlotOf(p) = {i}
<1>1. i \in Slots /\ req[i] # None /\ IdOf[req[i]] = IdOf[pend[p]]
  BY DEF SlotOf
<1>2. ASSUME NEW j \in SlotOf(p) PROVE j = i
  BY SlotTableAssumption DEF SlotOf, Slots
<1> QED BY <1>1, <1>2

LEMMA MatchSlotOne ==
  ASSUME NEW k, NEW p \in MatchSlot(k)
  PROVE  /\ p \in Slots
         /\ pend[p] # None
         /\ KeyOf[pend[p]] = k
         /\ MatchSlot(k) = {p}
<1>1. p \in Slots /\ pend[p] # None /\ KeyOf[pend[p]] = k
  BY DEF MatchSlot, FirstWithKey
<1>2. ASSUME NEW q \in MatchSlot(k) PROVE q = p
  BY SlotTableAssumption DEF MatchSlot, FirstWithKey, Slots
<1> QED BY <1>1, <1>2

LEMMA AnswerType ==
  ASSUME NEW call \in {"init", "send", "on_message", "step"},
         NEW res \in {"ok", "bounds", "constraint", "truncated", "io"},
         NEW key \in Keys \cup {NoKey},
         NEW ended \in Requests \cup {None}
  PROVE  Answer(call, res, key, ended) \in Answers
BY DEF Answer, Answers

LEMMA InvInit == Init => Inv
<1> SUFFICES ASSUME Init PROVE Inv
  OBVIOUS
<1>1. TableInv
  BY InitTable DEF Init
<1>2. answer \in Answers
  BY AnswerType DEF Init
<1>3. ConverseTypeOK
  BY DEF Init, PendInit, ConverseTypeOK
<1> QED BY <1>1, <1>2, <1>3 DEF Inv, TypeOK, TableInv

LEMMA InvNext == Inv /\ [Next]_vars => Inv'
<1> DEFINE Kept == TableInv' /\ ConverseTypeOK' /\ answer' \in Answers
<1> SUFFICES ASSUME Inv, [Next]_vars PROVE Kept
  BY DEF Inv, TypeOK, TableInv
<1>0. TableInv /\ TypeOK
  BY DEF Inv
<1> USE SlotTableAssumption
<1>1. ASSUME NEW r \in Requests, Send(r) PROVE Kept
  <2>1. TableInv'
    BY <1>0, <1>1, StoreTable, StutterTable DEF Send
  <2>2. ConverseTypeOK'
    BY <1>0, <1>1 DEF Send, Recorded, RecordSlot, TypeOK, ConverseTypeOK
  <2>3. answer' \in Answers
    BY <1>1, AnswerType DEF Send
  <2> QED BY <2>1, <2>2, <2>3
<1>2. ASSUME NEW k \in Keys \cup {NoKey}, OnMessage(k) PROVE Kept
  <2>1. ASSUME NEW p \in MatchSlot(k), Free(SlotOf(p)) PROVE TableInv'
    BY <1>0, <1>2, <2>1, FreeTable DEF OnMessage, SlotOf
  <2>2. TableInv'
    BY <1>0, <1>2, <2>1, StutterTable DEF OnMessage
  <2>3. ConverseTypeOK'
    BY <1>0, <1>2 DEF OnMessage, Unmatched, TypeOK, ConverseTypeOK
  <2>4. ASSUME NEW p \in MatchSlot(k), NEW i \in SlotOf(p),
               answer' = Answer("on_message", "ok", k, req[i])
        PROVE  answer' \in Answers
    <3>1. req[i] \in Requests \cup {None}
      BY <1>0, SlotOfOne DEF TypeOK, TableTypeOK
    <3> QED BY <2>4, <3>1, AnswerType
  <2>5. MatchRefusal(k) \in {"ok", "bounds", "constraint", "truncated", "io"}
    BY DEF MatchRefusal
  <2>6. answer' \in Answers
    BY <1>2, <2>4, <2>5, AnswerType DEF OnMessage
  <2> QED BY <2>2, <2>3, <2>6
<1>3. CASE DriveStep
  <2>1. TableInv'
    BY <1>0, <1>3, StepTable DEF DriveStep
  <2>2. answer' \in Answers
    BY <1>3, AnswerType DEF DriveStep
  <2> QED BY <1>0, <1>3, <2>1, <2>2 DEF DriveStep, TypeOK, ConverseTypeOK
<1>4. CASE Tick /\ UNCHANGED <<pend, answer>>
  BY <1>0, <1>4, TickTable DEF TypeOK, ConverseTypeOK
<1>5. CASE UNCHANGED vars
  BY <1>0, <1>5, StutterTable DEF vars, tableVars, TypeOK, ConverseTypeOK
<1> QED BY <1>1, <1>2, <1>3, <1>4, <1>5 DEF Next

(* In every reachable state of the C machine every variable has its type,  *)
(* and an exchange is open exactly while one retransmission slot and no    *)
(* other holds it, whatever handles the caller uses.                       *)
THEOREM DriveCTracks == Spec => [](TypeOK /\ Tracked)
<1>1. Spec => []Inv
  BY InvInit, InvNext, PTL DEF Spec
<1>2. Inv => TypeOK /\ Tracked
  BY DEF Inv, TableInv
<1> QED BY <1>1, <1>2, PTL

-----------------------------------------------------------------------------
LEMMA TimedInit == Init => Timed
BY DEF Init, TableInit, Timed

LEMMA TimedNext ==
  ASSUME NoWrap, Inv, Timed, [Next]_vars
  PROVE  Timed' /\ (PatientStep \/ UNCHANGED vars)
<1>0. TableInv /\ TableTypeOK
  BY DEF Inv, TableInv
<1>u. ASSUME UNCHANGED tableVars PROVE Timed' /\ PatientStep
  BY <1>0, <1>u, DriveAssumption
     DEF tableVars, Timed, PatientStep, TableTypeOK
<1>1. ASSUME NEW r \in Requests, Send(r) PROVE Timed' /\ PatientStep
  BY <1>0, <1>u, <1>1, StoreTimed DEF Send
<1>2. ASSUME NEW k \in Keys \cup {NoKey}, OnMessage(k)
      PROVE  Timed' /\ PatientStep
  <2>1. ASSUME NEW p, Free(SlotOf(p)) PROVE Timed' /\ PatientStep
    BY <1>0, <2>1, FreeTimed DEF SlotOf
  <2> QED BY <1>u, <1>2, <2>1 DEF OnMessage
<1>3. CASE DriveStep
  BY <1>0, <1>3, StepTimed DEF DriveStep
<1>4. CASE Tick
  BY <1>u, <1>4 DEF Tick
<1>5. CASE UNCHANGED vars
  BY <1>5 DEF vars, Timed
<1> QED BY <1>1, <1>2, <1>3, <1>4, <1>5 DEF Next

(* While now_ms has not wrapped and no deadline lies beyond the wrap, no   *)
(* exchange is retransmitted or given up before timeout_ms have really     *)
(* passed since it was last submitted.                                     *)
THEOREM DriveCPatience == ASSUME NoWrap PROVE Spec => Patience
<1>1. Inv /\ Timed /\ [Next]_vars => Timed'
  BY TimedNext
<1>2. Inv /\ Timed /\ [Next]_vars => [PatientStep]_vars
  BY TimedNext
<1>3. Spec => []Inv
  BY InvInit, InvNext, PTL DEF Spec
<1>4. Spec => []Timed
  BY TimedInit, <1>1, <1>3, PTL DEF Spec
<1> QED BY <1>2, <1>3, <1>4, PTL DEF Spec, Patience

-----------------------------------------------------------------------------
LEMMA BudgetInit == Init => Budget
BY DEF Init, TableInit, Budget

LEMMA ExchangeInit == Init => Exchanges!Init
BY DEF Init, TableInit, Exchanges!Init

LEMMA ExchangeNext ==
  ASSUME DueMax >= Cap, Inv, Budget, [Next]_vars
  PROVE  Budget' /\ [Exchanges!Next]_(Exchanges!vars)
<1>0. TableInv /\ TableTypeOK
  BY DEF Inv, TableInv
<1>u. ASSUME UNCHANGED tableVars
      PROVE  Budget' /\ UNCHANGED Exchanges!vars
  BY <1>u DEF tableVars, Budget, Exchanges!vars
<1>1. ASSUME NEW r \in Requests, Send(r)
      PROVE  Budget' /\ [Exchanges!Next]_(Exchanges!vars)
  <2>1. CASE Store(r) /\ FirstFree(req) # {}
    BY <1>0, <1>1, <2>1, StoreOpens DEF Send, Exchanges!Next
  <2>2. CASE Store(r) /\ FirstFree(req) = {}
    BY <1>0, <1>u, <2>2 DEF Store, TableTypeOK, tableVars
  <2> QED BY <1>u, <1>1, <2>1, <2>2 DEF Send
<1>2. ASSUME NEW k \in Keys \cup {NoKey}, OnMessage(k)
      PROVE  Budget' /\ [Exchanges!Next]_(Exchanges!vars)
  <2>1. ASSUME NEW p \in MatchSlot(k), NEW i \in SlotOf(p), Free(SlotOf(p))
        PROVE  Budget' /\ Exchanges!Next
    <3>1. i \in Slots /\ req[i] # None /\ SlotOf(p) = {i}
      BY <2>1, SlotOfOne
    <3>2. Budget' /\ Exchanges!Answer(req[i])
      BY <1>0, <2>1, <3>1, FreeAnswers
    <3>3. req[i] \in Requests
      BY <1>0, <3>1 DEF TableTypeOK
    <3> QED BY <3>2, <3>3 DEF Exchanges!Next
  <2>2. ASSUME NEW p \in MatchSlot(k), SlotOf(p) = {}, Free(SlotOf(p))
        PROVE  UNCHANGED tableVars
    BY <1>0, <2>2 DEF Free, TableTypeOK, tableVars
  <2> QED BY <1>u, <1>2, <2>1, <2>2 DEF OnMessage
<1>3. CASE DriveStep
  BY <1>0, <1>3, StepElapses DEF DriveStep, Exchanges!Next
<1>4. CASE Tick
  BY <1>u, <1>4 DEF Tick
<1>5. CASE UNCHANGED vars
  BY <1>u, <1>5 DEF vars, tableVars
<1> QED BY <1>1, <1>2, <1>3, <1>4, <1>5 DEF Next

(* The C machine, whose `step` submits without a limit (DueMax >= Cap),    *)
(* implements the abstract exchange, also where several requests share a   *)
(* handle or a key.                                                        *)
THEOREM DriveCImplementsExchange ==
  ASSUME DueMax >= Cap PROVE Spec => []Budget /\ ExchangeSpec
<1>1. Inv /\ Budget /\ [Next]_vars
        => Budget' /\ [Exchanges!Next]_(Exchanges!vars)
  BY ExchangeNext
<1>2. Spec => []Inv
  BY InvInit, InvNext, PTL DEF Spec
<1>3. Spec => []Budget
  BY BudgetInit, <1>1, <1>2, PTL DEF Spec
<1> QED BY ExchangeInit, <1>1, <1>2, <1>3, PTL
        DEF Spec, ExchangeSpec, Exchanges!Spec

-----------------------------------------------------------------------------
(* The two tables together.  A caller who gives each request a handle of   *)
(* its own has a reply end the exchange whose record it matched.           *)
OwnHandles == \A r, s \in Requests : IdOf[r] = IdOf[s] => r = s

(* No request is recorded twice *)
RecordedOnce ==
  \A p, q \in Slots : pend[p] = pend[q] /\ pend[p] # None => p = q

TwoTables ==
  Answerable /\ NoStrandedRecord /\ RightExchange /\ RecordedOnce

(* The open exchanges have a record each, and a slot each.  So where a     *)
(* record can be made there is a slot: were every slot taken, as many      *)
(* requests would be recorded beside the free place.                       *)
LEMMA SlotForRecord ==
  ASSUME TableInv, Answerable, NEW p \in Slots, pend[p] = None
  PROVE  FirstFree(req) # {}
<1>0. TableTypeOK /\ Tracked
  BY DEF TableInv
<1> SUFFICES ASSUME \A i \in Slots : req[i] # None PROVE FALSE
  BY LeastFree
<1>1. \A i \in Slots : \E q \in Slots : pend[q] = req[i]
  BY <1>0 DEF Tracked, TableTypeOK, Answerable
<1> DEFINE Others == Slots \ {p}
<1>2. PICK place \in [Slots -> Others] :
        \A i \in Slots : pend[place[i]] = req[i]
  <2> DEFINE h == [i \in Slots |-> CHOOSE q \in Slots : pend[q] = req[i]]
  <2>1. h \in [Slots -> Others] /\ \A i \in Slots : pend[h[i]] = req[i]
    BY <1>1
  <2> QED BY <2>1
<1>3. IsFiniteSet(Slots) /\ Cardinality(Slots) \in Nat
  BY FS_Interval, FS_CardinalityType, SlotTableAssumption DEF Slots
<1>4. IsFiniteSet(Others) /\ Cardinality(Others) < Cardinality(Slots)
  <2>1. IsFiniteSet(Slots \ {p})
    BY <1>3, FS_RemoveElement
  <2>2. Cardinality(Slots \ {p}) = Cardinality(Slots) - 1
    BY <1>3, FS_RemoveElement
  <2> QED BY <1>3, <2>1, <2>2
<1>5. PICK i, j \in Slots : i # j /\ place[i] = place[j]
  <2> HIDE DEF Others
  <2> QED BY <1>3, <1>4, FS_PigeonHole
<1> QED BY <1>0, <1>2, <1>5 DEF Tracked

LEMMA TwoTablesInit == Init => TwoTables
BY SlotTableAssumption
   DEF Init, TableInit, PendInit, Answer, TwoTables, Answerable,
       NoStrandedRecord, RightExchange, RecordedOnce

(* What is enough for the tables to stay together where no record is made: *)
(* none is added, and whoever loses one is not open any more.              *)
LEMMA TablesStay ==
  ASSUME Inv, Inv', TwoTables,
         \A p \in Slots : pend'[p] = pend[p] \/ pend'[p] = None,
         \A r \in Requests : state'[r] = state[r] \/ state[r] = "open",
         \A r \in Requests : state'[r] # "idle" \/ state[r] = "idle",
         \A r \in Requests : state'[r] = "open" =>
           \A p \in Slots : pend[p] = r => pend'[p] = r
  PROVE  Answerable' /\ NoStrandedRecord' /\ RecordedOnce'
<1>0. TableTypeOK /\ ConverseTypeOK /\ TableTypeOK' /\ ConverseTypeOK'
  BY DEF Inv, TypeOK
<1>1. Answerable'
  BY <1>0 DEF TwoTables, Answerable, TableTypeOK, States
<1>2. NoStrandedRecord'
  BY <1>0 DEF TwoTables, NoStrandedRecord, ConverseTypeOK
<1>3. RecordedOnce'
  BY <1>0 DEF TwoTables, RecordedOnce, ConverseTypeOK
<1> QED BY <1>1, <1>2, <1>3

LEMMA SendTables ==
  ASSUME Inv, Inv', TwoTables, NEW r \in Requests, Send(r)
  PROVE  TwoTables'
<1> USE SlotTableAssumption
<1>0. TableInv /\ TableTypeOK /\ ConverseTypeOK
  BY DEF Inv, TypeOK
<1>1. RightExchange'
  BY DEF Send, Answer, RightExchange
<1>2. CASE RecordSlot(r) = {}
  <2>1. UNCHANGED <<pend, state>>
    BY <1>0, <1>2 DEF Send, Recorded, ConverseTypeOK, tableVars
  <2> QED BY <1>1, <2>1
          DEF TwoTables, Answerable, NoStrandedRecord, RecordedOnce
<1>3. ASSUME NEW p \in RecordSlot(r) PROVE TwoTables'
  <2>1. p \in Slots /\ pend[p] = None /\ RecordSlot(r) = {p}
    BY <1>3, FirstFreeOne DEF RecordSlot
  <2>2. FirstFree(req) # {}
    BY <1>0, <2>1, SlotForRecord DEF TwoTables
  <2>3. state' = [state EXCEPT ![r] = "open"] /\ pend' = [pend EXCEPT ![p] = r]
    BY <1>0, <2>1, <2>2 DEF Send, Store, Recorded, ConverseTypeOK
  <2>4. \A q \in Slots : pend[q] # r
    BY DEF TwoTables, NoStrandedRecord, Send
  <2>5. Answerable'
    BY <1>0, <2>1, <2>3 DEF TwoTables, Answerable, TableTypeOK, ConverseTypeOK
  <2>6. NoStrandedRecord'
    BY <1>0, <2>1, <2>3
       DEF TwoTables, NoStrandedRecord, TableTypeOK, ConverseTypeOK
  <2>7. RecordedOnce'
    BY <1>0, <2>1, <2>3, <2>4 DEF TwoTables, RecordedOnce, ConverseTypeOK
  <2> QED BY <1>1, <2>5, <2>6, <2>7 DEF TwoTables
<1> QED BY <1>2, <1>3

LEMMA OnMessageTables ==
  ASSUME OwnHandles, Inv, Inv', TwoTables,
         NEW k \in Keys \cup {NoKey}, OnMessage(k)
  PROVE  TwoTables'
<1> USE SlotTableAssumption
<1>0. TableTypeOK /\ Tracked /\ ConverseTypeOK
  BY DEF Inv, TypeOK, TableInv
<1>1. CASE MatchSlot(k) = {}
  <2>1. UNCHANGED <<pend, state>> /\ RightExchange'
    BY <1>0, <1>1
       DEF OnMessage, Unmatched, ConverseTypeOK, tableVars, Answer, RightExchange
  <2> QED BY <2>1
          DEF TwoTables, Answerable, NoStrandedRecord, RecordedOnce
<1>2. ASSUME NEW p \in MatchSlot(k) PROVE TwoTables'
  <2>1. /\ p \in Slots /\ pend[p] \in Requests /\ KeyOf[pend[p]] = k
        /\ MatchSlot(k) = {p}
    BY <1>0, <1>2, MatchSlotOne DEF ConverseTypeOK
  <2>2. Free(SlotOf(p)) /\ pend' = [pend EXCEPT ![p] = None]
    BY <1>0, <2>1 DEF OnMessage, Unmatched, ConverseTypeOK
  <2>3. \A i \in Slots : req[i] = pend[p] => SlotOf(p) = {i}
    <3>1. ASSUME NEW i \in Slots, req[i] = pend[p]
          PROVE  i \in SlotOf(p)
      <4>1. \A j \in Slots : req[j] # None /\ IdOf[req[j]] = IdOf[pend[p]] => j = i
        BY <1>0, <2>1, <3>1 DEF Tracked, OwnHandles, TableTypeOK
      <4>2. \A j \in 1 .. i - 1 : j \in Slots /\ j # i
        BY DEF Slots
      <4> QED BY <2>1, <3>1, <4>1, <4>2 DEF SlotOf
    <3> QED BY <3>1, SlotOfOne
  <2>4. \A i \in SlotOf(p) : req[i] = pend[p]
    BY <1>0, <2>1, SlotOfOne DEF OwnHandles, TableTypeOK
  <2>5. state'[pend[p]] # "open"
    BY <1>0, <2>1, <2>2, <2>3 DEF Free, Tracked, TableTypeOK
  <2>6. RightExchange'
    BY <2>1, <2>4 DEF OnMessage, Answer, RightExchange
  <2>7. Answerable' /\ NoStrandedRecord' /\ RecordedOnce'
    <3>1. \A r \in Requests :
             state'[r] = state[r] \/ (state[r] = "open" /\ state'[r] = "answered")
      BY <1>0, <2>2, <2>4 DEF Free, Tracked, SlotOf
    <3>2. \A q \in Slots : pend'[q] = pend[q] \/ (q = p /\ pend'[q] = None)
      BY <1>0, <2>2 DEF ConverseTypeOK
    <3> QED BY <2>5, <3>1, <3>2, TablesStay
  <2> QED BY <2>6, <2>7 DEF TwoTables
<1> QED BY <1>1, <1>2

LEMMA StepTables ==
  ASSUME Inv, Inv', TwoTables, DriveStep
  PROVE  TwoTables'
<1>0. TableTypeOK /\ Tracked
  BY DEF Inv, TypeOK, TableInv
<1>1. \A r \in Requests :
         state'[r] = state[r] \/ (state[r] = "open" /\ state'[r] = "expired")
  BY <1>0, SlotTableAssumption
     DEF DriveStep, Step, Expires, Due, Tracked, TableTypeOK
<1>2. pend' = pend
  BY DEF DriveStep
<1>3. RightExchange'
  BY DEF DriveStep, Answer, RightExchange
<1> QED BY <1>1, <1>2, <1>3, TablesStay DEF TwoTables

LEMMA TwoTablesNext ==
  ASSUME OwnHandles, Inv, Inv', TwoTables, [Next]_vars
  PROVE  TwoTables'
<1>1. CASE UNCHANGED <<pend, state, answer>>
  BY <1>1 DEF TwoTables, Answerable, NoStrandedRecord, RightExchange, RecordedOnce
<1>2. (Tick /\ UNCHANGED <<pend, answer>>) \/ UNCHANGED vars
         => UNCHANGED <<pend, state, answer>>
  BY DEF Tick, tableVars, vars
<1> QED BY <1>1, <1>2, SendTables, OnMessageTables, StepTables DEF Next

LEMMA TablesTogether == ASSUME OwnHandles PROVE Spec => []TwoTables
<1>1. Inv /\ Inv' /\ TwoTables /\ [Next]_vars => TwoTables'
  BY TwoTablesNext
<1>2. Spec => []Inv
  BY InvInit, InvNext, PTL DEF Spec
<1> QED BY TwoTablesInit, <1>1, <1>2, PTL DEF Spec

(* Where each request has a handle of its own, the pending table holds the *)
(* request of every open exchange: no reply to another one, late, doubled  *)
(* or under the same key, takes its record away.                           *)
THEOREM DriveCAnswerable == ASSUME OwnHandles PROVE Spec => []Answerable
<1>1. TwoTables => Answerable
  BY DEF TwoTables
<1> QED BY <1>1, TablesTogether, PTL

(* `send` never fails between the two tables: where the first takes a      *)
(* record the second has a slot, so no refused request is left recorded.   *)
THEOREM DriveCNeverStrands ==
  ASSUME OwnHandles PROVE Spec => []NoStrandedRecord
<1>1. TwoTables => NoStrandedRecord
  BY DEF TwoTables
<1> QED BY <1>1, TablesTogether, PTL

(* A reply ends an exchange that carries its key, and no other.            *)
THEOREM DriveCRightExchange == ASSUME OwnHandles PROVE Spec => []RightExchange
<1>1. TwoTables => RightExchange
  BY DEF TwoTables
<1> QED BY <1>1, TablesTogether, PTL

(* Who is still recorded.  A reply takes with it the only record of the    *)
(* exchange it ends, so what is left in the pending table belongs to an    *)
(* exchange that is open or that `step` gave up.                           *)
Owed ==
  \A p \in Slots : pend[p] # None => state[pend[p]] \in {"open", "expired"}

LEMMA SendOwed ==
  ASSUME Inv, TwoTables, Owed, NEW r \in Requests, Send(r)
  PROVE  Owed'
<1>0. TableInv /\ TableTypeOK /\ ConverseTypeOK /\ Answerable /\ state[r] = "idle"
  BY DEF Inv, TypeOK, TwoTables, Send
<1>1. CASE RecordSlot(r) = {}
  <2>1. UNCHANGED <<pend, state>>
    BY <1>0, <1>1 DEF Send, Recorded, ConverseTypeOK, tableVars
  <2> QED BY <2>1 DEF Owed
<1>2. ASSUME NEW p \in RecordSlot(r) PROVE Owed'
  <2>1. p \in Slots /\ pend[p] = None /\ RecordSlot(r) = {p}
    BY <1>2, FirstFreeOne DEF RecordSlot
  <2>2. state' = [state EXCEPT ![r] = "open"] /\ pend' = [pend EXCEPT ![p] = r]
    BY <1>0, <2>1, SlotForRecord DEF Send, Store, Recorded, ConverseTypeOK
  <2> QED BY <1>0, <2>1, <2>2 DEF Owed, TableTypeOK, ConverseTypeOK
<1> QED BY <1>1, <1>2

LEMMA OnMessageOwed ==
  ASSUME OwnHandles, Inv, TwoTables, Owed,
         NEW k \in Keys \cup {NoKey}, OnMessage(k)
  PROVE  Owed'
<1>0. TableTypeOK /\ ConverseTypeOK /\ RecordedOnce
  BY DEF Inv, TypeOK, TwoTables
<1>1. CASE MatchSlot(k) = {}
  <2>1. UNCHANGED <<pend, state>>
    BY <1>0, <1>1 DEF OnMessage, Unmatched, ConverseTypeOK, tableVars
  <2> QED BY <2>1 DEF Owed
<1>2. ASSUME NEW p \in MatchSlot(k) PROVE Owed'
  <2>1. p \in Slots /\ pend[p] \in Requests /\ MatchSlot(k) = {p}
    BY <1>0, <1>2, MatchSlotOne DEF ConverseTypeOK
  <2>2. Free(SlotOf(p)) /\ pend' = [pend EXCEPT ![p] = None]
    BY <1>0, <2>1 DEF OnMessage, Unmatched, ConverseTypeOK
  <2>3. \A i \in SlotOf(p) : req[i] = pend[p]
    BY <1>0, <2>1, SlotOfOne, SlotTableAssumption DEF OwnHandles, TableTypeOK
  <2>4. \A r \in Requests : r # pend[p] => state'[r] = state[r]
    BY <2>2, <2>3 DEF Free
  <2>5. \A q \in Slots : pend'[q] # None =>
           pend'[q] = pend[q] /\ pend[q] \in Requests /\ pend[q] # pend[p]
    BY <1>0, <2>1, <2>2 DEF ConverseTypeOK, RecordedOnce
  <2> QED BY <2>4, <2>5 DEF Owed
<1> QED BY <1>1, <1>2

LEMMA OwedNext ==
  ASSUME OwnHandles, Inv, TwoTables, Owed, [Next]_vars
  PROVE  Owed'
<1>1. CASE DriveStep
  <2>1. /\ pend' = pend
        /\ \A r \in Requests : state'[r] = "expired" \/ state'[r] = state[r]
    BY <1>1 DEF DriveStep, Step
  <2>2. ConverseTypeOK
    BY DEF Inv, TypeOK
  <2> QED BY <2>1, <2>2 DEF Owed, ConverseTypeOK
<1>2. CASE UNCHANGED <<pend, state>>
  BY <1>2 DEF Owed
<1>3. (Tick /\ UNCHANGED <<pend, answer>>) \/ UNCHANGED vars
        => UNCHANGED <<pend, state>>
  BY DEF Tick, tableVars, vars
<1> QED BY <1>1, <1>2, <1>3, SendOwed, OnMessageOwed DEF Next

(* A pending table without a free place and without the record of an       *)
(* expired exchange holds the open exchanges, once each.                   *)
LEMMA FullPending ==
  ASSUME Inv, TwoTables, Owed, FirstFree(pend) = {},
         \A r \in Requests : state[r] # "expired"
  PROVE  Cardinality({r \in Requests : state[r] = "open"}) = Cap
<1> DEFINE O == {r \in Requests : state[r] = "open"}
           f == [p \in Slots |-> pend[p]]
<1>0. ConverseTypeOK /\ Answerable /\ RecordedOnce
  BY DEF Inv, TypeOK, TwoTables
<1>1. \A p \in Slots : pend[p] # None
  BY LeastFree
<1>2. \A p \in Slots : pend[p] \in O
  BY <1>0, <1>1 DEF ConverseTypeOK, Owed
<1>3. \A r \in O : \E p \in Slots : pend[p] = r
  BY <1>0 DEF Answerable
<1>4. \A p, q \in Slots : f[p] = f[q] => p = q
  BY <1>0, <1>1 DEF RecordedOnce
<1>5. f \in Bijection(Slots, O)
  BY <1>2, <1>3, <1>4 DEF Bijection, Injection, Surjection, IsInjective
<1>6. ExistsBijection(Slots, O)
  BY <1>5 DEF ExistsBijection
<1>7. IsFiniteSet(Slots) /\ Cardinality(Slots) = Cap
  BY FS_Interval, SlotTableAssumption DEF Slots
<1>8. Cardinality(O) = Cardinality(Slots)
  <2> HIDE DEF O, f
  <2> QED BY <1>6, <1>7, FS_Bijection, Zenon
<1> QED BY <1>7, <1>8

(* Until a first exchange expires, a refusal means that Cap are open *)
LeaksOnlyExpired ==
  (\A r \in Requests : state[r] # "expired") => RefusedOnlyWhenFull

LEMMA LeakNext ==
  ASSUME Inv, TwoTables, Owed, LeaksOnlyExpired, [Next]_vars
  PROVE  LeaksOnlyExpired'
<1>1. ASSUME NEW r \in Requests, Send(r) PROVE LeaksOnlyExpired'
  <2>1. CASE RecordSlot(r) = {}
    <3>1. UNCHANGED state /\ answer' = Answer("send", "bounds", KeyOf[r], None)
      BY <1>1, <2>1 DEF Send, tableVars
    <3>2. answer'.key # NoKey => FirstFree(pend) = {}
      BY <2>1, <3>1 DEF RecordSlot, Answer
    <3> QED BY <3>1, <3>2, FullPending DEF LeaksOnlyExpired, RefusedOnlyWhenFull
  <2>2. ASSUME NEW p \in RecordSlot(r) PROVE RefusedOnlyWhenFull'
    <3>1. p \in Slots /\ pend[p] = None
      BY <2>2, FirstFreeOne DEF RecordSlot
    <3>2. FirstFree(req) # {}
      BY <3>1, SlotForRecord DEF Inv, TwoTables
    <3> QED BY <1>1, <2>2, <3>2 DEF Send, RefusedOnlyWhenFull, Answer
  <2> QED BY <2>1, <2>2 DEF LeaksOnlyExpired
<1>2. ASSUME NEW k \in Keys \cup {NoKey}, OnMessage(k)
      PROVE  RefusedOnlyWhenFull'
  <2>1. ASSUME NEW res, NEW ended, answer' = Answer("on_message", res, k, ended)
        PROVE  answer'.call = "on_message"
    BY <2>1 DEF Answer
  <2>2. answer'.call = "on_message"
    BY <1>2, <2>1 DEF OnMessage
  <2> QED BY <2>2 DEF RefusedOnlyWhenFull
<1>3. CASE DriveStep
  BY <1>3 DEF DriveStep, LeaksOnlyExpired, RefusedOnlyWhenFull, Answer
<1>4. CASE UNCHANGED <<state, answer>>
  BY <1>4 DEF LeaksOnlyExpired, RefusedOnlyWhenFull
<1>5. (Tick /\ UNCHANGED <<pend, answer>>) \/ UNCHANGED vars
        => UNCHANGED <<state, answer>>
  BY DEF Tick, tableVars, vars
<1> QED BY <1>1, <1>2, <1>3, <1>4, <1>5 DEF Next, LeaksOnlyExpired

(* What the pending table of the C machine loses, it loses to `step`.      *)
(* Where each request has a handle of its own and nothing has expired yet, *)
(* `send` refuses a request whose key can be read only while Cap exchanges *)
(* are open; RefusedOnlyWhenFull without that hypothesis is false.         *)
THEOREM DriveCLeaksOnlyExpired ==
  ASSUME OwnHandles PROVE Spec => []LeaksOnlyExpired
<1>1. Init => Owed /\ LeaksOnlyExpired
  BY DEF Init, PendInit, Answer, Owed, LeaksOnlyExpired, RefusedOnlyWhenFull
<1>2. Inv /\ TwoTables /\ Owed /\ LeaksOnlyExpired /\ [Next]_vars
        => Owed' /\ LeaksOnlyExpired'
  BY OwedNext, LeakNext
<1>3. Spec => []Inv
  BY InvInit, InvNext, PTL DEF Spec
<1> QED BY <1>1, <1>2, <1>3, TablesTogether, PTL DEF Spec

-----------------------------------------------------------------------------
(* Where the loop is, what it has told the user and what it will return: a *)
(* failure leads to the exit with nothing in between but hooks that were   *)
(* already due.                                                            *)
Control ==
  /\ runs \in Nat /\ dones \in Nat /\ errors \in Nat
  /\ pc \in {"idle", "top", "wait", "sleep", "recv", "reap", "hook", "exit"}
  /\ resume \in {"top", "wait", "reap", "exit"}
  /\ dones = IF pc = "idle" THEN runs ELSE runs - 1
  /\ errors <= dones
  /\ rc \in {"ok", "bounds"}
  /\ rc = "bounds" => finished = "error"
  /\ pc \in {"top", "wait", "sleep", "recv"} => rc = "ok"
  /\ pc = "hook" /\ resume # "reap" => rc = "ok"
  /\ pc = "hook" /\ resume = "exit" => finished = "complete"
  /\ pc = "exit" => finished # "none"
  /\ pc \in {"exit", "idle"} /\ finished = "error" => rc = "bounds"

(* Nothing is outstanding where the loop leaves, or will after on_expired, *)
(* because step said so.                                                   *)
Idle == \A i \in Slots : req[i] = None

Drained ==
  /\ pc = "exit" /\ finished = "complete" => Idle
  /\ pc = "hook" /\ resume = "exit" => hook = "on_expired" /\ Idle

Expired == {r \in Requests : state[r] = "expired"}

Told == IsFiniteSet(Expired) /\ told = Cardinality(Expired)

(* What arrives is a datagram *)
Inbox == inbox \in Seq(Datagrams)

-----------------------------------------------------------------------------
LEMMA ControlInit == LoopInit => Control
BY DEF LoopInit, Control

LEMMA ControlRun == Control /\ Run => Control'
BY DEF Control, Run, Goto

LEMMA ControlStopped == Control /\ Stopped => Control'
BY DEF Control, Stopped, Goto

LEMMA ControlTurn == Control /\ Turn => Control'
BY DEF Control, Turn, Goto, Call

LEMMA ControlFail ==
  Control /\ pc \in {"wait", "sleep", "recv"} /\ Fail => Control'
BY DEF Control, Fail, Goto

LEMMA ControlHookReturn == Control /\ HookReturn => Control'
BY DEF Control, HookReturn, logVars

LEMMA ControlExit == Control /\ Exit => Control'
BY DEF Control, Exit, Goto

LEMMA ControlDeliver ==
  ASSUME Control, NEW d, NEW then \in {"top", "reap"},
         pc = (IF then = "top" THEN "recv" ELSE "reap"),
         Deliver(d, then), UNCHANGED <<rc, logVars>>
  PROVE  Control'
BY DEF Control, Deliver, Call, logVars

(* The control stays where it is *)
LEMMA ControlStays ==
  ASSUME Control, UNCHANGED <<pc, resume, rc, runs, dones, errors, finished>>
  PROVE  Control'
BY DEF Control

LEMMA ControlStop ==
  ASSUME Control, NEW woken \in {"top", "reap"}, SetStop(woken)
  PROVE  Control'
BY DEF Control, SetStop, Goto, logVars

-----------------------------------------------------------------------------
(* What each call of the machine does to the exchanges that have expired   *)
LEMMA ToldKept ==
  ASSUME Told, UNCHANGED told,
         \A r \in Requests : state'[r] = "expired" <=> state[r] = "expired"
  PROVE  Told'
<1>1. Expired' = Expired
  BY DEF Expired
<1> QED BY <1>1 DEF Told

LEMMA ToldSend ==
  ASSUME Inv, Told, UNCHANGED told, NEW r \in Requests, Send(r)
  PROVE  Told'
<1>1. TableTypeOK
  BY DEF Inv, TypeOK
<1>2. \A s \in Requests : state'[s] = "expired" <=> state[s] = "expired"
  BY <1>1 DEF Send, Store, tableVars, TableTypeOK
<1> QED BY <1>2, ToldKept

LEMMA ToldDeliver ==
  ASSUME Inv, Told, UNCHANGED told, NEW d \in Datagrams, NEW then,
         Deliver(d, then)
  PROVE  Told'
<1>1. TableTypeOK /\ Tracked
  BY DEF Inv, TypeOK, TableInv
<1>2. \A s \in Requests : state'[s] = "expired" <=> state[s] = "expired"
  BY <1>1
     DEF Deliver, OnMessage, Free, SlotOf, vars, tableVars, TableTypeOK, Tracked
<1> QED BY <1>2, ToldKept

(* `step` gives up one exchange for each slot it counts *)
LEMMA ToldStep ==
  ASSUME Inv, Told, DriveStep, told' = told + ExpiredCount
  PROVE  Told'
<1>0. TableTypeOK /\ Tracked
  BY DEF Inv, TypeOK, TableInv
<1> DEFINE E == {i \in Slots : Expires(i)}
           N == {req[i] : i \in E}
<1>1. \A i \in E : /\ i \in Slots /\ req[i] \in Requests
                   /\ state[req[i]] = "open"
  BY <1>0 DEF Expires, Due, TableTypeOK, Tracked
<1>2. IsFiniteSet(E)
  <2>1. IsFiniteSet(Slots)
    BY FS_Interval, SlotTableAssumption DEF Slots
  <2> QED BY <2>1, FS_Subset
<1>3. IsFiniteSet(N) /\ Cardinality(N) = Cardinality(E)
  <2> DEFINE f == [i \in E |-> req[i]]
  <2>1. \A i, j \in E : f[i] = f[j] => i = j
    BY <1>0, <1>1, SlotTableAssumption DEF Tracked
  <2>2. f \in Bijection(E, N)
    BY <2>1 DEF Bijection, Injection, Surjection, IsInjective
  <2>3. ExistsBijection(E, N)
    BY <2>2 DEF ExistsBijection
  <2> QED BY <1>2, <2>3, FS_Bijection
<1>4. Expired' = Expired \cup N
  BY <1>0, <1>1 DEF DriveStep, Step, Expired, TableTypeOK
<1>5. Expired \cap N = {}
  BY <1>1 DEF Expired
<1>6. /\ IsFiniteSet(Expired \cup N)
      /\ Cardinality(Expired \cup N) = Cardinality(Expired) + Cardinality(N)
  <2>1. Cardinality({}) = 0
    BY FS_EmptySet
  <2>2. /\ IsFiniteSet(Expired \cup N)
        /\ Cardinality(Expired \cup N)
             = Cardinality(Expired) + Cardinality(N) - Cardinality(Expired \cap N)
    BY <1>3, FS_Union DEF Told
  <2>3. Cardinality(Expired) \in Nat /\ Cardinality(N) \in Nat
    BY <1>3, FS_CardinalityType DEF Told
  <2> QED BY <1>5, <2>1, <2>2, <2>3
<1>7. told' = Cardinality(Expired) + Cardinality(E)
  BY DEF Told, ExpiredCount
<1> QED BY <1>3, <1>4, <1>6, <1>7 DEF Told

-----------------------------------------------------------------------------
(* The invariant that both hosts keep.  A hook of on_expired that sends    *)
(* breaks Drained, so that is kept only where none does.                   *)
LoopInv == Inv /\ Control /\ Told /\ Inbox

NoSendOnExpired == "on_expired" \notin SendingHooks

LEMMA LoopInvInit == LoopInit => LoopInv /\ Drained
<1> SUFFICES ASSUME LoopInit PROVE LoopInv /\ Drained
  OBVIOUS
<1>1. Inv /\ Control
  BY InvInit, ControlInit DEF LoopInit
<1>2. Expired = {}
  BY DEF LoopInit, Init, TableInit, Expired
<1>3. Told
  BY <1>2, FS_EmptySet DEF LoopInit, Told
<1>4. Inbox /\ Drained
  BY DEF LoopInit, Inbox, Drained
<1> QED BY <1>1, <1>3, <1>4 DEF LoopInv

(* The steps that leave the machine alone *)
LEMMA MachineStays ==
  ASSUME LoopInv, Control', Inbox', UNCHANGED <<vars, told>>
  PROVE  LoopInv'
<1>1. Inv'
  BY InvNext DEF LoopInv
<1>2. Told'
  BY ToldKept DEF LoopInv, vars
<1> QED BY <1>1, <1>2 DEF LoopInv

LEMMA TurnKeeps ==
  ASSUME LoopInv, Turn
  PROVE  LoopInv' /\ (Drained => Drained')
<1>1. DriveStep /\ told' = told + ExpiredCount /\ UNCHANGED inbox
  BY DEF Turn, envVars
<1>2. Inv'
  BY <1>1, InvNext DEF LoopInv, Next
<1>3. LoopInv'
  BY <1>1, <1>2, ToldStep, ControlTurn DEF LoopInv, Inbox
<1>4. ASSUME Soonest(req', deadline') = None PROVE Idle'
  <2>1. deadline' \in [Slots -> Nat]
    BY <1>2, DriveAssumption DEF Inv, TypeOK, TableTypeOK
  <2> QED BY <1>4, <2>1, SoonestIsLeast, LoopAssumption DEF Idle
<1>5. ASSUME Drained PROVE Drained'
  <2>1. \/ pc' = "wait" \/ (pc' = "hook" /\ resume' = "wait")
        \/ Idle' /\ (pc' = "exit" \/ (pc' = "hook" /\ hook' = "on_expired"))
    BY <1>4 DEF Turn, Call, Goto
  <2> QED BY <2>1 DEF Drained
<1> QED BY <1>3, <1>5

LEMMA UserSendKeeps ==
  ASSUME LoopInv, NEW r \in Requests, UserSend(r)
  PROVE  LoopInv' /\ (Drained /\ NoSendOnExpired => Drained')
<1>1. /\ Send(r)
      /\ UNCHANGED <<pc, hook, resume, rc, finished, runs, dones, errors, told>>
      /\ UNCHANGED inbox
  BY DEF UserSend, loopVars, envVars, logVars
<1>2. Inv'
  BY <1>1, InvNext DEF LoopInv, Next
<1>3. Control'
  BY <1>1, ControlStays DEF LoopInv
<1>4. Told'
  BY <1>1, ToldSend DEF LoopInv
<1>5. Drained /\ NoSendOnExpired => Drained'
  BY <1>1 DEF UserSend, Drained, NoSendOnExpired
<1> QED BY <1>1, <1>2, <1>3, <1>4, <1>5 DEF LoopInv, Inbox

LEMMA DeliverKeeps ==
  ASSUME LoopInv, NEW d \in Datagrams, NEW then \in {"top", "reap"},
         pc = (IF then = "top" THEN "recv" ELSE "reap"),
         Deliver(d, then), UNCHANGED <<rc, logVars>>, Inbox'
  PROVE  LoopInv' /\ Drained'
<1>1. [Next]_vars
  BY DEF Deliver, Datagrams, Next
<1>2. Inv'
  BY <1>1, InvNext DEF LoopInv
<1>3. Control'
  BY ControlDeliver DEF LoopInv
<1>4. Told'
  BY ToldDeliver DEF LoopInv, logVars
<1>5. Drained'
  BY DEF Deliver, Call, Drained
<1> QED BY <1>2, <1>3, <1>4, <1>5 DEF LoopInv

LEMMA TimePassesKeeps ==
  ASSUME LoopInv, TimePasses
  PROVE  LoopInv' /\ (Drained => Drained')
<1>1. /\ Tick /\ UNCHANGED <<pend, answer>>
      /\ UNCHANGED <<pc, hook, resume, rc, finished, runs, dones, errors, told>>
      /\ UNCHANGED <<inbox, state, req>>
  BY DEF TimePasses, Tick, tableVars, loopVars, envVars
<1>2. Inv'
  BY <1>1, InvNext DEF LoopInv, Next
<1>3. Control' /\ Told'
  BY <1>1, ControlStays, ToldKept DEF LoopInv
<1>4. Drained => Drained'
  BY <1>1 DEF Drained, Idle
<1> QED BY <1>1, <1>2, <1>3, <1>4 DEF LoopInv, Inbox

(* What a host shares with the others and does not reach the machine *)
LEMMA RestKeeps ==
  ASSUME LoopInv,
         \/ Run \/ Stopped \/ HookReturn \/ Exit
         \/ \E woken \in {"top", "reap"} : SetStop(woken)
         \/ \E d \in Datagrams : Arrive(d)
         \/ pc \in {"wait", "sleep", "recv"} /\ Fail
  PROVE  LoopInv' /\ (Drained => Drained')
<1>0. Control /\ Inbox
  BY DEF LoopInv
<1>1. UNCHANGED <<vars, told>>
  BY DEF Run, Stopped, HookReturn, Exit, SetStop, Arrive, Fail, logVars
<1>2. Control'
  <2>1. CASE \E d \in Datagrams : Arrive(d)
    BY <1>0, <2>1, ControlStays DEF Arrive, loopVars, logVars
  <2> QED BY <1>0, <2>1, ControlRun, ControlStopped, ControlHookReturn, ControlExit,
             ControlStop, ControlFail
<1>3. Inbox'
  <2>1. ASSUME NEW d \in Datagrams, Arrive(d) PROVE Inbox'
    BY <1>0, <2>1 DEF Arrive, Inbox
  <2>2. CASE UNCHANGED inbox
    BY <1>0, <2>2 DEF Inbox
  <2> QED BY <2>1, <2>2 DEF Run, Stopped, HookReturn, Exit, SetStop, Fail, envVars
<1>4. LoopInv'
  BY <1>1, <1>2, <1>3, MachineStays
<1>5. Drained => Drained'
  <2>1. req' = req
    BY <1>1 DEF vars
  <2> QED BY <1>0, <2>1
          DEF Run, Stopped, HookReturn, Exit, SetStop, Arrive, Fail, Drained, Idle,
              Goto, loopVars, logVars, Control
<1> QED BY <1>4, <1>5

-----------------------------------------------------------------------------
(* Each step of the loop on a descriptor, and each on a ring               *)
LEMMA FdStep ==
  ASSUME LoopInv, [LoopNext]_allVars
  PROVE  LoopInv' /\ (Drained /\ NoSendOnExpired => Drained')
<1>0. Control /\ Inbox
  BY DEF LoopInv
<1>1. CASE Run \/ Stopped \/ HookReturn \/ Exit
  BY <1>1, RestKeeps
<1>2. CASE SetStop("top") \/ (\E d \in Datagrams : Arrive(d)) \/ Failed
  BY <1>2, RestKeeps DEF Failed
<1>3. CASE Turn
  BY <1>3, TurnKeeps
<1>4. CASE \E r \in Requests : UserSend(r)
  BY <1>4, UserSendKeeps
<1>5. CASE TimePasses
  BY <1>5, TimePassesKeeps
<1>6. CASE Recv
  <2>1. Head(inbox) \in Datagrams /\ Inbox'
    BY <1>0, <1>6 DEF Recv, Inbox
  <2>2. Deliver(Head(inbox), "top") /\ pc = "recv" /\ UNCHANGED <<rc, logVars>>
    BY <1>6 DEF Recv
  <2> HIDE DEF Deliver
  <2> QED BY <2>1, <2>2, DeliverKeeps
<1>7. CASE SetupFails \/ EnterWait \/ WakeTimeout \/ WakeReadable \/ Interrupted
  <2>1. UNCHANGED <<vars, told, inbox>>
    BY <1>7
       DEF SetupFails, EnterWait, WakeTimeout, WakeReadable, Interrupted, envVars,
           logVars
  <2>2. Control' /\ Inbox'
    BY <1>0, <1>7, <2>1
       DEF SetupFails, EnterWait, WakeTimeout, WakeReadable, Interrupted, Goto,
           Control, Inbox, logVars
  <2>3. Drained'
    BY <1>7
       DEF SetupFails, EnterWait, WakeTimeout, WakeReadable, Interrupted, Goto,
           Drained
  <2> QED BY <2>1, <2>2, <2>3, MachineStays
<1>8. CASE UNCHANGED allVars
  <2>1. /\ UNCHANGED <<vars, told, inbox>>
        /\ UNCHANGED <<pc, hook, resume, rc, runs, dones, errors, finished>>
    BY <1>8 DEF allVars, loopVars, envVars, logVars
  <2>2. Control' /\ Inbox'
    BY <1>0, <2>1, ControlStays DEF Inbox
  <2>3. Drained => Drained'
    BY <2>1 DEF Drained, Idle, vars
  <2> QED BY <2>1, <2>2, <2>3, MachineStays
<1> QED
  BY <1>1, <1>2, <1>3, <1>4, <1>5, <1>6, <1>7, <1>8 DEF LoopNext, Loop

LEMMA RingStep ==
  ASSUME LoopInv, [UringNext]_uringVars
  PROVE  LoopInv' /\ (Drained /\ NoSendOnExpired => Drained')
<1>0. Control /\ Inbox
  BY DEF LoopInv
<1>1. CASE Run \/ Stopped \/ HookReturn \/ UringExit
  BY <1>1, RestKeeps DEF UringExit
<1>2. CASE SetStop("reap") \/ (\E d \in Datagrams : Arrive(d)) \/ UringFailed
  BY <1>2, RestKeeps DEF UringFailed
<1>3. CASE UringTurn
  BY <1>3, TurnKeeps DEF UringTurn
<1>4. CASE \E r \in Requests : UringSend(r)
  BY <1>4, UserSendKeeps DEF UringSend
<1>5. CASE TimePasses
  BY <1>5, TimePassesKeeps
<1>6. CASE Reap
  <2>1. /\ pc = "reap" /\ Inbox' /\ UNCHANGED <<runs, dones, errors, told, lag>>
    BY <1>0, <1>6 DEF Reap, Inbox, envVars
  <2>2. CASE /\ Head(cq) \in Datagrams /\ Deliver(Head(cq), "reap")
             /\ UNCHANGED <<rc, finished>>
    <3>1. UNCHANGED <<rc, logVars>>
      BY <2>1, <2>2 DEF logVars
    <3> QED BY <2>1, <2>2, <3>1, DeliverKeeps
  <2>3. CASE /\ UNCHANGED <<vars, pc, hook, resume>>
             /\ \/ UNCHANGED <<rc, finished>>
                \/ rc' = "bounds" /\ finished' = "error"
    <3>1. Control' /\ Drained'
      BY <1>0, <2>1, <2>3 DEF Control, Drained
    <3> QED BY <2>1, <2>3, <3>1, MachineStays
  <2> QED BY <1>6, <2>2, <2>3 DEF Reap
<1>7. CASE UringWait \/ UringWake \/ Reaped
  <2>1. UNCHANGED <<vars, told, inbox>>
    BY <1>7 DEF UringWait, UringWake, Reaped, envVars, logVars
  <2>2. Control' /\ Inbox'
    BY <1>0, <1>7, <2>1
       DEF UringWait, UringWake, Reaped, Goto, Control, Inbox, logVars
  <2>3. Drained => Drained'
    BY <1>0, <1>7, <2>1
       DEF UringWait, UringWake, Reaped, Goto, Drained, Idle, vars, logVars, Control
  <2> QED BY <2>1, <2>2, <2>3, MachineStays
<1>8. CASE KernelRecv \/ KernelRecvFails \/ UNCHANGED uringVars
  <2>1. /\ UNCHANGED <<vars, told>>
        /\ UNCHANGED <<pc, hook, resume, rc, runs, dones, errors, finished>>
    BY <1>8
       DEF KernelRecv, KernelRecvFails, uringVars, allVars, loopVars, envVars,
           logVars
  <2>2. Inbox'
    <3>1. CASE KernelRecv
      <4>1. inbox \in Seq(Datagrams) /\ inbox # <<>> /\ inbox' = Tail(inbox)
        BY <1>0, <3>1 DEF KernelRecv, Inbox
      <4> QED BY <4>1, HeadTailProperties DEF Inbox
    <3>2. CASE UNCHANGED inbox
      BY <1>0, <3>2 DEF Inbox
    <3> QED BY <1>8, <3>1, <3>2 DEF KernelRecvFails, uringVars, allVars, envVars
  <2>3. Control' /\ (Drained => Drained')
    BY <1>0, <2>1, ControlStays DEF Drained, Idle, vars
  <2> QED BY <2>1, <2>2, <2>3, MachineStays
<1> QED
  BY <1>1, <1>2, <1>3, <1>4, <1>5, <1>6, <1>7, <1>8 DEF UringNext

-----------------------------------------------------------------------------
(* Whichever wait it has, every run ends by calling on_done once, and      *)
(* on_error before it exactly where the run failed: the one exit of        *)
(* driver.py and io_uring.py, whatever the user, the network and the       *)
(* system calls do.                                                        *)
THEOREM LoopsDoneOnce ==
  (LoopSpec => []DoneOncePerRun) /\ (UringSpec => []DoneOncePerRun)
<1>1. LoopInit => LoopInv
  BY LoopInvInit
<1>2. LoopInv /\ [LoopNext]_allVars => LoopInv'
  BY FdStep
<1>3. UringInit => LoopInv
  BY LoopInvInit DEF UringInit
<1>4. LoopInv /\ [UringNext]_uringVars => LoopInv'
  BY RingStep
<1>5. LoopInv => DoneOncePerRun
  BY DEF LoopInv, Control, DoneOncePerRun
<1> QED BY <1>1, <1>2, <1>3, <1>4, <1>5, PTL DEF LoopSpec, UringSpec

(* The counts that the loops of driver.py and io_uring.py hand to          *)
(* on_expired add up to the exchanges `step` gave up: none is counted      *)
(* twice and none is dropped, by a stop, a failure or the end of a run.    *)
THEOREM LoopsTellExpiries ==
  (LoopSpec => []ExpiriesTold) /\ (UringSpec => []ExpiriesTold)
<1>1. LoopInit => LoopInv
  BY LoopInvInit
<1>2. LoopInv /\ [LoopNext]_allVars => LoopInv'
  BY FdStep
<1>3. UringInit => LoopInv
  BY LoopInvInit DEF UringInit
<1>4. LoopInv /\ [UringNext]_uringVars => LoopInv'
  BY RingStep
<1>5. LoopInv => ExpiriesTold
  BY DEF LoopInv, Told, Expired, ExpiriesTold
<1> QED BY <1>1, <1>2, <1>3, <1>4, <1>5, PTL DEF LoopSpec, UringSpec

(* A run that ends because nothing is outstanding leaves nothing           *)
(* outstanding, where no on_expired hook opens an exchange: the loops of   *)
(* driver.py and io_uring.py decide to leave before they call that hook.   *)
THEOREM LoopsCompleteIdle ==
  ASSUME NoSendOnExpired
  PROVE  (LoopSpec => []CompleteMeansIdle) /\ (UringSpec => []CompleteMeansIdle)
<1>1. LoopInit => LoopInv /\ Drained
  BY LoopInvInit
<1>2. LoopInv /\ Drained /\ [LoopNext]_allVars => (LoopInv /\ Drained)'
  BY FdStep
<1>3. UringInit => LoopInv /\ Drained
  BY LoopInvInit DEF UringInit
<1>4. LoopInv /\ Drained /\ [UringNext]_uringVars => (LoopInv /\ Drained)'
  BY RingStep
<1>5. Drained => CompleteMeansIdle
  BY DEF Drained, Idle, CompleteMeansIdle
<1> QED BY <1>1, <1>2, <1>3, <1>4, <1>5, PTL DEF LoopSpec, UringSpec

-----------------------------------------------------------------------------
(* The one receive buffer of the ring.  recv_posted says whether there is  *)
(* a RECV anywhere between `prep` and the reaping of its completion: on    *)
(* the submission ring, with the kernel, or on the completion ring.        *)
RingOps == Requests \cup {RecvOp}

RingTypeOK ==
  /\ sq \in Seq(RingOps) /\ cq \in Seq(Completions)
  /\ recvs \in Nat /\ toSubmit \in Nat /\ recvPosted \in BOOLEAN

RingInv ==
  /\ RingTypeOK
  /\ recvs + Len(cq) + Count(RecvOp, sq) = IF recvPosted THEN 1 ELSE 0
  /\ pc = "hook" /\ hook # "on_expired" => ~recvPosted

(* Counting an operation in a sequence, and in its two parts               *)
LEMMA CountType ==
  ASSUME NEW S, NEW q \in Seq(S), NEW op
  PROVE  /\ IsFiniteSet({k \in DOMAIN q : q[k] = op})
         /\ Count(op, q) \in Nat
<1>1. IsFiniteSet(DOMAIN q)
  BY FS_Interval
<1>2. IsFiniteSet({k \in DOMAIN q : q[k] = op})
  BY <1>1, FS_Subset
<1> QED BY <1>2, FS_CardinalityType DEF Count

LEMMA CountNone ==
  ASSUME NEW q, NEW op, \A k \in DOMAIN q : q[k] # op
  PROVE  Count(op, q) = 0
<1>1. {k \in DOMAIN q : q[k] = op} = {}
  OBVIOUS
<1> QED BY <1>1, FS_EmptySet DEF Count

LEMMA CountConcat ==
  ASSUME NEW S, NEW q \in Seq(S), NEW s \in Seq(S), NEW op
  PROVE  Count(op, q \o s) = Count(op, q) + Count(op, s)
<1> DEFINE A == {k \in DOMAIN q : q[k] = op}
           B == {k \in DOMAIN s : s[k] = op}
           C == {Len(q) + k : k \in B}
           W == {k \in DOMAIN (q \o s) : (q \o s)[k] = op}
<1>1. Len(q) \in Nat /\ Len(s) \in Nat /\ A \subseteq 1 .. Len(q)
      /\ B \subseteq 1 .. Len(s)
  OBVIOUS
<1>2. DOMAIN (q \o s) = 1 .. Len(q) + Len(s)
      /\ \A k \in 1 .. Len(q) + Len(s) :
           (q \o s)[k] = IF k <= Len(q) THEN q[k] ELSE s[k - Len(q)]
  BY ConcatProperties
<1>3. W = A \cup C
  <2>1. \A k \in W : k \in A \/ k - Len(q) \in B
    BY <1>1, <1>2
  <2>2. \A k \in W : k \in Nat /\ (k - Len(q) \in B => k \in C)
    BY <1>1, <1>2
  <2>3. A \subseteq W
    BY <1>1, <1>2
  <2>4. C \subseteq W
    BY <1>1, <1>2
  <2> QED BY <2>1, <2>2, <2>3, <2>4
<1>4. A \cap C = {}
  BY <1>1
<1>5. IsFiniteSet(A) /\ IsFiniteSet(B)
  BY CountType
<1>6. IsFiniteSet(C) /\ Cardinality(C) = Cardinality(B)
  <2> DEFINE f == [k \in B |-> Len(q) + k]
  <2>1. f \in Bijection(B, C)
    BY <1>1 DEF Bijection, Injection, Surjection, IsInjective
  <2>2. ExistsBijection(B, C)
    BY <2>1 DEF ExistsBijection
  <2> HIDE DEF C
  <2> QED BY <1>5, <2>2, FS_Bijection
<1>7. Cardinality(A \cup C) = Cardinality(A) + Cardinality(C)
  <2> HIDE DEF A, C
  <2>1. Cardinality(A \cap C) = 0
    BY <1>4, FS_EmptySet, Zenon
  <2>2. Cardinality(A) \in Nat /\ Cardinality(C) \in Nat
    BY <1>5, <1>6, FS_CardinalityType
  <2>3. Cardinality(A \cup C)
          = Cardinality(A) + Cardinality(C) - Cardinality(A \cap C)
    BY <1>5, <1>6, FS_Union
  <2> QED BY <2>1, <2>2, <2>3
<1> QED BY <1>3, <1>6, <1>7 DEF Count

LEMMA SubmitCounts ==
  ASSUME NEW q \in Seq(RingOps), NEW n \in 0 .. Len(q), recvs \in Nat,
         Submit(q, n)
  PROVE  /\ sq' \in Seq(RingOps) /\ recvs' \in Nat
         /\ Len(sq') = Len(q) - n
         /\ recvs' + Count(RecvOp, sq') = recvs + Count(RecvOp, q)
<1> DEFINE a == SubSeq(q, 1, n)
           b == SubSeq(q, n + 1, Len(q))
<1>1. a \in Seq(RingOps) /\ b \in Seq(RingOps)
  BY SubSeqProperties
<1>2. a \o b = q
  <2>1. 1 \in 1 .. Len(q) + 1 /\ n \in 1 - 1 .. Len(q) /\ Len(q) \in n .. Len(q)
    OBVIOUS
  <2>2. SubSeq(q, 1, n) \o SubSeq(q, n + 1, Len(q)) = SubSeq(q, 1, Len(q))
    BY <2>1, ConcatAdjacentSubSeq, Zenon
  <2> QED BY <2>2, SubSeqFull
<1>3. Count(RecvOp, q) = Count(RecvOp, a) + Count(RecvOp, b)
  <2> HIDE DEF a, b
  <2> QED BY <1>1, <1>2, CountConcat
<1>4. sq' = b /\ recvs' = recvs + Count(RecvOp, a)
  BY DEF Submit
<1>5. Count(RecvOp, a) \in Nat /\ Count(RecvOp, b) \in Nat
  <2> HIDE DEF a, b
  <2> QED BY <1>1, CountType
<1>6. Len(b) = Len(q) - n
  OBVIOUS
<1> HIDE DEF a, b
<1> QED BY <1>1, <1>3, <1>4, <1>5, <1>6

LEMMA RingInvInit == UringInit => RingInv
<1> SUFFICES ASSUME UringInit PROVE RingInv
  OBVIOUS
<1>1. Count(RecvOp, sq) = 0
  BY CountNone DEF UringInit
<1>2. sq = <<>> /\ cq = <<>> /\ toSubmit = 0 /\ recvPosted = FALSE /\ recvs = 0
  BY DEF UringInit
<1>3. RingTypeOK
  <2>1. sq \in Seq(RingOps) /\ cq \in Seq(Completions)
    BY <1>2, EmptySeq, Zenon
  <2>2. recvs \in Nat /\ toSubmit \in Nat /\ recvPosted \in BOOLEAN
    BY <1>2
  <2> QED BY <2>1, <2>2 DEF RingTypeOK
<1>4. recvs + Len(cq) + Count(RecvOp, sq) = 0
  BY <1>1, <1>2
<1>5. pc = "idle"
  BY DEF UringInit, LoopInit
<1> QED BY <1>2, <1>3, <1>4, <1>5 DEF RingInv

(* The steps that leave the ring alone, and are not the start of a hook    *)
LEMMA RingStays ==
  ASSUME RingInv, UNCHANGED <<sq, toSubmit, recvPosted, recvs, cq>>,
         pc' = "hook" /\ hook' # "on_expired" => pc = "hook" /\ hook # "on_expired"
  PROVE  RingInv'
<1>1. Count(RecvOp, sq)' = Count(RecvOp, sq)
  BY DEF Count
<1> QED BY <1>1 DEF RingInv, RingTypeOK

(* What `step` retransmits is sends *)
LEMMA ResentAreSends ==
  ASSUME Inv, NEW sends \in Resent
  PROVE  /\ sends \in Seq(RingOps) /\ Count(RecvOp, sends) = 0
<1> DEFINE slots == {i \in Slots : Submits(i)}
<1>1. TableTypeOK
  BY DEF Inv, TypeOK
<1>2. \A i \in slots : req[i] \in Requests
  BY <1>1 DEF Submits, Resends, Due, TableTypeOK
<1>3. PICK o \in [1 .. Cardinality(slots) -> slots] :
        sends = [k \in DOMAIN o |-> req[o[k]]]
  BY DEF Resent
<1>4. Cardinality(slots) \in Nat
  <2>1. IsFiniteSet(Slots)
    BY FS_Interval, SlotTableAssumption DEF Slots
  <2> QED BY <2>1, FS_Subset, FS_CardinalityType
<1>5. sends \in [1 .. Cardinality(slots) -> Requests]
  <2> HIDE DEF slots
  <2> QED BY <1>2, <1>3
<1>6. sends \in Seq(Requests)
  <2> HIDE DEF slots
  <2> QED BY <1>4, <1>5, IsASeq
<1>7. \A k \in DOMAIN sends : sends[k] # RecvOp
  BY <1>5, UringAssumption
<1> QED BY <1>6, <1>7, CountNone DEF RingOps

LEMMA RingTurn ==
  ASSUME Inv, RingInv, UringTurn
  PROVE  RingInv'
<1> DEFINE posts == IF PostsRecv THEN <<RecvOp>> ELSE <<>>
<1>1. PICK sends, n :
        /\ sends \in Resent /\ n \in Taken(Len(sends))
        /\ Submit(sq \o posts \o sends, n)
  BY DEF UringTurn
<1>2. /\ sq \in Seq(RingOps) /\ recvs \in Nat /\ Len(cq) \in Nat
      /\ posts \in Seq(RingOps) /\ Len(posts) \in Nat
      /\ sends \in Seq(RingOps) /\ Count(RecvOp, sends) = 0
  <2>1. sq \in Seq(RingOps) /\ recvs \in Nat /\ Len(cq) \in Nat
    BY DEF RingInv, RingTypeOK
  <2>2. posts \in Seq(RingOps) /\ Len(posts) \in Nat
    <3>1. <<RecvOp>> \in Seq(RingOps) /\ Len(<<RecvOp>>) = 1
      BY DEF RingOps
    <3>2. <<>> \in Seq(RingOps) /\ Len(<<>>) = 0
      BY EmptySeq, Zenon
    <3>3. posts = <<RecvOp>> \/ posts = <<>>
      OBVIOUS
    <3> HIDE DEF posts
    <3> QED BY <3>1, <3>2, <3>3
  <2> QED BY <1>1, <2>1, <2>2, ResentAreSends
<1>3. Count(RecvOp, posts) = IF recvPosted THEN 0 ELSE 1
  <2>1. CASE recvPosted
    BY <2>1, CountNone DEF PostsRecv
  <2>2. CASE ~recvPosted
    <3>1. {k \in DOMAIN posts : posts[k] = RecvOp} = {1}
      BY <2>2 DEF PostsRecv
    <3> QED BY <2>2, <3>1, FS_Singleton, Zenon DEF Count
  <2> QED BY <2>1, <2>2
<1>4. /\ sq \o posts \o sends \in Seq(RingOps)
      /\ n \in 0 .. Len(sq \o posts \o sends)
  BY <1>1, <1>2 DEF Taken
<1>5. Count(RecvOp, sq \o posts \o sends)
        = Count(RecvOp, sq) + Count(RecvOp, posts)
  <2> HIDE DEF posts
  <2>1. sq \o posts \in Seq(RingOps)
    BY <1>2
  <2>2. Count(RecvOp, sq \o posts \o sends)
          = Count(RecvOp, sq \o posts) + Count(RecvOp, sends)
    BY <1>2, <2>1, CountConcat
  <2>3. Count(RecvOp, sq \o posts) = Count(RecvOp, sq) + Count(RecvOp, posts)
    BY <1>2, CountConcat
  <2>4. Count(RecvOp, sq) \in Nat /\ Count(RecvOp, posts) \in Nat
    BY <1>2, CountType
  <2> QED BY <1>2, <2>2, <2>3, <2>4
<1>6. /\ sq' \in Seq(RingOps) /\ recvs' \in Nat
      /\ recvs' + Count(RecvOp, sq')
           = recvs + Count(RecvOp, sq) + Count(RecvOp, posts)
  <2> HIDE DEF posts
  <2>1. Count(RecvOp, sq) \in Nat /\ Count(RecvOp, posts) \in Nat
    BY <1>2, CountType
  <2> DEFINE q == sq \o posts \o sends
  <2>2. q \in Seq(RingOps) /\ n \in 0 .. Len(q) /\ recvs \in Nat /\ Submit(q, n)
    BY <1>1, <1>2, <1>4
  <2>3. /\ sq' \in Seq(RingOps) /\ recvs' \in Nat
        /\ recvs' + Count(RecvOp, sq') = recvs + Count(RecvOp, q)
    <3> HIDE DEF q
    <3> QED BY <2>2, SubmitCounts, Zenon
  <2> QED BY <1>2, <1>5, <2>1, <2>3
<1>7. /\ recvPosted' = TRUE /\ cq' = cq /\ toSubmit' = Len(posts)
      /\ pc' = "hook" => hook' = "on_expired"
  BY DEF UringTurn, Turn, Call, Goto
<1>8. Count(RecvOp, sq) \in Nat /\ Count(RecvOp, sq') \in Nat
  BY <1>2, <1>6, CountType
<1>9. recvs' + Len(cq') + Count(RecvOp, sq') = 1
  <2> HIDE DEF posts
  <2>1. recvs + Len(cq) + Count(RecvOp, sq) = IF recvPosted THEN 1 ELSE 0
    BY DEF RingInv
  <2>2. recvs + Len(cq) + Count(RecvOp, sq) + Count(RecvOp, posts) = 1
    BY <1>2, <1>3, <1>8, <2>1
  <2>3. Len(cq') = Len(cq)
    BY <1>7, Zenon
  <2>4. Count(RecvOp, posts) \in Nat
    BY <1>2, CountType
  <2>5. recvs' + Len(cq) + Count(RecvOp, sq') = 1
    <3>1. recvs' + Count(RecvOp, sq')
            = recvs + Count(RecvOp, sq) + Count(RecvOp, posts)
      BY <1>6
    <3>2. /\ recvs \in Nat /\ Len(cq) \in Nat /\ recvs' \in Nat
          /\ Count(RecvOp, sq) \in Nat /\ Count(RecvOp, sq') \in Nat
      BY <1>2, <1>6, <1>8
    <3> QED BY <2>2, <2>4, <3>1, <3>2
  <2> QED BY <2>3, <2>5
<1> QED
  <2>1. RingTypeOK'
    BY <1>2, <1>6, <1>7 DEF RingInv, RingTypeOK
  <2>2. Count(RecvOp, sq)' = Count(RecvOp, sq')
    BY DEF Count
  <2> QED BY <1>7, <1>9, <2>1, <2>2 DEF RingInv

LEMMA RingSend ==
  ASSUME RingInv, NEW r \in Requests, UringSend(r)
  PROVE  RingInv'
<1>1. UNCHANGED <<pc, hook>>
  BY DEF UringSend, UserSend, loopVars
<1>2. CASE UNCHANGED ringVars
  BY <1>1, <1>2, RingStays DEF ringVars
<1>3. ASSUME NEW n \in 0 .. 1, Submit(Append(sq, r), n),
             UNCHANGED <<toSubmit, recvPosted, cq>>
      PROVE  RingInv'
  <2>1. sq \in Seq(RingOps) /\ recvs \in Nat /\ <<r>> \in Seq(RingOps)
    BY DEF RingInv, RingTypeOK, RingOps
  <2>2. /\ Append(sq, r) = sq \o <<r>> /\ Append(sq, r) \in Seq(RingOps)
        /\ n \in 0 .. Len(Append(sq, r))
    BY <2>1 DEF RingOps
  <2>3. Count(RecvOp, <<r>>) = 0
    BY CountNone, UringAssumption
  <2>4. Count(RecvOp, Append(sq, r)) = Count(RecvOp, sq)
    <3>1. Count(RecvOp, sq \o <<r>>) = Count(RecvOp, sq) + Count(RecvOp, <<r>>)
      BY <2>1, CountConcat
    <3>2. Count(RecvOp, sq) \in Nat
      BY <2>1, CountType
    <3> QED BY <2>2, <2>3, <3>1, <3>2
  <2>5. /\ sq' \in Seq(RingOps) /\ recvs' \in Nat
        /\ recvs' + Count(RecvOp, sq') = recvs + Count(RecvOp, sq)
    <3> DEFINE q == Append(sq, r)
    <3>1. q \in Seq(RingOps) /\ n \in 0 .. Len(q) /\ recvs \in Nat /\ Submit(q, n)
      BY <1>3, <2>1, <2>2
    <3>2. /\ sq' \in Seq(RingOps) /\ recvs' \in Nat
          /\ recvs' + Count(RecvOp, sq') = recvs + Count(RecvOp, q)
      <4> HIDE DEF q
      <4> QED BY <3>1, SubmitCounts, Zenon
    <3> QED BY <2>4, <3>2
  <2>6. Count(RecvOp, sq) \in Nat /\ Count(RecvOp, sq') \in Nat
    BY <2>1, <2>5, CountType
  <2>7. Count(RecvOp, sq)' = Count(RecvOp, sq')
    BY DEF Count
  <2>8. recvs' + Len(cq') + Count(RecvOp, sq)' = IF recvPosted' THEN 1 ELSE 0
    BY <1>3, <2>1, <2>5, <2>6, <2>7 DEF RingInv, RingTypeOK
  <2> QED BY <1>1, <1>3, <2>5, <2>8 DEF RingInv, RingTypeOK
<1> QED BY <1>2, <1>3 DEF UringSend, Taken

LEMMA RingWait ==
  ASSUME RingInv, UringWait
  PROVE  RingInv'
<1>1. /\ sq \in Seq(RingOps) /\ recvs \in Nat /\ toSubmit \in Nat
      /\ cq \in Seq(Completions) /\ Len(cq) \in Nat /\ Len(sq) \in Nat
  BY DEF RingInv, RingTypeOK
<1>2. WaitSubmits \in 0 .. Len(sq)
  BY <1>1 DEF WaitSubmits
<1>3. Submit(sq, WaitSubmits) /\ UNCHANGED <<toSubmit, recvPosted, cq>>
  BY DEF UringWait
<1>4. /\ sq' \in Seq(RingOps) /\ recvs' \in Nat
      /\ recvs' + Count(RecvOp, sq') = recvs + Count(RecvOp, sq)
  BY <1>1, <1>2, <1>3, SubmitCounts, Zenon
<1>5. /\ Count(RecvOp, sq) \in Nat /\ Count(RecvOp, sq') \in Nat
      /\ Count(RecvOp, sq)' = Count(RecvOp, sq')
  BY <1>1, <1>4, CountType DEF Count
<1>6. recvs + Len(cq) + Count(RecvOp, sq) = IF recvPosted THEN 1 ELSE 0
  BY DEF RingInv
<1>7. recvs' + Len(cq) + Count(RecvOp, sq)' = IF recvPosted THEN 1 ELSE 0
  BY <1>1, <1>4, <1>5, <1>6
<1>8. RingTypeOK' /\ pc' = "sleep"
  BY <1>3, <1>4 DEF UringWait, Goto, RingInv, RingTypeOK
<1> QED BY <1>3, <1>7, <1>8 DEF RingInv

LEMMA RingReap ==
  ASSUME RingInv, Reap
  PROVE  RingInv'
<1>1. /\ cq \in Seq(Completions) /\ cq # <<>> /\ cq' = Tail(cq)
      /\ recvPosted' = FALSE /\ UNCHANGED <<sq, toSubmit, recvs>>
      /\ recvs \in Nat /\ sq \in Seq(RingOps) /\ toSubmit \in Nat
  BY DEF Reap, RingInv, RingTypeOK
<1>2. cq' \in Seq(Completions) /\ Len(cq') = Len(cq) - 1
  BY <1>1, HeadTailProperties
<1>3. Len(cq) \in Nat /\ Len(cq') \in Nat
  BY <1>1, <1>2, LenProperties
<1>4. Count(RecvOp, sq) \in Nat /\ Count(RecvOp, sq)' = Count(RecvOp, sq)
  BY <1>1, CountType DEF Count
<1>5. recvs + Len(cq) + Count(RecvOp, sq) \in {0, 1}
  BY DEF RingInv
<1>6. recvs' + Len(cq') + Count(RecvOp, sq)' = 0
  BY <1>1, <1>2, <1>3, <1>4, <1>5
<1> QED BY <1>1, <1>2, <1>6 DEF RingInv, RingTypeOK

(* The kernel completes a RECV: it is counted on the completion ring       *)
LEMMA RingCompletes ==
  ASSUME RingInv, NEW c \in Completions, recvs > 0,
         cq' = Append(cq, c), recvs' = recvs - 1,
         UNCHANGED <<pc, hook, sq, toSubmit, recvPosted>>
  PROVE  RingInv'
<1>1. /\ cq \in Seq(Completions) /\ recvs \in Nat /\ sq \in Seq(RingOps)
  BY DEF RingInv, RingTypeOK
<1>2. /\ cq' \in Seq(Completions) /\ Len(cq') = Len(cq) + 1
      /\ Len(cq) \in Nat /\ recvs' \in Nat
  BY <1>1
<1>3. Count(RecvOp, sq) \in Nat /\ Count(RecvOp, sq)' = Count(RecvOp, sq)
  BY <1>1, CountType DEF Count
<1>4. recvs' + Len(cq') + Count(RecvOp, sq)'
        = recvs + Len(cq) + Count(RecvOp, sq)
  BY <1>1, <1>2, <1>3
<1> QED BY <1>2, <1>4 DEF RingInv, RingTypeOK

LEMMA RingNext ==
  ASSUME LoopInv, RingInv, [UringNext]_uringVars
  PROVE  RingInv'
<1>0. Inv /\ Control /\ Inbox
  BY DEF LoopInv
<1>1. CASE \/ (Run \/ Stopped \/ HookReturn \/ SetStop("reap")) /\ UNCHANGED ringVars
           \/ (\E d \in Datagrams : Arrive(d)) /\ UNCHANGED ringVars
           \/ TimePasses /\ UNCHANGED ringVars
           \/ UringFailed \/ UringWake \/ Reaped \/ UringExit
           \/ UNCHANGED uringVars
  <2>1. UNCHANGED <<sq, toSubmit, recvPosted, recvs, cq>>
    BY <1>1 DEF ringVars, UringFailed, UringWake, Reaped, UringExit, uringVars
  <2>2. pc' = "hook" => pc = "hook" /\ hook' = hook
    BY <1>0, <1>1
       DEF Run, Stopped, HookReturn, SetStop, Arrive, TimePasses, UringFailed, Fail,
           UringWake, Reaped, UringExit, Exit, Goto, loopVars, uringVars, allVars,
           Control
  <2> QED BY <2>1, <2>2, RingStays
<1>2. CASE UringTurn
  BY <1>0, <1>2, RingTurn
<1>3. CASE UringWait
  BY <1>3, RingWait
<1>4. CASE Reap
  BY <1>4, RingReap
<1>5. CASE \E r \in Requests : UringSend(r)
  BY <1>5, RingSend
<1>6. CASE KernelRecv
  <2>1. Head(inbox) \in Completions
    <3>1. inbox \in Seq(Datagrams) /\ inbox # <<>>
      BY <1>0, <1>6 DEF KernelRecv, Inbox
    <3> QED BY <3>1, HeadTailProperties DEF Completions
  <2> QED BY <1>6, <2>1, RingCompletes DEF KernelRecv, loopVars
<1>7. CASE KernelRecvFails
  <2>1. PICK e \in {"again", "error"} : cq' = Append(cq, e)
    BY <1>7 DEF KernelRecvFails
  <2> QED BY <1>7, <2>1, RingCompletes DEF KernelRecvFails, Completions, loopVars
<1> QED
  BY <1>1, <1>2, <1>3, <1>4, <1>5, <1>6, <1>7 DEF UringNext

(* While a hook of the io_uring loop reads the datagram in the context's   *)
(* one buffer, no RECV is on the submission ring, with the kernel or       *)
(* completed and unread: nothing can overwrite what the user is reading.   *)
THEOREM RingOwnsBuffer == UringSpec => []BufferOwned
<1>1. UringInit => LoopInv /\ RingInv
  BY LoopInvInit, RingInvInit DEF UringInit
<1>2. LoopInv /\ RingInv /\ [UringNext]_uringVars => (LoopInv /\ RingInv)'
  BY RingStep, RingNext
<1>3. RingInv => BufferOwned
  <2> SUFFICES ASSUME RingInv, pc = "hook", hook # "on_expired"
               PROVE  recvs = 0 /\ cq = <<>> /\ Count(RecvOp, sq) = 0
    BY DEF BufferOwned
  <2>1. sq \in Seq(RingOps) /\ cq \in Seq(Completions) /\ recvs \in Nat
    BY DEF RingInv, RingTypeOK
  <2>2. Count(RecvOp, sq) \in Nat /\ Len(cq) \in Nat
    BY <2>1, CountType, LenProperties
  <2>3. recvs + Len(cq) + Count(RecvOp, sq) = 0
    BY DEF RingInv
  <2>4. recvs = 0 /\ Len(cq) = 0 /\ Count(RecvOp, sq) = 0
    BY <2>1, <2>2, <2>3
  <2> QED BY <2>1, <2>4
<1> QED BY <1>1, <1>2, <1>3, PTL DEF UringSpec

-----------------------------------------------------------------------------
(* One RECV in flight.  While no enter has failed and no run has left an   *)
(* operation behind, the submission ring holds what the wait will submit,  *)
(* and nothing else: the turn's sends and the user's each submit one       *)
(* operation and publish one.                                              *)
Unsubmitted ==
  IF pc = "wait" \/ (pc = "hook" /\ resume \in {"wait", "exit"}) THEN toSubmit ELSE 0

Owing ==
  /\ toSubmit \in 0 .. 1
  /\ clean /\ pc # "exit" => Len(sq) = Unsubmitted
  /\ pc \in {"wait", "sleep"} \/ (pc = "hook" /\ resume = "wait") => recvPosted

LEMMA TurnOwes ==
  ASSUME Inv, RingInv, Owing, UringTurn
  PROVE  Owing'
<1> DEFINE posts == IF PostsRecv THEN <<RecvOp>> ELSE <<>>
<1>1. pc = "top" /\ recvPosted' = TRUE /\ toSubmit' = Len(posts)
  BY DEF UringTurn, Turn
<1>0. PICK sends \in Resent : \E n \in Taken(Len(sends)) :
        /\ Submit(sq \o posts \o sends, n)
        /\ clean' = (clean /\ n = Len(sends))
  BY DEF UringTurn
<1>2. PICK n \in Taken(Len(sends)) :
        /\ Submit(sq \o posts \o sends, n)
        /\ clean' = (clean /\ n = Len(sends))
  BY <1>0
<1>3. /\ sq \in Seq(RingOps) /\ recvs \in Nat
      /\ posts \in Seq(RingOps) /\ Len(posts) \in 0 .. 1
      /\ sends \in Seq(RingOps)
  <2>1. <<RecvOp>> \in Seq(RingOps) /\ Len(<<RecvOp>>) \in 0 .. 1
    BY DEF RingOps
  <2>2. <<>> \in Seq(RingOps) /\ Len(<<>>) \in 0 .. 1
    <3>1. <<>> \in Seq(RingOps) /\ Len(<<>>) = 0
      BY EmptySeq, Zenon
    <3> QED BY <3>1
  <2>3. posts = <<RecvOp>> \/ posts = <<>>
    OBVIOUS
  <2> HIDE DEF posts
  <2>4. posts \in Seq(RingOps) /\ Len(posts) \in 0 .. 1
    BY <2>1, <2>2, <2>3, Zenon
  <2>5. sends \in Seq(RingOps)
    BY ResentAreSends
  <2>6. sq \in Seq(RingOps) /\ recvs \in Nat
    BY DEF RingInv, RingTypeOK
  <2> QED BY <2>4, <2>5, <2>6
<1> HIDE DEF posts
<1>4. /\ sq \o posts \o sends \in Seq(RingOps)
      /\ Len(sq \o posts \o sends) = Len(sq) + Len(posts) + Len(sends)
      /\ Len(sq) \in Nat /\ Len(sends) \in Nat /\ n \in 0 .. Len(sends)
  BY <1>2, <1>3 DEF Taken
<1>5. Len(sq') = Len(sq) + Len(posts) + Len(sends) - n
  <2> DEFINE q == sq \o posts \o sends
  <2>1. q \in Seq(RingOps) /\ n \in 0 .. Len(q) /\ Submit(q, n)
    BY <1>2, <1>3, <1>4
  <2>2. Len(sq') = Len(q) - n
    <3> HIDE DEF q
    <3> QED BY <1>3, <2>1, SubmitCounts, Zenon
  <2> QED BY <1>4, <2>2
<1>6. clean => Len(sq) = 0
  BY <1>1 DEF Owing, Unsubmitted
<1>7. clean' => Len(sq') = toSubmit'
  <2>1. clean' => clean /\ n = Len(sends)
    BY <1>2
  <2>2. clean' => Len(sq') = 0 + Len(posts) + n - n
    BY <1>4, <1>5, <1>6, <2>1
  <2> QED BY <1>1, <1>3, <1>4, <2>2
<1>8. pc' # "exit" => Unsubmitted' = toSubmit'
  BY DEF UringTurn, Turn, Call, Goto, Unsubmitted
<1> QED BY <1>1, <1>3, <1>7, <1>8 DEF Owing

LEMMA SendOwes ==
  ASSUME RingInv, Owing, NEW r \in Requests, UringSend(r)
  PROVE  Owing'
<1>1. UNCHANGED <<pc, resume>>
  BY DEF UringSend, UserSend, loopVars
<1>2. CASE UNCHANGED ringVars
  BY <1>1, <1>2 DEF ringVars, Owing, Unsubmitted
<1>3. ASSUME NEW n \in 0 .. 1, Submit(Append(sq, r), n),
             clean' = (clean /\ n = 1), UNCHANGED <<toSubmit, recvPosted, cq>>
      PROVE  Owing'
  <2>1. sq \in Seq(RingOps) /\ recvs \in Nat
    BY DEF RingInv, RingTypeOK
  <2>2. Append(sq, r) \in Seq(RingOps) /\ Len(Append(sq, r)) = Len(sq) + 1
        /\ Len(sq) \in Nat
    BY <2>1 DEF RingOps
  <2>3. n = 1 => Len(sq') = Len(sq)
    <3> SUFFICES ASSUME n = 1 PROVE Len(sq') = Len(sq)
      OBVIOUS
    <3>1. Submit(Append(sq, r), 1)
      BY <1>3
    <3> DEFINE q == Append(sq, r)
    <3>2. q \in Seq(RingOps) /\ 1 \in 0 .. Len(q) /\ Submit(q, 1)
      BY <2>2, <3>1
    <3>3. Len(sq') = Len(q) - 1
      <4> HIDE DEF q
      <4> QED BY <2>1, <3>2, SubmitCounts, Zenon
    <3> QED BY <2>2, <3>3
  <2> QED BY <1>1, <1>3, <2>3 DEF Owing, Unsubmitted
<1> QED BY <1>2, <1>3 DEF UringSend, Taken

LEMMA WaitOwes ==
  ASSUME RingInv, Owing, UringWait
  PROVE  Owing'
<1>1. sq \in Seq(RingOps) /\ recvs \in Nat /\ Len(sq) \in Nat
  BY DEF RingInv, RingTypeOK
<1>2. /\ WaitSubmits \in 0 .. Len(sq)
      /\ clean => WaitSubmits = Len(sq)
  BY <1>1 DEF WaitSubmits, Owing, Unsubmitted, UringWait
<1>3. Submit(sq, WaitSubmits)
  BY DEF UringWait
<1>4. Len(sq') = Len(sq) - WaitSubmits
  BY <1>1, <1>2, <1>3, SubmitCounts, Zenon
<1>5. /\ UNCHANGED <<toSubmit, recvPosted, clean>>
      /\ pc = "wait" /\ pc' = "sleep"
  BY DEF UringWait, Goto
<1>6. clean => Len(sq') = 0
  BY <1>1, <1>2, <1>4
<1> QED BY <1>5, <1>6 DEF Owing, Unsubmitted

LEMMA OwingNext ==
  ASSUME LoopInv, RingInv, Owing, [UringNext]_uringVars
  PROVE  Owing'
<1>0. Inv /\ Control
  BY DEF LoopInv
<1>1. CASE \/ (Run \/ Stopped) /\ UNCHANGED ringVars
           \/ UringWake \/ Reap \/ Reaped
  <2>1. UNCHANGED <<sq, toSubmit, clean>> /\ pc # "exit"
    BY <1>1 DEF ringVars, UringWake, Reap, Reaped, Run, Stopped
  <2>2. Unsubmitted = 0
    BY <1>1 DEF Run, Stopped, UringWake, Reap, Reaped, Unsubmitted
  <2>3. pc' \in {"top", "exit", "reap"} \/ (pc' = "hook" /\ resume' = "reap")
    BY <1>1 DEF Run, Stopped, UringWake, Reap, Reaped, Deliver, Call, Goto
  <2>4. Unsubmitted' = 0
    BY <2>3 DEF Unsubmitted
  <2> QED BY <2>1, <2>2, <2>3, <2>4 DEF Owing
<1>2. CASE HookReturn /\ UNCHANGED ringVars
  BY <1>0, <1>2 DEF HookReturn, ringVars, Owing, Unsubmitted, Control
<1>3. CASE SetStop("reap") /\ UNCHANGED ringVars
  BY <1>3 DEF SetStop, Goto, ringVars, Owing, Unsubmitted
<1>4. CASE UringFailed
  <2>1. clean' = FALSE /\ pc' = "exit" /\ UNCHANGED <<toSubmit>>
    BY <1>4 DEF UringFailed, Fail, Goto
  <2> QED BY <2>1 DEF Owing
<1>5. CASE UringExit
  <2>1. /\ pc' = "idle" /\ UNCHANGED <<sq, toSubmit>>
        /\ clean' = (clean /\ sq = <<>>)
    BY <1>5 DEF UringExit, Exit, Goto
  <2> QED BY <2>1 DEF Owing, Unsubmitted
<1>6. CASE \/ (\E d \in Datagrams : Arrive(d)) /\ UNCHANGED ringVars
           \/ TimePasses /\ UNCHANGED ringVars
           \/ KernelRecv \/ KernelRecvFails \/ UNCHANGED uringVars
  <2>1. UNCHANGED <<pc, resume, sq, toSubmit, recvPosted, clean>>
    BY <1>6 DEF Arrive, TimePasses, KernelRecv, KernelRecvFails, loopVars, ringVars,
                uringVars, allVars
  <2> QED BY <2>1 DEF Owing, Unsubmitted
<1>7. CASE UringTurn
  BY <1>0, <1>7, TurnOwes
<1>8. CASE UringWait
  BY <1>8, WaitOwes
<1>9. CASE \E r \in Requests : UringSend(r)
  BY <1>9, SendOwes
<1> QED
  BY <1>1, <1>2, <1>3, <1>4, <1>5, <1>6, <1>7, <1>8, <1>9 DEF UringNext

(* While the io_uring loop waits, one RECV is with the kernel or completed *)
(* and nothing else is on the submission ring, as long as every enter      *)
(* submitted and no run left an operation behind: for any hooks, sends     *)
(* from them, stops, failures of a RECV and later runs on the same ring.   *)
THEOREM RingKeepsOneRecv == DriversSpec => []RingHasOneRecv
<1> DEFINE RingOf == host = "ring" => LoopInv /\ RingInv /\ Owing
<1>1. DriversInit => RingOf
  <2> SUFFICES ASSUME DriversInit PROVE LoopInv /\ RingInv /\ Owing
    OBVIOUS
  <2>1. LoopInv /\ RingInv
    BY LoopInvInit, RingInvInit DEF DriversInit, UringInit
  <2>2. Owing
    BY DEF DriversInit, UringInit, LoopInit, Owing, Unsubmitted
  <2> QED BY <2>1, <2>2
<1>2. RingOf /\ [DriversNext]_driversVars => RingOf'
  <2> SUFFICES ASSUME RingOf, [DriversNext]_driversVars, host' = "ring"
               PROVE  (LoopInv /\ RingInv /\ Owing)'
    OBVIOUS
  <2>1. host = "ring" /\ [UringNext]_uringVars
    BY DEF DriversNext, driversVars
  <2> QED BY <2>1, RingStep, RingNext, OwingNext
<1>3. RingOf => RingHasOneRecv
  <2> SUFFICES ASSUME RingInv, Owing, pc = "sleep", clean
               PROVE  recvs + Len(cq) = 1 /\ sq = <<>>
    BY DEF RingHasOneRecv, OneRecvInFlight
  <2>1. sq \in Seq(RingOps) /\ Len(sq) = 0 /\ recvPosted
    BY DEF RingInv, RingTypeOK, Owing, Unsubmitted
  <2>2. sq = <<>>
    BY <2>1, EmptySeq
  <2>3. Count(RecvOp, sq) = 0
    BY <2>2, CountNone
  <2>4. recvs \in Nat /\ Len(cq) \in Nat
    BY DEF RingInv, RingTypeOK
  <2> QED BY <2>1, <2>2, <2>3, <2>4 DEF RingInv
<1> HIDE DEF RingOf
<1> QED BY <1>1, <1>2, <1>3, PTL DEF DriversSpec

-----------------------------------------------------------------------------
(* What a run function does to the machine is call it *)
LEMMA DeliverCalls ==
  ASSUME NEW d \in Datagrams, NEW then, Deliver(d, then)
  PROVE  [Next]_vars
BY DEF Deliver, Datagrams, Next

LEMMA FdCalls == Inbox /\ [LoopNext]_allVars => [Next]_vars
<1> SUFFICES ASSUME Inbox, [LoopNext]_allVars PROVE [Next]_vars
  OBVIOUS
<1>1. CASE Turn \/ TimePasses \/ \E r \in Requests : UserSend(r)
  BY <1>1 DEF Turn, TimePasses, UserSend, Next
<1>2. CASE Recv
  <2>1. Head(inbox) \in Datagrams
    BY <1>2 DEF Recv, Inbox
  <2>2. Deliver(Head(inbox), "top")
    BY <1>2 DEF Recv
  <2> QED BY <2>1, <2>2, DeliverCalls
<1>3. CASE UNCHANGED vars
  BY <1>3
<1> QED
  BY <1>1, <1>2, <1>3
     DEF LoopNext, Loop, Run, SetupFails, Stopped, EnterWait, WakeTimeout,
         WakeReadable, HookReturn, Exit, Interrupted, Failed, Fail, SetStop, Arrive,
         allVars

LEMMA RingCalls == [UringNext]_uringVars => [Next]_vars
<1> SUFFICES ASSUME [UringNext]_uringVars PROVE [Next]_vars
  OBVIOUS
<1>1. CASE UringTurn \/ TimePasses \/ \E r \in Requests : UringSend(r)
  BY <1>1 DEF UringTurn, Turn, TimePasses, UringSend, UserSend, Next
<1>2. CASE Reap
  BY <1>2, DeliverCalls DEF Reap
<1>3. CASE UNCHANGED vars
  BY <1>3
<1> QED
  BY <1>1, <1>2, <1>3
     DEF UringNext, Run, Stopped, UringWait, UringFailed, Fail, UringWake, Reaped,
         HookReturn, UringExit, Exit, SetStop, KernelRecv, KernelRecvFails, Arrive,
         uringVars, allVars

(* The run functions of driver.py and io_uring.py drive the machine of     *)
(* drive.py through its calls only, on a descriptor and on a ring.  So     *)
(* whatever holds of the machine on its own holds of it in every loop:     *)
(* Patience, Answerable, Budget and the abstract exchange.                 *)
THEOREM LoopsDriveTheMachine == (LoopSpec => Spec) /\ (UringSpec => Spec)
<1>1. LoopInit => LoopInv /\ Init
  BY LoopInvInit DEF LoopInit
<1>2. LoopInv /\ [LoopNext]_allVars => LoopInv' /\ [Next]_vars
  BY FdStep, FdCalls DEF LoopInv
<1>3. UringInit => LoopInv /\ Init
  BY LoopInvInit DEF UringInit, LoopInit
<1>4. [UringNext]_uringVars => [Next]_vars
  BY RingCalls
<1> QED BY <1>1, <1>2, <1>3, <1>4, PTL DEF LoopSpec, UringSpec, Spec

(* So each run function implements the abstract exchange, hooks, errors    *)
(* and a failed ring included: an exchange is opened once, sent at most    *)
(* Retries + 1 times and ends once.                                        *)
THEOREM LoopsImplementExchange ==
  ASSUME DueMax >= Cap
  PROVE  (LoopSpec => ExchangeSpec) /\ (UringSpec => ExchangeSpec)
BY LoopsDriveTheMachine, DriveCImplementsExchange, PTL

-----------------------------------------------------------------------------
(* Waiting on a descriptor.  Where the clock does not wrap, every submit   *)
(* `step` counts is made and next_ms is not half the range of an unsigned  *)
(* away, the wait the loop computes is the one to the earliest deadline.   *)
WaitsFit == NoWrap /\ DueMax >= Cap /\ Timeout < Modulus \div 2

LEMMA OnTimeNext ==
  ASSUME NoWrap, DueMax >= Cap, Inv, OnTime, [Next]_vars
  PROVE  OnTime'
<1>0. TableInv /\ TableTypeOK
  BY DEF Inv, TableInv
<1>u. ASSUME UNCHANGED <<tableVars, clock>> PROVE OnTime'
  BY <1>u DEF tableVars, OnTime
<1>1. ASSUME NEW r \in Requests, Send(r) PROVE OnTime'
  BY <1>0, <1>u, <1>1, StoreOnTime DEF Send
<1>2. ASSUME NEW k \in Keys \cup {NoKey}, OnMessage(k) PROVE OnTime'
  <2>1. ASSUME NEW S, Free(S), UNCHANGED clock PROVE OnTime'
    BY <2>1 DEF Free, OnTime
  <2> QED BY <1>u, <1>2, <2>1 DEF OnMessage
<1>3. CASE DriveStep
  BY <1>0, <1>3, StepOnTime DEF DriveStep
<1>4. CASE Tick
  BY <1>0, <1>4 DEF Tick, tableVars, OnTime, TableTypeOK
<1>5. CASE UNCHANGED vars
  BY <1>u, <1>5 DEF vars, tableVars
<1> QED BY <1>1, <1>2, <1>3, <1>4, <1>5 DEF Next

(* From the turn on, the wait still to come ends by every live deadline,   *)
(* but for the milliseconds in which the loop was kept from running; so it *)
(* does for an exchange that on_expired opens after the wait was computed. *)
Waiting == pc = "wait" \/ (pc = "hook" /\ resume = "wait")

Waking ==
  /\ lag \in Nat
  /\ Waiting =>
       /\ diff \in 0 .. Timeout
       /\ \A i \in Slots : req[i] # None => clock + diff <= deadline[i] + lag
  /\ pc = "sleep" =>
       /\ until \in Nat
       /\ \A i \in Slots : req[i] # None => until <= deadline[i] + lag

LEMMA TurnWakes ==
  ASSUME WaitsFit, LoopInv, OnTime, Waking, Turn
  PROVE  Waking'
<1> USE SlotTableAssumption, DriveAssumption, LoopAssumption
<1> DEFINE next == Soonest(req', deadline')
<1>1. TableInv /\ Step /\ UNCHANGED clock /\ UNCHANGED lag
  BY DEF Turn, DriveStep, LoopInv, Inv
<1>2. Inv' /\ clock \in Nat
  BY TurnKeeps DEF LoopInv, Inv, TypeOK, TableTypeOK
<1>3. OnTime' /\ \A i \in Slots : req'[i] # None => deadline'[i] > clock
  BY <1>1, StepOnTime DEF WaitsFit
<1>4. pc' # "sleep" /\ (Waiting' => next # None)
  BY DEF Turn, Call, Goto, Waiting
<1>5. ASSUME next # None
      PROVE  /\ diff' \in 0 .. Timeout
             /\ \A i \in Slots : req'[i] # None => clock + diff' <= deadline'[i]
  <2>1. deadline' \in [Slots -> Nat] /\ req' \in [Slots -> Requests \cup {None}]
        /\ lastTx' \in [Requests -> Nat] /\ clock' = clock
    BY <1>1, <1>2 DEF Inv, TypeOK, TableTypeOK
  <2>2. PICK i \in Slots : req'[i] # None
    BY <1>5 DEF Soonest
  <2>3. /\ next \in Nat
        /\ \A j \in Slots : req'[j] # None => next <= deadline'[j]
        /\ \E j \in Slots : req'[j] # None /\ next = deadline'[j]
    BY <2>1, <2>2, SoonestIsLeast
  <2>4. next > clock /\ next <= clock + Timeout
    <3>1. PICK j \in Slots : req'[j] # None /\ next = deadline'[j]
      BY <2>3
    <3>2. /\ deadline'[j] = lastTx'[req'[j]] + Timeout /\ lastTx'[req'[j]] <= clock
          /\ lastTx'[req'[j]] \in Nat
      BY <1>3, <2>1, <3>1 DEF OnTime
    <3>3. deadline'[j] > clock
      BY <1>3, <3>1
    <3> QED BY <1>2, <3>1, <3>2, <3>3
  <2>5. Now = clock
    BY <1>1, TrueTime DEF TableInv, WaitsFit
  <2>6. diff' = Wait(next)
    BY <1>5 DEF Turn
  <2>7. Signed(next - Now) = next - clock
    <3> DEFINE d == next - clock
    <3>1. d \in Nat /\ d < Modulus \div 2 /\ d < Modulus
      <4> HIDE DEF next
      <4> QED BY <1>2, <2>3, <2>4 DEF WaitsFit, NoWrap
    <3>2. Signed(d) = d
      <4> HIDE DEF d
      <4> QED BY <3>1, SmallMod DEF Signed
    <3> QED BY <2>5, <3>2
  <2>8. diff' = next - clock
    <3> HIDE DEF next
    <3>1. ~(next - clock < Floor)
      BY <1>2, <2>3, <2>4
    <3> QED BY <2>6, <2>7, <3>1 DEF Wait
  <2> HIDE DEF next
  <2> QED BY <1>2, <2>1, <2>3, <2>4, <2>8
<1>6. lag' \in Nat /\ clock' = clock
  BY <1>1 DEF Waking
<1> HIDE DEF next
<1>7. ASSUME NEW i \in Slots, req'[i] # None, next # None
      PROVE  clock' + diff' <= deadline'[i] + lag'
  <2>1. clock + diff' <= deadline'[i]
    BY <1>5, <1>7
  <2>2. diff' \in Nat /\ deadline'[i] \in Nat
    BY <1>2, <1>5, <1>7 DEF Inv, TypeOK, TableTypeOK
  <2> QED BY <1>2, <1>6, <2>1, <2>2
<1> QED BY <1>4, <1>5, <1>6, <1>7 DEF Waking

LEMMA UserSendWakes ==
  ASSUME WaitsFit, LoopInv, OnTime, Waking, NEW r \in Requests, UserSend(r)
  PROVE  Waking'
<1> USE SlotTableAssumption, DriveAssumption
<1>1. /\ Send(r) /\ UNCHANGED <<pc, resume, diff, until, lag, clock>>
      /\ pc # "sleep"
  BY DEF UserSend, Send, loopVars, logVars
<1>2. /\ TableTypeOK /\ clock \in Nat
      /\ DeadlineFromNow = clock + Timeout
  BY TrueTime DEF LoopInv, Inv, TypeOK, TableTypeOK, WaitsFit
<1>3. \A i \in Slots : req'[i] # None =>
        \/ req[i] # None /\ deadline'[i] = deadline[i]
        \/ deadline'[i] = clock + Timeout
  BY <1>1, <1>2 DEF Send, Store, tableVars
<1>4. ASSUME Waiting, NEW i \in Slots, req'[i] # None
      PROVE  clock + diff <= deadline'[i] + lag
  <2>1. diff \in 0 .. Timeout /\ lag \in Nat
    BY <1>4 DEF Waking
  <2>2. CASE deadline'[i] = clock + Timeout
    BY <1>2, <2>1, <2>2
  <2>3. CASE req[i] # None /\ deadline'[i] = deadline[i]
    BY <1>4, <2>3 DEF Waking
  <2> QED BY <1>3, <1>4, <2>2, <2>3
<1>5. Waiting' = Waiting
  BY <1>1 DEF Waiting
<1> QED BY <1>1, <1>4, <1>5 DEF Waking

LEMMA TimePassesWakes ==
  ASSUME LoopInv, Waking, TimePasses
  PROVE  Waking'
<1>1. /\ clock' = clock + 1
      /\ UNCHANGED <<pc, resume, diff, until, req, deadline>>
      /\ lag' \in {lag, lag + 1} /\ (pc # "sleep" => lag' = lag + 1)
  BY DEF TimePasses, Tick, tableVars, loopVars
<1>2. /\ clock \in Nat /\ lag \in Nat /\ lag' \in Nat
      /\ \A i \in Slots : deadline[i] \in Nat
  BY <1>1, DriveAssumption DEF LoopInv, Inv, TypeOK, TableTypeOK, Waking
<1>3. ASSUME Waiting
      PROVE  /\ diff \in 0 .. Timeout
             /\ \A i \in Slots : req[i] # None => clock' + diff <= deadline[i] + lag'
  <2>1. lag' = lag + 1 /\ diff \in 0 .. Timeout
    BY <1>1, <1>3 DEF Waiting, Waking
  <2>2. \A i \in Slots : req[i] # None => clock + diff <= deadline[i] + lag
    BY <1>3 DEF Waking
  <2> QED BY <1>1, <1>2, <2>1, <2>2
<1>4. ASSUME pc = "sleep"
      PROVE  /\ until \in Nat
             /\ \A i \in Slots : req[i] # None => until <= deadline[i] + lag'
  <2>1. /\ until \in Nat
        /\ \A i \in Slots : req[i] # None => until <= deadline[i] + lag
    BY <1>4 DEF Waking
  <2> QED BY <1>1, <1>2, <2>1
<1>5. Waiting' = Waiting
  BY <1>1 DEF Waiting
<1> QED BY <1>1, <1>2, <1>3, <1>4, <1>5 DEF Waking

LEMMA FdWakes ==
  ASSUME WaitsFit, LoopInv, OnTime, Waking, [LoopNext]_allVars
  PROVE  Waking'
<1>0. Control
  BY DEF LoopInv
<1>1. CASE Turn
  BY <1>1, TurnWakes
<1>2. CASE \E r \in Requests : UserSend(r)
  BY <1>2, UserSendWakes
<1>3. CASE TimePasses
  BY <1>3, TimePassesWakes
<1>4. CASE Recv
  <2>1. pc' = "hook" /\ resume' = "top" /\ lag' = lag
    BY <1>4 DEF Recv, Deliver, Call, logVars
  <2> QED BY <2>1 DEF Waking, Waiting
<1>5. CASE EnterWait
  <2>1. /\ pc = "wait" /\ pc' = "sleep" /\ until' = clock + diff
        /\ UNCHANGED <<req, deadline, lag>>
    BY <1>5 DEF EnterWait, Goto, vars, logVars
  <2>2. clock \in Nat
    BY DriveAssumption DEF LoopInv, Inv, TypeOK, TableTypeOK
  <2> QED BY <2>1, <2>2, DriveAssumption DEF Waking, Waiting
<1>6. CASE HookReturn
  <2>1. /\ pc = "hook" /\ pc' = resume
        /\ UNCHANGED <<resume, req, deadline, clock, diff, until, lag>>
    BY <1>6 DEF HookReturn, vars, logVars
  <2>2. resume # "sleep" /\ resume # "hook"
    BY <1>0 DEF Control
  <2> QED BY <2>1, <2>2 DEF Waking, Waiting
<1>7. CASE \/ Run \/ SetupFails \/ Stopped \/ Exit \/ Interrupted \/ Failed
           \/ WakeTimeout \/ WakeReadable
  <2>1. lag' = lag /\ pc' \in {"top", "exit", "idle", "recv"}
    BY <1>7
       DEF Run, SetupFails, Stopped, Exit, Interrupted, Failed, Fail, WakeTimeout,
           WakeReadable, Goto, logVars
  <2> QED BY <2>1 DEF Waking, Waiting
<1>8. CASE SetStop("top") \/ (\E d \in Datagrams : Arrive(d)) \/ UNCHANGED allVars
  <2>1. /\ UNCHANGED <<resume, req, deadline, clock, diff, until, lag>>
        /\ pc' = pc \/ pc' = "top"
    BY <1>8 DEF SetStop, Arrive, Goto, vars, loopVars, logVars, allVars
  <2> QED BY <2>1 DEF Waking, Waiting
<1> QED
  BY <1>1, <1>2, <1>3, <1>4, <1>5, <1>6, <1>7, <1>8 DEF LoopNext, Loop

(* No exchange is due while the loop of driver.py sleeps on, but for the   *)
(* time it was kept from running, whatever the hooks opened meanwhile: as  *)
(* long as the clock does not wrap and timeout_ms is under half its range. *)
THEOREM LoopNeverOversleeps ==
  ASSUME WaitsFit PROVE LoopSpec => []NoOversleep
<1> DEFINE I == LoopInv /\ OnTime /\ Waking
<1>1. LoopInit => I
  BY LoopInvInit DEF LoopInit, Init, TableInit, OnTime, Waking, Waiting
<1>2. I /\ [LoopNext]_allVars => I'
  BY FdStep, FdCalls, FdWakes, OnTimeNext DEF LoopInv, WaitsFit
<1>3. I => NoOversleep
  BY DEF OnTime, Waking, NoOversleep
<1> QED BY <1>1, <1>2, <1>3, PTL DEF LoopSpec
=============================================================================
