------------------------ MODULE DriveOneTableProofs ------------------------
(***************************************************************************)
(* Theorems about the C++ and Rust driver state machine, for every number  *)
(* of slots, every set of requests, keys and handles, every timeout and    *)
(* every number of retries.                                                *)
(***************************************************************************)
EXTENDS OneTableHosts, DriveTableProofs, SequenceTheorems

Inv == TypeOK /\ TableInv

LEMMA AnsweredSlotLive ==
  ASSUME NEW k, NEW i \in AnsweredSlot(k)
  PROVE  i \in Slots /\ req[i] # None /\ {i} \in SUBSET Slots
BY DEF AnsweredSlot, FirstWithKey

LEMMA AnswerType ==
  ASSUME NEW call \in {"init", "send", "on_message", "step"},
         NEW res \in {"ok", "bounds", "constraint", "truncated", "io"},
         NEW key \in Keys \cup {NoKey},
         NEW ended \in Requests \cup {None}
  PROVE  Answer(call, res, key, ended) \in Answers
BY DEF Answer, Answers

LEMMA InvInit == Init => Inv
<1> SUFFICES ASSUME Init PROVE Inv
  OBVIOUS
<1>1. TableInv
  BY InitTable DEF Init
<1>2. answer \in Answers
  BY AnswerType DEF Init
<1> QED BY <1>1, <1>2 DEF Inv, TypeOK, TableInv

LEMMA InvNext == Inv /\ [Next]_vars => Inv'
<1> SUFFICES ASSUME Inv, [Next]_vars PROVE TableInv' /\ answer' \in Answers
  BY DEF Inv, TypeOK, TableInv
<1>0. TableInv /\ TypeOK
  BY DEF Inv
<1> USE SlotTableAssumption
<1>1. ASSUME NEW r \in Requests, Send(r) PROVE TableInv' /\ answer' \in Answers
  <2>1. ASSUME UNCHANGED tableVars PROVE TableInv'
    BY <1>0, <1>1, <2>1, StutterTable DEF Send
  <2>2. ASSUME Store(r) PROVE TableInv'
    BY <1>0, <1>1, <2>2, StoreTable DEF Send
  <2>3. answer' \in Answers
    BY <1>1, AnswerType DEF Send
  <2> QED BY <1>1, <2>1, <2>2, <2>3 DEF Send
<1>2. ASSUME NEW k \in Keys \cup {NoKey}, OnMessage(k)
      PROVE  TableInv' /\ answer' \in Answers
  <2>1. ASSUME NEW i \in AnsweredSlot(k), Free({i}),
               answer' = Answer("on_message", "ok", k, req[i])
        PROVE  TableInv' /\ answer' \in Answers
    <3>1. TableInv'
      BY <1>0, <1>2, <2>1, FreeTable, AnsweredSlotLive DEF OnMessage
    <3>2. req[i] \in Requests \cup {None}
      BY <1>0, <2>1, AnsweredSlotLive DEF TypeOK, TableTypeOK
    <3> QED BY <2>1, <3>1, <3>2, AnswerType
  <2>2. CASE /\ AnsweredSlot(k) = {}
             /\ answer' = Answer("on_message",
                                 IF k = NoKey THEN "bounds" ELSE "constraint", k, None)
             /\ UNCHANGED tableVars
    BY <1>0, <1>2, <2>2, StutterTable, AnswerType DEF OnMessage
  <2> QED BY <1>2, <2>1, <2>2 DEF OnMessage
<1>3. CASE DriveStep
  BY <1>0, <1>3, StepTable, AnswerType DEF DriveStep
<1>4. CASE Tick /\ UNCHANGED answer
  BY <1>0, <1>4, TickTable DEF TypeOK
<1>5. CASE UNCHANGED vars
  BY <1>0, <1>5, StutterTable DEF vars, tableVars, TypeOK
<1> QED BY <1>1, <1>2, <1>3, <1>4, <1>5 DEF Next

(* In every reachable state of send, on_message, step and the clock, every *)
(* variable has its type, and an exchange is open exactly while one slot   *)
(* and no other holds it: none is lost and none is kept beyond its end.    *)
THEOREM DriveTracks == Spec => [](TypeOK /\ Tracked)
<1>1. Spec => []Inv
  BY InvInit, InvNext, PTL DEF Spec
<1>2. Inv => TypeOK /\ Tracked
  BY DEF Inv, TableInv
<1> QED BY <1>1, <1>2, PTL

-----------------------------------------------------------------------------
LEMMA TimedInit == Init => Timed
BY DEF Init, TableInit, Timed

LEMMA TimedNext ==
  ASSUME NoWrap, Inv, Timed, [Next]_vars
  PROVE  Timed' /\ (PatientStep \/ UNCHANGED vars)
<1>0. TableInv /\ TableTypeOK
  BY DEF Inv, TableInv
<1>u. ASSUME UNCHANGED tableVars PROVE Timed' /\ PatientStep
  BY <1>0, <1>u, DriveAssumption
     DEF tableVars, Timed, PatientStep, TableTypeOK
<1>1. ASSUME NEW r \in Requests, Send(r) PROVE Timed' /\ PatientStep
  BY <1>0, <1>u, <1>1, StoreTimed DEF Send
<1>2. ASSUME NEW k \in Keys \cup {NoKey}, OnMessage(k)
      PROVE  Timed' /\ PatientStep
  <2>1. ASSUME NEW i \in AnsweredSlot(k), Free({i})
        PROVE  Timed' /\ PatientStep
    BY <1>0, <2>1, FreeTimed, AnsweredSlotLive
  <2> QED BY <1>u, <1>2, <2>1 DEF OnMessage
<1>3. CASE DriveStep
  BY <1>0, <1>3, StepTimed DEF DriveStep
<1>4. CASE Tick
  BY <1>u, <1>4 DEF Tick
<1>5. CASE UNCHANGED vars
  BY <1>5 DEF vars, Timed
<1> QED BY <1>1, <1>2, <1>3, <1>4, <1>5 DEF Next

(* While now_ms has not wrapped and no deadline lies beyond the wrap, no   *)
(* exchange is retransmitted or given up before timeout_ms have really     *)
(* passed since it was last submitted.                                     *)
THEOREM DrivePatience == ASSUME NoWrap PROVE Spec => Patience
<1>1. Inv /\ Timed /\ [Next]_vars => Timed'
  BY TimedNext
<1>2. Inv /\ Timed /\ [Next]_vars => [PatientStep]_vars
  BY TimedNext
<1>3. Spec => []Inv
  BY InvInit, InvNext, PTL DEF Spec
<1>4. Spec => []Timed
  BY TimedInit, <1>1, <1>3, PTL DEF Spec
<1> QED BY <1>2, <1>3, <1>4, PTL DEF Spec, Patience

-----------------------------------------------------------------------------
LEMMA BudgetInit == Init => Budget
BY DEF Init, TableInit, Budget

LEMMA ExchangeInit == Init => Exchanges!Init
BY DEF Init, TableInit, Exchanges!Init

LEMMA ExchangeNext ==
  ASSUME DueMax >= Cap, Inv, Budget, [Next]_vars
  PROVE  Budget' /\ [Exchanges!Next]_(Exchanges!vars)
<1>0. TableInv /\ TableTypeOK
  BY DEF Inv, TableInv
<1>u. ASSUME UNCHANGED tableVars
      PROVE  Budget' /\ UNCHANGED Exchanges!vars
  BY <1>u DEF tableVars, Budget, Exchanges!vars
<1>1. ASSUME NEW r \in Requests, Send(r)
      PROVE  Budget' /\ [Exchanges!Next]_(Exchanges!vars)
  BY <1>0, <1>u, <1>1, StoreOpens DEF Send, Exchanges!Next
<1>2. ASSUME NEW k \in Keys \cup {NoKey}, OnMessage(k)
      PROVE  Budget' /\ [Exchanges!Next]_(Exchanges!vars)
  <2>1. ASSUME NEW i \in AnsweredSlot(k), Free({i})
        PROVE  Budget' /\ Exchanges!Next
    <3>1. i \in Slots /\ req[i] # None
      BY <2>1, AnsweredSlotLive
    <3>2. Budget' /\ Exchanges!Answer(req[i])
      BY <1>0, <2>1, <3>1, FreeAnswers
    <3>3. req[i] \in Requests
      BY <1>0, <3>1 DEF TableTypeOK
    <3> QED BY <3>2, <3>3 DEF Exchanges!Next
  <2> QED BY <1>u, <1>2, <2>1 DEF OnMessage
<1>3. CASE DriveStep
  BY <1>0, <1>3, StepElapses DEF DriveStep, Exchanges!Next
<1>4. CASE Tick
  BY <1>u, <1>4 DEF Tick
<1>5. CASE UNCHANGED vars
  BY <1>u, <1>5 DEF vars, tableVars
<1> QED BY <1>1, <1>2, <1>3, <1>4, <1>5 DEF Next

(* Where one `step` can submit as often as there are slots (always in C++, *)
(* up to 32 slots in Rust), what a slot counts as a retransmission was one *)
(* and the machine implements the abstract exchange.                       *)
THEOREM DriveImplementsExchange ==
  ASSUME DueMax >= Cap PROVE Spec => []Budget /\ ExchangeSpec
<1>1. Inv /\ Budget /\ [Next]_vars
        => Budget' /\ [Exchanges!Next]_(Exchanges!vars)
  BY ExchangeNext
<1>2. Spec => []Inv
  BY InvInit, InvNext, PTL DEF Spec
<1>3. Spec => []Budget
  BY BudgetInit, <1>1, <1>2, PTL DEF Spec
<1> QED BY ExchangeInit, <1>1, <1>2, <1>3, PTL
        DEF Spec, ExchangeSpec, Exchanges!Spec

-----------------------------------------------------------------------------
(* Slots.  Where a walk finds none free, each holds an open exchange, and  *)
(* by Tracked each open exchange is in one of them.                        *)
LEMMA FullTable ==
  ASSUME TableInv, FirstFree(req) = {}
  PROVE  Cardinality({r \in Requests : state[r] = "open"}) = Cap
<1> DEFINE O == {r \in Requests : state[r] = "open"}
           f == [i \in Slots |-> req[i]]
<1>0. TableTypeOK /\ Tracked
  BY DEF TableInv
<1>1. \A i \in Slots : req[i] # None
  BY LeastFree
<1>2. \A i \in Slots : req[i] \in O
  BY <1>0, <1>1 DEF TableTypeOK, Tracked
<1>3. \A r \in O : \E i \in Slots : req[i] = r
  BY <1>0 DEF Tracked
<1>4. \A i, j \in Slots : f[i] = f[j] => i = j
  BY <1>0, <1>1 DEF Tracked
<1>5. f \in Bijection(Slots, O)
  BY <1>2, <1>3, <1>4 DEF Bijection, Injection, Surjection, IsInjective
<1>6. ExistsBijection(Slots, O)
  BY <1>5 DEF ExistsBijection
<1>7. IsFiniteSet(Slots) /\ Cardinality(Slots) = Cap
  BY FS_Interval, SlotTableAssumption DEF Slots
<1>8. Cardinality(O) = Cardinality(Slots)
  <2> HIDE DEF O, f
  <2> QED BY <1>6, <1>7, FS_Bijection, Zenon
<1> QED BY <1>7, <1>8

LEMMA RefusedNext ==
  ASSUME Inv, RefusedOnlyWhenFull, [Next]_vars
  PROVE  RefusedOnlyWhenFull'
<1>0. TableInv
  BY DEF Inv
<1>1. ASSUME NEW r \in Requests, Send(r) PROVE RefusedOnlyWhenFull'
  <2>1. CASE FirstFree(req) = {} /\ UNCHANGED tableVars
    BY <1>0, <2>1, FullTable DEF tableVars, RefusedOnlyWhenFull
  <2>2. CASE FirstFree(req) # {}
    BY <1>1, <2>2 DEF Send, RefusedOnlyWhenFull, Answer
  <2> QED BY <1>1, <2>1, <2>2 DEF Send
<1>2. ASSUME NEW k \in Keys \cup {NoKey}, OnMessage(k)
      PROVE  RefusedOnlyWhenFull'
  <2>1. ASSUME NEW res, NEW ended, answer' = Answer("on_message", res, k, ended)
        PROVE  answer'.call = "on_message"
    BY <2>1 DEF Answer
  <2>2. answer'.call = "on_message"
    BY <1>2, <2>1 DEF OnMessage
  <2> QED BY <2>2 DEF RefusedOnlyWhenFull
<1>3. CASE DriveStep
  BY <1>3 DEF DriveStep, RefusedOnlyWhenFull, Answer
<1>4. CASE Tick /\ UNCHANGED answer
  BY <1>4 DEF Tick, tableVars, RefusedOnlyWhenFull
<1>5. CASE UNCHANGED vars
  BY <1>5 DEF vars, RefusedOnlyWhenFull
<1> QED BY <1>1, <1>2, <1>3, <1>4, <1>5 DEF Next

(* send refuses a request whose key can be read only while Cap exchanges   *)
(* are open: what expired and what was answered gave its slot back, on     *)
(* every path through on_message and step.                                 *)
THEOREM DriveRefusesOnlyWhenFull == Spec => []RefusedOnlyWhenFull
<1>1. Init => RefusedOnlyWhenFull
  BY DEF Init, Answer, RefusedOnlyWhenFull
<1>2. Inv /\ RefusedOnlyWhenFull /\ [Next]_vars => RefusedOnlyWhenFull'
  BY RefusedNext
<1>3. Spec => []Inv
  BY InvInit, InvNext, PTL DEF Spec
<1> QED BY <1>1, <1>2, <1>3, PTL DEF Spec

-----------------------------------------------------------------------------
(* The hosts.  What they do to the machine is to call it.                  *)
Inbox == inbox \in Seq(Datagrams)

LEMMA DeliverCalls ==
  ASSUME NEW d \in Datagrams, NEW hook, Deliver(d, hook)
  PROVE  [Next]_vars
<1>1. d = Malformed \/ d \in Keys \cup {NoKey}
  BY DEF Datagrams
<1> QED BY <1>1 DEF Deliver, Next

LEMMA TickCalls == Tick /\ UNCHANGED answer => [Next]_vars
BY DEF Next

LEMMA RearmCalls == ASSUME NEW below, Rearm(below) PROVE [Next]_vars
BY DEF Rearm, Next

LEMMA PumpCalls == ASSUME Inbox, PumpNext PROVE [Next]_vars
<1>1. CASE Pump
  <2>1. ASSUME DispatchRearm \/ OnDeadline \/ Received PROVE [Next]_vars
    BY <2>1, RearmCalls DEF DispatchRearm, OnDeadline, Received
  <2>2. CASE OnReadable
    <3>1. Head(inbox) \in Datagrams
      BY <2>2 DEF Inbox, OnReadable
    <3> QED BY <2>2, <3>1, DeliverCalls DEF OnReadable
  <2>3. ASSUME DispatchDelete \/ Failed \/ Stepped \/ Done PROVE [Next]_vars
    BY <2>3 DEF DispatchDelete, Failed, Stepped, Done
  <2> QED BY <1>1, <2>1, <2>2, <2>3 DEF Pump
<1>2. ASSUME Start \/ StartFails \/ Stop \/ ReceiveFails PROVE [Next]_vars
  BY <1>2 DEF Start, StartFails, Stop, ReceiveFails
<1>3. ASSUME NEW r \in Opens, PumpSend(r) PROVE [Next]_vars
  BY <1>3, HostAssumption DEF PumpSend, Next
<1>4. ASSUME NEW d \in Datagrams, Arrive(d) PROVE [Next]_vars
  BY <1>4 DEF Arrive
<1>5. CASE PumpTime
  BY <1>5, TickCalls DEF PumpTime, PassTime
<1> QED BY <1>1, <1>2, <1>3, <1>4, <1>5 DEF PumpNext

LEMMA TokioCalls == ASSUME Inbox, TokioNext PROVE [Next]_vars
<1>1. CASE Tokio
  <2>1. CASE Turn
    BY <2>1 DEF Turn, Next
  <2>2. CASE WakeReceive
    <3>1. Head(inbox) \in Datagrams
      BY <2>2 DEF Inbox, WakeReceive
    <3> QED BY <2>2, <3>1, DeliverCalls DEF WakeReceive
  <2>3. ASSUME Select \/ WakeTimeout \/ HookReturns \/ Exit PROVE [Next]_vars
    BY <2>3 DEF Select, WakeTimeout, HookReturns, Exit
  <2> QED BY <1>1, <2>1, <2>2, <2>3 DEF Tokio
<1>2. ASSUME RunTokio \/ StopTokio \/ ReceiveErr \/ Drop PROVE [Next]_vars
  BY <1>2 DEF RunTokio, StopTokio, ReceiveErr, Drop
<1>3. ASSUME NEW r \in Opens, TokioSend(r) PROVE [Next]_vars
  BY <1>3, HostAssumption DEF TokioSend, Next
<1>4. ASSUME NEW d \in Datagrams, Arrive(d) PROVE [Next]_vars
  BY <1>4 DEF Arrive
<1>5. CASE TokioTime
  BY <1>5, TickCalls DEF TokioTime, PassTime
<1> QED BY <1>1, <1>2, <1>3, <1>4, <1>5 DEF TokioNext

LEMMA InboxNext == ASSUME Inbox, [HostsNext]_hostsVars PROVE Inbox'
<1>1. ASSUME UNCHANGED inbox PROVE Inbox'
  BY <1>1 DEF Inbox
<1>2. ASSUME inbox # <<>>, inbox' = Tail(inbox) PROVE Inbox'
  BY <1>2 DEF Inbox
<1>3. ASSUME NEW d \in Datagrams, Arrive(d) PROVE Inbox'
  BY <1>3, AppendProperties DEF Arrive, Inbox
<1>4. CASE PumpNext
  <2>1. CASE Pump
    BY <1>1, <1>2, <2>1
       DEF Pump, DispatchRearm, DispatchDelete, OnDeadline, OnReadable, Received,
           Failed, Stepped, Done, hostVars, socketVars
  <2>2. ASSUME Start \/ StartFails \/ Stop \/ ReceiveFails PROVE Inbox'
    BY <1>1, <2>2 DEF Start, StartFails, Stop, ReceiveFails, hostVars, socketVars
  <2>3. ASSUME NEW r \in Opens, PumpSend(r) PROVE Inbox'
    BY <1>1, <2>3 DEF PumpSend, hostVars
  <2>4. CASE PumpTime
    BY <1>1, <2>4 DEF PumpTime, PassTime, socketVars
  <2> QED BY <1>3, <1>4, <2>1, <2>2, <2>3, <2>4 DEF PumpNext
<1>5. CASE TokioNext
  <2>1. CASE Tokio
    BY <1>1, <1>2, <2>1
       DEF Tokio, Turn, Select, WakeTimeout, WakeReceive, HookReturns, Exit,
           hostVars, socketVars
  <2>2. ASSUME RunTokio \/ StopTokio \/ ReceiveErr \/ Drop PROVE Inbox'
    BY <1>1, <2>2 DEF RunTokio, StopTokio, ReceiveErr, Drop, socketVars
  <2>3. ASSUME NEW r \in Opens, TokioSend(r) PROVE Inbox'
    BY <1>1, <2>3 DEF TokioSend, hostVars
  <2>4. CASE TokioTime
    BY <1>1, <2>4 DEF TokioTime, PassTime, socketVars
  <2> QED BY <1>3, <1>5, <2>1, <2>2, <2>3, <2>4 DEF TokioNext
<1>6. CASE AnyCaller \/ UNCHANGED hostsVars
  BY <1>1, <1>6 DEF AnyCaller, hostVars, hostsVars
<1> QED BY <1>4, <1>5, <1>6 DEF HostsNext

LEMMA HostsCall == ASSUME Inbox, [HostsNext]_hostsVars PROVE [Next]_vars
<1>1. CASE AnyCaller
  BY <1>1 DEF AnyCaller
<1>2. CASE UNCHANGED hostsVars
  BY <1>2 DEF hostsVars
<1> QED BY <1>1, <1>2, PumpCalls, TokioCalls DEF HostsNext

LEMMA InboxInit == HostsInit => Init /\ Inbox
BY EmptySeq DEF HostsInit, PumpInit, HostInit, Inbox

(* The Qt pump, the Tokio loop and any other caller reach the machine      *)
(* through send, on_message and step only: what holds of the machine on    *)
(* its own holds of it under each of them, Tracked, Patience, the abstract *)
(* exchange and RefusedOnlyWhenFull among it.                              *)
THEOREM HostsDriveTheMachine == HostsSpec => Spec
<1>1. Inbox /\ [HostsNext]_hostsVars => Inbox' /\ [Next]_vars
  BY InboxNext, HostsCall
<1> QED BY InboxInit, <1>1, PTL DEF HostsSpec, Spec

(* So under each host the machine implements the abstract exchange: what   *)
(* the user's own task or slot sends beside the loop is no exception.      *)
THEOREM HostsImplementExchange ==
  ASSUME DueMax >= Cap PROVE HostsSpec => ExchangeSpec
BY HostsDriveTheMachine, DriveImplementsExchange, PTL

-----------------------------------------------------------------------------
(* Sequences, as what they hold *)
LEMMA AppendRange ==
  ASSUME NEW S, NEW s \in Seq(S), NEW e \in S
  PROVE  Append(s, e) \in Seq(S) /\ Range(Append(s, e)) = Range(s) \cup {e}
<1> DEFINE t == Append(s, e)
<1>1. /\ t \in Seq(S) /\ Len(t) = Len(s) + 1 /\ Len(s) \in Nat
      /\ \A i \in 1 .. Len(s) : t[i] = s[i]
      /\ t[Len(s) + 1] = e
  BY AppendProperties
<1>2. /\ Range(s) = {s[i] : i \in 1 .. Len(s)}
      /\ Range(t) = {t[i] : i \in 1 .. Len(t)}
  BY <1>1, RangeEquality
<1>3. 1 .. Len(t) = 1 .. Len(s) \cup {Len(s) + 1}
  BY <1>1
<1> HIDE DEF t
<1>4. Range(t) = Range(s) \cup {e}
  BY <1>1, <1>2, <1>3
<1> QED BY <1>1, <1>4 DEF t

LEMMA ButLastRange ==
  ASSUME NEW S, NEW s \in Seq(S), s # <<>>
  PROVE  /\ SubSeq(s, 1, Len(s) - 1) \in Seq(S)
         /\ s[Len(s)] \in S
         /\ Range(s) = Range(SubSeq(s, 1, Len(s) - 1)) \cup {s[Len(s)]}
<1> DEFINE t == SubSeq(s, 1, Len(s) - 1)
<1>0. Len(s) \in Nat \ {0} /\ \A i \in 1 .. Len(s) : s[i] \in S
  BY EmptySeq, LenProperties
<1>1. /\ t \in Seq(S) /\ Len(t) = Len(s) - 1
      /\ \A i \in 1 .. Len(s) - 1 : t[i] = s[i]
  <2> DEFINE n == Len(s) - 1
  <2>1. 1 \in Int /\ n \in Int /\ \A i \in 1 .. n : s[i] \in S
    BY <1>0
  <2>2. /\ SubSeq(s, 1, n) \in Seq(S)
        /\ Len(SubSeq(s, 1, n)) = IF 1 <= n THEN n - 1 + 1 ELSE 0
        /\ \A i \in 1 .. n - 1 + 1 : SubSeq(s, 1, n)[i] = s[1 + i - 1]
    <3> HIDE DEF n, t
    <3> QED BY <2>1, SubSeqProperties
  <2>3. n \in Nat
    BY <1>0
  <2> HIDE DEF n
  <2>4. Len(SubSeq(s, 1, n)) = n
    BY <2>2, <2>3
  <2>5. ASSUME NEW i \in 1 .. n PROVE SubSeq(s, 1, n)[i] = s[i]
    <3>1. i \in 1 .. n - 1 + 1 /\ 1 + i - 1 = i
      BY <2>3
    <3> QED BY <2>2, <3>1
  <2> QED BY <2>2, <2>4, <2>5 DEF n
<1>2. /\ Range(s) = {s[i] : i \in 1 .. Len(s)}
      /\ Range(t) = {t[i] : i \in 1 .. Len(t)}
  BY <1>1, RangeEquality
<1>3. 1 .. Len(s) = 1 .. Len(t) \cup {Len(s)}
  BY <1>0, <1>1
<1> HIDE DEF t
<1>4. Range(s) = Range(t) \cup {s[Len(s)]}
  BY <1>1, <1>2, <1>3
<1> QED BY <1>0, <1>1, <1>4 DEF t

LEMMA TailRange ==
  ASSUME NEW S, NEW s \in Seq(S), s # <<>>
  PROVE  /\ Tail(s) \in Seq(S) /\ Head(s) \in S
         /\ Range(s) = Range(Tail(s)) \cup {Head(s)}
<1> DEFINE t == Tail(s)
<1>0. Len(s) \in Nat \ {0} /\ Head(s) = s[1] /\ Head(s) \in S
  BY EmptySeq, LenProperties
<1>1. /\ t \in Seq(S) /\ Len(t) = Len(s) - 1
      /\ \A i \in 1 .. Len(t) : t[i] = s[i + 1]
  BY HeadTailProperties
<1>2. /\ Range(s) = {s[i] : i \in 1 .. Len(s)}
      /\ Range(t) = {t[i] : i \in 1 .. Len(t)}
  BY <1>1, RangeEquality
<1>3. 1 .. Len(s) = {1} \cup {i + 1 : i \in 1 .. Len(t)}
  <2> HIDE DEF t
  <2>1. ASSUME NEW i \in 1 .. Len(s), i # 1 PROVE \E j \in 1 .. Len(t) : i = j + 1
    <3>1. i - 1 \in 1 .. Len(t) /\ i = (i - 1) + 1
      BY <1>0, <1>1, <2>1
    <3> QED BY <3>1
  <2>2. \A i \in 1 .. Len(t) : i + 1 \in 1 .. Len(s)
    BY <1>0, <1>1
  <2>3. 1 \in 1 .. Len(s)
    BY <1>0
  <2> QED BY <2>1, <2>2, <2>3
<1> HIDE DEF t
<1>4. Range(s) = Range(t) \cup {s[1]}
  <2>1. ASSUME NEW x \in Range(s) PROVE x \in Range(t) \cup {s[1]}
    <3>1. PICK i \in 1 .. Len(s) : x = s[i]
      BY <1>2
    <3>2. i = 1 \/ \E j \in 1 .. Len(t) : i = j + 1
      BY <1>3
    <3> QED BY <1>1, <1>2, <3>1, <3>2
  <2>2. ASSUME NEW x \in Range(t) PROVE x \in Range(s)
    <3>1. PICK j \in 1 .. Len(t) : x = t[j]
      BY <1>2
    <3> QED BY <1>1, <1>2, <1>3, <3>1
  <2>3. s[1] \in Range(s)
    BY <1>0, <1>2
  <2> QED BY <2>1, <2>2, <2>3
<1> QED BY <1>0, <1>1, <1>4 DEF t

-----------------------------------------------------------------------------
(* The Qt pump.  What its variables are, and how often on_done was called. *)
Frames ==
  [hook : {"on_reply", "on_unmatched", "on_malformed", "on_expired",
           "on_error", "on_done", "none"},
   then : {"received", "failed", "stepped", "done"},
   next : Nat \cup {None}]

PumpTypes ==
  /\ stack \in Seq(Frames) /\ queue \in Seq({"rearm", "delete"})
  /\ finished \in BOOLEAN /\ notifier \in BOOLEAN
  /\ gone \in BOOLEAN /\ runner \in BOOLEAN
  /\ wake \in Nat \cup {None} /\ lag \in Nat
  /\ begun \in Nat /\ dones \in Nat /\ reopened \in Nat

(* The frames on the stack, and the calls in the queue *)
OnStack == Range(stack)
Queued == Range(queue)

LEMMA StackTop ==
  ASSUME PumpTypes, stack # <<>>
  PROVE  Below \in Seq(Frames) /\ Top \in Frames /\ OnStack = Range(Below) \cup {Top}
<1> HIDE DEF Frames
<1> QED BY ButLastRange DEF PumpTypes, Top, Below, OnStack

LEMMA NextIsDelay ==
  ASSUME Inv, clock \in Nat, NEW n \in Nat
  PROVE  Delay(n) \in Nat
BY DriveAssumption DEF Delay, Now

LEMMA ClockNat == Inv => clock \in Nat
BY DriveAssumption DEF Inv, TypeOK, TableTypeOK

(* `rearm` does nothing, or steps and leaves a frame over the others with  *)
(* the interval to the next deadline, None only where nothing is           *)
(* outstanding.                                                            *)
NextFrame ==
  LET next == Soonest(req', deadline')
      hook == IF ExpiredCount > 0 THEN "on_expired" ELSE "none"
  IN Frame(hook, "stepped", IF next = None THEN None ELSE Delay(next))

Idle == \A i \in Slots : req[i] = None

LEMMA SoonestNone ==
  ASSUME NEW q, NEW d \in [Slots -> Nat]
  PROVE  /\ Soonest(q, d) \in Nat \cup {None}
         /\ Soonest(q, d) = None <=> \A i \in Slots : q[i] = None
<1>1. ASSUME NEW i \in Slots, q[i] # None PROVE Soonest(q, d) \in Nat
  BY <1>1, SoonestIsLeast
<1>2. (\A i \in Slots : q[i] = None) => Soonest(q, d) = None
  <2>1. (\A i \in Slots : q[i] = None)
          => {d[i] : i \in {j \in Slots : q[j] # None}} = {}
    OBVIOUS
  <2> QED BY <2>1 DEF Soonest
<1> QED BY <1>1, <1>2, HostAssumption

LEMMA NextFrameType ==
  ASSUME Inv, Inv'
  PROVE  /\ NextFrame \in Frames
         /\ NextFrame.then = "stepped"
         /\ NextFrame.hook \in {"on_expired", "none"}
         /\ NextFrame.next = IF Soonest(req', deadline') = None THEN None
                             ELSE Delay(Soonest(req', deadline'))
         /\ NextFrame.next = None => Idle'
<1> DEFINE n == Soonest(req', deadline')
           x == IF n = None THEN None ELSE Delay(n)
           h == IF ExpiredCount > 0 THEN "on_expired" ELSE "none"
<1>1. n \in Nat \cup {None} /\ (n = None <=> Idle')
  <2>1. deadline' \in [Slots -> Nat]
    BY DriveAssumption DEF Inv, TypeOK, TableTypeOK
  <2>2. Idle' <=> \A i \in Slots : req'[i] = None
    BY DEF Idle
  <2> QED BY <2>1, <2>2, SoonestNone
<1>2. x \in Nat \cup {None} /\ (x = None => n = None)
  BY <1>1, ClockNat, NextIsDelay, HostAssumption
<1>3. NextFrame = [hook |-> h, then |-> "stepped", next |-> x]
  BY DEF NextFrame, Frame
<1>4. h \in {"on_expired", "none"}
  OBVIOUS
<1> HIDE DEF n, x, h
<1>5. /\ NextFrame.then = "stepped" /\ NextFrame.hook = h /\ NextFrame.next = x
      /\ NextFrame \in Frames
  BY <1>2, <1>3, <1>4 DEF Frames
<1> QED BY <1>1, <1>2, <1>4, <1>5 DEF n, x, h

LEMMA RearmPushes ==
  ASSUME Inv, Inv', NEW below, Rearm(below), below \in Seq(Frames)
  PROVE  \/ finished /\ stack' = below /\ UNCHANGED vars
         \/ /\ ~finished /\ DriveStep
            /\ stack' = Append(below, NextFrame)
            /\ stack' \in Seq(Frames)
            /\ Range(stack') = Range(below) \cup {NextFrame}
<1>1. NextFrame \in Frames
  BY NextFrameType
<1>2. Append(below, NextFrame) \in Seq(Frames)
      /\ Range(Append(below, NextFrame)) = Range(below) \cup {NextFrame}
  <2> HIDE DEF Frames, NextFrame
  <2> QED BY <1>1, AppendRange
<1> QED BY <1>2 DEF Rearm, NextFrame

(* `finish` does nothing, or finishes and leaves a frame for on_done *)
DoneFrame == Frame("on_done", "done", None)

LEMMA FinishPushes ==
  ASSUME NEW below, NEW drained, Finish(below, drained), below \in Seq(Frames)
  PROVE  \/ /\ finished /\ stack' = below
            /\ UNCHANGED <<finished, notifier, wake, dones, complete>>
         \/ /\ ~finished /\ finished' = TRUE /\ notifier' = FALSE /\ wake' = None
            /\ dones' = dones + 1 /\ complete' = drained
            /\ stack' \in Seq(Frames)
            /\ Range(stack') = Range(below) \cup {DoneFrame}
<1>1. DoneFrame \in Frames
  BY DEF DoneFrame, Frame, Frames
<1>2. Append(below, DoneFrame) \in Seq(Frames)
      /\ Range(Append(below, DoneFrame)) = Range(below) \cup {DoneFrame}
  <2> HIDE DEF Frames, DoneFrame
  <2> QED BY <1>1, AppendRange
<1> QED BY <1>2 DEF Finish, DoneFrame

(* A handler calls a hook, with nothing to remember *)
LEMMA HookPushes ==
  ASSUME PumpTypes,
         NEW hook \in {"on_reply", "on_unmatched", "on_malformed", "on_error"},
         NEW then \in {"received", "failed"},
         stack' = Append(stack, Frame(hook, then, None))
  PROVE  /\ stack' \in Seq(Frames)
         /\ OnStack' = OnStack \cup {Frame(hook, then, None)}
         /\ Frame(hook, then, None).then = then
<1> DEFINE f == Frame(hook, then, None)
<1>1. f \in Frames /\ f.then = then
  BY DEF Frame, Frames
<1>2. stack \in Seq(Frames)
  BY DEF PumpTypes
<1> HIDE DEF f, Frames
<1>3. Append(stack, f) \in Seq(Frames) /\ Range(Append(stack, f)) = Range(stack) \cup {f}
  BY <1>1, <1>2, AppendRange
<1> QED BY <1>1, <1>3 DEF OnStack, f

(* What is on the stack after a step of the pump was there before, is what *)
(* `rearm` has read, or remembers nothing.                                 *)
LEMMA PumpStack ==
  ASSUME Inv, Inv', PumpTypes, PumpNext
  PROVE  /\ stack' \in Seq(Frames)
         /\ \A f \in OnStack' : \/ f \in OnStack
                                \/ f = NextFrame /\ DriveStep /\ lag' = lag
                                \/ f.then \in {"received", "failed", "done"}
<1> DEFINE Goal == /\ stack' \in Seq(Frames)
                   /\ \A f \in OnStack' :
                        \/ f \in OnStack
                        \/ f = NextFrame /\ DriveStep /\ lag' = lag
                        \/ f.then \in {"received", "failed", "done"}
<1>0. stack \in Seq(Frames)
  BY DEF PumpTypes
<1>r. ASSUME NEW below, below \in Seq(Frames), Range(below) \subseteq OnStack,
             Rearm(below), lag' = lag
      PROVE  Goal
  <2> HIDE DEF Frames
  <2> QED BY <1>r, RearmPushes DEF OnStack
<1>f. ASSUME NEW below, below \in Seq(Frames), Range(below) \subseteq OnStack,
             NEW drained, Finish(below, drained)
      PROVE  Goal
  <2>1. DoneFrame.then = "done"
    BY DEF DoneFrame, Frame
  <2> HIDE DEF Frames, DoneFrame
  <2>2. \/ stack' = below
        \/ stack' \in Seq(Frames) /\ Range(stack') = Range(below) \cup {DoneFrame}
    BY <1>f, FinishPushes
  <2> QED BY <1>f, <2>1, <2>2 DEF OnStack
<1>u. ASSUME stack' = stack PROVE Goal
  BY <1>0, <1>u DEF OnStack
<1>b. ASSUME stack # <<>> PROVE Below \in Seq(Frames) /\ Range(Below) \subseteq OnStack
  BY <1>b, StackTop
<1>s. stack \in Seq(Frames) /\ Range(stack) \subseteq OnStack
  BY <1>0 DEF OnStack
<1> SUFFICES Goal
  OBVIOUS
<1> HIDE DEF Goal
<1>1. CASE DispatchRearm
  BY <1>1, <1>r, <1>s DEF DispatchRearm, hostVars
<1>2. CASE DispatchDelete
  BY <1>2, <1>u DEF DispatchDelete
<1>3. CASE OnDeadline
  BY <1>3, <1>r, <1>s DEF OnDeadline
<1>4. CASE OnReadable
  BY <1>4, HookPushes DEF OnReadable, Goal
<1>5. CASE Received
  BY <1>5, <1>r, <1>b DEF Received, Returning, hostVars
<1>6. CASE Failed
  BY <1>6, <1>f, <1>b DEF Failed, Returning
<1>7. CASE Stepped
  <2>1. CASE Finish(Below, TRUE)
    BY <1>7, <2>1, <1>f, <1>b DEF Stepped, Returning
  <2>2. CASE stack' = Below
    BY <1>7, <2>2, <1>b DEF Stepped, Returning, OnStack, Goal
  <2> QED BY <1>7, <2>1, <2>2 DEF Stepped
<1>8. CASE Done
  BY <1>8, <1>b DEF Done, Returning, OnStack, Goal
<1>9. CASE Stop
  BY <1>9, <1>f, <1>s DEF Stop
<1>10. CASE ReceiveFails
  BY <1>10, HookPushes DEF ReceiveFails, Goal
<1>11. ASSUME \/ Start \/ StartFails \/ PumpTime
              \/ \E r \in Opens : PumpSend(r)
              \/ \E d \in Datagrams : Arrive(d) /\ UNCHANGED pumpVars
       PROVE  stack' = stack
  BY <1>11 DEF Start, StartFails, PumpTime, PumpSend, pumpVars
<1> QED BY <1>1, <1>2, <1>3, <1>4, <1>5, <1>6, <1>7, <1>8, <1>9, <1>10, <1>11,
           <1>u DEF PumpNext, Pump

(* Types and the count of on_done, which is called only by a `finish` that *)
(* finishes: every other path out finds the pump finished.                 *)
LEMMA PumpTypesNext ==
  ASSUME Inv, Inv', PumpTypes, PumpDone, PumpNext
  PROVE  PumpTypes' /\ PumpDone'
<1>0. stack' \in Seq(Frames) /\ clock \in Nat
  BY PumpStack, ClockNat
<1> DEFINE Q == {"rearm", "delete"}
<1>q. /\ "rearm" \in Q /\ "delete" \in Q /\ queue \in Seq(Q)
      /\ \A c \in Q : Append(queue, c) \in Seq(Q)
      /\ queue # <<>> => Tail(queue) \in Seq(Q)
  <2>1. queue \in Seq(Q) /\ "rearm" \in Q /\ "delete" \in Q
    BY DEF PumpTypes
  <2> HIDE DEF Q
  <2> QED BY <2>1, AppendRange, TailRange
<1>f. ASSUME NEW below, NEW drained, Finish(below, drained),
             UNCHANGED <<queue, runner, gone, lag, begun, reopened>>
      PROVE  PumpTypes' /\ PumpDone'
  <2>1. CASE finished
    BY <1>0, <1>f, <2>1 DEF Finish, PumpTypes, PumpDone
  <2>2. CASE ~finished
    <3>1. /\ finished' = TRUE /\ notifier' = FALSE /\ wake' = None
          /\ dones' = dones + 1
      BY <1>f, <2>2 DEF Finish
    <3>4. finished' \in BOOLEAN /\ notifier' \in BOOLEAN
      BY <3>1, Zenon
    <3>5. wake' \in Nat \cup {None} /\ dones' \in Nat
      BY <3>1 DEF PumpTypes
    <3>2. PumpTypes'
      BY <1>0, <1>f, <3>4, <3>5 DEF PumpTypes
    <3>3. dones' = reopened' + 1
      BY <1>f, <2>2, <3>1 DEF PumpDone, PumpTypes
    <3> QED BY <3>1, <3>2, <3>3 DEF PumpDone
  <2> QED BY <2>1, <2>2
<1>s. ASSUME UNCHANGED <<finished, runner, lag, begun, dones, reopened>>,
             queue' \in Seq(Q), notifier' \in BOOLEAN, gone' \in BOOLEAN,
             wake' \in Nat \cup {None}
      PROVE  PumpTypes' /\ PumpDone'
  BY <1>0, <1>s DEF PumpTypes, PumpDone
<1>b. ASSUME stack # <<>> PROVE Top \in Frames
  BY <1>b, StackTop
<1> HIDE DEF Q
<1>1. CASE DispatchRearm \/ OnReadable \/ Received \/ ReceiveFails \/ StartFails
  BY <1>1, <1>s, <1>q
     DEF DispatchRearm, OnReadable, Received, ReceiveFails, StartFails, hostVars,
         PumpTypes
<1>2. CASE DispatchDelete \/ OnDeadline \/ Done
  BY <1>2, <1>s, <1>q DEF DispatchDelete, OnDeadline, Done, hostVars, PumpTypes
<1>3. CASE Failed \/ Stop
  BY <1>3, <1>f DEF Failed, Stop
<1>4. CASE Stepped
  <2>1. CASE Finish(Below, TRUE)
    BY <1>4, <2>1, <1>f DEF Stepped
  <2>2. CASE ~(Top.next = None \/ finished)
    <3>1. Top.next \in Nat
      BY <1>4, <1>b, <2>2 DEF Stepped, Returning, Frames
    <3>2. wake' \in Nat
      BY <1>0, <1>4, <2>2, <3>1 DEF Stepped
    <3> QED BY <1>4, <2>2, <3>2, <1>s, <1>q DEF Stepped, PumpTypes
  <2> QED BY <1>4, <2>1, <2>2 DEF Stepped
<1>5. CASE Start
  <2>1. dones' = reopened' /\ reopened' \in Nat
    BY <1>5 DEF Start, PumpTypes, PumpDone
  <2>2. finished' = FALSE
    BY <1>5 DEF Start
  <2>3. dones' = reopened' + 0
    <3>1. \A n \in Nat : n + 0 = n
      OBVIOUS
    <3> QED BY <2>1, <3>1
  <2>4. finished' \in BOOLEAN /\ notifier' \in BOOLEAN
    BY <1>5, Zenon DEF Start
  <2>5. queue' \in Seq(Q) /\ begun' \in Nat
    BY <1>5, <1>q DEF Start, PumpTypes
  <2>6. PumpTypes'
    BY <1>0, <1>5, <2>1, <2>4, <2>5 DEF Start, PumpTypes, Q
  <2> QED BY <2>2, <2>3, <2>6 DEF PumpDone
<1>6. CASE PumpTime
  BY <1>0, <1>6 DEF PumpTime, PassTime, pumpVars, PumpTypes, PumpDone
<1>7. ASSUME NEW r \in Opens, PumpSend(r) PROVE PumpTypes' /\ PumpDone'
  BY <1>7 DEF PumpSend, pumpVars, hostVars, PumpTypes, PumpDone
<1>8. ASSUME NEW d \in Datagrams, Arrive(d), UNCHANGED pumpVars
      PROVE  PumpTypes' /\ PumpDone'
  BY <1>8 DEF Arrive, pumpVars, PumpTypes, PumpDone
<1> QED BY <1>1, <1>2, <1>3, <1>4, <1>5, <1>6, <1>7, <1>8 DEF PumpNext, Pump

-----------------------------------------------------------------------------
(* What an operation of the machine does to the last submit of an exchange *)
(* that is still open after it: none is earlier than it was.               *)
LEMMA OnTimeNext ==
  ASSUME NoWrap, DueMax >= Cap, Inv, OnTime, [Next]_vars
  PROVE  OnTime'
<1>0. TableInv /\ TableTypeOK
  BY DEF Inv, TableInv
<1>u. ASSUME UNCHANGED <<tableVars, clock>> PROVE OnTime'
  BY <1>u DEF tableVars, OnTime
<1>1. ASSUME NEW r \in Requests, Send(r) PROVE OnTime'
  BY <1>0, <1>u, <1>1, StoreOnTime DEF Send
<1>2. ASSUME NEW k \in Keys \cup {NoKey}, OnMessage(k) PROVE OnTime'
  <2>1. ASSUME NEW S, Free(S), UNCHANGED clock PROVE OnTime'
    BY <2>1 DEF Free, OnTime
  <2> QED BY <1>u, <1>2, <2>1 DEF OnMessage
<1>3. CASE DriveStep
  BY <1>0, <1>3, StepOnTime DEF DriveStep
<1>4. CASE Tick
  BY <1>0, <1>4 DEF Tick, tableVars, OnTime, TableTypeOK
<1>5. CASE UNCHANGED vars
  BY <1>u, <1>5 DEF vars, tableVars
<1> QED BY <1>1, <1>2, <1>3, <1>4, <1>5 DEF Next

LEMMA LiveGrows ==
  ASSUME Inv, OnTime, [Next]_vars, NEW i \in Slots, req'[i] # None
  PROVE  /\ lastTx'[req'[i]] \in Nat
         /\ \/ lastTx'[req'[i]] = clock
            \/ /\ req[i] # None /\ lastTx[req[i]] \in Nat
               /\ lastTx'[req'[i]] >= lastTx[req[i]]
<1> USE SlotTableAssumption, DriveAssumption
<1>0. TableTypeOK /\ Tracked /\ clock \in Nat
  BY ClockNat DEF Inv, TableInv
<1> DEFINE Same == /\ req'[i] = req[i] /\ req[i] # None
                   /\ lastTx'[req[i]] = lastTx[req[i]]
           Fresh == lastTx'[req'[i]] = clock
<1>a. Same \/ Fresh
  <2>u. ASSUME UNCHANGED tableVars PROVE Same
    BY <2>u DEF tableVars
  <2>1. ASSUME NEW r \in Requests, Send(r) PROVE Same \/ Fresh
    <3>1. CASE UNCHANGED tableVars
      BY <2>u, <3>1
    <3>2. CASE Store(r) /\ i \in FirstFree(req)
      BY <1>0, <3>2 DEF Store, TableTypeOK
    <3>3. CASE Store(r) /\ i \notin FirstFree(req)
      <4>1. req'[i] = req[i]
        BY <3>3 DEF Store
      <4>2. req[i] \in Requests /\ req[i] # r
        BY <1>0, <2>1, <4>1 DEF Send, TableTypeOK, Tracked
      <4> QED BY <1>0, <3>3, <4>1, <4>2 DEF Store, TableTypeOK
    <3> QED BY <2>1, <3>1, <3>2, <3>3 DEF Send
  <2>2. ASSUME NEW k \in Keys \cup {NoKey}, OnMessage(k) PROVE Same
    <3>1. ASSUME NEW S, Free(S) PROVE Same
      BY <3>1 DEF Free
    <3> QED BY <2>2, <2>u, <3>1 DEF OnMessage
  <2>3. CASE DriveStep
    <3>1. req'[i] = req[i] /\ req[i] \in Requests
      BY <1>0, <2>3 DEF DriveStep, Step, TableTypeOK
    <3> QED BY <1>0, <2>3, <3>1 DEF DriveStep, Step, TableTypeOK
  <2>4. CASE Tick \/ UNCHANGED vars
    BY <2>u, <2>4 DEF Tick, vars, tableVars
  <2> QED BY <2>1, <2>2, <2>3, <2>4 DEF Next
<1>1. CASE Same
  <2>1. req[i] \in Requests /\ lastTx[req[i]] \in Nat
    BY <1>0, <1>1 DEF TableTypeOK
  <2> QED BY <1>1, <2>1
<1>2. CASE Fresh
  BY <1>0, <1>2
<1> QED BY <1>a, <1>1, <1>2

(* The delay to what `step` said reaches no further than any deadline, and *)
(* no further than a timeout.                                              *)
InTime(t) == \A i \in Slots : req[i] # None => t <= lastTx[req[i]] + Timeout + lag

LEMMA DelayInTime ==
  ASSUME NoWrap, DueMax >= Cap, Inv, Inv', OnTime, DriveStep, ~Idle'
  PROVE  LET n == Soonest(req', deadline') IN
         /\ n \in Nat /\ Delay(n) \in Nat /\ Delay(n) <= Timeout
         /\ \A i \in Slots : req'[i] # None =>
              clock + Delay(n) <= lastTx'[req'[i]] + Timeout
<1> USE DriveAssumption
<1> DEFINE n == Soonest(req', deadline')
<1>0. TableInv /\ TableTypeOK /\ TableTypeOK' /\ clock \in Nat /\ Now = clock
  BY ClockNat, TrueTime DEF Inv, TableInv, TypeOK, TableTypeOK
<1>1. /\ OnTime' /\ clock' = clock
      /\ \A i \in Slots : req'[i] # None => deadline'[i] > clock
  BY <1>0, StepOnTime DEF DriveStep
<1>2. PICK i \in Slots : req'[i] # None
  BY DEF Idle
<1>3. deadline' \in [Slots -> Nat]
  BY <1>0 DEF TableTypeOK
<1>4. /\ n \in Nat
      /\ \A j \in Slots : req'[j] # None => n <= deadline'[j]
      /\ \E j \in Slots : req'[j] # None /\ n = deadline'[j]
  BY <1>2, <1>3, SoonestIsLeast
<1> HIDE DEF n
<1>5. PICK m \in Slots : req'[m] # None /\ n = deadline'[m]
  BY <1>4
<1>6. n < Modulus /\ n > clock /\ n <= clock + Timeout
  <2>1. deadline'[m] \in 0 .. Modulus - 1 /\ lastTx'[req'[m]] \in Nat
    BY <1>0, <1>5 DEF TableTypeOK
  <2>2. deadline'[m] = lastTx'[req'[m]] + Timeout /\ lastTx'[req'[m]] <= clock
    BY <1>1, <1>5 DEF OnTime
  <2> QED BY <1>0, <1>1, <1>5, <2>1, <2>2
<1>7. n - clock \in 0 .. Modulus - 1
  BY <1>0, <1>4, <1>6
<1>8. (n - clock) % Modulus = n - clock
  BY <1>7
<1>9. Delay(n) \in Nat /\ Delay(n) <= n - clock
  BY <1>0, <1>7, <1>8 DEF Delay
<1>10. ASSUME NEW j \in Slots, req'[j] # None
       PROVE  clock + Delay(n) <= lastTx'[req'[j]] + Timeout
  <2>1. n <= deadline'[j] /\ deadline'[j] = lastTx'[req'[j]] + Timeout
    BY <1>1, <1>4, <1>10 DEF OnTime
  <2>2. deadline'[j] \in Nat
    BY <1>3
  <2>3. clock + Delay(n) <= n
    BY <1>0, <1>4, <1>9
  <2> QED BY <1>0, <1>4, <1>9, <2>1, <2>2, <2>3
<1>11. Delay(n) <= Timeout
  BY <1>0, <1>4, <1>6, <1>9
<1> QED BY <1>4, <1>9, <1>10, <1>11 DEF n

-----------------------------------------------------------------------------
(* The Qt pump hears.  What the timer is set to, and what handlers on the  *)
(* stack have read before their hook and will set it to, is in time.       *)
Timely ==
  /\ wake # None => wake <= clock + Timeout
  /\ \A f \in OnStack : f.then = "stepped" /\ f.next # None =>
       /\ f.next <= Timeout
       /\ \A i \in Slots : req[i] # None =>
            clock + f.next <= lastTx[req[i]] + Timeout + lag

(* While the pump is running the notifier is on, or a handler is on the    *)
(* stack that will turn it on or finish; and the timer is in time, or a    *)
(* call is queued or a handler is on the stack that will set it or finish. *)
Attentive ==
  begun > 0 /\ ~finished /\ ~gone =>
    /\ notifier \/ \E f \in OnStack : f.then \in {"received", "failed"}
    /\ \/ WakesInTime
       \/ "rearm" \in Queued
       \/ \E f \in OnStack : f.then \in {"stepped", "received", "failed"}

LEMMA PumpClock ==
  ASSUME PumpTypes, PumpNext
  PROVE  \/ clock' = clock /\ lag' = lag
         \/ /\ clock' = clock + 1 /\ lag' \in {lag, lag + 1}
            /\ stack # <<>> => lag' = lag + 1
            /\ UNCHANGED <<wake, tableVars, pumpVars, begun>>
<1>1. CASE PumpTime
  <2>1. lag' \in {lag, lag + 1} /\ (stack # <<>> => lag' = lag + 1)
    BY <1>1 DEF PumpTime, PassTime
  <2> QED BY <1>1, <2>1 DEF PumpTime, PassTime, Tick
<1>2. CASE Pump
  <2>1. ASSUME NEW below, Rearm(below) PROVE clock' = clock
    BY <2>1 DEF Rearm, DriveStep, vars
  <2>2. ASSUME NEW d, NEW hook, Deliver(d, hook) PROVE clock' = clock
    BY <2>2 DEF Deliver, OnMessage, vars
  <2>3. CASE DispatchRearm \/ OnDeadline \/ Received
    BY <2>1, <2>3 DEF DispatchRearm, OnDeadline, Received, hostVars
  <2>4. CASE OnReadable
    BY <2>2, <2>4 DEF OnReadable
  <2>5. CASE DispatchDelete \/ Failed \/ Stepped \/ Done
    BY <2>5 DEF DispatchDelete, Failed, Stepped, Done, vars, hostVars
  <2> QED BY <1>2, <2>3, <2>4, <2>5 DEF Pump
<1>3. CASE Start \/ StartFails \/ Stop \/ ReceiveFails
  BY <1>3 DEF Start, StartFails, Stop, ReceiveFails, vars, hostVars
<1>4. ASSUME NEW r \in Opens, PumpSend(r) PROVE clock' = clock /\ lag' = lag
  BY <1>4 DEF PumpSend, Send, hostVars
<1>5. ASSUME NEW d \in Datagrams, Arrive(d) PROVE clock' = clock /\ lag' = lag
  BY <1>5 DEF Arrive, vars
<1> QED BY <1>1, <1>2, <1>3, <1>4, <1>5 DEF PumpNext

LEMMA PumpWake ==
  ASSUME PumpNext
  PROVE  \/ wake' = wake \/ wake' = None
         \/ /\ Returning("stepped") /\ Top.next # None
            /\ stack' = Below /\ wake' = clock + Top.next
            /\ UNCHANGED <<vars, lag>>
<1>1. ASSUME NEW below, NEW drained, Finish(below, drained)
      PROVE  wake' = wake \/ wake' = None
  BY <1>1 DEF Finish
<1>2. CASE Pump
  <2>1. CASE Stepped
    BY <1>1, <2>1 DEF Stepped
  <2>2. CASE DispatchRearm \/ DispatchDelete \/ OnDeadline \/ OnReadable
    BY <2>2 DEF DispatchRearm, DispatchDelete, OnDeadline, OnReadable, hostVars
  <2>3. CASE Received \/ Done \/ Failed
    BY <1>1, <2>3 DEF Received, Done, Failed, hostVars
  <2> QED BY <1>2, <2>1, <2>2, <2>3 DEF Pump
<1>3. CASE Start \/ StartFails \/ Stop \/ ReceiveFails
  BY <1>1, <1>3 DEF Start, StartFails, Stop, ReceiveFails, hostVars
<1>4. CASE PumpTime
  BY <1>4 DEF PumpTime, PassTime
<1>5. ASSUME NEW r \in Opens, PumpSend(r) PROVE wake' = wake
  BY <1>5 DEF PumpSend, hostVars
<1>6. ASSUME NEW d \in Datagrams, Arrive(d) PROVE wake' = wake
  BY <1>6 DEF Arrive
<1> QED BY <1>2, <1>3, <1>4, <1>5, <1>6 DEF PumpNext

LEMMA FrameNext ==
  ASSUME PumpTypes, NEW f \in OnStack, f.next # None
  PROVE  f.next \in Nat
<1>1. OnStack \in SUBSET Frames
  <2> HIDE DEF Frames
  <2> QED BY RangeOfSeq DEF PumpTypes, OnStack
<1> QED BY <1>1 DEF Frames

LEMMA TimelyNext ==
  ASSUME NoWrap, DueMax >= Cap, Inbox, Inv, Inv', OnTime, PumpTypes, PumpTypes',
         Timely, PumpNext
  PROVE  Timely'
<1> USE DriveAssumption
<1>0. clock \in Nat /\ lag \in Nat /\ lag' \in Nat /\ lag' >= lag /\ [Next]_vars
  BY ClockNat, PumpClock, PumpCalls DEF PumpTypes
<1>1. clock' \in Nat /\ clock' >= clock
  BY <1>0, PumpClock
<1>2. ASSUME wake' # None PROVE wake' <= clock' + Timeout
  <2>1. CASE wake' = wake
    <3>1. wake \in Nat /\ wake <= clock + Timeout
      BY <1>2, <2>1 DEF Timely, PumpTypes
    <3>2. wake <= clock' + Timeout
      <4>1. clock \in Nat /\ clock' \in Nat /\ clock <= clock' /\ Timeout \in Nat
        BY <1>0, <1>1
      <4>2. \A w, c, d, t \in Nat : w <= c + t /\ c <= d => w <= d + t
        OBVIOUS
      <4> QED BY <3>1, <4>1, <4>2
    <3> QED BY <2>1, <3>2
  <2>2. CASE Returning("stepped") /\ Top.next # None /\ wake' = clock + Top.next
    <3>1. Top \in OnStack /\ Top.then = "stepped"
      BY <2>2, StackTop DEF Returning
    <3>2. Top.next \in Nat /\ Top.next <= Timeout
      BY <2>2, <3>1, FrameNext DEF Timely
    <3> QED BY <1>0, <1>1, <2>2, <3>2
  <2> QED BY <1>2, <2>1, <2>2, PumpWake
<1>3. ASSUME NEW f \in OnStack', f.then = "stepped", f.next # None
      PROVE  /\ f.next <= Timeout
             /\ \A i \in Slots : req'[i] # None =>
                  clock' + f.next <= lastTx'[req'[i]] + Timeout + lag'
  <2>1. CASE f \in OnStack
    <3>1. /\ f.next \in Nat /\ f.next <= Timeout
          /\ \A i \in Slots : req[i] # None =>
               clock + f.next <= lastTx[req[i]] + Timeout + lag
      BY <1>3, <2>1, FrameNext DEF Timely
    <3>2. \/ clock' = clock /\ lag' = lag
          \/ clock' = clock + 1 /\ lag' = lag + 1
      <4>1. stack # <<>>
        <5>1. CASE stack = <<>>
          <6>1. Len(stack) = 0 /\ DOMAIN stack = 1 .. Len(stack)
            BY <5>1, EmptySeq, LenProperties DEF PumpTypes
          <6>2. DOMAIN stack = {}
            BY <6>1
          <6> QED BY <2>1, <6>2 DEF OnStack, Range
        <5> QED BY <5>1
      <4> QED BY <4>1, PumpClock
    <3>3. ASSUME NEW i \in Slots, req'[i] # None
          PROVE  clock' + f.next <= lastTx'[req'[i]] + Timeout + lag'
      <4>1. /\ lastTx'[req'[i]] \in Nat
            /\ \/ lastTx'[req'[i]] = clock
               \/ /\ req[i] # None /\ lastTx[req[i]] \in Nat
                  /\ lastTx'[req'[i]] >= lastTx[req[i]]
        BY <1>0, <3>3, LiveGrows
      <4>2. CASE lastTx'[req'[i]] = clock
        BY <1>0, <3>1, <3>2, <4>2
      <4>3. CASE /\ req[i] # None /\ lastTx[req[i]] \in Nat
                 /\ lastTx'[req'[i]] >= lastTx[req[i]]
        <5>1. clock + f.next <= lastTx[req[i]] + Timeout + lag
          BY <3>1, <4>3
        <5>2. clock + f.next <= lastTx'[req'[i]] + Timeout + lag
          BY <1>0, <3>1, <4>1, <4>3, <5>1
        <5> QED BY <1>0, <3>1, <3>2, <4>1, <5>2
      <4> QED BY <4>1, <4>2, <4>3
    <3> QED BY <3>1, <3>3
  <2>2. CASE f = NextFrame /\ DriveStep /\ lag' = lag
    <3>1. Soonest(req', deadline') # None /\ f.next = Delay(Soonest(req', deadline'))
      BY <1>3, <2>2, NextFrameType
    <3>2. ~Idle'
      <4>1. deadline' \in [Slots -> Nat]
        BY DEF Inv, TypeOK, TableTypeOK
      <4> QED BY <3>1, <4>1, SoonestNone DEF Idle
    <3>3. /\ f.next \in Nat /\ f.next <= Timeout
          /\ \A i \in Slots : req'[i] # None =>
               clock + f.next <= lastTx'[req'[i]] + Timeout
      BY <2>2, <3>1, <3>2, DelayInTime
    <3>4. clock' = clock
      BY <2>2 DEF DriveStep
    <3>5. ASSUME NEW i \in Slots, req'[i] # None
          PROVE  clock' + f.next <= lastTx'[req'[i]] + Timeout + lag'
      <4>1. lastTx'[req'[i]] \in Nat
        BY <1>0, <3>5, LiveGrows
      <4> QED BY <1>0, <3>3, <3>4, <3>5, <4>1
    <3> QED BY <3>3, <3>5
  <2> QED BY <1>3, <2>1, <2>2, PumpStack
<1> QED BY <1>2, <1>3 DEF Timely

(* A timer that is in time stays so, whatever is sent, answered or tried   *)
(* again meanwhile.                                                        *)
LEMMA InTimeKept ==
  ASSUME Inv, OnTime, wake \in Nat, wake <= clock + Timeout, WakesInTime,
         wake' = wake, [Next]_vars, lag \in Nat, lag' \in Nat, lag' >= lag
  PROVE  WakesInTime'
<1> USE DriveAssumption
<1>1. /\ wake # None /\ wake \in Nat /\ wake <= clock + Timeout
      /\ \A i \in Slots : req[i] # None => wake <= lastTx[req[i]] + Timeout + lag
  BY DEF WakesInTime
<1>2. clock \in Nat /\ lag \in Nat /\ lag' \in Nat
  BY ClockNat
<1>3. ASSUME NEW i \in Slots, req'[i] # None
      PROVE  wake <= lastTx'[req'[i]] + Timeout + lag'
  <2>1. /\ lastTx'[req'[i]] \in Nat
        /\ \/ lastTx'[req'[i]] = clock
           \/ /\ req[i] # None /\ lastTx[req[i]] \in Nat
              /\ lastTx'[req'[i]] >= lastTx[req[i]]
    BY <1>3, LiveGrows
  <2>2. CASE lastTx'[req'[i]] = clock
    BY <1>1, <1>2, <2>2
  <2>3. CASE /\ req[i] # None /\ lastTx[req[i]] \in Nat
             /\ lastTx'[req'[i]] >= lastTx[req[i]]
    <3>1. wake <= lastTx[req[i]] + Timeout + lag
      BY <1>1, <2>3
    <3> QED BY <1>1, <1>2, <2>1, <2>3, <3>1
  <2> QED BY <2>1, <2>2, <2>3
<1> QED BY <1>1, <1>3 DEF WakesInTime

LEMMA AttentiveNext ==
  ASSUME Inbox, Inv, Inv', OnTime, PumpTypes, PumpTypes', Timely, Attentive,
         PumpNext
  PROVE  Attentive'
<1> DEFINE Running == begun > 0 /\ ~finished /\ ~gone
           Hears == notifier \/ \E f \in OnStack : f.then \in {"received", "failed"}
           Will == \E f \in OnStack : f.then \in {"stepped", "received", "failed"}
<1>0. [Next]_vars /\ lag' >= lag
  <2>1. lag \in Nat
    BY DEF PumpTypes
  <2> QED BY <2>1, PumpCalls, PumpClock
<1>k. WakesInTime /\ wake' = wake => WakesInTime'
  <2>1. WakesInTime => wake \in Nat /\ wake <= clock + Timeout
    BY DEF WakesInTime, Timely, PumpTypes
  <2>2. lag \in Nat /\ lag' \in Nat
    BY DEF PumpTypes
  <2> QED BY <1>0, <2>1, <2>2, InTimeKept
<1>r. ASSUME NEW below, below \in Seq(Frames), Rearm(below), ~finished
      PROVE  /\ Range(below) \subseteq OnStack'
             /\ \E f \in OnStack' : f.then = "stepped"
  <2>1. Range(stack') = Range(below) \cup {NextFrame} /\ NextFrame.then = "stepped"
    BY <1>r, RearmPushes, NextFrameType
  <2> QED BY <2>1 DEF OnStack
<1>f. ASSUME NEW below, NEW drained, Finish(below, drained) PROVE finished'
  BY <1>f, Zenon DEF Finish
<1>s. stack \in Seq(Frames) /\ Range(stack) = OnStack
  BY DEF PumpTypes, OnStack
<1>b. ASSUME stack # <<>>
      PROVE  Below \in Seq(Frames) /\ OnStack = Range(Below) \cup {Top}
  BY <1>b, StackTop
<1>t. ASSUME queue # <<>>
      PROVE  Queued = Range(Tail(queue)) \cup {Head(queue)}
  <2>1. queue \in Seq({"rearm", "delete"})
    BY DEF PumpTypes
  <2> QED BY <1>t, <2>1, TailRange, Zenon DEF Queued
<1>a. ASSUME NEW c \in {"rearm", "delete"}, queue' = Append(queue, c)
      PROVE  Queued' = Queued \cup {c}
  <2>1. queue \in Seq({"rearm", "delete"})
    BY DEF PumpTypes
  <2>2. Range(Append(queue, c)) = Range(queue) \cup {c}
    BY <2>1, AppendRange, Zenon
  <2> QED BY <1>a, <2>2 DEF Queued
<1> SUFFICES ASSUME Running'
             PROVE  /\ Hears'
                    /\ WakesInTime' \/ "rearm" \in Queued' \/ Will'
  BY DEF Attentive
<1> HIDE DEF Frames
<1>1. CASE DispatchRearm
  <2>1. Running /\ Hears
    BY <1>1 DEF DispatchRearm, hostVars, Attentive
  <2>2. OnStack \subseteq OnStack' /\ Will'
    BY <1>1, <1>r, <1>s, <2>1 DEF DispatchRearm
  <2> QED BY <1>1, <2>1, <2>2 DEF DispatchRearm
<1>2. CASE OnDeadline
  <2>1. Running /\ Hears
    BY <1>2 DEF OnDeadline, Attentive
  <2>2. OnStack \subseteq OnStack' /\ Will'
    BY <1>2, <1>r, <1>s, <2>1 DEF OnDeadline
  <2> QED BY <1>2, <2>1, <2>2 DEF OnDeadline
<1>3. CASE OnReadable
  BY <1>3, HookPushes DEF OnReadable
<1>4. CASE ReceiveFails
  BY <1>4, HookPushes DEF ReceiveFails
<1>5. CASE Received
  <2>1. Running /\ notifier'
    BY <1>5 DEF Received, hostVars
  <2>2. Will'
    BY <1>5, <1>r, <1>b, <2>1 DEF Received, Returning
  <2> QED BY <2>1, <2>2
<1>6. CASE Stepped
  <2>1. CASE Finish(Below, TRUE)
    BY <1>f, <2>1
  <2>2. CASE ~(Top.next = None \/ finished)
    <3>1. /\ Returning("stepped") /\ Top.next # None /\ wake' = clock + Top.next
          /\ stack' = Below /\ UNCHANGED <<vars, lag, notifier, begun, gone, finished>>
      BY <1>6, <2>2 DEF Stepped
    <3>2. Top \in OnStack /\ Top.then = "stepped" /\ OnStack = Range(Below) \cup {Top}
      BY <3>1, StackTop DEF Returning
    <3>3. Running /\ Hears
      BY <3>1 DEF Attentive
    <3>4. Hears'
      BY <3>1, <3>2, <3>3 DEF OnStack
    <3>5. \A i \in Slots : req[i] # None => wake' <= lastTx[req[i]] + Timeout + lag
      BY <3>1, <3>2 DEF Timely
    <3>6. wake' # None
      <4>1. Top.next \in Nat /\ clock \in Nat
        BY <3>1, <3>2, FrameNext, ClockNat
      <4>2. wake' \in Nat
        BY <3>1, <4>1
      <4> QED BY <4>2, HostAssumption
    <3>7. WakesInTime'
      BY <3>1, <3>5, <3>6 DEF WakesInTime, vars
    <3> QED BY <3>4, <3>7
  <2> QED BY <1>6, <2>1, <2>2 DEF Stepped
<1>7. CASE Done
  <2>1. /\ Returning("done") /\ stack' = Below /\ queue' = (IF runner THEN Append(queue, "delete") ELSE queue)
        /\ UNCHANGED <<vars, hostVars, finished, notifier, gone>>
    BY <1>7 DEF Done
  <2>2. OnStack = Range(Below) \cup {Top} /\ Top.then = "done"
    BY <2>1, StackTop DEF Returning
  <2>3. Running /\ Hears /\ (WakesInTime \/ "rearm" \in Queued \/ Will)
    BY <2>1 DEF hostVars, Attentive
  <2>4. Hears' /\ (Will => Will')
    BY <2>1, <2>2, <2>3 DEF OnStack
  <2>5. Queued \subseteq Queued'
    BY <1>a, <2>1 DEF Queued
  <2>6. wake' = wake
    BY <2>1 DEF hostVars
  <2> QED BY <1>k, <2>3, <2>4, <2>5, <2>6
<1>8. CASE Failed \/ Stop
  BY <1>8, <1>f DEF Failed, Stop
<1>9. CASE DispatchDelete \/ StartFails
  BY <1>9 DEF DispatchDelete, StartFails
<1>10. CASE Start
  BY <1>10, <1>a DEF Start
<1>11. ASSUME UNCHANGED <<pumpVars, wake, begun>>
       PROVE  Hears' /\ (WakesInTime' \/ "rearm" \in Queued' \/ Will')
  <2>1. Running /\ Hears /\ (WakesInTime \/ "rearm" \in Queued \/ Will)
    BY <1>11 DEF pumpVars, Attentive
  <2> QED BY <1>11, <1>k, <2>1 DEF pumpVars, OnStack, Queued
<1>12. ASSUME \/ PumpTime \/ \E r \in Opens : PumpSend(r)
              \/ \E d \in Datagrams : Arrive(d) /\ UNCHANGED pumpVars
       PROVE  UNCHANGED <<pumpVars, wake, begun>>
  BY <1>12 DEF PumpTime, PassTime, PumpSend, Arrive, hostVars
<1> QED BY <1>1, <1>2, <1>3, <1>4, <1>5, <1>6, <1>7, <1>8, <1>9, <1>10, <1>11, <1>12
        DEF PumpNext, Pump

-----------------------------------------------------------------------------
(* The Qt pump finishes with nothing open.  No exchange is opened while a  *)
(* handler that has read that nothing is outstanding is on the stack.      *)
Drained ==
  \A f \in OnStack : f.then = "stepped" =>
    /\ f.hook \in {"on_expired", "none"}
    /\ f.next = None => Idle

NoSendOnExpired == "on_expired" \notin SendingHooks

LEMMA IdleKept == Idle /\ (DriveStep \/ Tick \/ UNCHANGED vars) => Idle'
<1>1. Idle /\ DriveStep => Idle'
  BY DEF DriveStep, Step, Idle
<1>2. Idle /\ (Tick \/ UNCHANGED vars) => Idle'
  BY DEF Tick, tableVars, vars, Idle
<1> QED BY <1>1, <1>2

LEMMA DeliverIdle == ASSUME Idle, NEW d, NEW hook, Deliver(d, hook) PROVE Idle'
<1>1. ASSUME NEW S, Free(S) PROVE Idle'
  BY <1>1 DEF Free, Idle
<1> QED BY <1>1 DEF Deliver, OnMessage, tableVars, vars, Idle

LEMMA PumpIdle ==
  ASSUME Inbox, Idle, PumpNext, ~\E r \in Opens : PumpSend(r)
  PROVE  Idle'
<1>1. CASE Pump
  <2>1. ASSUME NEW below, Rearm(below) PROVE Idle'
    BY <2>1, IdleKept DEF Rearm
  <2>2. CASE DispatchRearm \/ OnDeadline \/ Received
    BY <2>1, <2>2 DEF DispatchRearm, OnDeadline, Received
  <2>3. CASE OnReadable
    BY <2>3, DeliverIdle DEF OnReadable
  <2>4. CASE DispatchDelete \/ Failed \/ Stepped \/ Done
    BY <2>4, IdleKept DEF DispatchDelete, Failed, Stepped, Done
  <2> QED BY <1>1, <2>2, <2>3, <2>4 DEF Pump
<1>2. CASE Start \/ StartFails \/ Stop \/ ReceiveFails
  BY <1>2, IdleKept DEF Start, StartFails, Stop, ReceiveFails
<1>3. CASE PumpTime
  BY <1>3, IdleKept DEF PumpTime, PassTime
<1>4. ASSUME NEW d \in Datagrams, Arrive(d) PROVE Idle'
  BY <1>4, IdleKept DEF Arrive
<1> QED BY <1>1, <1>2, <1>3, <1>4 DEF PumpNext

LEMMA DrainedNext ==
  ASSUME NoSendOnExpired, Inbox, Inv, Inv', PumpTypes, Drained, PumpNext
  PROVE  Drained'
<1> SUFFICES ASSUME NEW f \in OnStack', f.then = "stepped"
             PROVE  f.hook \in {"on_expired", "none"} /\ (f.next = None => Idle')
  BY DEF Drained
<1>1. CASE f \in OnStack
  <2>1. f.hook \in {"on_expired", "none"} /\ (f.next = None => Idle)
    BY <1>1 DEF Drained
  <2>2. ASSUME NEW r \in Opens, PumpSend(r) PROVE FALSE
    <3>1. PICK i \in DOMAIN stack : stack[i] = f
      BY <1>1 DEF OnStack, Range
    <3>2. f.hook \in SendingHooks
      BY <2>2, <3>1 DEF PumpSend
    <3> QED BY <2>1, <3>2, HostAssumption DEF NoSendOnExpired
  <2> QED BY <2>1, <2>2, PumpIdle
<1>2. CASE f = NextFrame
  BY <1>2, NextFrameType
<1> QED BY <1>1, <1>2, PumpStack

(* `complete` is said by a rearm alone that found nothing outstanding *)
LEMMA PumpCompletes ==
  ASSUME PumpTypes, PumpNext, dones' > dones, complete'
  PROVE  Returning("stepped") /\ Top.next = None /\ UNCHANGED vars
<1>0. dones' # dones
  BY DEF PumpTypes
<1>1. ASSUME NEW below, NEW drained, Finish(below, drained)
      PROVE  ~finished /\ drained
  <2>1. ~finished
    BY <1>0, <1>1 DEF Finish
  <2>2. complete' = drained
    BY <1>1, <2>1 DEF Finish
  <2> QED BY <2>1, <2>2
<1>2. CASE Pump
  <2>1. CASE Stepped
    <3>1. Top.next = None \/ finished
      BY <1>0, <2>1 DEF Stepped
    <3>2. Finish(Below, TRUE)
      BY <2>1, <3>1 DEF Stepped
    <3>3. ~finished
      BY <1>1, <3>2
    <3> QED BY <2>1, <3>1, <3>3 DEF Stepped
  <2>2. CASE Failed
    BY <1>1, <2>2 DEF Failed
  <2>3. CASE \/ DispatchRearm \/ DispatchDelete \/ OnDeadline \/ OnReadable
             \/ Received \/ Done
    BY <1>0, <2>3 DEF DispatchRearm, DispatchDelete, OnDeadline, OnReadable,
                      Received, Done, hostVars
  <2> QED BY <1>2, <2>1, <2>2, <2>3 DEF Pump
<1>3. CASE Stop
  BY <1>1, <1>3 DEF Stop
<1>4. CASE Start \/ StartFails \/ ReceiveFails
  BY <1>0, <1>4 DEF Start, StartFails, ReceiveFails, hostVars
<1>5. CASE PumpTime
  BY <1>0, <1>5 DEF PumpTime, PassTime
<1>6. ASSUME NEW r \in Opens, PumpSend(r) PROVE FALSE
  BY <1>0, <1>6 DEF PumpSend, hostVars
<1>7. ASSUME NEW d \in Datagrams, Arrive(d) PROVE FALSE
  BY <1>0, <1>7 DEF Arrive
<1> QED BY <1>2, <1>3, <1>4, <1>5, <1>6, <1>7 DEF PumpNext

LEMMA PumpCompleteStep ==
  ASSUME Inbox, PumpTypes, Drained, PumpNext PROVE CompleteStep
<1> SUFFICES ASSUME dones' > dones, complete' PROVE \A i \in Slots : req'[i] = None
  BY DEF CompleteStep
<1>1. Returning("stepped") /\ Top.next = None /\ UNCHANGED vars
  BY PumpCompletes
<1>2. Top \in OnStack /\ Top.then = "stepped"
  BY <1>1, StackTop DEF Returning
<1>3. Idle
  BY <1>1, <1>2 DEF Drained
<1> QED BY <1>1, <1>3 DEF Idle, vars

-----------------------------------------------------------------------------
(* The pump is deleted over an empty stack, where no hook runs an event    *)
(* loop: nothing is dispatched while a handler is in its hook, and the run *)
(* function deletes the pump itself only before it has started.            *)
Unwound ==
  /\ gone => stack = <<>>
  /\ runner /\ begun = 0 => stack = <<>> /\ queue = <<>> /\ ~notifier /\ wake = None

LEMMA UnwoundNext ==
  ASSUME ~MayNest, PumpTypes, Unwound, PumpNext
  PROVE  Unwound'
<1>0. begun \in Nat
  BY DEF PumpTypes
<1>1. CASE DispatchRearm \/ OnDeadline \/ OnReadable \/ ReceiveFails
  <2>1. ~gone /\ stack = <<>> /\ gone' = gone /\ runner' = runner /\ begun' = begun
    BY <1>1 DEF DispatchRearm, OnDeadline, OnReadable, ReceiveFails, Dispatching,
                hostVars
  <2>2. ~(runner /\ begun = 0)
    BY <1>1 DEF DispatchRearm, OnDeadline, OnReadable, ReceiveFails, Unwound
  <2> QED BY <2>1, <2>2 DEF Unwound
<1>2. CASE DispatchDelete
  <2>1. stack' = <<>> /\ runner' = runner /\ begun' = begun
    BY <1>2 DEF DispatchDelete, Dispatching
  <2>2. ~(runner /\ begun = 0)
    BY <1>2 DEF DispatchDelete, Unwound
  <2> QED BY <2>1, <2>2 DEF Unwound
<1>3. CASE Received \/ Failed \/ Stepped \/ Done
  <2>1. /\ stack # <<>> /\ ~gone /\ gone' = gone /\ runner' = runner
        /\ begun' = begun
    BY <1>3 DEF Received, Failed, Stepped, Done, Returning, hostVars
  <2> QED BY <2>1 DEF Unwound
<1>4. CASE Start
  <2>1. begun' # 0
    BY <1>0, <1>4 DEF Start
  <2>2. ~gone /\ gone' = gone
    BY <1>4 DEF Start, UserRuns
  <2> QED BY <2>1, <2>2 DEF Unwound
<1>5. CASE StartFails
  BY <1>5 DEF StartFails, Unwound, hostVars
<1>6. CASE Stop
  BY <1>6 DEF Stop, UserRuns, Unwound
<1>7. ASSUME UNCHANGED <<pumpVars, wake, begun>> PROVE Unwound'
  BY <1>7 DEF Unwound, pumpVars
<1>8. ASSUME \/ PumpTime \/ \E r \in Opens : PumpSend(r)
             \/ \E d \in Datagrams : Arrive(d) /\ UNCHANGED pumpVars
      PROVE  UNCHANGED <<pumpVars, wake, begun>>
  BY <1>8 DEF PumpTime, PassTime, PumpSend, Arrive, hostVars
<1> QED BY <1>1, <1>2, <1>3, <1>4, <1>5, <1>6, <1>7, <1>8 DEF PumpNext, Pump

-----------------------------------------------------------------------------
(* The Tokio loop.  Where the future is, what it has told the user, and    *)
(* what it will wait for.                                                  *)
TokioTypes ==
  /\ at \in {"idle", "top", "hook", "select", "await", "exit"}
  /\ back \in {"top", "select", "exit"}
  /\ wait \in Nat /\ dropped \in Nat /\ lag \in Nat
  /\ begun \in Nat /\ dones \in Nat

(* The future leaves, now or when its hook returns *)
Leaving == at = "exit" \/ (at = "hook" /\ back = "exit")

(* The future will wait as `step` said, now or when its hook returns *)
Selecting == at = "select" \/ (at = "hook" /\ back = "select")

TokioDrained == Leaving /\ complete => Idle

TokioTimely ==
  /\ Selecting =>
       /\ wait <= Timeout
       /\ \A i \in Slots : req[i] # None =>
            clock + wait <= lastTx[req[i]] + Timeout + lag
  /\ at = "await" => wake \in Nat /\ wake <= clock + Timeout /\ WakesInTime

LEMMA WaitIsDelay ==
  ASSUME Inv, Inv', Turn
  PROVE  /\ Soonest(req', deadline') = None <=> Idle'
         /\ wait' = IF Idle' THEN 0 ELSE Delay(Soonest(req', deadline'))
         /\ wait' \in Nat
<1> DEFINE n == Soonest(req', deadline')
<1>1. n \in Nat \cup {None} /\ (n = None <=> Idle')
  <2>1. deadline' \in [Slots -> Nat]
    BY DriveAssumption DEF Inv, TypeOK, TableTypeOK
  <2>2. Idle' <=> \A i \in Slots : req'[i] = None
    BY DEF Idle
  <2> QED BY <2>1, <2>2, SoonestNone
<1>2. wait' = IF n = None THEN 0 ELSE Delay(n)
  BY DEF Turn
<1>3. n # None => Delay(n) \in Nat
  BY <1>1, ClockNat, NextIsDelay
<1> HIDE DEF n
<1> QED BY <1>1, <1>2, <1>3 DEF n

LEMMA TokioTypesNext ==
  ASSUME Inv, Inv', TokioTypes, TokioDone, TokioNext
  PROVE  TokioTypes' /\ TokioDone'
<1>1. CASE Turn
  <2>1. wait' \in Nat
    BY <1>1, WaitIsDelay
  <2>2. /\ at = "top" /\ at' \in {"hook", "exit", "select"}
        /\ back' \in {back, "exit", "select"}
        /\ UNCHANGED <<begun, dones, lag, dropped>>
    BY <1>1 DEF Turn, Call, Goto
  <2> QED BY <2>1, <2>2 DEF TokioTypes, TokioDone
<1>2. CASE Select \/ WakeTimeout \/ WakeReceive \/ StopTokio \/ ReceiveErr
  BY <1>2 DEF Select, WakeTimeout, WakeReceive, StopTokio, ReceiveErr, Call, Goto,
              TokioTypes, TokioDone
<1>3. CASE HookReturns \/ Exit \/ RunTokio \/ Drop
  BY <1>3 DEF HookReturns, Exit, RunTokio, Drop, Goto, hostVars, TokioTypes,
              TokioDone
<1>4. ASSUME UNCHANGED <<tokioVars, begun, dones>>, lag' \in Nat
      PROVE  TokioTypes' /\ TokioDone'
  BY <1>4 DEF tokioVars, TokioTypes, TokioDone
<1>5. CASE TokioTime
  <2>1. lag' \in Nat
    BY <1>5 DEF TokioTime, PassTime, TokioTypes
  <2> QED BY <1>4, <1>5, <2>1 DEF TokioTime, PassTime
<1>6. ASSUME NEW r \in Opens, TokioSend(r) PROVE TokioTypes' /\ TokioDone'
  BY <1>4, <1>6 DEF TokioSend, hostVars, TokioTypes
<1>7. ASSUME NEW d \in Datagrams, Arrive(d), UNCHANGED tokioVars
      PROVE  TokioTypes' /\ TokioDone'
  BY <1>4, <1>7 DEF Arrive, TokioTypes
<1> QED BY <1>1, <1>2, <1>3, <1>4, <1>5, <1>6, <1>7 DEF TokioNext, Tokio

LEMMA TokioDrainedNext ==
  ASSUME Inv, Inv', TokioTypes, TokioDrained, TokioNext
  PROVE  TokioDrained' /\ CompleteStep
<1>0. dones \in Nat
  BY DEF TokioTypes
<1>c. ASSUME dones' = dones PROVE CompleteStep
  BY <1>0, <1>c DEF CompleteStep
<1>1. CASE Turn
  <2>1. complete' => Idle'
    BY <1>1, WaitIsDelay DEF Turn
  <2> QED BY <1>1, <1>c, <2>1 DEF Turn, TokioDrained
<1>2. CASE Select \/ WakeTimeout \/ StopTokio \/ ReceiveErr \/ RunTokio \/ Drop
  <2>1. ~Leaving' \/ ~complete'
    BY <1>2, Zenon DEF Select, WakeTimeout, StopTokio, ReceiveErr, RunTokio, Drop,
                       Goto, Call, Leaving
  <2> QED BY <1>2, <1>c, <2>1
          DEF Select, WakeTimeout, StopTokio, ReceiveErr, RunTokio, Drop, TokioDrained
<1>3. CASE WakeReceive
  BY <1>3, <1>c DEF WakeReceive, Call, Leaving, TokioDrained
<1>4. CASE HookReturns
  <2>1. Leaving' => Leaving
    BY <1>4 DEF HookReturns, Leaving
  <2> QED BY <1>4, <1>c, <2>1 DEF HookReturns, hostVars, vars, Idle, TokioDrained
<1>5. CASE Exit
  <2>1. Leaving /\ ~Leaving' /\ complete' = complete /\ UNCHANGED vars
    BY <1>5 DEF Exit, Goto, Leaving
  <2> QED BY <2>1 DEF TokioDrained, CompleteStep, Idle, vars
<1>6. CASE TokioTime
  BY <1>6, <1>c
     DEF TokioTime, PassTime, Tick, tableVars, tokioVars, Leaving, Idle, TokioDrained
<1>7. ASSUME NEW r \in Opens, TokioSend(r) PROVE TokioDrained' /\ CompleteStep
  BY <1>7, <1>c DEF TokioSend, hostVars, tokioVars, Leaving, TokioDrained
<1>8. ASSUME NEW d \in Datagrams, Arrive(d), UNCHANGED tokioVars
      PROVE  TokioDrained' /\ CompleteStep
  BY <1>8, <1>c DEF Arrive, vars, tokioVars, Leaving, Idle, TokioDrained
<1> QED BY <1>1, <1>2, <1>3, <1>4, <1>5, <1>6, <1>7, <1>8 DEF TokioNext, Tokio

LEMMA TokioTimelyNext ==
  ASSUME NoWrap, DueMax >= Cap, Inbox, Inv, Inv', OnTime, TokioTypes, TokioTypes',
         TokioTimely, TokioNext
  PROVE  TokioTimely'
<1> USE DriveAssumption
<1>0. clock \in Nat /\ [Next]_vars
  BY ClockNat, TokioCalls
<1>n. ASSUME ~Selecting', at' # "await" PROVE TokioTimely'
  BY <1>n DEF TokioTimely
<1>1. CASE Turn
  <2>1. Selecting' => ~Idle'
    BY <1>1, WaitIsDelay DEF Turn, Call, Goto, Selecting
  <2>2. at' # "await" /\ DriveStep /\ lag' = lag /\ clock' = clock
    BY <1>1 DEF Turn, Call, Goto, DriveStep
  <2>3. ASSUME ~Idle'
        PROVE  /\ wait' <= Timeout
               /\ \A i \in Slots : req'[i] # None =>
                    clock' + wait' <= lastTx'[req'[i]] + Timeout + lag'
    <3>1. wait' = Delay(Soonest(req', deadline'))
      BY <1>1, <2>3, WaitIsDelay
    <3>2. /\ wait' \in Nat /\ wait' <= Timeout
          /\ \A i \in Slots : req'[i] # None =>
               clock + wait' <= lastTx'[req'[i]] + Timeout
      BY <2>2, <2>3, <3>1, DelayInTime
    <3>3. ASSUME NEW i \in Slots, req'[i] # None
          PROVE  clock' + wait' <= lastTx'[req'[i]] + Timeout + lag'
      <4>1. lastTx'[req'[i]] \in Nat
        BY <1>0, <3>3, LiveGrows
      <4>2. lag' \in Nat
        BY DEF TokioTypes
      <4> QED BY <1>0, <2>2, <3>2, <3>3, <4>1, <4>2
    <3> QED BY <3>2, <3>3
  <2> QED BY <2>1, <2>2, <2>3 DEF TokioTimely
<1>2. CASE Select
  <2>1. /\ Selecting /\ ~Selecting' /\ wake' = clock + wait
        /\ UNCHANGED <<vars, lag>>
    BY <1>2 DEF Select, Goto, Selecting
  <2>2. /\ wait \in Nat /\ wait <= Timeout
        /\ \A i \in Slots : req[i] # None =>
             clock + wait <= lastTx[req[i]] + Timeout + lag
    BY <2>1 DEF TokioTimely, TokioTypes
  <2>3. wake' \in Nat /\ wake' <= clock' + Timeout /\ wake' # None
    <3>1. wake' \in Nat /\ wake' <= clock + Timeout
      BY <1>0, <2>1, <2>2
    <3> QED BY <2>1, <3>1, HostAssumption DEF vars
  <2>4. WakesInTime'
    BY <2>1, <2>2, <2>3 DEF WakesInTime, vars
  <2> QED BY <2>1, <2>3, <2>4 DEF TokioTimely
<1>3. CASE \/ WakeTimeout \/ WakeReceive \/ StopTokio \/ ReceiveErr \/ RunTokio
           \/ Drop \/ Exit
  <2>1. ~Selecting' /\ at' # "await"
    BY <1>3 DEF WakeTimeout, WakeReceive, StopTokio, ReceiveErr, RunTokio, Drop, Exit,
                Goto, Call, Selecting
  <2> QED BY <1>n, <2>1
<1>4. CASE HookReturns
  <2>1. (Selecting' => Selecting) /\ at' # "await" /\ UNCHANGED <<vars, lag, wait>>
    BY <1>4 DEF HookReturns, Selecting, hostVars, TokioTypes
  <2> QED BY <2>1 DEF TokioTimely, vars
<1>5. ASSUME UNCHANGED <<tokioVars, wake>>,
             \/ clock' = clock /\ lag' = lag
             \/ /\ clock' = clock + 1 /\ lag' \in {lag, lag + 1}
                /\ at # "await" => lag' = lag + 1
      PROVE  TokioTimely'
  <2>0. lag \in Nat /\ lag' \in Nat /\ lag' >= lag /\ clock' \in Nat /\ clock' >= clock
    BY <1>0, <1>5 DEF TokioTypes
  <2>1. ASSUME Selecting'
        PROVE  /\ wait' <= Timeout
               /\ \A i \in Slots : req'[i] # None =>
                    clock' + wait' <= lastTx'[req'[i]] + Timeout + lag'
    <3>1. /\ Selecting /\ at # "await" /\ wait' = wait
      BY <1>5, <2>1 DEF Selecting, tokioVars
    <3>2. /\ wait \in Nat /\ wait <= Timeout
          /\ \A i \in Slots : req[i] # None =>
               clock + wait <= lastTx[req[i]] + Timeout + lag
      BY <3>1 DEF TokioTimely, TokioTypes
    <3>3. \/ clock' = clock /\ lag' = lag
          \/ clock' = clock + 1 /\ lag' = lag + 1
      BY <1>5, <3>1
    <3>4. ASSUME NEW i \in Slots, req'[i] # None
          PROVE  clock' + wait <= lastTx'[req'[i]] + Timeout + lag'
      <4>1. /\ lastTx'[req'[i]] \in Nat
            /\ \/ lastTx'[req'[i]] = clock
               \/ /\ req[i] # None /\ lastTx[req[i]] \in Nat
                  /\ lastTx'[req'[i]] >= lastTx[req[i]]
        BY <1>0, <3>4, LiveGrows
      <4>2. CASE lastTx'[req'[i]] = clock
        BY <1>0, <2>0, <3>2, <3>3, <4>2
      <4>3. CASE /\ req[i] # None /\ lastTx[req[i]] \in Nat
                 /\ lastTx'[req'[i]] >= lastTx[req[i]]
        <5>1. clock + wait <= lastTx[req[i]] + Timeout + lag
          BY <3>2, <4>3
        <5>2. clock + wait <= lastTx'[req'[i]] + Timeout + lag
          BY <1>0, <2>0, <3>2, <4>1, <4>3, <5>1
        <5> QED BY <1>0, <2>0, <3>2, <3>3, <4>1, <5>2
      <4> QED BY <4>1, <4>2, <4>3
    <3> QED BY <3>1, <3>2, <3>4
  <2>2. ASSUME at' = "await"
        PROVE  wake' \in Nat /\ wake' <= clock' + Timeout /\ WakesInTime'
    <3>1. wake' = wake /\ wake \in Nat /\ wake <= clock + Timeout /\ WakesInTime
      BY <1>5, <2>2 DEF tokioVars, TokioTimely
    <3>2. WakesInTime'
      BY <1>0, <2>0, <3>1, InTimeKept
    <3>3. wake <= clock' + Timeout
      <4>1. \A w, c, d, t \in Nat : w <= c + t /\ c <= d => w <= d + t
        OBVIOUS
      <4>2. clock <= clock' /\ Timeout \in Nat
        BY <1>0, <2>0
      <4> QED BY <1>0, <2>0, <3>1, <4>1, <4>2
    <3> QED BY <3>1, <3>2, <3>3
  <2> QED BY <2>1, <2>2 DEF TokioTimely
<1>6. CASE TokioTime
  <2>1. lag' \in {lag, lag + 1} /\ (at # "await" => lag' = lag + 1)
    BY <1>6 DEF TokioTime, PassTime
  <2>2. clock' = clock + 1 /\ UNCHANGED <<tokioVars, wake>>
    BY <1>6 DEF TokioTime, PassTime, Tick
  <2> QED BY <1>5, <2>1, <2>2
<1>7. ASSUME NEW r \in Opens, TokioSend(r) PROVE TokioTimely'
  BY <1>5, <1>7 DEF TokioSend, Send, hostVars
<1>8. ASSUME NEW d \in Datagrams, Arrive(d), UNCHANGED tokioVars PROVE TokioTimely'
  BY <1>5, <1>8 DEF Arrive, vars
<1> QED BY <1>1, <1>2, <1>3, <1>4, <1>6, <1>7, <1>8 DEF TokioNext, Tokio

-----------------------------------------------------------------------------
(* The hosts together.  Of the one that runs its invariant is kept; where  *)
(* it is any other caller, nothing of a host ever happens.                 *)
Quiet ==
  /\ host \in {"caller", "qt", "tokio"}
  /\ host = "caller" => begun = 0 /\ dones = 0 /\ reopened = 0 /\ finished = FALSE
  /\ host # "qt" => gone = FALSE

HostsInv ==
  /\ Inv /\ Inbox /\ Quiet
  /\ host = "qt" => PumpTypes /\ PumpDone
  /\ host = "tokio" => TokioTypes /\ TokioDone

LEMMA HostMoves ==
  ASSUME [HostsNext]_hostsVars
  PROVE  /\ host' = host
         /\ \/ UNCHANGED hostsVars
            \/ host = "caller" /\ UNCHANGED <<hostVars, pumpVars, tokioVars>>
            \/ host = "qt" /\ PumpNext
            \/ host = "tokio" /\ TokioNext /\ UNCHANGED pumpVars
BY DEF HostsNext, AnyCaller, hostsVars

LEMMA EmptyRange == Range(<<>>) = {}
<1>1. <<>> \in Seq({})
  BY EmptySeq, Zenon
<1>2. Range(<<>>) \in SUBSET {}
  BY <1>1, RangeOfSeq, Zenon
<1> QED BY <1>2

LEMMA HostsInvInit == HostsInit => HostsInv
<1> SUFFICES ASSUME HostsInit PROVE HostsInv
  OBVIOUS
<1>1. Inv /\ Inbox
  BY InboxInit, InvInit
<1>2. Quiet
  BY HostsAssumption DEF HostsInit, PumpInit, HostInit, Quiet
<1>3. PumpTypes
  <2>1. stack \in Seq(Frames) /\ queue \in Seq({"rearm", "delete"})
    BY EmptySeq, Zenon DEF HostsInit, PumpInit
  <2>2. /\ finished \in BOOLEAN /\ notifier \in BOOLEAN /\ gone \in BOOLEAN
        /\ runner \in BOOLEAN
    BY Zenon DEF HostsInit, PumpInit
  <2>3. /\ wake \in Nat \cup {None} /\ lag \in Nat
        /\ begun \in Nat /\ dones \in Nat /\ reopened \in Nat
    BY DEF HostsInit, PumpInit, HostInit
  <2> QED BY <2>1, <2>2, <2>3 DEF PumpTypes
<1>4. PumpDone
  BY DEF HostsInit, PumpInit, HostInit, PumpDone
<1>5. TokioTypes /\ TokioDone
  BY DEF HostsInit, TokioInit, HostInit, TokioTypes, TokioDone
<1> QED BY <1>1, <1>2, <1>3, <1>4, <1>5 DEF HostsInv

LEMMA HostsInvNext == HostsInv /\ [HostsNext]_hostsVars => HostsInv'
<1> SUFFICES ASSUME HostsInv, [HostsNext]_hostsVars PROVE HostsInv'
  OBVIOUS
<1>1. Inv' /\ Inbox'
  BY InboxNext, HostsCall, InvNext DEF HostsInv
<1>2. Quiet'
  <2>1. CASE UNCHANGED <<pumpVars, hostVars>> \/ UNCHANGED hostsVars
    BY <2>1, HostMoves DEF HostsInv, Quiet, pumpVars, hostVars, hostsVars
  <2>2. CASE host = "qt"
    BY <2>2, HostMoves DEF HostsInv, Quiet
  <2>3. CASE host = "tokio" /\ UNCHANGED pumpVars
    BY <2>3, HostMoves DEF HostsInv, Quiet, pumpVars
  <2> QED BY <2>1, <2>2, <2>3, HostMoves
<1>3. ASSUME host' = "qt" PROVE PumpTypes' /\ PumpDone'
  <2>1. PumpTypes /\ PumpDone /\ Inv
    BY <1>3, HostMoves DEF HostsInv
  <2>2. CASE PumpNext
    BY <1>1, <2>1, <2>2, PumpTypesNext
  <2>3. CASE UNCHANGED hostsVars
    BY <2>1, <2>3 DEF hostsVars, hostVars, pumpVars, PumpTypes, PumpDone
  <2> QED BY <1>3, <2>2, <2>3, HostMoves
<1>4. ASSUME host' = "tokio" PROVE TokioTypes' /\ TokioDone'
  <2>1. TokioTypes /\ TokioDone /\ Inv
    BY <1>4, HostMoves DEF HostsInv
  <2>2. CASE TokioNext
    BY <1>1, <2>1, <2>2, TokioTypesNext
  <2>3. CASE UNCHANGED hostsVars
    BY <2>1, <2>3 DEF hostsVars, hostVars, tokioVars, TokioTypes, TokioDone
  <2> QED BY <1>4, <2>2, <2>3, HostMoves
<1> QED BY <1>1, <1>2, <1>3, <1>4 DEF HostsInv

(* on_done is called once for each time the pump or the future has run,    *)
(* whatever its hooks stop, start again or run an event loop in, and       *)
(* whichever paths out meet: a deadline under a failed receive, a stop     *)
(* under either, a second finish from an outer frame.                      *)
THEOREM HostsDoneOnce == HostsSpec => []DoneOnce
<1>1. HostsInv => DoneOnce
  BY DEF HostsInv, Quiet, DoneOnce, PumpDone
<1> QED BY HostsInvInit, HostsInvNext, <1>1, PTL DEF HostsSpec

(* What a completed run leaves: nothing open, in the table of the machine, *)
(* where no on_expired hook opens an exchange.  The handler that says so   *)
(* goes on with what `step` told it before that hook, and other handlers   *)
(* may have run above it.                                                  *)
Ended ==
  /\ host = "qt" => Drained
  /\ host = "tokio" => TokioDrained

LEMMA EndedNext ==
  ASSUME NoSendOnExpired, HostsInv, HostsInv', Ended, [HostsNext]_hostsVars
  PROVE  Ended' /\ [CompleteStep]_<<vars, hostVars>>
<1>0. Inbox /\ Inv /\ Inv'
  BY DEF HostsInv
<1>1. CASE UNCHANGED hostsVars
  <2>1. Drained => Drained'
    BY <1>1 DEF hostsVars, pumpVars, vars, OnStack, Idle, Drained
  <2>2. TokioDrained => TokioDrained'
    BY <1>1 DEF hostsVars, hostVars, tokioVars, vars, Leaving, Idle, TokioDrained
  <2>3. UNCHANGED <<vars, hostVars>>
    BY <1>1 DEF hostsVars
  <2> QED BY <2>1, <2>2, <2>3, HostMoves DEF Ended
<1>2. CASE host = "caller" /\ UNCHANGED <<hostVars, pumpVars, tokioVars>>
  <2>1. dones = 0 /\ dones' = 0
    BY <1>2 DEF HostsInv, Quiet, hostVars
  <2> QED BY <1>2, <2>1, HostMoves DEF Ended, CompleteStep
<1>3. CASE host = "qt" /\ PumpNext
  <2>1. Drained' /\ CompleteStep
    BY <1>0, <1>3, DrainedNext, PumpCompleteStep DEF HostsInv, Ended
  <2> QED BY <1>3, <2>1, HostMoves DEF Ended
<1>4. CASE host = "tokio" /\ TokioNext
  <2>1. TokioDrained' /\ CompleteStep
    BY <1>0, <1>4, TokioDrainedNext DEF HostsInv, Ended
  <2> QED BY <1>4, <2>1, HostMoves DEF Ended
<1> QED BY <1>1, <1>2, <1>3, <1>4, HostMoves

(* A host that ends because `step` said nothing was outstanding leaves no  *)
(* exchange open, on the Qt event loop and in the Tokio future.            *)
THEOREM HostsCompleteIdle ==
  ASSUME NoSendOnExpired PROVE HostsSpec => CompleteMeansIdle
<1>1. HostsInit => Ended
  BY EmptyRange
     DEF HostsInit, PumpInit, TokioInit, HostInit, Ended, Drained, OnStack,
         TokioDrained, Leaving
<1>2. HostsInv /\ HostsInv' /\ Ended /\ [HostsNext]_hostsVars
        => Ended' /\ [CompleteStep]_<<vars, hostVars>>
  BY EndedNext
<1> QED BY HostsInvInit, HostsInvNext, <1>1, <1>2, PTL
        DEF HostsSpec, CompleteMeansIdle

Hearing ==
  /\ host = "qt" => Timely /\ Attentive
  /\ host = "tokio" => TokioTimely

LEMMA HearingNext ==
  ASSUME NoWrap, DueMax >= Cap, HostsInv, HostsInv', OnTime, Hearing,
         [HostsNext]_hostsVars
  PROVE  Hearing'
<1>0. Inbox /\ Inv /\ Inv'
  BY DEF HostsInv
<1>1. CASE UNCHANGED hostsVars
  <2>1. Timely /\ Attentive => Timely' /\ Attentive'
    BY <1>1 DEF hostsVars, hostVars, pumpVars, vars, OnStack, Queued, WakesInTime,
                Timely, Attentive
  <2>2. TokioTimely => TokioTimely'
    BY <1>1 DEF hostsVars, hostVars, tokioVars, vars, Selecting, WakesInTime,
                TokioTimely
  <2> QED BY <2>1, <2>2, HostMoves DEF Hearing
<1>2. CASE host = "caller"
  BY <1>2, HostMoves DEF Hearing
<1>3. CASE host = "qt" /\ PumpNext
  <2>1. PumpTypes /\ PumpTypes' /\ Timely /\ Attentive
    BY <1>3, HostMoves DEF HostsInv, Hearing
  <2> QED BY <1>0, <1>3, <2>1, TimelyNext, AttentiveNext, HostMoves DEF Hearing
<1>4. CASE host = "tokio" /\ TokioNext
  <2>1. TokioTypes /\ TokioTypes' /\ TokioTimely
    BY <1>4, HostMoves DEF HostsInv, Hearing
  <2> QED BY <1>0, <1>4, <2>1, TokioTimelyNext, HostMoves DEF Hearing
<1> QED BY <1>1, <1>2, <1>3, <1>4, HostMoves

(* A pump that is running hears whenever the event loop is back in its own *)
(* hands, and a future that awaits wakes in time: the timer is set to no   *)
(* later than the earliest deadline (but for time the host was kept from   *)
(* running), or a rearm is queued, whatever the hooks sent, stopped,       *)
(* started again or dispatched above a handler.  It needs what the machine *)
(* needs to keep its deadlines: now_ms has not wrapped, and each retry is  *)
(* a submit.                                                               *)
THEOREM HostsNeverDeaf ==
  ASSUME NoWrap, DueMax >= Cap PROVE HostsSpec => []NeverDeaf
<1>1. HostsInit => OnTime /\ Hearing
  <2> SUFFICES ASSUME HostsInit PROVE OnTime /\ Hearing
    OBVIOUS
  <2>1. OnTime
    BY DEF HostsInit, PumpInit, HostInit, Init, TableInit, OnTime
  <2>2. OnStack = {} /\ wake = None /\ begun = 0 /\ at = "idle"
    BY EmptyRange DEF HostsInit, PumpInit, TokioInit, HostInit, OnStack
  <2> QED BY <2>1, <2>2 DEF Hearing, Timely, Attentive, TokioTimely, Selecting
<1>2. HostsInv /\ HostsInv' /\ OnTime /\ Hearing /\ [HostsNext]_hostsVars
        => OnTime' /\ Hearing'
  BY HearingNext, HostsCall, OnTimeNext DEF HostsInv
<1>3. HostsInv /\ Hearing => NeverDeaf
  <2> SUFFICES ASSUME HostsInv, Hearing PROVE NeverDeaf
    OBVIOUS
  <2>1. CASE host = "tokio"
    BY <2>1 DEF Hearing, TokioTimely, NeverDeaf, TokioWatching
  <2>2. CASE host = "caller"
    BY <2>2 DEF HostsInv, Quiet, NeverDeaf, Watching
  <2>3. CASE host = "qt"
    <3>1. Attentive
      BY <2>3 DEF Hearing
    <3>2. stack = <<>> => OnStack = {}
      BY EmptyRange DEF OnStack
    <3>3. "rearm" \in Queued => \E i \in DOMAIN queue : queue[i] = "rearm"
      BY DEF Queued, Range
    <3> QED BY <2>3, <3>1, <3>2, <3>3 DEF Attentive, NeverDeaf, Watching
  <2> QED BY <2>1, <2>2, <2>3 DEF HostsInv, Quiet
<1> QED BY HostsInvInit, HostsInvNext, <1>1, <1>2, <1>3, PTL DEF HostsSpec

(* Where no hook runs an event loop, the pump is deleted only when none of *)
(* its handlers is on the stack, in the run function's hands or not: the   *)
(* run qt_nested shows that the hypothesis is needed.                      *)
THEOREM PumpDeletedUnwound == ASSUME ~MayNest PROVE HostsSpec => []DeletedUnwound
<1> DEFINE U == host = "qt" => Unwound
<1>1. HostsInit => U
  BY DEF HostsInit, PumpInit, HostInit, Unwound
<1>2. HostsInv /\ U /\ [HostsNext]_hostsVars => U'
  <2> SUFFICES ASSUME HostsInv, U, [HostsNext]_hostsVars, host' = "qt"
               PROVE  Unwound'
    OBVIOUS
  <2>1. CASE PumpNext
    BY <2>1, UnwoundNext, HostMoves DEF HostsInv
  <2>2. CASE UNCHANGED hostsVars
    BY <2>2, HostMoves DEF hostsVars, hostVars, pumpVars, Unwound
  <2> QED BY <2>1, <2>2, HostMoves
<1>3. HostsInv /\ U => DeletedUnwound
  BY DEF HostsInv, Quiet, Unwound, DeletedUnwound
<1> HIDE DEF U
<1> QED BY HostsInvInit, HostsInvNext, <1>1, <1>2, <1>3, PTL DEF HostsSpec
=============================================================================
