-------------------------- MODULE DriveDictProofs --------------------------
(***************************************************************************)
(* Theorems about the Python driver: the state machine on a dict, for      *)
(* every number of places, every set of requests, keys, timeouts and       *)
(* retries, and the coroutine that runs it, for every number of runs.      *)
(***************************************************************************)
EXTENDS AsyncioLoop, FiniteSetTheorems, SequenceTheorems, TLAPS

(* An exchange is open exactly while an entry holds it *)
OpenIsLive ==
  \A r \in Requests :
    state[r] = "open" <=> \E i \in DOMAIN live : live[i].req = r

(* What was sent, and when: a request once tried is not idle again, an     *)
(* entry has not more retries left than its submits leave, and it is not   *)
(* due before its timeout.                                                 *)
Spent ==
  /\ \A r \in Requests : sent[r] > 0 <=> state[r] # "idle"
  /\ \A i \in DOMAIN live : live[i].left + sent[live[i].req] <= Retries + 1

Timed ==
  /\ lastTx \in [Requests -> 0 .. Modulus - 1]
  /\ \A i \in DOMAIN live : live[i].deadline >= lastTx[live[i].req] + Timeout

DictInv == TypeOK /\ OpenIsLive /\ Spent /\ Timed

-----------------------------------------------------------------------------
(* An enumeration of positions of the dict takes each of them once *)
LEMMA InOrderOnce ==
  ASSUME live \in Seq(Entries), NEW P \in SUBSET DOMAIN live, NEW o \in InOrder(P)
  PROVE  /\ Cardinality(P) \in Nat
         /\ DOMAIN o = 1 .. Cardinality(P)
         /\ \A j \in DOMAIN o : o[j] \in P
         /\ \A i, j \in DOMAIN o : o[i] = o[j] => i = j
         /\ \A i \in P : \E j \in DOMAIN o : o[j] = i
<1>1. Len(live) \in Nat /\ DOMAIN live = 1 .. Len(live)
  BY LenProperties
<1>2. IsFiniteSet(1 .. Len(live))
  BY <1>1, FS_Interval
<1>3. IsFiniteSet(P) /\ Cardinality(P) \in Nat
  BY <1>1, <1>2, FS_Subset, FS_CardinalityType
<1>4. /\ o \in [1 .. Cardinality(P) -> P]
      /\ \A i, j \in DOMAIN o : i < j => o[i] < o[j]
      /\ \A i \in P : \E j \in DOMAIN o : o[j] = i
  BY DEF InOrder
<1>5. ASSUME NEW i \in DOMAIN o, NEW j \in DOMAIN o, o[i] = o[j] PROVE i = j
  <2>1. i \in Nat /\ j \in Nat /\ o[i] \in Nat /\ o[j] \in Nat
    BY <1>1, <1>3, <1>4
  <2> QED BY <1>4, <1>5, <2>1
<1> QED BY <1>3, <1>4, <1>5

(* The entries at positions P, some of them changed *)
LEMMA TakenAreEntries ==
  ASSUME live \in Seq(Entries), NEW P \in SUBSET DOMAIN live, NEW o \in InOrder(P),
         live' = [j \in DOMAIN o |-> live'[j]],
         \A j \in DOMAIN o : live'[j] \in Entries
  PROVE  live' \in Seq(Entries)
<1>1. Cardinality(P) \in Nat /\ DOMAIN o = 1 .. Cardinality(P)
  BY InOrderOnce
<1>2. \A j \in 1 .. Cardinality(P) : live'[j] \in Entries
  BY <1>1
<1>3. [j \in 1 .. Cardinality(P) |-> live'[j]] \in Seq(Entries)
  BY <1>1, <1>2, IsASeq
<1> QED BY <1>1, <1>3

-----------------------------------------------------------------------------
LEMMA DictInit == Init => DictInv
<1> SUFFICES ASSUME Init PROVE DictInv
  OBVIOUS
<1> USE SlotTableAssumption, DictAssumption
<1>1. <<>> \in Seq(Entries)
  BY EmptySeq, Zenon
<1>2. live = <<>> /\ DOMAIN live = {}
  BY DEF Init
<1> QED BY <1>1, <1>2 DEF Init, DictInv, TypeOK, OpenIsLive, Spent, Timed

LEMMA EntryOnce ==
  ASSUME DictInv, NEW k, NEW i \in Entry(k)
  PROVE  /\ Entry(k) = {i} /\ i \in DOMAIN live
         /\ live[i] \in Entries /\ live[i].req \in Requests
         /\ state[live[i].req] = "open"
<1>1. i \in DOMAIN live /\ KeyOf[live[i].req] = k
  BY DEF Entry
<1>2. live[i] \in Entries
  BY <1>1, ElementOfSeq, LenProperties DEF DictInv, TypeOK
<1>3. Entry(k) = {i}
  BY <1>1 DEF DictInv, TypeOK, Entry
<1> QED BY <1>1, <1>2, <1>3 DEF DictInv, OpenIsLive, Entries

LEMMA LiveEntries ==
  ASSUME live \in Seq(Entries)
  PROVE  \A i \in DOMAIN live :
           /\ live[i] \in Entries /\ live[i].req \in Requests
           /\ live[i].deadline \in 0 .. Modulus + Timeout
           /\ live[i].left \in 0 .. Retries
<1>1. \A i \in DOMAIN live : live[i] \in Entries
  BY ElementOfSeq, LenProperties
<1> QED BY <1>1 DEF Entries

LEMMA DictSend ==
  ASSUME DictInv, NEW r \in Requests, Send(r)
  PROVE  DictInv'
<1> USE SlotTableAssumption, DictAssumption
<1> DEFINE k == KeyOf[r]
           e == [req |-> r, deadline |-> clock + Timeout, left |-> Retries]
<1>0. TypeOK /\ OpenIsLive /\ Spent /\ Timed /\ state[r] = "idle"
  BY DEF DictInv, Send
<1>1. CASE UNCHANGED dictVars
  BY <1>0, <1>1 DEF dictVars, Send, DictInv, TypeOK, OpenIsLive, Spent, Timed
<1>2. CASE ~UNCHANGED dictVars
  <2>1. /\ ~Refuses(k)
        /\ live' = IF Entry(k) = {} THEN Append(live, e)
                   ELSE [i \in DOMAIN live |-> IF i \in Entry(k) THEN e ELSE live[i]]
        /\ state' = [q \in Requests |->
                       IF q = r THEN "open"
                       ELSE IF \E i \in Entry(k) : live[i].req = q THEN "replaced"
                       ELSE state[q]]
        /\ sent' = [sent EXCEPT ![r] = 1]
        /\ lastTx' = [lastTx EXCEPT ![r] = clock]
        /\ clock' = clock
    BY <1>2 DEF Send
  <2>2. /\ live \in Seq(Entries) /\ Len(live) \in Nat
        /\ DOMAIN live = 1 .. Len(live) /\ clock \in 0 .. Modulus - 1
    BY <1>0, LenProperties DEF TypeOK
  <2>3. e \in Entries /\ e.req = r /\ e.deadline = clock + Timeout /\ e.left = Retries
    BY <2>2 DEF Entries
  <2>4. \A i \in DOMAIN live :
          /\ live[i] \in Entries /\ live[i].req \in Requests
          /\ live[i].req # r
    BY <1>0, <2>2, LiveEntries DEF OpenIsLive
  <2> HIDE DEF e
  <2>5. PICK p : /\ p \in DOMAIN live'
                 /\ live'[p] = e
                 /\ \A i \in DOMAIN live' \ {p} :
                      /\ i \in DOMAIN live /\ live'[i] = live[i] /\ i \notin Entry(k)
                 /\ \A i \in DOMAIN live \ Entry(k) : i \in DOMAIN live' /\ i # p
                 /\ live' \in Seq(Entries)
    <3>1. CASE Entry(k) = {}
      <4>1. /\ live' \in Seq(Entries) /\ Len(live') = Len(live) + 1
            /\ DOMAIN live' = 1 .. Len(live) + 1
            /\ live'[Len(live) + 1] = e
            /\ \A i \in 1 .. Len(live) : live'[i] = live[i]
        BY <2>1, <2>2, <2>3, <3>1, AppendProperties
      <4> WITNESS Len(live) + 1
      <4> QED BY <2>2, <3>1, <4>1
    <3>2. CASE Entry(k) # {}
      <4>1. PICK i \in Entry(k) : TRUE
        BY <3>2
      <4>2. Entry(k) = {i} /\ i \in DOMAIN live
        BY EntryOnce DEF DictInv
      <4>3. live' = [j \in DOMAIN live |-> IF j \in Entry(k) THEN e ELSE live[j]]
        BY <2>1, <3>2
      <4>4. live' = [j \in 1 .. Len(live) |-> IF j \in Entry(k) THEN e ELSE live[j]]
        BY <2>2, <4>3
      <4>5. \A j \in 1 .. Len(live) : (IF j \in Entry(k) THEN e ELSE live[j]) \in Entries
        BY <2>2, <2>3, <2>4
      <4>6. [j \in 1 .. Len(live) |-> IF j \in Entry(k) THEN e ELSE live[j]] \in Seq(Entries)
        BY <2>2, <4>5, IsASeq
      <4> WITNESS i
      <4> QED BY <2>2, <4>2, <4>3, <4>4, <4>6
    <3> QED BY <3>1, <3>2
  <2>6. \A i \in DOMAIN live \ Entry(k) : KeyOf[live[i].req] # k
    BY DEF Entry
  <2>7. /\ state' \in [Requests -> {"idle", "open", "answered", "expired", "replaced"}]
        /\ sent' \in [Requests -> 0 .. Retries + 1]
        /\ lastTx' \in [Requests -> 0 .. Modulus - 1]
    BY <1>0, <2>1, <2>2 DEF TypeOK, Timed
  <2>8. TypeOK'
    <3>1. ASSUME NEW i \in DOMAIN live', NEW j \in DOMAIN live',
                 KeyOf[live'[i].req] = KeyOf[live'[j].req]
          PROVE  i = j
      <4>1. \A l \in DOMAIN live' \ {p} :
              l \in DOMAIN live /\ live'[l] = live[l] /\ KeyOf[live[l].req] # k
        BY <2>5, <2>6
      <4>2. KeyOf[live'[p].req] = k
        BY <2>3, <2>5
      <4> QED BY <1>0, <3>1, <4>1, <4>2 DEF TypeOK
    <3> QED BY <2>1, <2>2, <2>5, <2>7, <3>1 DEF TypeOK
  <2>9. OpenIsLive'
    <3> SUFFICES ASSUME NEW q \in Requests
                 PROVE  state'[q] = "open" <=> \E i \in DOMAIN live' : live'[i].req = q
      BY DEF OpenIsLive
    <3>1. CASE q = r
      BY <2>1, <2>3, <2>5, <3>1
    <3>2. CASE q # r /\ \E i \in Entry(k) : live[i].req = q
      <4>1. PICK i \in Entry(k) : live[i].req = q
        BY <3>2
      <4>2. state'[q] = "replaced"
        BY <2>1, <3>2
      <4>3. \A j \in DOMAIN live : live[j].req = q => j \in Entry(k)
        BY <4>1 DEF Entry
      <4> QED BY <2>3, <2>5, <3>2, <4>2, <4>3
    <3>3. CASE q # r /\ \A i \in Entry(k) : live[i].req # q
      <4>1. state'[q] = state[q]
        BY <2>1, <3>3
      <4>2. (\E i \in DOMAIN live : live[i].req = q)
              <=> \E i \in DOMAIN live' : live'[i].req = q
        BY <2>3, <2>5, <3>3
      <4> QED BY <1>0, <4>1, <4>2 DEF OpenIsLive
    <3> QED BY <3>1, <3>2, <3>3
  <2>10. Spent'
    <3>1. \A q \in Requests : sent'[q] > 0 <=> state'[q] # "idle"
      <4> SUFFICES ASSUME NEW q \in Requests PROVE sent'[q] > 0 <=> state'[q] # "idle"
        OBVIOUS
      <4>1. CASE q = r
        BY <1>0, <2>1, <4>1 DEF TypeOK
      <4>2. CASE q # r /\ \E i \in Entry(k) : live[i].req = q
        <5>1. state[q] = "open"
          BY <1>0, <4>2 DEF OpenIsLive, Entry
        <5> QED BY <1>0, <2>1, <4>2, <5>1 DEF TypeOK, Spent
      <4>3. CASE q # r /\ \A i \in Entry(k) : live[i].req # q
        BY <1>0, <2>1, <4>3 DEF TypeOK, Spent
      <4> QED BY <4>1, <4>2, <4>3
    <3>2. \A i \in DOMAIN live' : live'[i].left + sent'[live'[i].req] <= Retries + 1
      BY <1>0, <2>1, <2>3, <2>4, <2>5 DEF TypeOK, Spent
    <3> QED BY <3>1, <3>2 DEF Spent
  <2>11. Timed'
    <3> SUFFICES ASSUME NEW i \in DOMAIN live'
                 PROVE  live'[i].deadline >= lastTx'[live'[i].req] + Timeout
      BY <2>7 DEF Timed
    <3>1. CASE i = p
      BY <1>0, <2>1, <2>2, <2>3, <2>5, <3>1 DEF Timed
    <3>2. CASE i # p
      <4>1. i \in DOMAIN live /\ live'[i] = live[i] /\ live[i].req # r
        BY <2>4, <2>5, <3>2
      <4>2. lastTx'[live[i].req] = lastTx[live[i].req]
        BY <1>0, <2>1, <2>4, <4>1 DEF Timed
      <4> QED BY <1>0, <4>1, <4>2 DEF Timed
    <3> QED BY <3>1, <3>2
  <2> QED BY <2>8, <2>9, <2>10, <2>11 DEF DictInv
<1> QED BY <1>1, <1>2

(* What is left when the entries at positions P stay, some of them with    *)
(* another deadline                                                        *)
LEMMA TakenInv ==
  ASSUME DictInv, NEW P \in SUBSET DOMAIN live, NEW o \in InOrder(P),
         live' = [j \in DOMAIN o |-> live'[j]],
         \A j \in DOMAIN o : live'[j] \in Entries /\ live'[j].req = live[o[j]].req
  PROVE  /\ live' \in Seq(Entries)
         /\ \A i, j \in DOMAIN live' : KeyOf[live'[i].req] = KeyOf[live'[j].req] => i = j
         /\ \A r \in Requests : (\E j \in DOMAIN live' : live'[j].req = r)
                                 <=> \E i \in P : live[i].req = r
<1>0. live \in Seq(Entries)
  BY DEF DictInv, TypeOK
<1>1. DOMAIN live' = DOMAIN o
  OBVIOUS
<1>2. live' \in Seq(Entries)
  BY <1>0, TakenAreEntries
<1>3. \A j \in DOMAIN o : o[j] \in P
  BY <1>0, InOrderOnce, Zenon
<1>4. \A i, j \in DOMAIN o : o[i] = o[j] => i = j
  BY <1>0, InOrderOnce, Zenon
<1>5. \A i \in P : \E j \in DOMAIN o : o[j] = i
  BY <1>0, InOrderOnce, Zenon
<1>6. ASSUME NEW i \in DOMAIN live', NEW j \in DOMAIN live',
             KeyOf[live'[i].req] = KeyOf[live'[j].req]
      PROVE  i = j
  <2>1. o[i] \in DOMAIN live /\ o[j] \in DOMAIN live
    BY <1>1, <1>3
  <2>2. KeyOf[live[o[i]].req] = KeyOf[live[o[j]].req]
    BY <1>1, <1>6
  <2>3. o[i] = o[j]
    BY <2>1, <2>2 DEF DictInv, TypeOK
  <2> QED BY <1>1, <1>4, <2>3
<1>7. ASSUME NEW r \in Requests
      PROVE  (\E j \in DOMAIN live' : live'[j].req = r) <=> \E i \in P : live[i].req = r
  BY <1>1, <1>3, <1>5
<1> QED BY <1>2, <1>6, <1>7

LEMMA DictAnswers ==
  ASSUME DictInv, NEW k \in Keys \cup {NoKey}, OnMessage(k)
  PROVE  DictInv'
<1> USE SlotTableAssumption, DictAssumption
<1>0. TypeOK /\ OpenIsLive /\ Spent /\ Timed
  BY DEF DictInv
<1>1. CASE UNCHANGED dictVars
  BY <1>0, <1>1 DEF dictVars, OnMessage, DictInv, TypeOK, OpenIsLive, Spent, Timed
<1>2. ASSUME NEW i \in Entry(k), NEW o \in InOrder(DOMAIN live \ {i}),
             live' = [j \in DOMAIN o |-> live[o[j]]],
             state' = [state EXCEPT ![live[i].req] = "answered"],
             UNCHANGED <<sent, lastTx, clock>>
      PROVE  DictInv'
  <2> DEFINE P == DOMAIN live \ {i}
             a == live[i].req
  <2>1. /\ i \in DOMAIN live /\ a \in Requests /\ state[a] = "open"
    BY EntryOnce
  <2>2. \A j \in DOMAIN o : o[j] \in P
    BY <1>0, InOrderOnce, Zenon DEF TypeOK
  <2>3. \A j \in DOMAIN live' : /\ j \in DOMAIN o /\ live'[j] = live[o[j]]
                                /\ o[j] \in DOMAIN live /\ live'[j] \in Entries
                                /\ live'[j].req \in Requests
    BY <1>0, <1>2, <2>2, LiveEntries DEF TypeOK
  <2>4. /\ live' \in Seq(Entries)
        /\ \A m, n \in DOMAIN live' :
             KeyOf[live'[m].req] = KeyOf[live'[n].req] => m = n
        /\ \A r \in Requests : (\E j \in DOMAIN live' : live'[j].req = r)
                                <=> \E m \in P : live[m].req = r
    <3>1. \A j \in DOMAIN o : live'[j] \in Entries /\ live'[j].req = live[o[j]].req
      BY <1>2, <2>3
    <3>2. live' = [j \in DOMAIN o |-> live'[j]]
      BY <1>2
    <3>3. P \in SUBSET DOMAIN live /\ o \in InOrder(P)
      OBVIOUS
    <3> HIDE DEF P
    <3> QED BY <3>1, <3>2, <3>3, TakenInv
  <2>5. TypeOK'
    BY <1>0, <1>2, <2>1, <2>4 DEF TypeOK
  <2>6. \A m \in P : live[m].req # a
    BY <1>0, <2>1 DEF TypeOK
  <2>7. OpenIsLive'
    <3> SUFFICES ASSUME NEW r \in Requests
                 PROVE  state'[r] = "open" <=> \E j \in DOMAIN live' : live'[j].req = r
      BY DEF OpenIsLive
    <3>1. CASE r = a
      <4>1. state'[r] = "answered"
        BY <1>0, <1>2, <2>1, <3>1 DEF TypeOK
      <4>2. ~ \E m \in P : live[m].req = r
        BY <2>6, <3>1
      <4> QED BY <2>4, <4>1, <4>2
    <3>2. CASE r # a
      <4>1. state'[r] = state[r]
        BY <1>0, <1>2, <2>1, <3>2 DEF TypeOK
      <4>2. (\E m \in DOMAIN live : live[m].req = r) <=> \E m \in P : live[m].req = r
        BY <3>2
      <4> QED BY <1>0, <2>4, <4>1, <4>2 DEF OpenIsLive
    <3> QED BY <3>1, <3>2
  <2>8. Spent'
    BY <1>0, <1>2, <2>1, <2>3 DEF TypeOK, Spent
  <2>9. Timed'
    BY <1>0, <1>2, <2>3 DEF Timed
  <2> QED BY <2>5, <2>7, <2>8, <2>9 DEF DictInv
<1> QED BY <1>1, <1>2 DEF OnMessage

(* The entries one `step` walks: those it gives up, those it tries again   *)
LEMMA StepEntries ==
  ASSUME DictInv, NEW i \in DOMAIN live
  PROVE  /\ Expires(live[i]) => clock >= lastTx[live[i].req] + Timeout
         /\ Expires(live[i]) => ~Resends(live[i]) /\ live[i].left = 0
         /\ Resends(live[i]) =>
              /\ clock >= lastTx[live[i].req] + Timeout
              /\ Again(live[i]) \in Entries
              /\ Again(live[i]).req = live[i].req
              /\ Again(live[i]).deadline = clock + Timeout
              /\ Again(live[i]).deadline >= live[i].deadline
              /\ Again(live[i]).left = live[i].left - 1
<1> USE SlotTableAssumption, DictAssumption
<1>0. TypeOK /\ Timed
  BY DEF DictInv
<1>1. /\ live[i] \in Entries /\ live[i].req \in Requests
      /\ live[i].deadline \in 0 .. Modulus + Timeout
      /\ live[i].left \in 0 .. Retries
  BY <1>0, LiveEntries DEF TypeOK
<1>2. clock \in 0 .. Modulus - 1
  BY <1>0 DEF TypeOK
<1>3. live[i].deadline >= lastTx[live[i].req] + Timeout /\ lastTx[live[i].req] \in Nat
  BY <1>0, <1>1 DEF Timed
<1>4. Due(live[i]) => clock >= lastTx[live[i].req] + Timeout
  BY <1>1, <1>2, <1>3 DEF Due
<1>5. ASSUME Resends(live[i])
      PROVE  /\ Again(live[i]) \in Entries
             /\ Again(live[i]).req = live[i].req
             /\ Again(live[i]).deadline = clock + Timeout
             /\ Again(live[i]).deadline >= live[i].deadline
             /\ Again(live[i]).left = live[i].left - 1
  <2>1. /\ live[i].left \in 1 .. Retries /\ clock >= live[i].deadline
        /\ clock + Timeout \in 0 .. Modulus + Timeout
        /\ live[i].left - 1 \in 0 .. Retries
    BY <1>1, <1>2, <1>5 DEF Resends, Due
  <2>3. /\ Again(live[i]).req = live[i].req
        /\ Again(live[i]).deadline = clock + Timeout
        /\ Again(live[i]).left = live[i].left - 1
    BY DEF Again
  <2>5. Again(live[i]) \in Entries
    BY <1>1, <2>1 DEF Entries, Again
  <2>6. clock + Timeout >= live[i].deadline
    BY <1>1, <1>2, <2>1
  <2> QED BY <2>3, <2>5, <2>6
<1> QED BY <1>1, <1>4, <1>5 DEF Expires, Resends

LEMMA DictStep ==
  ASSUME DictInv, Step
  PROVE  DictInv'
<1> USE SlotTableAssumption, DictAssumption
<1>0. TypeOK /\ OpenIsLive /\ Spent /\ Timed
  BY DEF DictInv
<1>1. PICK o \in InOrder(Kept), tried \in SUBSET Resent :
        Stepped(o, tried) /\ UNCHANGED clock
  BY DEF Step
<1>p. Kept \in SUBSET DOMAIN live /\ Resent \in SUBSET DOMAIN live
  BY DEF Kept, Resent
<1>s. /\ live' = [j \in DOMAIN o |-> Walked(live[o[j]])]
      /\ state' = [r \in Requests |->
                     IF \E i \in DOMAIN live : live[i].req = r /\ Expires(live[i])
                     THEN "expired" ELSE state[r]]
      /\ sent' = [r \in Requests |->
                    IF \E i \in tried : live[i].req = r THEN sent[r] + 1 ELSE sent[r]]
      /\ lastTx' = [r \in Requests |->
                      IF \E i \in tried : live[i].req = r THEN clock ELSE lastTx[r]]
      /\ UNCHANGED clock
  BY <1>1 DEF Stepped
<1>k. /\ \A i \in DOMAIN live : i \in Kept <=> ~Expires(live[i])
      /\ \A i \in DOMAIN live : i \in Resent <=> Resends(live[i])
      /\ \A i \in tried : i \in DOMAIN live /\ Resends(live[i])
      /\ \A i \in DOMAIN live : Walked(live[i]) =
           IF Resends(live[i]) THEN Again(live[i]) ELSE live[i]
  BY DEF Kept, Resent, Walked
<1>2. \A i \in DOMAIN live :
        /\ live[i] \in Entries /\ live[i].req \in Requests
        /\ live[i].deadline \in 0 .. Modulus + Timeout
        /\ live[i].left \in 0 .. Retries
        /\ state[live[i].req] = "open"
  BY <1>0, LiveEntries DEF TypeOK, OpenIsLive
<1>3. \A i, j \in DOMAIN live : live[i].req = live[j].req => i = j
  BY <1>0 DEF TypeOK
<1>4. \A i \in DOMAIN live : Walked(live[i]) \in Entries /\ Walked(live[i]).req = live[i].req
  BY <1>2, StepEntries DEF Walked
<1>5. \A j \in DOMAIN live' :
        /\ j \in DOMAIN o /\ live'[j] = Walked(live[o[j]])
        /\ o[j] \in Kept /\ o[j] \in DOMAIN live /\ live'[j].req = live[o[j]].req
  <2>1. \A j \in DOMAIN o : o[j] \in Kept
    BY <1>0, <1>p, InOrderOnce, Zenon DEF TypeOK
  <2> QED BY <1>p, <1>s, <1>k, <1>4, <2>1
<1>6. /\ live' \in Seq(Entries)
      /\ \A m, n \in DOMAIN live' :
           KeyOf[live'[m].req] = KeyOf[live'[n].req] => m = n
      /\ \A r \in Requests : (\E j \in DOMAIN live' : live'[j].req = r)
                              <=> \E m \in Kept : live[m].req = r
  <2>1. \A j \in DOMAIN o : live'[j] \in Entries /\ live'[j].req = live[o[j]].req
    BY <1>p, <1>s, <1>k, <1>4, <1>5
  <2>2. live' = [j \in DOMAIN o |-> live'[j]]
    BY <1>p, <1>s, <1>k
  <2> QED BY <1>1, <1>p, <2>1, <2>2, TakenInv
<1>7. TypeOK'
  <2>1. \A i \in DOMAIN live :
          i \in tried => sent[live[i].req] + 1 \in 0 .. Retries + 1
    <3> SUFFICES ASSUME NEW i \in DOMAIN live, i \in tried
                 PROVE  sent[live[i].req] + 1 \in 0 .. Retries + 1
      OBVIOUS
    <3>1. live[i].left > 0 /\ live[i].left \in Nat /\ sent[live[i].req] \in Nat
      BY <1>0, <1>2, <1>k DEF TypeOK, Resends
    <3>2. live[i].left + sent[live[i].req] <= Retries + 1
      BY <1>0 DEF Spent
    <3> QED BY <3>1, <3>2
  <2>2. sent' \in [Requests -> 0 .. Retries + 1]
    BY <1>0, <1>p, <1>s, <1>k, <2>1 DEF TypeOK
  <2> QED BY <1>0, <1>p, <1>s, <1>k, <1>6, <2>2 DEF TypeOK
<1>8. OpenIsLive'
  <2> SUFFICES ASSUME NEW r \in Requests
               PROVE  state'[r] = "open" <=> \E j \in DOMAIN live' : live'[j].req = r
    BY DEF OpenIsLive
  <2>1. (\E j \in DOMAIN live' : live'[j].req = r) <=> \E m \in Kept : live[m].req = r
    BY <1>6
  <2>2. CASE \E i \in DOMAIN live : live[i].req = r /\ Expires(live[i])
    BY <1>p, <1>s, <1>k, <1>3, <2>1, <2>2
  <2>3. CASE \A i \in DOMAIN live : live[i].req = r => ~Expires(live[i])
    <3>1. state'[r] = state[r]
      BY <1>p, <1>s, <1>k, <2>3
    <3> QED BY <1>0, <1>k, <1>p, <2>1, <2>3, <3>1 DEF OpenIsLive
  <2> QED BY <2>2, <2>3
<1>9. Spent'
  <2>1. ASSUME NEW r \in Requests PROVE sent'[r] > 0 <=> state'[r] # "idle"
    <3>1. \A i \in DOMAIN live : live[i].req = r => sent[r] > 0 /\ state[r] = "open"
      BY <1>0, <1>2 DEF Spent
    <3> QED BY <1>0, <1>p, <1>s, <1>k, <3>1 DEF TypeOK, Spent
  <2>2. ASSUME NEW j \in DOMAIN live'
        PROVE  live'[j].left + sent'[live'[j].req] <= Retries + 1
    <3> DEFINE i == o[j]
    <3>1. /\ i \in DOMAIN live /\ live'[j] = Walked(live[i]) /\ live'[j].req = live[i].req
          /\ sent[live[i].req] \in Nat
      BY <1>0, <1>2, <1>5, <2>2 DEF TypeOK
    <3>2. live[i].left + sent[live[i].req] <= Retries + 1
      BY <1>0, <3>1 DEF Spent
    <3>3. CASE Resends(live[i])
      <4>1. live'[j].left = live[i].left - 1
        BY <1>k, <3>1, <3>3, StepEntries
      <4>2. sent'[live[i].req] <= sent[live[i].req] + 1 /\ sent'[live[i].req] \in Nat
        BY <1>0, <1>p, <1>s, <1>k, <1>2, <3>1
      <4>3. live[i].left \in Nat
        BY <1>2, <3>1
      <4> HIDE DEF i
      <4> QED BY <3>1, <3>2, <4>1, <4>2, <4>3
    <3>4. CASE ~Resends(live[i])
      <4>1. live'[j].left = live[i].left
        BY <1>k, <3>1, <3>4
      <4>2. sent'[live[i].req] = sent[live[i].req]
        BY <1>p, <1>s, <1>k, <1>2, <1>3, <3>1, <3>4
      <4> QED BY <3>1, <3>2, <4>1, <4>2
    <3> QED BY <3>3, <3>4
  <2> QED BY <2>1, <2>2 DEF Spent
<1>10. Timed'
  <2>1. lastTx' \in [Requests -> 0 .. Modulus - 1]
    BY <1>0, <1>p, <1>s, <1>k DEF TypeOK, Timed
  <2>2. ASSUME NEW j \in DOMAIN live'
        PROVE  live'[j].deadline >= lastTx'[live'[j].req] + Timeout
    <3> DEFINE i == o[j]
    <3>1. /\ i \in DOMAIN live /\ live'[j] = Walked(live[i]) /\ live'[j].req = live[i].req
          /\ live[i].deadline >= lastTx[live[i].req] + Timeout
          /\ lastTx[live[i].req] \in Nat
      BY <1>0, <1>2, <1>5, <2>2 DEF Timed
    <3>2. CASE Resends(live[i])
      <4>1. /\ live'[j].deadline = clock + Timeout
            /\ clock >= lastTx[live[i].req] + Timeout
        BY <1>k, <3>1, <3>2, StepEntries
      <4>2. lastTx'[live[i].req] = clock \/ lastTx'[live[i].req] = lastTx[live[i].req]
        BY <1>p, <1>s, <1>k, <1>2, <3>1
      <4>3. clock \in Nat
        BY <1>0 DEF TypeOK
      <4> HIDE DEF i
      <4> QED BY <3>1, <4>1, <4>2, <4>3
    <3>3. CASE ~Resends(live[i])
      <4>1. live'[j].deadline = live[i].deadline
        BY <1>k, <3>1, <3>3
      <4>2. lastTx'[live[i].req] = lastTx[live[i].req]
        BY <1>p, <1>s, <1>k, <1>2, <1>3, <3>1, <3>3
      <4> QED BY <3>1, <4>1, <4>2
    <3> QED BY <3>2, <3>3
  <2> QED BY <2>1, <2>2 DEF Timed
<1> QED BY <1>7, <1>8, <1>9, <1>10 DEF DictInv

LEMMA DictTick ==
  ASSUME DictInv, clock' \in 0 .. Modulus - 1, UNCHANGED dictVars
  PROVE  DictInv'
BY DEF dictVars, DictInv, TypeOK, OpenIsLive, Spent, Timed

LEMMA TickClock ==
  ASSUME DictInv, Tick
  PROVE  clock' \in 0 .. Modulus - 1 /\ UNCHANGED dictVars
BY DictAssumption DEF Tick, DictInv, TypeOK

LEMMA DictNext == DictInv /\ [Next]_vars => DictInv'
<1> SUFFICES ASSUME DictInv, [Next]_vars PROVE DictInv'
  OBVIOUS
<1>1. CASE UNCHANGED vars
  BY <1>1, DictTick DEF vars, dictVars, DictInv, TypeOK
<1>2. CASE Tick
  BY <1>2, DictTick, TickClock
<1> QED BY <1>1, <1>2, DictSend, DictAnswers, DictStep DEF Next

(* In every reachable state of the Python machine every variable has its   *)
(* type, no key is held twice, an exchange is open exactly while an entry  *)
(* holds it, and no entry has more retries left than its submits leave.    *)
THEOREM DictTracks == Spec => []DictInv
BY DictInit, DictNext, PTL DEF Spec

-----------------------------------------------------------------------------
(* What became of the exchanges, step by step                              *)
LEMMA StatesKept ==
  ASSUME DictInv, [Next]_vars, NEW r \in Requests
  PROVE  /\ state[r] # "idle" => state'[r] # "idle"
         /\ state'[r] = "replaced" /\ state[r] # "replaced" =>
              \E q \in Requests \ {r} : state'[q] # "idle" /\ KeyOf[q] = KeyOf[r]
<1>0. TypeOK /\ OpenIsLive
  BY DEF DictInv
<1>1. ASSUME NEW q \in Requests, Send(q), ~UNCHANGED state
      PROVE  /\ state[r] # "idle" => state'[r] # "idle"
             /\ state'[r] = "replaced" /\ state[r] # "replaced" =>
                  r # q /\ state'[q] # "idle" /\ KeyOf[q] = KeyOf[r]
  <2>1. state' = [s \in Requests |->
                    IF s = q THEN "open"
                    ELSE IF \E i \in Entry(KeyOf[q]) : live[i].req = s THEN "replaced"
                    ELSE state[s]]
    BY <1>1 DEF Send, dictVars
  <2>2. \A i \in Entry(KeyOf[q]) : KeyOf[live[i].req] = KeyOf[q]
    BY DEF Entry
  <2> QED BY <2>1, <2>2
<1>2. ASSUME NEW k \in Keys \cup {NoKey}, OnMessage(k)
      PROVE  /\ state[r] # "idle" => state'[r] # "idle"
             /\ state'[r] = "replaced" => state[r] = "replaced"
  BY <1>0, <1>2 DEF OnMessage, TypeOK, dictVars
<1>3. ASSUME Step
      PROVE  /\ state[r] # "idle" => state'[r] # "idle"
             /\ state'[r] = "replaced" => state[r] = "replaced"
  BY <1>3 DEF Step, Stepped
<1>4. CASE UNCHANGED state
  BY <1>4
<1>5. Tick \/ UNCHANGED vars => UNCHANGED state
  BY DEF Tick, vars, dictVars
<1> QED BY <1>1, <1>2, <1>3, <1>4, <1>5 DEF Next

(* A request under a key that waits ends the exchange waiting there, and   *)
(* nothing else in the machine does: an exchange that has been replaced    *)
(* has a newer one with its key.                                           *)
THEOREM ReplacedOnlyByItsKey == Spec => []ReplacedByItsKey
<1>1. Init => ReplacedByItsKey
  BY DEF Init, ReplacedByItsKey
<1>2. DictInv /\ ReplacedByItsKey /\ [Next]_vars => ReplacedByItsKey'
  <2> SUFFICES ASSUME DictInv, ReplacedByItsKey, [Next]_vars,
                      NEW r \in Requests, state'[r] = "replaced"
               PROVE  \E q \in Requests \ {r} :
                        state'[q] # "idle" /\ KeyOf[q] = KeyOf[r]
    BY DEF ReplacedByItsKey
  <2>1. CASE state[r] = "replaced"
    <3>1. PICK q \in Requests \ {r} : state[q] # "idle" /\ KeyOf[q] = KeyOf[r]
      BY <2>1 DEF ReplacedByItsKey
    <3> QED BY <3>1, StatesKept
  <2> QED BY <2>1, StatesKept
<1> QED BY <1>1, <1>2, DictTracks, PTL DEF Spec

(* The Python machine neither sends an exchange again nor gives it up      *)
(* before its timeout has passed since it was last sent, not even when the *)
(* clock starts again from 0 or when a submit has raised: a deadline that  *)
(* does not wrap can be late, and is never early.                          *)
THEOREM DictPatience == Spec => Patience
<1> DEFINE Early(r) == /\ sent'[r] > sent[r] /\ sent[r] > 0
                       => clock >= lastTx[r] + Timeout
           GivenUp(r) == /\ state[r] = "open" /\ state'[r] = "expired"
                         => clock >= lastTx[r] + Timeout
<1>1. ASSUME DictInv, [Next]_vars, NEW r \in Requests
      PROVE  Early(r) /\ GivenUp(r)
  <2>0. TypeOK /\ Spent
    BY <1>1 DEF DictInv
  <2>1. ASSUME NEW q \in Requests, Send(q) PROVE Early(r) /\ GivenUp(r)
    <3>1. sent[q] = 0
      BY <2>0, <2>1 DEF Send, Spent, TypeOK
    <3>2. (sent' = sent \/ sent' = [sent EXCEPT ![q] = 1])
      BY <2>1 DEF Send, dictVars
    <3>3. state'[r] = "expired" => state[r] = "expired"
      BY <2>1 DEF Send, dictVars
    <3> QED BY <2>0, <3>1, <3>2, <3>3 DEF TypeOK
  <2>2. ASSUME NEW k \in Keys \cup {NoKey}, OnMessage(k)
        PROVE  Early(r) /\ GivenUp(r)
    <3>1. sent' = sent
      BY <2>2 DEF OnMessage, dictVars
    <3>2. state'[r] = "expired" => state[r] = "expired"
      BY <2>0, <2>2 DEF OnMessage, dictVars, TypeOK
    <3> QED BY <2>0, <3>1, <3>2 DEF TypeOK
  <2>3. ASSUME Step PROVE Early(r) /\ GivenUp(r)
    <3>1. PICK o \in InOrder(Kept), tried \in SUBSET Resent : Stepped(o, tried)
      BY <2>3 DEF Step
    <3>2. sent'[r] > sent[r] => \E i \in tried : live[i].req = r
      BY <2>0, <3>1 DEF Stepped, TypeOK
    <3>3. state[r] = "open" /\ state'[r] = "expired" =>
            \E i \in DOMAIN live : live[i].req = r /\ Expires(live[i])
      BY <3>1 DEF Stepped
    <3>4. \A i \in tried : i \in DOMAIN live /\ Resends(live[i])
      BY DEF Resent
    <3> QED BY <1>1, <3>2, <3>3, <3>4, StepEntries
  <2>4. CASE Tick \/ UNCHANGED vars
    BY <2>0, <2>4 DEF Tick, vars, dictVars, TypeOK
  <2> QED BY <1>1, <2>1, <2>2, <2>3, <2>4 DEF Next
<1>2. DictInv /\ [Next]_vars => PatientStep
  BY <1>1 DEF PatientStep
<1> QED BY <1>2, DictTracks, PTL DEF Patience, Spec

-----------------------------------------------------------------------------
(* The exchanges that have expired, and the count of them                  *)
Expired == {r \in Requests : state[r] = "expired"}

Told == IsFiniteSet(Expired) /\ told = Cardinality(Expired)

LEMMA ToldKept ==
  ASSUME Told, UNCHANGED told,
         \A r \in Requests : state'[r] = "expired" <=> state[r] = "expired"
  PROVE  Told'
<1>1. Expired' = Expired
  BY DEF Expired
<1> QED BY <1>1 DEF Told

(* The walk gives up one exchange for each entry it counts *)
LEMMA ToldStep ==
  ASSUME DictInv, Told, Step, ~SubmitFails
  PROVE  Told'
<1>0. TypeOK /\ OpenIsLive
  BY DEF DictInv
<1> DEFINE E == {i \in DOMAIN live : Expires(live[i])}
           N == {live[i].req : i \in E}
<1>1. /\ state' = [r \in Requests |->
                     IF \E i \in DOMAIN live : live[i].req = r /\ Expires(live[i])
                     THEN "expired" ELSE state[r]]
      /\ told' = told + Cardinality(E)
  BY DEF Step, Stepped, ExpiredCount
<1>2. \A i \in E : live[i].req \in Requests /\ state[live[i].req] = "open"
  BY <1>0, LiveEntries DEF TypeOK, OpenIsLive
<1>3. IsFiniteSet(E)
  <2>1. DOMAIN live = 1 .. Len(live) /\ Len(live) \in Nat
    BY <1>0, LenProperties DEF TypeOK
  <2>2. IsFiniteSet(DOMAIN live)
    BY <2>1, FS_Interval
  <2> QED BY <2>2, FS_Subset
<1>4. IsFiniteSet(N) /\ Cardinality(N) = Cardinality(E)
  <2> DEFINE f == [i \in E |-> live[i].req]
  <2>1. \A i, j \in E : f[i] = f[j] => i = j
    BY <1>0 DEF TypeOK
  <2>2. f \in Bijection(E, N)
    BY <2>1 DEF Bijection, Injection, Surjection, IsInjective
  <2>3. ExistsBijection(E, N)
    BY <2>2 DEF ExistsBijection
  <2> QED BY <1>3, <2>3, FS_Bijection
<1>5. Expired' = Expired \cup N /\ Expired \cap N = {}
  BY <1>1, <1>2 DEF Expired
<1>6. /\ IsFiniteSet(Expired \cup N)
      /\ Cardinality(Expired \cup N) = Cardinality(Expired) + Cardinality(N)
  <2>1. Cardinality({}) = 0
    BY FS_EmptySet
  <2>2. /\ IsFiniteSet(Expired \cup N)
        /\ Cardinality(Expired \cup N)
             = Cardinality(Expired) + Cardinality(N) - Cardinality(Expired \cap N)
    BY <1>4, FS_Union DEF Told
  <2>3. Cardinality(Expired) \in Nat /\ Cardinality(N) \in Nat
    BY <1>4, FS_CardinalityType DEF Told
  <2>4. Expired \cap N = {}
    BY <1>5
  <2> HIDE DEF N, E
  <2>5. Cardinality(Expired \cap N) = 0
    BY <2>1, <2>4
  <2> QED BY <2>2, <2>3, <2>5
<1> QED BY <1>1, <1>4, <1>5, <1>6 DEF Told

(* While submit does not raise, the counts that `step` returns add up to   *)
(* the exchanges that have expired: of the one that empties the dict the   *)
(* caller hears too.                                                       *)
THEOREM DictTellsExpiries ==
  ASSUME ~SubmitFails PROVE Spec => []ExpiriesTold
<1>1. Init => Told
  <2> SUFFICES ASSUME Init PROVE Told
    OBVIOUS
  <2>1. Expired = {} /\ told = 0
    BY DEF Init, Expired
  <2> QED BY <2>1, FS_EmptySet DEF Told
<1>2. DictInv /\ Told /\ [Next]_vars => Told'
  <2> SUFFICES ASSUME DictInv, Told, [Next]_vars PROVE Told'
    OBVIOUS
  <2>0. TypeOK /\ OpenIsLive
    BY DEF DictInv
  <2>1. ASSUME NEW r \in Requests, Send(r) PROVE Told'
    <3>1. UNCHANGED told /\ state[r] = "idle"
      BY <2>1 DEF Send
    <3>2. ASSUME ~UNCHANGED state, NEW q \in Requests
          PROVE  state'[q] = "expired" <=> state[q] = "expired"
      <4>1. state' = [s \in Requests |->
                        IF s = r THEN "open"
                        ELSE IF \E i \in Entry(KeyOf[r]) : live[i].req = s
                        THEN "replaced" ELSE state[s]]
        BY <2>1, <3>2 DEF Send, dictVars
      <4>2. \A i \in Entry(KeyOf[r]) : live[i].req = q => state[q] = "open"
        BY <2>0 DEF OpenIsLive, Entry
      <4> QED BY <3>1, <4>1, <4>2
    <3> QED BY <3>1, <3>2, ToldKept
  <2>2. ASSUME NEW k \in Keys \cup {NoKey}, OnMessage(k) PROVE Told'
    <3>1. UNCHANGED told
      BY <2>2 DEF OnMessage
    <3>2. \A i \in Entry(k) : live[i].req \in Requests /\ state[live[i].req] = "open"
      BY EntryOnce
    <3>3. \A q \in Requests : state'[q] = "expired" <=> state[q] = "expired"
      BY <2>0, <2>2, <3>2 DEF OnMessage, dictVars, TypeOK
    <3> QED BY <3>1, <3>3, ToldKept
  <2>3. CASE Tick \/ UNCHANGED vars
    BY <2>3, ToldKept DEF Tick, vars, dictVars
  <2> QED BY <2>1, <2>2, <2>3, ToldStep DEF Next
<1>3. Told => ExpiriesTold
  BY DEF Told, ExpiriesTold, Expired
<1> QED BY <1>1, <1>2, <1>3, DictTracks, PTL DEF Spec

-----------------------------------------------------------------------------
(* Which entries each call leaves                                          *)
LEMMA SendLeaves ==
  ASSUME DictInv, NEW r \in Requests, Send(r)
  PROVE  \A j \in DOMAIN live' :
           \/ j \in DOMAIN live /\ live'[j] = live[j]
           \/ live'[j] = [req |-> r, deadline |-> clock + Timeout, left |-> Retries]
<1> DEFINE e == [req |-> r, deadline |-> clock + Timeout, left |-> Retries]
<1> USE SlotTableAssumption, DictAssumption
<1>0. TypeOK
  BY DEF DictInv
<1>1. CASE UNCHANGED dictVars
  BY <1>1 DEF dictVars
<1>2. CASE ~UNCHANGED dictVars
  <2>1. live' = IF Entry(KeyOf[r]) = {} THEN Append(live, e)
                ELSE [i \in DOMAIN live |-> IF i \in Entry(KeyOf[r]) THEN e ELSE live[i]]
    BY <1>2 DEF Send
  <2>2. live \in Seq(Entries) /\ Len(live) \in Nat /\ DOMAIN live = 1 .. Len(live)
    BY <1>0, LenProperties DEF TypeOK
  <2>3. e \in Entries
    BY <1>0 DEF Entries, TypeOK
  <2> HIDE DEF e
  <2>4. CASE Entry(KeyOf[r]) = {}
    <3>1. /\ DOMAIN live' = 1 .. Len(live) + 1
          /\ live'[Len(live) + 1] = e
          /\ \A i \in 1 .. Len(live) : live'[i] = live[i]
      BY <2>1, <2>2, <2>3, <2>4, AppendProperties
    <3>2. \A j \in DOMAIN live' : (j \in DOMAIN live /\ live'[j] = live[j]) \/ live'[j] = e
      BY <2>2, <3>1
    <3> QED BY <3>2 DEF e
  <2>5. CASE Entry(KeyOf[r]) # {}
    <3>2. \A j \in DOMAIN live' : (j \in DOMAIN live /\ live'[j] = live[j]) \/ live'[j] = e
      BY <2>1, <2>5
    <3> QED BY <3>2 DEF e
  <2> QED BY <2>4, <2>5
<1> QED BY <1>1, <1>2

LEMMA AnswerLeaves ==
  ASSUME DictInv, NEW k \in Keys \cup {NoKey}, OnMessage(k)
  PROVE  \A j \in DOMAIN live' : \E i \in DOMAIN live : live'[j] = live[i]
<1>0. live \in Seq(Entries)
  BY DEF DictInv, TypeOK
<1>1. CASE UNCHANGED dictVars
  BY <1>1 DEF dictVars
<1>2. CASE ~UNCHANGED dictVars
  <2>1. PICK i \in DOMAIN live : \E o \in InOrder(DOMAIN live \ {i}) :
                                   live' = [j \in DOMAIN o |-> live[o[j]]]
    BY <1>2, EntryOnce DEF OnMessage
  <2>2. PICK o \in InOrder(DOMAIN live \ {i}) : live' = [j \in DOMAIN o |-> live[o[j]]]
    BY <2>1
  <2>3. \A j \in DOMAIN o : o[j] \in DOMAIN live \ {i}
    <3>1. DOMAIN live \ {i} \in SUBSET DOMAIN live
      OBVIOUS
    <3> QED BY <1>0, <3>1, InOrderOnce, Zenon
  <2> QED BY <2>2, <2>3
<1> QED BY <1>1, <1>2

LEMMA StepLeaves ==
  ASSUME DictInv, Step
  PROVE  \A j \in DOMAIN live' : \E i \in DOMAIN live :
           ~Expires(live[i]) /\ live'[j] = Walked(live[i])
<1>0. live \in Seq(Entries)
  BY DEF DictInv, TypeOK
<1>1. PICK o \in InOrder(Kept), tried \in SUBSET Resent : Stepped(o, tried)
  BY DEF Step
<1>2. \A j \in DOMAIN o : o[j] \in Kept
  <2>1. Kept \in SUBSET DOMAIN live
    BY DEF Kept
  <2> QED BY <1>0, <2>1, InOrderOnce, Zenon
<1> QED BY <1>1, <1>2 DEF Stepped, Kept

-----------------------------------------------------------------------------
(* The abstract exchange                                                   *)
LEMMA BudgetNext ==
  ASSUME ~SubmitFails, DictInv, Budget, [Next]_vars
  PROVE  Budget'
<1> USE SlotTableAssumption, DictAssumption
<1>0. TypeOK /\ OpenIsLive
  BY DEF DictInv
<1>2. \A i \in DOMAIN live :
        /\ live[i].req \in Requests /\ live[i].left \in Nat
        /\ sent[live[i].req] \in Nat /\ state[live[i].req] = "open"
  BY <1>0, LiveEntries DEF TypeOK, OpenIsLive
<1>3. ASSUME NEW r \in Requests, Send(r), ~UNCHANGED dictVars PROVE Budget'
  <2>1. sent' = [sent EXCEPT ![r] = 1] /\ state[r] = "idle"
    BY <1>3 DEF Send
  <2>2. sent'[r] = 1 /\ \A i \in DOMAIN live : sent'[live[i].req] = sent[live[i].req]
    BY <1>0, <1>2, <2>1 DEF TypeOK
  <2>3. ASSUME NEW j \in DOMAIN live'
        PROVE  live'[j].left + sent'[live'[j].req] = Retries + 1
    <3>1. CASE j \in DOMAIN live /\ live'[j] = live[j]
      BY <2>2, <3>1 DEF Budget
    <3>2. CASE live'[j] = [req |-> r, deadline |-> clock + Timeout, left |-> Retries]
      BY <2>2, <3>2
    <3> QED BY <1>3, <3>1, <3>2, SendLeaves
  <2> QED BY <2>3 DEF Budget
<1>4. ASSUME NEW k \in Keys \cup {NoKey}, OnMessage(k), ~UNCHANGED dictVars
      PROVE  Budget'
  <2>1. sent' = sent
    BY <1>4 DEF OnMessage
  <2> QED BY <1>4, <2>1, AnswerLeaves DEF Budget
<1>5. ASSUME Step PROVE Budget'
  <2>1. PICK o \in InOrder(Kept) : Stepped(o, Resent)
    BY <1>5 DEF Step
  <2>3. \A i \in DOMAIN live : i \in Resent <=> Resends(live[i])
    BY DEF Resent
  <2> SUFFICES ASSUME NEW j \in DOMAIN live'
               PROVE  live'[j].left + sent'[live'[j].req] = Retries + 1
    BY DEF Budget
  <2>4. PICK i \in DOMAIN live : live'[j] = Walked(live[i])
    BY <1>5, StepLeaves
  <2>5. CASE Resends(live[i])
    <3>1. live'[j].req = live[i].req /\ live'[j].left = live[i].left - 1
      BY <2>4, <2>5, StepEntries DEF Walked
    <3>2. sent'[live[i].req] = sent[live[i].req] + 1
      BY <1>2, <2>1, <2>3, <2>5 DEF Stepped
    <3>3. live[i].left + sent[live[i].req] = Retries + 1
      BY DEF Budget
    <3> QED BY <1>2, <3>1, <3>2, <3>3
  <2>6. CASE ~Resends(live[i])
    <3>1. live'[j] = live[i]
      BY <2>4, <2>6 DEF Walked
    <3>2. \A m \in Resent : live[m].req # live[i].req
      BY <1>0, <2>3, <2>6 DEF TypeOK, Resent
    <3>3. sent'[live[i].req] = sent[live[i].req]
      BY <1>2, <2>1, <3>2 DEF Stepped
    <3> QED BY <3>1, <3>3 DEF Budget
  <2> QED BY <2>5, <2>6
<1>6. CASE UNCHANGED <<live, sent>>
  BY <1>6 DEF Budget
<1>7. UNCHANGED dictVars \/ Tick \/ UNCHANGED vars => UNCHANGED <<live, sent>>
  BY DEF dictVars, Tick, vars
<1> QED BY <1>3, <1>4, <1>5, <1>6, <1>7 DEF Next

LEMMA ExchangeNext ==
  ASSUME ~SubmitFails, DictInv, Budget, [Next]_vars
  PROVE  [Exchanges!Next]_(Exchanges!vars)
<1> USE SlotTableAssumption, DictAssumption
<1>0. TypeOK /\ OpenIsLive
  BY DEF DictInv
<1>1. \A i \in DOMAIN live :
        /\ live[i].req \in Requests /\ live[i].left \in Nat
        /\ sent[live[i].req] \in Nat /\ state[live[i].req] = "open"
        /\ live[i].left + sent[live[i].req] = Retries + 1
  BY <1>0, LiveEntries DEF TypeOK, OpenIsLive, Budget
<1>2. Alone \in SUBSET Requests
      /\ \A r \in Alone, q \in Requests : KeyOf[q] = KeyOf[r] => q = r
  BY DEF Alone
<1>u. ASSUME \A r \in Alone : state'[r] = state[r] /\ sent'[r] = sent[r]
      PROVE  UNCHANGED Exchanges!vars
  BY <1>u DEF Exchanges!vars
<1>3. ASSUME NEW r \in Requests, Send(r), ~UNCHANGED dictVars
      PROVE  [Exchanges!Next]_(Exchanges!vars)
  <2>1. /\ state[r] = "idle"
        /\ state' = [q \in Requests |->
                       IF q = r THEN "open"
                       ELSE IF \E i \in Entry(KeyOf[r]) : live[i].req = q THEN "replaced"
                       ELSE state[q]]
        /\ sent' = [sent EXCEPT ![r] = 1]
    BY <1>3 DEF Send
  <2>2. \A q \in Alone : q # r => state'[q] = state[q] /\ sent'[q] = sent[q]
    <3>1. \A q \in Alone : q # r => ~ \E i \in Entry(KeyOf[r]) : live[i].req = q
      BY <1>2 DEF Entry
    <3> QED BY <1>0, <1>2, <2>1, <3>1 DEF TypeOK
  <2>3. CASE r \in Alone
    <3>1. state'[r] = "open" /\ sent'[r] = 1
      BY <1>0, <2>1 DEF TypeOK
    <3>2. /\ [q \in Alone |-> state'[q]] = [[q \in Alone |-> state[q]] EXCEPT ![r] = "open"]
          /\ [q \in Alone |-> sent'[q]] = [[q \in Alone |-> sent[q]] EXCEPT ![r] = 1]
      BY <2>2, <2>3, <3>1
    <3>3. Exchanges!Open(r)
      BY <2>1, <2>3, <3>2 DEF Exchanges!Open
    <3> QED BY <2>3, <3>3 DEF Exchanges!Next
  <2>4. CASE r \notin Alone
    BY <1>u, <2>2, <2>4
  <2> QED BY <2>3, <2>4
<1>4. ASSUME NEW k \in Keys \cup {NoKey}, OnMessage(k), ~UNCHANGED dictVars
      PROVE  [Exchanges!Next]_(Exchanges!vars)
  <2>1. PICK i \in DOMAIN live :
          state' = [state EXCEPT ![live[i].req] = "answered"] /\ sent' = sent
    BY <1>4, EntryOnce DEF OnMessage
  <2>a. PICK a \in Requests : a = live[i].req
    BY <1>1
  <2>2. \A q \in Requests : state'[q] = IF q = a THEN "answered" ELSE state[q]
    BY <1>0, <2>1, <2>a DEF TypeOK
  <2>3. CASE a \in Alone
    <3>1. state[a] = "open"
      BY <1>1, <2>a
    <3>2. Exchanges!Answer(a)
      BY <1>2, <2>1, <2>2, <2>3, <3>1 DEF Exchanges!Answer
    <3>3. \E q \in Alone : Exchanges!Open(q) \/ Exchanges!Answer(q)
      BY <2>3, <3>2
    <3> QED BY <3>3 DEF Exchanges!Next
  <2>4. CASE a \notin Alone
    BY <1>2, <1>u, <2>1, <2>2, <2>4
  <2> QED BY <2>3, <2>4
<1>5. ASSUME Step PROVE Exchanges!Next
  <2>r. PICK R \in SUBSET Alone :
          \A r \in Alone : r \in R <=> \E i \in Resent : live[i].req = r
    <3> WITNESS {r \in Alone : \E i \in Resent : live[i].req = r} \in SUBSET Alone
    <3> QED OBVIOUS
  <2>x. PICK X \in SUBSET Alone :
          \A r \in Alone : r \in X <=> \E i \in DOMAIN live :
                                         live[i].req = r /\ Expires(live[i])
    <3> WITNESS {r \in Alone : \E i \in DOMAIN live : live[i].req = r /\ Expires(live[i])}
                \in SUBSET Alone
    <3> QED OBVIOUS
  <2>1. PICK o \in InOrder(Kept) : Stepped(o, Resent)
    BY <1>5 DEF Step
  <2>2. \A i \in DOMAIN live :
          /\ i \in Resent <=> Resends(live[i])
          /\ Resends(live[i]) => live[i].left > 0
          /\ Expires(live[i]) => live[i].left = 0
    BY DEF Resent, Resends, Expires
  <2>3. R \cap X = {}
    BY <1>0, <2>2, <2>r, <2>x DEF TypeOK, Resent
  <2>4. \A r \in R : state[r] = "open" /\ sent[r] <= Retries
    <3> SUFFICES ASSUME NEW i \in DOMAIN live, Resends(live[i])
                 PROVE  state[live[i].req] = "open" /\ sent[live[i].req] <= Retries
      BY <2>2, <2>r DEF Resent
    <3> QED BY <1>1, <2>2
  <2>5. \A r \in X : state[r] = "open" /\ sent[r] = Retries + 1
    BY <1>1, <2>2, <2>x
  <2>6. \A r \in Alone :
          /\ state'[r] = IF r \in X THEN "expired" ELSE state[r]
          /\ sent'[r] = IF r \in R THEN sent[r] + 1 ELSE sent[r]
    BY <1>2, <2>1, <2>r, <2>x DEF Stepped
  <2>8. Exchanges!Elapse(R, X)
    BY <2>3, <2>4, <2>5, <2>6 DEF Exchanges!Elapse
  <2> QED BY <2>8 DEF Exchanges!Next
<1>6. CASE UNCHANGED <<state, sent>>
  BY <1>u, <1>6
<1>7. UNCHANGED dictVars \/ Tick \/ UNCHANGED vars => UNCHANGED <<state, sent>>
  BY DEF dictVars, Tick, vars
<1> QED BY <1>3, <1>4, <1>5, <1>6, <1>7 DEF Next

(* Of the requests that have a key to themselves the Python machine        *)
(* implements the abstract exchange while submit does not raise: each is   *)
(* sent at most Retries + 1 times, ends once, and expires only with every  *)
(* retransmission made, whatever requests that share a key do to each      *)
(* other and to the places in the dict.                                    *)
THEOREM DictImplementsExchange ==
  ASSUME ~SubmitFails PROVE Spec => []Budget /\ ExchangeSpec
<1>1. Init => Budget /\ Exchanges!Init
  BY DEF Init, Budget, Alone, Exchanges!Init
<1>2. DictInv /\ Budget /\ [Next]_vars
        => Budget' /\ [Exchanges!Next]_(Exchanges!vars)
  BY BudgetNext, ExchangeNext
<1>3. Spec => []Budget
  BY <1>1, <1>2, DictTracks, PTL DEF Spec
<1> QED BY <1>1, <1>2, <1>3, DictTracks, PTL DEF Spec, ExchangeSpec, Exchanges!Spec

-----------------------------------------------------------------------------
(* The coroutine: where it is, and what it has told the user               *)
Control ==
  /\ runs \in Nat /\ dones \in Nat /\ errors \in Nat /\ failures \in Nat
  /\ pc \in {"idle", "top", "arm", "await", "recv", "hook", "exit"}
  /\ resume \in {"top", "arm", "exit"}
  /\ dones = IF pc = "idle" THEN runs ELSE runs - 1
  /\ pc \notin {"idle", "exit"} => ended = "none"
  /\ failures = IF pc = "exit" /\ ended = "error" THEN errors + 1 ELSE errors

(* What arrives is a datagram, and the coroutine receives where one waits  *)
Inbox ==
  /\ inbox \in Seq(Datagrams)
  /\ pc = "recv" => inbox # <<>>

(* Nothing is outstanding where the run ends so, or will after on_expired  *)
Drained ==
  /\ pc = "exit" /\ complete => live = <<>>
  /\ pc = "hook" /\ resume = "exit" => hook = "on_expired" /\ live = <<>>

LEMMA ControlInit == LoopInit => Control /\ Inbox /\ Drained
<1> SUFFICES ASSUME LoopInit PROVE Control /\ Inbox /\ Drained
  OBVIOUS
<1>1. inbox \in Seq(Datagrams)
  <2>1. <<>> \in Seq(Datagrams)
    BY EmptySeq, Zenon
  <2> QED BY <2>1 DEF LoopInit
<1> QED BY <1>1 DEF LoopInit, Control, Inbox, Drained

LEMMA ControlNext == Control /\ [LoopNext]_allVars => Control'
<1> SUFFICES ASSUME Control, [LoopNext]_allVars PROVE Control'
  OBVIOUS
<1>1. CASE Run
  BY <1>1 DEF Control, Run, Goto
<1>2. CASE Stopped
  BY <1>2 DEF Control, Stopped, Goto
<1>3. CASE Turn
  <2>1. CASE Raise /\ pc = "top" /\ UNCHANGED <<runs, dones, errors>>
    BY <2>1 DEF Control, Raise, Goto
  <2>2. CASE /\ pc' \in {"hook", "exit", "arm"} /\ pc = "top"
             /\ resume' \in {resume, "exit", "arm"}
             /\ UNCHANGED <<runs, dones, errors, ended, failures>>
    BY <2>2 DEF Control
  <2> QED BY <1>3, <2>1, <2>2 DEF Turn, Goto, Call
<1>4. CASE Arm
  BY <1>4 DEF Control, Arm, Goto, logVars
<1>5. CASE WakeTimeout \/ WakeReadable \/ RecvNothing
  BY <1>5 DEF Control, WakeTimeout, WakeReadable, RecvNothing, Goto, logVars
<1>6. CASE Recv
  BY <1>6 DEF Control, Recv, Call, logVars
<1>7. CASE RecvFails \/ HookRaises
  BY <1>7 DEF Control, RecvFails, HookRaises, Raise, Goto
<1>8. CASE HookReturns
  BY <1>8 DEF Control, HookReturns, logVars
<1>9. CASE Exit
  BY <1>9 DEF Control, Exit, Goto
<1>10. ASSUME NEW r \in Requests, UserSend(r) PROVE Control'
  BY <1>10 DEF Control, UserSend, loopVars, logVars
<1>11. CASE SetStop
  BY <1>11 DEF Control, SetStop, logVars
<1>12. CASE Cancel
  BY <1>12 DEF Control, Cancel, Goto
<1>13. ASSUME NEW d \in Datagrams, Arrive(d) PROVE Control'
  BY <1>13 DEF Control, Arrive, loopVars, logVars
<1>14. CASE TimePasses
  BY <1>14 DEF Control, TimePasses, logVars
<1>15. CASE UNCHANGED allVars
  BY <1>15 DEF Control, allVars, loopVars, logVars
<1> QED BY <1>1, <1>2, <1>3, <1>4, <1>5, <1>6, <1>7, <1>8, <1>9, <1>10, <1>11, <1>12,
           <1>13, <1>14, <1>15 DEF LoopNext, Loop

(* "Exactly once, on every path out": after each run of the coroutine      *)
(* on_done has been called once, whether it stopped, was cancelled, had    *)
(* nothing left to do or met an error of submit, of the socket or of a     *)
(* hook, and on_error once for every run that an error ended and for no    *)
(* other.                                                                  *)
THEOREM AsyncioDoneOnce == LoopSpec => []DoneOncePerRun
<1>1. Control => DoneOncePerRun
  BY DEF Control, DoneOncePerRun
<1> QED BY <1>1, ControlInit, ControlNext, PTL DEF LoopSpec

-----------------------------------------------------------------------------
(* The coroutine does nothing to the machine but call it                   *)
LEMMA InboxNext == Control /\ Inbox /\ [LoopNext]_allVars => Inbox'
<1> SUFFICES ASSUME Control, Inbox, [LoopNext]_allVars PROVE Inbox'
  OBVIOUS
<1> USE DEF Inbox
<1>1. ASSUME UNCHANGED inbox, pc' = "recv" => pc = "recv" \/ inbox # <<>>
      PROVE  Inbox'
  BY <1>1
<1>2. CASE Run \/ Stopped \/ Arm \/ WakeTimeout \/ RecvNothing \/ RecvFails
           \/ HookRaises \/ Exit \/ SetStop \/ Cancel \/ TimePasses
  BY <1>1, <1>2 DEF Run, Stopped, Arm, WakeTimeout, RecvNothing, RecvFails, HookRaises,
                    Exit, SetStop, Cancel, TimePasses, Raise, Goto, envVars
<1>3. CASE Turn
  BY <1>1, <1>3 DEF Turn, Raise, Call, Goto, envVars
<1>4. CASE WakeReadable
  BY <1>1, <1>4 DEF WakeReadable, envVars
<1>5. CASE Recv
  <2>1. inbox' = Tail(inbox) /\ pc' = "hook" /\ inbox # <<>>
    BY <1>5 DEF Recv, Call
  <2>2. inbox' \in Seq(Datagrams)
    BY <2>1, HeadTailProperties
  <2> QED BY <2>1, <2>2
<1>6. CASE HookReturns
  BY <1>1, <1>6 DEF HookReturns, Control, envVars
<1>7. ASSUME NEW r \in Requests, UserSend(r) PROVE Inbox'
  BY <1>1, <1>7 DEF UserSend, loopVars, envVars
<1>8. ASSUME NEW d \in Datagrams, Arrive(d) PROVE Inbox'
  <2>1. inbox' = Append(inbox, d) /\ inbox' \in Seq(Datagrams) /\ Len(inbox') = Len(inbox) + 1
    BY <1>8, AppendProperties DEF Arrive
  <2>2. inbox' # <<>>
    BY <2>1, EmptySeq, LenProperties
  <2> QED BY <2>1, <2>2
<1>9. CASE UNCHANGED allVars
  BY <1>1, <1>9 DEF allVars, loopVars, envVars
<1> QED BY <1>2, <1>3, <1>4, <1>5, <1>6, <1>7, <1>8, <1>9 DEF LoopNext, Loop

LEMMA LoopCalls == Inbox /\ [LoopNext]_allVars => [Next]_vars
<1> SUFFICES ASSUME Inbox, [LoopNext]_allVars PROVE [Next]_vars
  OBVIOUS
<1>1. CASE UNCHANGED vars
  BY <1>1
<1>2. CASE Run \/ Stopped \/ Arm \/ WakeTimeout \/ WakeReadable \/ RecvNothing
           \/ RecvFails \/ HookReturns \/ HookRaises \/ Exit \/ SetStop \/ Cancel
           \/ UNCHANGED allVars
  BY <1>1, <1>2 DEF Run, Stopped, Arm, WakeTimeout, WakeReadable, RecvNothing,
       RecvFails, HookReturns, HookRaises, Exit, SetStop, Cancel, allVars
<1>3. CASE Turn
  BY <1>3 DEF Turn, Next
<1>4. CASE Recv
  <2>1. inbox # <<>> /\ Head(inbox) \in Datagrams
    BY <1>4, HeadTailProperties DEF Inbox, Recv
  <2>2. CASE Head(inbox) = Malformed
    BY <1>1, <1>4, <2>2 DEF Recv, OnMessage
  <2>3. CASE Head(inbox) # Malformed
    <3>1. Head(inbox) \in Keys \cup {NoKey} /\ OnMessage(Head(inbox))
      BY <1>4, <2>1, <2>3 DEF Recv, Datagrams
    <3> QED BY <3>1 DEF Next
  <2> QED BY <2>2, <2>3
<1>5. ASSUME NEW r \in Requests, UserSend(r) PROVE [Next]_vars
  BY <1>5 DEF UserSend, Next
<1>6. ASSUME NEW d \in Datagrams, Arrive(d) PROVE [Next]_vars
  BY <1>1, <1>6 DEF Arrive
<1>7. CASE TimePasses
  BY <1>7 DEF TimePasses, Next
<1> QED BY <1>2, <1>3, <1>4, <1>5, <1>6, <1>7 DEF LoopNext, Loop

(* Under the coroutine the machine only takes steps of its own, so that    *)
(* what has been proved of it holds in every run.                          *)
THEOREM AsyncioDrivesTheMachine == LoopSpec => Spec
<1>1. LoopInit => Init
  BY DEF LoopInit
<1> QED BY <1>1, LoopCalls, ControlInit, ControlNext, InboxNext, PTL DEF LoopSpec, Spec

(* So the coroutine, with the hooks and the tasks that send beside it,     *)
(* implements the abstract exchange.                                       *)
THEOREM AsyncioImplementsExchange ==
  ASSUME ~SubmitFails PROVE LoopSpec => ExchangeSpec
BY AsyncioDrivesTheMachine, DictImplementsExchange, PTL

-----------------------------------------------------------------------------
(* What `step` says of the next deadline                                   *)
LEMMA LeastNat ==
  ASSUME NEW D \in SUBSET Nat, D # {}
  PROVE  \E m \in D : \A n \in D : m <= n
<1>1. PICK m \in D : \A n \in D : <<n, m>> \notin OpToRel(<, Nat)
  BY NatLessThanWellFounded, WFMin
<1>2. \A n \in D : ~(n < m)
  BY <1>1 DEF OpToRel
<1>3. \A n \in D : m <= n
  BY <1>2
<1> QED BY <1>3

LEMMA SoonestIsLeast ==
  ASSUME NEW es \in Seq(Entries)
  PROVE  /\ es = <<>> => Soonest(es) = None
         /\ es # <<>> =>
              /\ Soonest(es) \in Nat /\ Soonest(es) # None
              /\ \A i \in DOMAIN es : Soonest(es) <= es[i].deadline
              /\ \E i \in DOMAIN es : Soonest(es) = es[i].deadline
<1> USE DictAssumption
<1> DEFINE D == {es[i].deadline : i \in DOMAIN es}
<1>1. \A i \in DOMAIN es : es[i] \in Entries
  BY ElementOfSeq, LenProperties
<1>2. D \in SUBSET Nat
  BY <1>1 DEF Entries
<1>3. CASE es = <<>>
  BY <1>3 DEF Soonest
<1>4. CASE es # <<>>
  <2>1. D # {}
    <3>1. DOMAIN es = 1 .. Len(es) /\ Len(es) \in Nat /\ Len(es) # 0
      BY <1>4, LenProperties, EmptySeq
    <3>2. 1 \in DOMAIN es
      BY <3>1
    <3> QED BY <3>2
  <2>2. \E m \in D : \A n \in D : m <= n
    <3> HIDE DEF D
    <3> QED BY <1>2, <2>1, LeastNat
  <2>3. Soonest(es) = CHOOSE m \in D : \A n \in D : m <= n
    BY <2>1 DEF Soonest
  <2>4. Soonest(es) \in D /\ \A n \in D : Soonest(es) <= n
    <3> HIDE DEF D
    <3> QED BY <2>2, <2>3
  <2> QED BY <1>2, <1>4, <2>4
<1> QED BY <1>3, <1>4

LEMMA DrainedNext ==
  ASSUME "on_expired" \notin SendingHooks, DictInv, DictInv', Control, Inbox, Drained,
         [LoopNext]_allVars
  PROVE  Drained'
<1>1. CASE Turn
  <2>1. pc' = "hook" => hook' = "on_expired"
    BY <1>1 DEF Turn, Raise, Call, Goto
  <2>2. pc' = "exit" /\ complete' => Soonest(live') = None
    BY <1>1 DEF Turn, Raise, Call, Goto
  <2>3. pc' = "hook" /\ resume' = "exit" => Soonest(live') = None
    BY <1>1 DEF Turn, Raise, Call, Goto
  <2>4. Soonest(live') = None => live' = <<>>
    BY SoonestIsLeast DEF DictInv, TypeOK
  <2> QED BY <2>1, <2>2, <2>3, <2>4 DEF Drained
<1>2. CASE Run \/ Stopped \/ Arm \/ WakeTimeout \/ WakeReadable \/ RecvNothing
           \/ RecvFails \/ HookRaises \/ Exit \/ Cancel
  BY <1>2 DEF Run, Stopped, Arm, WakeTimeout, WakeReadable, RecvNothing, RecvFails,
       HookRaises, Exit, Cancel, Raise, Goto, Drained
<1>3. CASE HookReturns
  BY <1>3 DEF HookReturns, Drained, vars, dictVars
<1>4. CASE Recv
  BY <1>4 DEF Recv, Call, Drained
<1>5. ASSUME NEW r \in Requests, UserSend(r) PROVE Drained'
  BY <1>5 DEF UserSend, loopVars, Drained
<1>6. CASE UNCHANGED <<live, pc, hook, resume, complete>>
  BY <1>6 DEF Drained
<1>7. SetStop \/ (\E d \in Datagrams : Arrive(d)) \/ TimePasses \/ UNCHANGED allVars
        => UNCHANGED <<live, pc, hook, resume, complete>>
  BY DEF SetStop, Arrive, TimePasses, Tick, allVars, vars, dictVars, loopVars, logVars
<1> QED BY <1>1, <1>2, <1>3, <1>4, <1>5, <1>6, <1>7 DEF LoopNext, Loop

(* A run that ends because nothing is outstanding leaves nothing           *)
(* outstanding, whatever other tasks and the hooks opened before; the one  *)
(* hook that must not is on_expired, which is called after `step` has said *)
(* so.                                                                     *)
THEOREM AsyncioCompleteIdle ==
  ASSUME "on_expired" \notin SendingHooks PROVE LoopSpec => []CompleteMeansIdle
<1>1. DictInv /\ DictInv' /\ Control /\ Inbox /\ Drained /\ [LoopNext]_allVars => Drained'
  BY DrainedNext
<1>2. Drained => CompleteMeansIdle
  BY DEF Drained, CompleteMeansIdle
<1>3. LoopSpec => []DictInv
  BY AsyncioDrivesTheMachine, DictTracks
<1> QED BY <1>1, <1>2, <1>3, ControlInit, ControlNext, InboxNext, PTL DEF LoopSpec

-----------------------------------------------------------------------------
(* A deadline is at most Timeout away, in a clock that does not start      *)
(* again.  From the turn to the await `next_ms` is no later than the first *)
(* of them, one set by on_expired included, and in the past at most by the *)
(* time that has passed outside a wait; and the coroutine, once it has     *)
(* armed its timer, is woken by the first of them.                         *)
OnTime == \A i \in DOMAIN live : live[i].deadline <= clock + Timeout

Waiting == pc = "arm" \/ (pc = "hook" /\ resume = "arm")

WakesIn(t) == t <= Timeout /\ \A i \in DOMAIN live : clock + t <= live[i].deadline

Waking ==
  /\ lag \in 0 .. MaxLag /\ timer \in Nat
  /\ Waiting =>
       /\ next_ms \in Nat /\ next_ms <= clock + Timeout /\ clock <= next_ms + lag
       /\ \A i \in DOMAIN live : next_ms <= live[i].deadline
  /\ pc = "await" /\ timer > 0 => WakesIn(timer)

LEMMA SmallMod ==
  ASSUME NEW m \in Nat \ {0}, NEW x \in 0 .. m - 1
  PROVE  x % m = x
OBVIOUS

LEMMA NegativeMod ==
  ASSUME NEW m \in Nat \ {0}, NEW k \in 1 .. m - 1
  PROVE  (0 - k) % m = m - k
OBVIOUS

LEMMA OnTimeNext ==
  ASSUME ~Wraps, DictInv, DictInv', OnTime, [Next]_vars
  PROVE  OnTime'
<1> USE DictAssumption DEF OnTime
<1>0. clock \in 0 .. Modulus - 1 /\ live \in Seq(Entries)
  BY DEF DictInv, TypeOK
<1>1. \A i \in DOMAIN live : live[i].deadline \in Nat
  BY <1>0, LiveEntries
<1>2. ASSUME NEW r \in Requests, Send(r) PROVE OnTime'
  <2>1. clock' = clock
    BY <1>2 DEF Send
  <2> SUFFICES ASSUME NEW j \in DOMAIN live'
               PROVE  live'[j].deadline <= clock' + Timeout
    OBVIOUS
  <2>2. CASE j \in DOMAIN live /\ live'[j] = live[j]
    BY <2>1, <2>2
  <2>3. CASE live'[j] = [req |-> r, deadline |-> clock + Timeout, left |-> Retries]
    BY <1>0, <2>1, <2>3
  <2> QED BY <1>2, <2>2, <2>3, SendLeaves
<1>3. ASSUME NEW k \in Keys \cup {NoKey}, OnMessage(k) PROVE OnTime'
  <2>1. clock' = clock
    BY <1>3 DEF OnMessage
  <2> QED BY <1>3, <2>1, AnswerLeaves
<1>4. ASSUME Step PROVE OnTime'
  <2>1. clock' = clock
    BY <1>4 DEF Step
  <2> SUFFICES ASSUME NEW j \in DOMAIN live'
               PROVE  live'[j].deadline <= clock' + Timeout
    OBVIOUS
  <2>2. PICK i \in DOMAIN live : live'[j] = Walked(live[i])
    BY <1>4, StepLeaves
  <2>3. CASE Resends(live[i])
    <3>1. live'[j].deadline = clock + Timeout
      BY <2>2, <2>3, StepEntries DEF Walked
    <3> QED BY <1>0, <2>1, <3>1
  <2>4. CASE ~Resends(live[i])
    BY <2>1, <2>2, <2>4 DEF Walked
  <2> QED BY <2>3, <2>4
<1>5. ASSUME Tick PROVE OnTime'
  <2>1. clock + 1 \in 0 .. Modulus - 1 /\ clock' = (clock + 1) % Modulus /\ live' = live
    BY <1>0, <1>5 DEF Tick, dictVars
  <2>2. clock' = clock + 1
    BY <2>1, SmallMod
  <2> QED BY <1>0, <1>1, <2>1, <2>2
<1>6. CASE UNCHANGED vars
  BY <1>6 DEF vars, dictVars
<1> QED BY <1>2, <1>3, <1>4, <1>5, <1>6 DEF Next

(* After a turn nothing that is left is due, and `next_ms` is the first of *)
(* what is                                                                 *)
LEMMA TurnWakes ==
  ASSUME ~Wraps, DictInv, DictInv', OnTime, Waking, Turn
  PROVE  Waking'
<1> USE DictAssumption
<1>0. clock \in 0 .. Modulus - 1 /\ clock' = clock /\ live' \in Seq(Entries)
  BY DEF DictInv, TypeOK, Turn, Step
<1>1. ASSUME NEW j \in DOMAIN live'
      PROVE  /\ live'[j].deadline \in Nat
             /\ clock + 1 <= live'[j].deadline
             /\ live'[j].deadline <= clock + Timeout
  <2>1. PICK i \in DOMAIN live : ~Expires(live[i]) /\ live'[j] = Walked(live[i])
    BY StepLeaves DEF Turn
  <2>2. /\ live[i].left \in Nat /\ live[i].deadline \in Nat
    BY LiveEntries DEF DictInv, TypeOK
  <2>3. CASE Resends(live[i])
    <3>1. live'[j].deadline = clock + Timeout
      BY <2>1, <2>3, StepEntries DEF Walked
    <3> QED BY <1>0, <3>1
  <2>4. CASE ~Resends(live[i])
    <3>1. live'[j] = live[i] /\ ~Due(live[i])
      BY <2>1, <2>2, <2>4 DEF Walked, Resends, Expires
    <3>2. live[i].deadline <= clock + Timeout
      BY DEF OnTime
    <3> QED BY <1>0, <2>2, <3>1, <3>2 DEF Due
  <2> QED BY <2>3, <2>4
<1>2. lag' \in 0 .. MaxLag /\ lag' \in Nat /\ timer' \in Nat /\ pc' # "await"
  <2>1. lag' = lag /\ timer' = timer /\ pc' # "await"
    BY DEF Turn, Raise, Call, Goto
  <2> QED BY <2>1 DEF Waking
<1>3. CASE answer'.res = "io"
  <2>1. ~Waiting'
    BY <1>3 DEF Turn, Raise, Goto, Waiting
  <2> QED BY <1>2, <2>1 DEF Waking
<1>4. CASE answer'.res # "io" /\ live' = <<>>
  <2>1. next_ms' = None
    BY <1>0, <1>4, SoonestIsLeast DEF Turn
  <2>2. pc' \in {"exit", "hook"} /\ (pc' = "hook" => resume' = "exit")
    BY <1>4, <2>1 DEF Turn, Call, Goto
  <2> QED BY <1>2, <2>2 DEF Waking, Waiting
<1>5. CASE answer'.res # "io" /\ live' # <<>>
  <2>1. next_ms' = Soonest(live')
    BY <1>5 DEF Turn
  <2>2. /\ next_ms' \in Nat
        /\ \A i \in DOMAIN live' : next_ms' <= live'[i].deadline
        /\ \E i \in DOMAIN live' : next_ms' = live'[i].deadline
    BY <1>0, <1>5, <2>1, SoonestIsLeast
  <2>3. clock + 1 <= next_ms' /\ next_ms' <= clock + Timeout
    BY <1>1, <2>2
  <2>4. clock' <= next_ms' + lag' /\ next_ms' <= clock' + Timeout
    BY <1>0, <1>2, <2>2, <2>3
  <2> QED BY <1>2, <2>2, <2>4 DEF Waking
<1> QED BY <1>3, <1>4, <1>5

(* The timer is set by the clock as it is then, however long on_expired    *)
(* took: to what is left until `next_ms`, and to 0 where that has passed.  *)
LEMMA ArmWakes ==
  ASSUME MaxLag \in Nat, MaxLag < Modulus \div 2, Timeout < Modulus \div 2,
         DictInv, Waking, Arm
  PROVE  Waking'
<1> USE DictAssumption
<1>1. /\ clock \in 0 .. Modulus - 1 /\ Modulus \in Nat \ {0} /\ Timeout \in Nat
      /\ Modulus \div 2 \in Nat /\ Modulus \div 2 < Modulus
  BY DEF DictInv, TypeOK
<1>2. /\ next_ms \in Nat /\ next_ms <= clock + Timeout /\ clock <= next_ms + lag
      /\ \A i \in DOMAIN live : next_ms <= live[i].deadline
      /\ lag \in 0 .. MaxLag
  BY DEF Waking, Waiting, Arm
<1>3. timer' = WaitFor /\ pc' = "await" /\ clock' = clock /\ live' = live /\ lag' = lag
  BY DEF Arm, Goto, vars, dictVars, logVars
<1>4. CASE clock <= next_ms
  <2>1. next_ms - clock \in 0 .. Modulus - 1 /\ next_ms - clock < Modulus \div 2
    BY <1>1, <1>2, <1>4
  <2>2. (next_ms - clock) % Modulus = next_ms - clock
    BY <1>1, <2>1, SmallMod
  <2>3. WaitFor = next_ms - clock
    BY <1>1, <2>1, <2>2 DEF WaitFor
  <2>4. timer' \in Nat /\ timer' <= Timeout /\ clock' + timer' = next_ms
    BY <1>1, <1>2, <1>3, <1>4, <2>3
  <2> QED BY <1>2, <1>3, <2>4 DEF Waking, Waiting, WakesIn
<1>5. CASE clock > next_ms
  <2> DEFINE k == clock - next_ms
  <2>1. k \in 1 .. Modulus - 1 /\ k < Modulus \div 2
    BY <1>1, <1>2, <1>5
  <2>2. next_ms - clock = 0 - k
    BY <1>1, <1>2
  <2> HIDE DEF k
  <2>3. (next_ms - clock) % Modulus = Modulus - k
    BY <1>1, <2>1, <2>2, NegativeMod
  <2>4. Modulus - k >= Modulus \div 2
    BY <1>1, <2>1
  <2>5. WaitFor = 0
    BY <2>3, <2>4 DEF WaitFor
  <2> QED BY <1>2, <1>3, <2>5 DEF Waking, Waiting
<1> QED BY <1>1, <1>2, <1>4, <1>5

LEMMA WakingNext ==
  ASSUME ~Wraps, Timeout < Modulus \div 2, MaxLag \in Nat, MaxLag < Modulus \div 2,
         DictInv, DictInv', OnTime, Control, Inbox, Waking, [LoopNext]_allVars
  PROVE  Waking'
<1> USE DictAssumption
<1>0. clock \in 0 .. Modulus - 1 /\ Timeout \in Nat
  BY DEF DictInv, TypeOK
<1>1. CASE Run \/ Stopped \/ WakeTimeout \/ WakeReadable \/ RecvNothing
           \/ RecvFails \/ HookRaises \/ Exit \/ Cancel
  <2>1. /\ lag' = lag /\ timer' = timer
        /\ pc' \in {"top", "recv", "exit", "idle"}
    BY <1>1 DEF Run, Stopped, WakeTimeout, WakeReadable, RecvNothing, RecvFails,
         HookRaises, Exit, Cancel, Raise, Goto, logVars
  <2> QED BY <2>1 DEF Waking, Waiting
<1>2. CASE Arm
  BY <1>2, ArmWakes
<1>3. CASE HookReturns
  <2>1. /\ UNCHANGED <<live, clock, lag, timer, next_ms, resume>>
        /\ pc = "hook" /\ pc' = resume /\ pc' # "await"
    BY <1>3 DEF HookReturns, Control, vars, dictVars, logVars
  <2>2. Waiting' => Waiting
    BY <2>1, <1>3 DEF Waiting, HookReturns, Control
  <2> QED BY <2>1, <2>2 DEF Waking
<1>4. CASE Recv
  <2>1. lag' = lag /\ timer' = timer /\ pc' = "hook" /\ resume' = "top"
    BY <1>4 DEF Recv, Call, logVars
  <2> QED BY <2>1 DEF Waking, Waiting
<1>5. ASSUME NEW r \in Requests, UserSend(r) PROVE Waking'
  <2>1. clock' = clock /\ UNCHANGED <<pc, resume, next_ms, timer, lag>>
    BY <1>5 DEF UserSend, loopVars, logVars, Send
  <2>2. ASSUME NEW t \in Nat, t <= clock + Timeout,
               \A i \in DOMAIN live : t <= live[i].deadline,
               NEW j \in DOMAIN live'
        PROVE  t <= live'[j].deadline
    <3>1. CASE j \in DOMAIN live /\ live'[j] = live[j]
      BY <2>2, <3>1
    <3>2. CASE live'[j] = [req |-> r, deadline |-> clock + Timeout, left |-> Retries]
      BY <2>2, <3>2
    <3> QED BY <1>5, <3>1, <3>2, SendLeaves DEF UserSend
  <2>3. Waiting /\ next_ms \in Nat =>
          (/\ next_ms <= clock + Timeout
           /\ \A i \in DOMAIN live : next_ms <= live[i].deadline
           => \A j \in DOMAIN live' : next_ms <= live'[j].deadline)
    BY <2>2
  <2>4. timer \in Nat /\ WakesIn(timer) =>
          \A j \in DOMAIN live' : clock + timer <= live'[j].deadline
    <3> SUFFICES ASSUME timer \in Nat, WakesIn(timer), NEW j \in DOMAIN live'
                 PROVE  clock + timer <= live'[j].deadline
      OBVIOUS
    <3> DEFINE end == clock + timer
    <3>1. /\ end \in Nat /\ end <= clock + Timeout
          /\ \A i \in DOMAIN live : end <= live[i].deadline
      BY <1>0 DEF WakesIn
    <3> HIDE DEF end
    <3>2. end <= live'[j].deadline
      BY <2>2, <3>1
    <3> QED BY <3>2 DEF end
  <2>5. Waiting' = Waiting
    BY <2>1 DEF Waiting
  <2> QED BY <2>1, <2>3, <2>4, <2>5 DEF Waking, WakesIn
<1>6. CASE UNCHANGED <<live, clock, pc, resume, next_ms, timer, lag>>
  BY <1>6 DEF Waking, Waiting, WakesIn
<1>7. SetStop \/ (\E d \in Datagrams : Arrive(d)) \/ UNCHANGED allVars
        => UNCHANGED <<live, clock, pc, resume, next_ms, timer, lag>>
  BY DEF SetStop, Arrive, allVars, vars, dictVars, loopVars, logVars
<1>8. CASE TimePasses
  <2>1. /\ UNCHANGED <<pc, resume, next_ms, live>>
        /\ clock < Modulus - 1 /\ clock' = (clock + 1) % Modulus
    BY <1>8 DEF TimePasses, Tick, dictVars
  <2>2. clock + 1 \in 0 .. Modulus - 1
    BY <1>0, <2>1
  <2>3. clock' = clock + 1
    BY <2>1, <2>2, SmallMod
  <2>4. Waiting' = Waiting
    BY <2>1 DEF Waiting
  <2>5. CASE pc = "await" /\ timer > 0
    <3>1. timer' = timer - 1 /\ lag' = lag /\ timer \in Nat /\ WakesIn(timer)
      BY <1>8, <2>5 DEF TimePasses, Waking
    <3>2. timer' \in Nat /\ timer' <= timer /\ clock' + timer' = clock + timer
      BY <1>0, <2>3, <2>5, <3>1
    <3>3. WakesIn(timer)'
      BY <1>0, <2>1, <3>1, <3>2 DEF WakesIn
    <3>4. ~Waiting'
      BY <2>4, <2>5 DEF Waiting
    <3> QED BY <3>1, <3>2, <3>3, <3>4 DEF Waking
  <2>6. CASE ~(pc = "await" /\ timer > 0)
    <3>1. timer' = timer /\ lag < MaxLag /\ lag' = lag + 1
      BY <1>8, <2>6 DEF TimePasses
    <3>2. lag \in 0 .. MaxLag /\ timer \in Nat
      BY DEF Waking
    <3>3. lag' \in 0 .. MaxLag
      BY <3>1, <3>2
    <3>4. Waiting => /\ next_ms' \in Nat /\ next_ms' <= clock' + Timeout
                     /\ clock' <= next_ms' + lag'
                     /\ \A i \in DOMAIN live' : next_ms' <= live'[i].deadline
      BY <1>0, <2>1, <2>3, <3>1, <3>2 DEF Waking
    <3> QED BY <2>1, <2>4, <2>6, <3>1, <3>2, <3>3, <3>4 DEF Waking
  <2> QED BY <2>5, <2>6
<1>9. CASE Turn
  BY <1>9, TurnWakes
<1> QED BY <1>1, <1>2, <1>3, <1>4, <1>5, <1>6, <1>7, <1>8, <1>9 DEF LoopNext, Loop

(* While the coroutine awaits, its timer runs out no later than the first  *)
(* exchange is due, one that another task opened during the await          *)
(* included, and however long on_expired took, as long as the clock does   *)
(* not start again and both the timeout and the time outside a wait are    *)
(* less than half its range, which is where a wait is taken for 0.         *)
THEOREM AsyncioNeverOversleeps ==
  ASSUME ~Wraps, Timeout < Modulus \div 2, MaxLag \in Nat, MaxLag < Modulus \div 2
  PROVE  LoopSpec => []NoOversleep
<1>1. LoopInit => OnTime /\ Waking
  BY DEF LoopInit, Init, OnTime, Waking, Waiting
<1>2. DictInv /\ DictInv' /\ OnTime /\ [Next]_vars => OnTime'
  BY OnTimeNext
<1>3. DictInv /\ DictInv' /\ OnTime /\ Control /\ Inbox /\ Waking
        /\ [LoopNext]_allVars => Waking'
  BY WakingNext
<1>4. Waking => NoOversleep
  BY DEF Waking, WakesIn, NoOversleep
<1>5. LoopSpec => []DictInv
  BY AsyncioDrivesTheMachine, DictTracks
<1> QED BY <1>1, <1>2, <1>3, <1>4, <1>5, LoopCalls, ControlInit, ControlNext, InboxNext,
           PTL DEF LoopSpec

=============================================================================
