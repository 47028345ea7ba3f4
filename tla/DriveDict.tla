----------------------------- MODULE DriveDict -----------------------------
(***************************************************************************)
(* The driver state machine of the Python backend                          *)
(* (situc/codegen/python/drive.py): a dict from a request's key to its     *)
(* bytes, handle, deadline and retries left.  A dict keeps the order in    *)
(* which its keys were added, so here it is the sequence of its entries.   *)
(* A second request under a key that waits takes the entry over.           *)
(*                                                                         *)
(* Python's integers do not wrap: now_ms is cut to Modulus (2^32) by the   *)
(* driver that reads the clock, and a deadline is not.  An error of the    *)
(* submit callable is an exception, and leaves `send` or `step` where it   *)
(* is raised.                                                              *)
(***************************************************************************)
EXTENDS SlotTable, Sequences, Integers

CONSTANTS
  Timeout,      \* timeout_ms
  Retries,      \* retries
  Modulus,      \* 2^32
  Start,        \* the clock when the machine is made
  Wraps,        \* TRUE: the clock goes on from Modulus - 1 to 0
  SubmitFails   \* TRUE: submit may raise

ASSUME DictAssumption ==
  /\ Timeout \in Nat \ {0} /\ Retries \in Nat
  /\ Modulus \in Nat \ {0} /\ Start \in 0 .. Modulus - 1
  /\ Wraps \in BOOLEAN /\ SubmitFails \in BOOLEAN
  /\ None \notin Nat

VARIABLES
  live,      \* _live: the entries, oldest key first
  clock,     \* now_ms, as the driver reads it
  state,     \* history: how far the exchange of each request has got
  sent,      \* history: how often each request was handed to `submit`
  lastTx,    \* history: the clock at the last of these
  told,      \* history: sum of the expiry counts `step` has returned
  answer     \* what the last call returned, and the exchange it ended

dictVars == <<live, state, sent, lastTx>>
vars == <<live, clock, state, sent, lastTx, told, answer>>

Entries ==
  [req : Requests, deadline : 0 .. Modulus + Timeout, left : 0 .. Retries]

Answer(call, res, key, ended) ==
  [call |-> call, res |-> res, key |-> key, ended |-> ended]

Init ==
  /\ live = <<>>
  /\ clock = Start
  /\ state = [r \in Requests |-> "idle"]
  /\ sent = [r \in Requests |-> 0]
  /\ lastTx = [r \in Requests |-> 0]
  /\ told = 0
  /\ answer = Answer("init", "ok", NoKey, None)

(* The position of the entry of key k, if there is one *)
EntryOldest(k) == {i \in DOMAIN live : i = 1}

Entry(k) == {i \in DOMAIN live : KeyOf[live[i].req] = k}

(* The positions P in their order *)
InOrder(P) ==
  {o \in [1 .. Cardinality(P) -> P] :
     /\ \A i, j \in DOMAIN o : i < j => o[i] < o[j]
     /\ \A i \in P : \E j \in DOMAIN o : o[j] = i}

Submitting == IF SubmitFails THEN {"ok", "io"} ELSE {"ok"}

Refuses(k) == k = NoKey \/ (Entry(k) = {} /\ Len(live) >= Cap)

Send(r) ==
  LET k == KeyOf[r]
      e == [req |-> r, deadline |-> clock + Timeout, left |-> Retries]
  IN
  /\ state[r] = "idle"
  /\ \/ /\ Refuses(k)
        /\ answer' = Answer("send", "bounds", k, None)
        /\ UNCHANGED dictVars
     \/ /\ ~Refuses(k)
        /\ live' = IF Entry(k) = {} THEN Append(live, e)
                   ELSE [i \in DOMAIN live |-> IF i \in Entry(k) THEN e ELSE live[i]]
        /\ state' = [q \in Requests |->
                       IF q = r THEN "open"
                       ELSE IF \E i \in Entry(k) : live[i].req = q THEN "replaced"
                       ELSE state[q]]
        /\ sent' = [sent EXCEPT ![r] = 1]
        /\ lastTx' = [lastTx EXCEPT ![r] = clock]
        /\ \E io \in Submitting : answer' = Answer("send", io, k, None)
  /\ UNCHANGED <<clock, told>>

OnMessage(k) ==
  /\ \/ \E i \in Entry(k) :
          /\ \E o \in InOrder(DOMAIN live \ {i}) :
               live' = [j \in DOMAIN o |-> live[o[j]]]
          /\ state' = [state EXCEPT ![live[i].req] = "answered"]
          /\ answer' = Answer("on_message", "ok", k, live[i].req)
          /\ UNCHANGED <<sent, lastTx>>
     \/ /\ Entry(k) = {}
        /\ answer' = Answer("on_message",
                            IF k = NoKey THEN "bounds" ELSE "constraint", k, None)
        /\ UNCHANGED dictVars
  /\ UNCHANGED <<clock, told>>

DueTooSoon(e) == clock + 1 >= e.deadline

Due(e) == clock >= e.deadline

ExpiresEarly(e) == Due(e) /\ e.left <= 1

ExpiresBelowZero(e) == Due(e) /\ e.left < 0

Expires(e) == Due(e) /\ e.left = 0

Resends(e) == Due(e) /\ e.left > 0

Again(e) == [req |-> e.req, deadline |-> clock + Timeout, left |-> e.left - 1]

Walked(e) == IF Resends(e) THEN Again(e) ELSE e

Kept == {i \in DOMAIN live : ~Expires(live[i])}

Resent == {i \in DOMAIN live : Resends(live[i])}

ExpiredCountUnlessLast ==
  IF Kept = {} THEN 0 ELSE Cardinality({i \in DOMAIN live : Expires(live[i])})

ExpiredCount == Cardinality({i \in DOMAIN live : Expires(live[i])})

(* The earliest deadline of entries es, or None *)
SoonestButLast(es) ==
  LET ds == {es[i].deadline : i \in DOMAIN es \ {Len(es)}}
  IN IF ds = {} THEN None ELSE CHOOSE m \in ds : \A n \in ds : m <= n

Soonest(es) ==
  LET ds == {es[i].deadline : i \in DOMAIN es}
  IN IF ds = {} THEN None ELSE CHOOSE m \in ds : \A n \in ds : m <= n

(* The entries o the walk keeps, and those of them whose bytes went out    *)
Stepped(o, tried) ==
  /\ live' = [j \in DOMAIN o |-> Walked(live[o[j]])]
  /\ state' = [r \in Requests |->
                 IF \E i \in DOMAIN live : live[i].req = r /\ Expires(live[i])
                 THEN "expired" ELSE state[r]]
  /\ sent' = [r \in Requests |->
                IF \E i \in tried : live[i].req = r THEN sent[r] + 1 ELSE sent[r]]
  /\ lastTx' = [r \in Requests |->
                  IF \E i \in tried : live[i].req = r THEN clock ELSE lastTx[r]]

(* step: the walk, then the submits in the order of the walk.  The first   *)
(* that raises is the last, and the count of what expired is lost with it. *)
Step ==
  \E o \in InOrder(Kept), tried \in SUBSET Resent :
    /\ \A i \in tried, j \in Resent : j < i => j \in tried
    /\ Stepped(o, tried)
    /\ \/ /\ tried = Resent
          /\ answer' = Answer("step",
                              IF Kept = {} THEN "truncated" ELSE "ok", NoKey, None)
          /\ told' = told + ExpiredCount
       \/ /\ SubmitFails /\ tried # {}
          /\ answer' = Answer("step", "io", NoKey, None)
          /\ UNCHANGED told
    /\ UNCHANGED clock

Tick ==
  /\ Wraps \/ clock < Modulus - 1
  /\ clock' = (clock + 1) % Modulus
  /\ UNCHANGED <<dictVars, told, answer>>

Next ==
  \/ \E r \in Requests : Send(r)
  \/ \E k \in Keys \cup {NoKey} : OnMessage(k)
  \/ Step
  \/ Tick

Spec == Init /\ [][Next]_vars

-----------------------------------------------------------------------------
(* Every variable has its type, and the dict holds no key twice *)
TypeOK ==
  /\ live \in Seq(Entries)
  /\ \A i, j \in DOMAIN live : KeyOf[live[i].req] = KeyOf[live[j].req] => i = j
  /\ clock \in 0 .. Modulus - 1
  /\ state \in [Requests -> {"idle", "open", "answered", "expired", "replaced"}]
  /\ sent \in [Requests -> 0 .. Retries + 1]

(* An exchange is open exactly while one entry, and no other, holds it *)
Tracked ==
  \A r \in Requests :
    Cardinality({i \in DOMAIN live : live[i].req = r})
      = IF state[r] = "open" THEN 1 ELSE 0

(* Only a newer exchange with the same key takes one's place *)
ReplacedByItsKey ==
  \A r \in Requests : state[r] = "replaced" =>
    \E q \in Requests \ {r} : state[q] # "idle" /\ KeyOf[q] = KeyOf[r]

(* Retries left and submits made add up, so what `step` counts as a        *)
(* retransmission was one.                                                 *)
Budget ==
  \A i \in DOMAIN live : live[i].left + sent[live[i].req] = Retries + 1

(* No exchange is tried again, or given up, before its timeout has passed  *)
(* since it was last sent.                                                 *)
PatientStep ==
  \A r \in Requests :
    /\ sent'[r] > sent[r] /\ sent[r] > 0 => clock >= lastTx[r] + Timeout
    /\ state[r] = "open" /\ state'[r] = "expired" => clock >= lastTx[r] + Timeout

Patience == [][PatientStep]_vars

(* `step`'s docstring: "the count is returned either way -- an exchange    *)
(* that gave up on the call that emptied the table is one the caller still *)
(* has to hear about".  So it is while submit does not raise.              *)
ExpiriesTold == told = Cardinality({r \in Requests : state[r] = "expired"})

(* The requests that share their key with none *)
Alone == {r \in Requests : \A q \in Requests \ {r} : KeyOf[q] # KeyOf[r]}

Exchanges ==
  INSTANCE Exchange WITH
    Requests <- Alone,
    state <- [r \in Alone |-> state[r]],
    sent <- [r \in Alone |-> sent[r]]

(* Of the requests that have a key to themselves the machine implements    *)
(* the abstract exchange, whatever those that share one do to each other.  *)
ExchangeSpec == Exchanges!Spec
=============================================================================
