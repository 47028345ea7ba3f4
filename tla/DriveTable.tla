----------------------------- MODULE DriveTable -----------------------------
(***************************************************************************)
(* The retransmission slots that every generated driver state machine      *)
(* keeps (situc/codegen/{c,cpp,rust}/drive.py): the request to send again, *)
(* when (deadline_ms) and how often still (left).  The three backends      *)
(* share this table and `step`; they differ in how a reply finds its slot, *)
(* which DriveC and DriveOneTable add.                                     *)
(*                                                                         *)
(* The machine reads no clock: now_ms is a parameter.  The model's clock   *)
(* is true time in milliseconds; now_ms and the deadlines are the unsigned *)
(* integers modulo Modulus (2^32) that the code computes from it.          *)
(***************************************************************************)
EXTENDS SlotTable

CONSTANTS
  Timeout,    \* timeout_ms
  Retries,    \* retries
  Modulus,    \* 2^32: the range of now_ms and deadline_ms
  Horizon,    \* bound on true time
  DueMax      \* the most submits one `step` makes: 32 in Rust, else no limit

ASSUME DriveAssumption ==
  /\ Timeout \in Nat \ {0}
  /\ Retries \in Nat
  /\ Modulus \in Nat \ {0}
  /\ Horizon \in Nat
  /\ DueMax \in Nat

VARIABLES
  req,        \* slots[i].bytes, len, key, id and live, as one request
  deadline,   \* slots[i].deadline_ms
  left,       \* slots[i].left
  clock,      \* true time
  state,      \* history: how far the exchange of each request has got
  sent,       \* history: how often each request was handed to `submit`
  lastTx      \* history: true time of the last of these

tableVars == <<req, deadline, left, state, sent, lastTx>>

States == {"idle", "open", "answered", "expired"}

TableInit ==
  /\ req = [i \in Slots |-> None]
  /\ deadline = [i \in Slots |-> 0]
  /\ left = [i \in Slots |-> 0]
  /\ clock = 0
  /\ state = [r \in Requests |-> "idle"]
  /\ sent = [r \in Requests |-> 0]
  /\ lastTx = [r \in Requests |-> 0]

Now == clock % Modulus

DeadlineFromNow == (Now + Timeout) % Modulus

(* The part of `send` that fills the first free slot, where there is one,  *)
(* and submits the bytes.                                                  *)
Store(r) ==
  LET free == FirstFree(req) IN
  /\ req' = [i \in Slots |-> IF i \in free THEN r ELSE req[i]]
  /\ deadline' = [i \in Slots |->
                    IF i \in free THEN DeadlineFromNow ELSE deadline[i]]
  /\ left' = [i \in Slots |-> IF i \in free THEN Retries ELSE left[i]]
  /\ state' = [state EXCEPT ![r] = IF free = {} THEN @ ELSE "open"]
  /\ sent' = [sent EXCEPT ![r] = IF free = {} THEN @ ELSE 1]
  /\ lastTx' = [lastTx EXCEPT ![r] = IF free = {} THEN @ ELSE clock]

(* The part of `on_message` that frees a slot: the exchange is answered *)
FreeKeepsLive(slots) ==
  /\ state' = [r \in Requests |->
                 IF \E i \in slots : req[i] = r THEN "answered" ELSE state[r]]
  /\ UNCHANGED <<req, deadline, left, sent, lastTx>>

Free(slots) ==
  /\ req' = [i \in Slots |-> IF i \in slots THEN None ELSE req[i]]
  /\ state' = [r \in Requests |->
                 IF \E i \in slots : req[i] = r THEN "answered" ELSE state[r]]
  /\ UNCHANGED <<deadline, left, sent, lastTx>>

(* The comparison `step` makes, on the wrapped values, and without a sign *)
DueTooSoon(i) == req[i] # None /\ Now + 1 >= deadline[i]

Due(i) == req[i] # None /\ Now >= deadline[i]

ExpiresEarly(i) == Due(i) /\ left[i] <= 1

ExpiresBelowZero(i) == Due(i) /\ left[i] < 0

Expires(i) == Due(i) /\ left[i] = 0

Resends(i) == Due(i) /\ left[i] > 0

(* Which of the slots that spend a retry really reach `submit` *)
Submits(i) ==
  Resends(i) /\ Cardinality({j \in 1 .. i - 1 : Resends(j)}) < DueMax

(* `step`: the whole walk, and the submits that follow it (Rust) or are    *)
(* part of it (C, C++).  No slot's fate depends on another's.              *)
Step ==
  /\ req' = [i \in Slots |-> IF Expires(i) THEN None ELSE req[i]]
  /\ deadline' = [i \in Slots |->
                    IF Resends(i) THEN DeadlineFromNow ELSE deadline[i]]
  /\ left' = [i \in Slots |-> IF Resends(i) THEN left[i] - 1 ELSE left[i]]
  /\ state' = [r \in Requests |->
                 IF \E i \in Slots : Expires(i) /\ req[i] = r
                 THEN "expired" ELSE state[r]]
  /\ sent' = [r \in Requests |->
                IF \E i \in Slots : Submits(i) /\ req[i] = r
                THEN sent[r] + 1 ELSE sent[r]]
  /\ lastTx' = [r \in Requests |->
                  IF \E i \in Slots : Submits(i) /\ req[i] = r
                  THEN clock ELSE lastTx[r]]

(* *expired, and the earliest deadline still outstanding: an unsigned      *)
(* minimum, or None (SITU_ERR_TRUNCATED) when nothing is.                  *)
ExpiredCount == Cardinality({i \in Slots : Expires(i)})

SoonestLatest(q, d) ==
  LET ds == {d[i] : i \in {j \in Slots : q[j] # None}}
  IN IF ds = {} THEN None ELSE CHOOSE m \in ds : \A n \in ds : m >= n

SoonestButLast(q, d) ==
  LET ds == {d[i] : i \in {j \in Slots : q[j] # None /\ j < Cap}}
  IN IF ds = {} THEN None ELSE CHOOSE m \in ds : \A n \in ds : m <= n

Soonest(q, d) ==
  LET ds == {d[i] : i \in {j \in Slots : q[j] # None}}
  IN IF ds = {} THEN None ELSE CHOOSE m \in ds : \A n \in ds : m <= n

Tick ==
  /\ clock < Horizon
  /\ clock' = clock + 1
  /\ UNCHANGED tableVars

-----------------------------------------------------------------------------
TableTypeOK ==
  /\ req \in [Slots -> Requests \cup {None}]
  /\ deadline \in [Slots -> 0 .. Modulus - 1]
  /\ left \in [Slots -> 0 .. Retries]
  /\ clock \in 0 .. Horizon
  /\ state \in [Requests -> States]
  /\ sent \in [Requests -> 0 .. Retries + 1]
  /\ lastTx \in [Requests -> 0 .. Horizon]

(* An exchange is open exactly while one slot, and no other, holds it: no  *)
(* order of sends, replies and steps loses an exchange the caller still    *)
(* waits for, or keeps one that is over and would be sent again.           *)
Tracked ==
  /\ \A r \in Requests : state[r] = "open" <=> \E i \in Slots : req[i] = r
  /\ \A i, j \in Slots : req[i] = req[j] /\ req[i] # None => i = j

(* The retries a slot has left and the times its request was submitted     *)
(* always add up: what `step` counts as a retransmission was one.          *)
Budget ==
  \A i \in Slots : req[i] # None => left[i] + sent[req[i]] = Retries + 1

(* What a step must not do: try an exchange again, or give it up, before   *)
(* its timeout has really passed since it was last sent.                   *)
PatientStep ==
  \A r \in Requests :
    /\ sent'[r] > sent[r] /\ sent[r] > 0 => clock >= lastTx[r] + Timeout
    /\ state[r] = "open" /\ state'[r] = "expired"
         => clock >= lastTx[r] + Timeout

Exchanges == INSTANCE Exchange

(* The machine implements the abstract exchange: each is opened once, sent *)
(* at most Retries + 1 times, and ends once, answered or else expired with *)
(* every retransmission spent.                                             *)
ExchangeSpec == Exchanges!Spec
=============================================================================
