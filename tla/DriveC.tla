------------------------------- MODULE DriveC -------------------------------
(***************************************************************************)
(* The C driver state machine (situc/codegen/c/drive.py): the              *)
(* retransmission slots composed with rung 5's pending table.  A reply     *)
(* finds its request in the pending table by key, and its slot by the      *)
(* caller's handle.                                                        *)
(***************************************************************************)
EXTENDS DriveTable, ConverseTable

VARIABLE
  answer      \* what the last call returned, and the exchange it ended

vars == <<pend, req, deadline, left, clock, state, sent, lastTx, answer>>

Answers ==
  [call : {"init", "send", "on_message", "step"},
   res : {"ok", "bounds", "constraint", "truncated", "io"},
   key : Keys \cup {NoKey},
   ended : Requests \cup {None}]

Answer(call, res, key, ended) ==
  [call |-> call, res |-> res, key |-> key, ended |-> ended]

Init ==
  /\ TableInit
  /\ PendInit
  /\ answer = Answer("init", "ok", NoKey, None)

(* send: record, then the slot, then submit, whose error is the result but *)
(* leaves the exchange open.  The caller opens each exchange once.         *)
Send(r) ==
  /\ state[r] = "idle"
  /\ pend' = Recorded(r)
  /\ UNCHANGED clock
  /\ \/ /\ RecordSlot(r) = {}
        /\ answer' = Answer("send", "bounds", KeyOf[r], None)
        /\ UNCHANGED tableVars
     \/ /\ RecordSlot(r) # {}
        /\ Store(r)
        /\ \E io \in {"ok", "io"} :
             answer' = Answer("send", IF FirstFree(req) = {} THEN "bounds" ELSE io,
                              KeyOf[r], None)

(* The first live slot that carries the handle the pending table gave *)
SlotOfOther(p) ==
  {i \in Slots : req[i] # None /\ \A j \in 1 .. i - 1 : req[j] = None}

SlotOf(p) ==
  {i \in Slots :
     /\ req[i] # None
     /\ IdOf[req[i]] = IdOf[pend[p]]
     /\ \A j \in 1 .. i - 1 : req[j] # None => IdOf[req[j]] # IdOf[pend[p]]}

(* on_message: SITU_OK whenever the pending table matches, also where no   *)
(* slot carries the handle.                                                *)
OnMessage(k) ==
  /\ pend' = Unmatched(k)
  /\ UNCHANGED clock
  /\ \/ \E p \in MatchSlot(k) :
          LET freed == SlotOf(p) IN
          /\ Free(freed)
          /\ \/ \E i \in freed : answer' = Answer("on_message", "ok", k, req[i])
             \/ freed = {} /\ answer' = Answer("on_message", "ok", k, None)
     \/ /\ MatchSlot(k) = {}
        /\ answer' = Answer("on_message", MatchRefusal(k), k, None)
        /\ UNCHANGED tableVars

(* step leaves the pending table alone, also for an exchange it gives up *)
DriveStep ==
  /\ Step
  /\ answer' = Answer("step",
                      IF Soonest(req', deadline') = None THEN "truncated" ELSE "ok",
                      NoKey, None)
  /\ UNCHANGED <<pend, clock>>

Next ==
  \/ \E r \in Requests : Send(r)
  \/ \E k \in Keys \cup {NoKey} : OnMessage(k)
  \/ DriveStep
  \/ Tick /\ UNCHANGED <<pend, answer>>

Spec == Init /\ [][Next]_vars

-----------------------------------------------------------------------------
(* Every variable has its type *)
TypeOK ==
  /\ TableTypeOK
  /\ ConverseTypeOK
  /\ answer \in Answers

(* An exchange that is open can be answered: the pending table still holds *)
(* its request, so no reply to another exchange has taken its place.       *)
Answerable ==
  \A r \in Requests : state[r] = "open" => \E i \in Slots : pend[i] = r

(* A request that `send` refused is not left in the pending table: the two *)
(* tables fill together, and `send` never fails between them.              *)
NoStrandedRecord ==
  \A i \in Slots : pend[i] # None => state[pend[i]] # "idle"

(* A reply ends an exchange that carries its key, and no other *)
RightExchange == answer.ended # None => KeyOf[answer.ended] = answer.key

(* No exchange is tried again, or given up, before its timeout has really  *)
(* passed since it was last sent.                                          *)
Patience == [][PatientStep]_vars

(* The comment on `on_message`: CONSTRAINT for "a duplicate, a reply to an *)
(* exchange that timed out, or one nobody opened".                         *)
LateReplyRefused ==
  answer.call = "on_message" /\ answer.res = "ok" => answer.ended # None

(* The comment on `step`: an exchange out of retries is dropped.  So a     *)
(* request whose key can be read is refused only while Cap exchanges are   *)
(* open.                                                                   *)
RefusedOnlyWhenFull ==
  answer.call = "send" /\ answer.res = "bounds" /\ answer.key # NoKey
    => Cardinality({r \in Requests : state[r] = "open"}) = Cap
=============================================================================
