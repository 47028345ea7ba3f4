--------------------------- MODULE DriveOneTable ---------------------------
(***************************************************************************)
(* The driver state machine of the C++ and the Rust backend                *)
(* (situc/codegen/cpp/drive.py, situc/codegen/rust/drive.py).  There is no *)
(* second table: a slot keeps its request's key, and a reply finds the     *)
(* slot by it.                                                             *)
(***************************************************************************)
EXTENDS DriveTable

VARIABLE
  answer      \* what the last call returned, and the exchange it ended

vars == <<req, deadline, left, clock, state, sent, lastTx, answer>>

Answers ==
  [call : {"init", "send", "on_message", "step"},
   res : {"ok", "bounds", "constraint", "truncated", "io"},
   key : Keys \cup {NoKey},
   ended : Requests \cup {None}]

Answer(call, res, key, ended) ==
  [call |-> call, res |-> res, key |-> key, ended |-> ended]

Init ==
  /\ TableInit
  /\ answer = Answer("init", "ok", NoKey, None)

(* send: pack the key, fill the first free slot, submit *)
Send(r) ==
  /\ state[r] = "idle"
  /\ UNCHANGED clock
  /\ \/ /\ KeyOf[r] = NoKey \/ FirstFree(req) = {}
        /\ answer' = Answer("send", "bounds", KeyOf[r], None)
        /\ UNCHANGED tableVars
     \/ /\ KeyOf[r] # NoKey /\ FirstFree(req) # {}
        /\ Store(r)
        /\ \E io \in {"ok", "io"} : answer' = Answer("send", io, KeyOf[r], None)

(* The slot whose exchange a reply with key k answers *)
AnsweredSlot(k) == IF k = NoKey THEN {} ELSE FirstWithKey(req, k)

OnMessage(k) ==
  /\ UNCHANGED clock
  /\ \/ \E i \in AnsweredSlot(k) :
          /\ Free({i})
          /\ answer' = Answer("on_message", "ok", k, req[i])
     \/ /\ AnsweredSlot(k) = {}
        /\ answer' = Answer("on_message",
                            IF k = NoKey THEN "bounds" ELSE "constraint", k, None)
        /\ UNCHANGED tableVars

DriveStep ==
  /\ Step
  /\ answer' = Answer("step",
                      IF \A i \in Slots : req'[i] = None THEN "truncated" ELSE "ok",
                      NoKey, None)
  /\ UNCHANGED clock

Next ==
  \/ \E r \in Requests : Send(r)
  \/ \E k \in Keys \cup {NoKey} : OnMessage(k)
  \/ DriveStep
  \/ Tick /\ UNCHANGED answer

Spec == Init /\ [][Next]_vars

-----------------------------------------------------------------------------
(* Every variable has its type *)
TypeOK == TableTypeOK /\ answer \in Answers

(* A request whose key can be read is refused only while Cap exchanges are *)
(* open: expired and answered exchanges give their slots back.             *)
RefusedOnlyWhenFull ==
  answer.call = "send" /\ answer.res = "bounds" /\ answer.key # NoKey
    => Cardinality({r \in Requests : state[r] = "open"}) = Cap

(* No exchange is tried again, or given up, before its timeout has really  *)
(* passed since it was last sent.                                          *)
Patience == [][PatientStep]_vars
=============================================================================
