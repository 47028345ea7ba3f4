------------------------------ MODULE Exchange ------------------------------
(***************************************************************************)
(* What rung 6 promises of every exchange, with no table and no clock      *)
(* (situc/codegen/c/drive.py, doc/decision/26.98): a request is sent, sent *)
(* again at most Retries times, and the exchange then ends once, either    *)
(* answered or expired; it never expires with a retransmission unspent.    *)
(***************************************************************************)
EXTENDS Naturals

CONSTANTS Requests, Retries

VARIABLES
  state,   \* state[r]: how far the exchange that request r opens has got
  sent     \* sent[r]: how often r was handed to `submit`

vars == <<state, sent>>

States == {"idle", "open", "answered", "expired"}

Init ==
  /\ state = [r \in Requests |-> "idle"]
  /\ sent = [r \in Requests |-> 0]

Open(r) ==
  /\ state[r] = "idle"
  /\ state' = [state EXCEPT ![r] = "open"]
  /\ sent' = [sent EXCEPT ![r] = 1]

Answer(r) ==
  /\ state[r] = "open"
  /\ state' = [state EXCEPT ![r] = "answered"]
  /\ UNCHANGED sent

(* Time passes for several exchanges at once: those in R are sent again,   *)
(* those in X have nothing left to try.                                    *)
Elapse(R, X) ==
  /\ R \cap X = {}
  /\ \A r \in R : state[r] = "open" /\ sent[r] <= Retries
  /\ \A r \in X : state[r] = "open" /\ sent[r] = Retries + 1
  /\ state' = [r \in Requests |-> IF r \in X THEN "expired" ELSE state[r]]
  /\ sent' = [r \in Requests |-> IF r \in R THEN sent[r] + 1 ELSE sent[r]]

Next ==
  \/ \E r \in Requests : Open(r) \/ Answer(r)
  \/ \E R, X \in SUBSET Requests : Elapse(R, X)

Spec == Init /\ [][Next]_vars
=============================================================================
