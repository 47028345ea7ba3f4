------------------------------ MODULE Pending ------------------------------
(***************************************************************************)
(* What rung 5 promises (situc/codegen/c/converse.py, doc/decision/26.97): *)
(* a bounded bag of requests that wait for a reply.  A reply takes out one *)
(* request with its key and is refused when none waits for it, so a late   *)
(* or duplicated reply is never matched; a full bag refuses a request and  *)
(* drops none.                                                             *)
(***************************************************************************)
EXTENDS Naturals

CONSTANTS
  Requests,   \* what a caller may record
  Keys,       \* what identifies an exchange
  NoKey,      \* the key of a message too short to read one from
  KeyOf,      \* KeyOf[r]: the key of request r, or NoKey
  IdOf,       \* IdOf[r]: the caller's handle for request r
  Cap         \* how many may wait at once

VARIABLES
  waiting,    \* waiting[r]: how often r is recorded and not matched
  held,       \* how many wait, of all requests
  answer      \* what the last call returned

vars == <<waiting, held, answer>>

Init ==
  /\ waiting = [r \in Requests |-> 0]
  /\ held = 0
  /\ answer = [res |-> "none"]

Record(r) ==
  \/ /\ KeyOf[r] # NoKey /\ held < Cap
     /\ waiting' = [waiting EXCEPT ![r] = @ + 1]
     /\ held' = held + 1
     /\ answer' = [res |-> "ok"]
  \/ /\ KeyOf[r] = NoKey \/ held = Cap
     /\ answer' = [res |-> "bounds"]
     /\ UNCHANGED <<waiting, held>>

Match(k) ==
  \/ \E r \in Requests :
       /\ waiting[r] > 0 /\ KeyOf[r] = k
       /\ waiting' = [waiting EXCEPT ![r] = @ - 1]
       /\ held' = held - 1
       /\ answer' = [res |-> "ok", id |-> IdOf[r]]
  \/ /\ \A r \in Requests : waiting[r] > 0 => KeyOf[r] # k
     /\ answer' = [res |-> IF k = NoKey THEN "bounds" ELSE "constraint"]
     /\ UNCHANGED <<waiting, held>>

Next ==
  \/ \E r \in Requests : Record(r)
  \/ \E k \in Keys \cup {NoKey} : Match(k)

Spec == Init /\ [][Next]_vars
=============================================================================
