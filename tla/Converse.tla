------------------------------ MODULE Converse ------------------------------
(* The pending table of situc/codegen/c/converse.py on its own, driven by  *)
(* a caller that may record any request at any time, also one that is      *)
(* already waiting, and by any reply.                                      *)
EXTENDS ConverseTable

VARIABLE
  answer      \* what the last call returned

vars == <<pend, answer>>

Init ==
  /\ PendInit
  /\ answer = [res |-> "none"]

Record(r) ==
  /\ pend' = Recorded(r)
  /\ answer' = [res |-> IF RecordSlot(r) = {} THEN "bounds" ELSE "ok"]

Match(k) ==
  /\ pend' = Unmatched(k)
  /\ \/ \E i \in MatchSlot(k) : answer' = [res |-> "ok", id |-> IdOf[pend[i]]]
     \/ MatchSlot(k) = {} /\ answer' = [res |-> MatchRefusal(k)]

Next ==
  \/ \E r \in Requests : Record(r)
  \/ \E k \in Keys \cup {NoKey} : Match(k)

Spec == Init /\ [][Next]_vars

=============================================================================
