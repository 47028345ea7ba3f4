--------------------------- MODULE ConverseTable ---------------------------
(***************************************************************************)
(* The pending table that situc/codegen/c/converse.py generates for a      *)
(* relation: `cap` slots of the caller's, each with a key, the caller's    *)
(* handle and a live flag.                                                 *)
(***************************************************************************)
EXTENDS SlotTable

VARIABLE
  pend        \* table->slots

PendInit == pend = [i \in Slots |-> None]

(* record: pack the key (BOUNDS when it cannot be read), then take the     *)
(* first slot that is free (BOUNDS when none is).  Two requests with one   *)
(* key are both recorded.                                                  *)
RecordSlotEvicts(r) ==
  IF KeyOf[r] = NoKey THEN {}
  ELSE IF FirstFree(pend) = {} THEN {1} ELSE FirstFree(pend)

RecordSlot(r) ==
  IF KeyOf[r] = NoKey THEN {} ELSE FirstFree(pend)

Recorded(r) == [i \in Slots |-> IF i \in RecordSlot(r) THEN r ELSE pend[i]]

(* match: the first live slot with the key gives its handle and is freed *)
MatchSlot(k) ==
  IF k = NoKey THEN {} ELSE FirstWithKey(pend, k)

Unmatched(k) == [i \in Slots |-> IF i \in MatchSlot(k) THEN None ELSE pend[i]]

MatchRefusal(k) == IF k = NoKey THEN "bounds" ELSE "constraint"

(* Every slot is empty or holds a request whose key could be read *)
ConverseTypeOK ==
  pend \in [Slots -> {r \in Requests : KeyOf[r] # NoKey} \cup {None}]
=============================================================================
