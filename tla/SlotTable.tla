----------------------------- MODULE SlotTable -----------------------------
(***************************************************************************)
(* The fixed tables of slots that the generated conversation and           *)
(* retransmission code walks from the first slot to the last: what a walk  *)
(* finds.  A slot is represented by the request stored in it: its bytes,   *)
(* key and handle are that request's, and an empty slot (live = 0, whose   *)
(* other fields no code reads) is None.  A reply is represented by its key.*)
(***************************************************************************)
EXTENDS Naturals, FiniteSets

CONSTANTS
  Cap,        \* the number of slots, `cap`
  Requests,   \* the requests a caller may have
  Keys,       \* conversation keys
  NoKey,      \* a message too short for a nested view the key is read from
  KeyOf,      \* KeyOf[r]: the key packed from request r, or NoKey
  Ids,        \* the caller's handles
  IdOf,       \* IdOf[r]: the handle the caller passes with request r
  None        \* an empty slot

ASSUME SlotTableAssumption ==
  /\ Cap \in Nat
  /\ NoKey \notin Keys
  /\ None \notin Requests
  /\ KeyOf \in [Requests -> Keys \cup {NoKey}]
  /\ IdOf \in [Requests -> Ids]

Slots == 1 .. Cap

(* The one slot a walk from the first finds empty, if there is one *)
FirstFreeButLast(t) ==
  {i \in 1 .. Cap - 1 : t[i] = None /\ \A j \in 1 .. i - 1 : t[j] # None}

FirstFree(t) ==
  {i \in Slots : t[i] = None /\ \A j \in 1 .. i - 1 : t[j] # None}

(* The one slot a walk finds live with key k, if there is one *)
FirstWithKey(t, k) ==
  {i \in Slots : /\ t[i] # None
                 /\ KeyOf[t[i]] = k
                 /\ \A j \in 1 .. i - 1 : t[j] # None => KeyOf[t[j]] # k}
=============================================================================
