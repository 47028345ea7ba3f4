------------------------------- MODULE Rungs --------------------------------
(***************************************************************************)
(* The rungs below the machines: the stream readers of the backends and    *)
(* the walker (rung 4), and the pending table (rung 5).  They do not       *)
(* interact, so one of them is chosen at the beginning (`part`) and the    *)
(* others stay as they are.  A reader's caller keeps pumping.              *)
(***************************************************************************)
EXTENDS RustReader, GrowingReader, FiniteSets

CONSTANTS
  Requests, Keys, NoKey, KeyOf, Ids, IdOf, None,  \* those of SlotTable
  TableCap                                        \* and its `cap`

ASSUME TableAssumption ==
  /\ TableCap \in Nat
  /\ NoKey \notin Keys
  /\ None \notin Requests
  /\ KeyOf \in [Requests -> Keys \cup {NoKey}]

VARIABLES
  part,      \* which of the readers runs, or the table
  pend,      \* the table's slots
  answer     \* what the table's last call returned

tableVars == <<pend, answer>>
rungsVars == <<vars, part, tableVars>>

Table == INSTANCE Converse WITH Cap <- TableCap

RungsInit ==
  /\ IF part = "growing" THEN GrowingInit ELSE Init
  /\ Table!Init

RungsNext ==
  /\ \/ /\ \/ part = "held" /\ Next
           \/ part = "rust" /\ RustNext
           \/ part = "growing" /\ GrowingNext
        /\ UNCHANGED tableVars
     \/ part = "table" /\ Table!Next /\ UNCHANGED vars
  /\ UNCHANGED part

(* A caller that keeps asking, in Rust drops what it was handed, and keeps *)
(* pushing the next byte while there is one: the use the comments on the   *)
(* readers describe.                                                       *)
Asks ==
  /\ \/ part = "held" /\ NextMessage
     \/ part = "rust" /\ RustNextMessage
     \/ part = "growing" /\ GrowingNextMessage
  /\ UNCHANGED <<part, tableVars>>

Feeds ==
  /\ pushed < End
  /\ \/ part = "held" /\ Push(1)
     \/ part = "rust" /\ RustPush(1)
     \/ part = "growing" /\ GrowingPush(1)
  /\ UNCHANGED <<part, tableVars>>

Drops == part = "rust" /\ RustAdvance /\ UNCHANGED <<part, tableVars>>

Pumped == WF_rungsVars(Asks) /\ WF_rungsVars(Feeds) /\ WF_rungsVars(Drops)

RungsSpec == RungsInit /\ [][RungsNext]_rungsVars /\ Pumped

-----------------------------------------------------------------------------
(* A reader that says to wait can be helped by waiting: see                *)
(* TruncatedCanBeMet and NotYetCanBeMet.                                   *)
WaitingHelps == TruncatedCanBeMet /\ NotYetCanBeMet

(* The Rust reader does not hand out and drop in one: its promise is       *)
(* DropsOneWhole.                                                          *)
Streams == INSTANCE MessageStream WITH
  arrived <- IF part = "rust" THEN 0 ELSE pushed,
  cursor <- IF part = "rust" THEN 0 ELSE taken,
  current <- IF part = "rust" THEN 0 ELSE ready

(* The readers of C, C++, Python and the walker implement the abstract     *)
(* stream: whole messages, each handed out once, in order, and only when   *)
(* all of it has arrived.                                                  *)
ReadersImplementStream == Streams!Spec

(* The caller that keeps pumping gets the whole stream, or all of it       *)
(* before a message that is below SIZE_MIN, where the reader is not Rust's,*)
(* or does not fit the buffer, where the reader's is of a fixed size.      *)
StreamGoesOn ==
  part \in {"held", "rust", "growing"} =>
    <>(\/ taken = End
       \/ part # "rust" /\ LenAt(taken) < SizeMin
       \/ part # "growing" /\ LenAt(taken) > Cap)

(* The table as a bag of requests, forgetting which slot holds which *)
Holding(r) == {i \in 1 .. TableCap : pend[i] = r}

Taken == {i \in 1 .. TableCap : pend[i] # None}

Bag == INSTANCE Pending WITH
  waiting <- [r \in Requests |-> Cardinality(Holding(r))],
  held <- Cardinality(Taken),
  Cap <- TableCap

(* The table implements the bounded bag of waiting requests: a reply is    *)
(* matched to a waiting request with its key, at most once, and refused    *)
(* otherwise; a request is refused only by a full table, and evicts none.  *)
PendingSpec == Bag!Spec
=============================================================================
