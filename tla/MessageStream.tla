--------------------------- MODULE MessageStream ---------------------------
(***************************************************************************)
(* What rung 4 of the layer ladder promises (situc/codegen/c/frame.py,     *)
(* module docstring): a byte stream in, whole messages out.  There is no   *)
(* buffer here.  The stream is the sequence of byte positions 0, 1, 2, ... *)
(* and LenAt(p) is the length of the message that starts at position p.    *)
(* A reader holds at most one message at a time; it is handed out whole,   *)
(* only once every byte of it has arrived, and the next one starts where   *)
(* it ends: no byte is skipped, repeated or given out of order.            *)
(***************************************************************************)
EXTENDS Naturals

CONSTANT LenAt(_)

VARIABLES
  arrived,   \* how many bytes of the stream have arrived
  cursor,    \* where the message held, or else the next message, starts
  current    \* the length of the message held, 0 when none is

vars == <<arrived, cursor, current>>

Init == arrived = 0 /\ cursor = 0 /\ current = 0

(* More of the stream arrives, and the message held is let go. *)
Arrive ==
  /\ arrived' \in Nat /\ arrived' >= arrived
  /\ cursor' = cursor + current
  /\ current' = 0

(* The message held is let go; the one after it may be handed out. *)
Turn ==
  /\ cursor' = cursor + current
  /\ \/ current' = 0
     \/ /\ current' = LenAt(cursor')
        /\ cursor' + current' <= arrived
  /\ UNCHANGED arrived

Next == Arrive \/ Turn

Spec == Init /\ [][Next]_vars
=============================================================================
