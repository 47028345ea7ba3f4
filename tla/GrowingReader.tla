--------------------------- MODULE GrowingReader ---------------------------
(***************************************************************************)
(* The stream readers of the Python backend (situc/codegen/python/         *)
(* frame.py) and of the walker (walker/session.py): a bytearray that       *)
(* grows, so nothing is refused for want of room, and a message that is    *)
(* handed out as a copy.                                                   *)
(*                                                                         *)
(* The variables are those of FrameReader; `buf` has as many cells as are  *)
(* held.  "not_yet" is TruncatedError, or the walker's None.               *)
(***************************************************************************)
EXTENDS FrameReader

(* del buf[:ready] *)
Rest == [i \in 0 .. Held - 1 |-> buf[i + ready]]

GrowingInit ==
  /\ buf = [i \in {} |-> 0]
  /\ have = 0 /\ ready = 0
  /\ last = [call |-> "init", res |-> "ok"]
  /\ pushed = 0 /\ taken = 0

GrowingAdvance ==
  /\ buf' = Rest
  /\ have' = Held
  /\ ready' = 0
  /\ taken' = taken + ready
  /\ last' = [call |-> "advance", res |-> "ok"]
  /\ UNCHANGED pushed

GrowingPush(len) ==
  /\ buf' = [i \in 0 .. Held + len - 1 |->
               IF i < Held THEN Rest[i] ELSE pushed + (i - Held)]
  /\ have' = Held + len
  /\ ready' = 0
  /\ taken' = taken + ready
  /\ pushed' = pushed + len
  /\ last' = [call |-> "push", res |-> "ok"]

(* A message that `required` says is whole may be refused by the view.     *)
(* Python's reader leaves it where it is; the walker has noted its length  *)
(* by then, so the next call drops it.                                     *)
GrowingOutcomes(r) ==
  IF r.res # "ok" THEN {[res |-> "not_yet", ready |-> 0]}
  ELSE IF ViewRefuses(r.need) THEN [res: {"bounds"}, ready: {0, r.need}]
  ELSE {[res |-> "ok", ready |-> r.need]}

GrowingNextMessage ==
  \E r \in IF Held = 0 THEN {[res |-> "not_yet", ready |-> 0]}
           ELSE GrowingOutcomes(Required(Rest, Held)) :
    /\ buf' = Rest
    /\ have' = Held
    /\ taken' = taken + ready
    /\ ready' = r.ready
    /\ last' = [call |-> "next", res |-> r.res]
    /\ UNCHANGED pushed

GrowingNext ==
  \/ GrowingAdvance \/ GrowingNextMessage
  \/ \E len \in 0 .. End - pushed : GrowingPush(len)

-----------------------------------------------------------------------------
(* "not yet" is said only where a byte of the front message is missing *)
NotYetCanBeMet ==
  last = [call |-> "next", res |-> "not_yet"] => have < LenAt(taken)
=============================================================================
