----------------------------- MODULE RustReader -----------------------------
(***************************************************************************)
(* The stream reader of the Rust backend (situc/codegen/rust/frame.py).    *)
(* `next` borrows the reader and changes nothing, so it hands the same     *)
(* message out again until `advance` drops it, and `push` drops none.  It  *)
(* keeps no `ready`: `advance` asks `required` again.                      *)
(*                                                                         *)
(* The variables are those of FrameReader; `ready` is the length of the    *)
(* view that is lent, which any call that takes the reader mutably ends.   *)
(***************************************************************************)
EXTENDS FrameReader

(* push: what fits is appended behind what is held *)
RustPush(len) ==
  /\ ready' = 0
  /\ \/ /\ len > Cap - have
        /\ last' = [call |-> "push", res |-> "bounds"]
        /\ UNCHANGED <<buf, have, pushed>>
     \/ /\ len <= Cap - have
        /\ buf' = [i \in Cells |->
                     IF i >= have /\ i < have + len THEN pushed + (i - have)
                     ELSE buf[i]]
        /\ have' = have + len
        /\ pushed' = pushed + len
        /\ last' = [call |-> "push", res |-> "ok"]
  /\ UNCHANGED taken

(* next: `ready`, and the view over as many bytes *)
RustNextMessage ==
  LET r == Outcome(Required(buf, have)) IN
  /\ ready' = r.ready
  /\ last' = [call |-> "next", res |-> r.res]
  /\ UNCHANGED <<buf, have, pushed, taken>>

(* advance: `ready` again, which does not ask the view guard, and the rest *)
(* is moved down.  Nothing is dropped where no whole message is held.      *)
DroppedAll(need) == have

Dropped(need) == need

RustAdvance ==
  LET q == Required(buf, have)
      n == Dropped(q.need) IN
  /\ ready' = 0
  /\ \/ /\ q.res = "ok"
        /\ buf' = [i \in Cells |-> IF i + n < have THEN buf[i + n] ELSE buf[i]]
        /\ have' = have - n
        /\ taken' = taken + n
        /\ last' = [call |-> "advance", res |-> "ok"]
     \/ /\ q.res # "ok"
        /\ last' = [call |-> "advance",
                    res |-> IF q.need > Cap THEN "bounds" ELSE "truncated"]
        /\ UNCHANGED <<buf, have, taken>>
  /\ UNCHANGED pushed

RustNext ==
  RustAdvance \/ RustNextMessage \/ \E len \in 0 .. End - pushed : RustPush(len)

-----------------------------------------------------------------------------
(* "Drop the message `next` returned": each drop is of the one message at  *)
(* the front, whole, whatever was pushed since it was handed out, and also *)
(* when it never was.                                                      *)
DropsOneWhole ==
  [][taken' # taken => taken' = taken + LenAt(taken) /\ taken' <= pushed]_vars
=============================================================================
