---------------------------- MODULE FrameReader ----------------------------
(***************************************************************************)
(* The stream reader that situc/codegen/c/frame.py generates for a         *)
(* frameable struct: a caller's buffer of `cap` bytes, how many of them    *)
(* are held (`have`) and how many the last `next` handed out (`ready`).    *)
(*                                                                         *)
(* A byte is represented by its position in the stream, so the model can   *)
(* tell the right byte from any other.  What `<struct>_required` and the   *)
(* view guard answer about the message that starts at a position is given  *)
(* by the constants: they depend on the bytes and never on the reader.     *)
(***************************************************************************)
EXTENDS Naturals

CONSTANTS
  Cap,            \* reader->cap, the size of the caller's buffer
  LenAt(_),       \* length of the message that starts at a position
  KnownNeed(_,_), \* *need of a truncated `required`: position, bytes held
  SizeMin,        \* the struct's SIZE_MIN, which only the view guard holds
  End             \* how many bytes the peer ever sends

ASSUME CapAssumption == Cap \in Nat \ {0}

ASSUME SizesAssumption == SizeMin \in Nat /\ End \in Nat

Positions == 0 .. End

ASSUME LenAssumption == \A p \in Positions : LenAt(p) \in Nat \ {0}

(* On a truncated message `required` reports a lower bound of the total    *)
(* that is more than the bytes it saw.  With no bytes it can say only what *)
(* the schema says of every message.                                       *)
ASSUME KnownNeedAssumption ==
  /\ \A p \in Positions, h \in 0 .. Cap :
       h < LenAt(p) => KnownNeed(p, h) \in h + 1 .. LenAt(p)
  /\ \A p, q \in Positions : KnownNeed(p, 0) = KnownNeed(q, 0)

VARIABLES
  buf,      \* buf[i]: the position of the byte in cell i
  have,     \* reader->have
  ready,    \* reader->ready
  last,     \* the last call and what it returned
  pushed,   \* history: bytes the caller has pushed and the reader accepted
  taken     \* history: bytes of the messages dropped by `advance`

vars == <<buf, have, ready, last, pushed, taken>>

Cells == 0 .. Cap - 1
Calls == {"init", "advance", "push", "next"}
Results == {"ok", "truncated", "bounds"}

(* init; the cells hold whatever the caller's memory held *)
Init ==
  /\ buf \in [Cells -> {0}]
  /\ have = 0
  /\ ready = 0
  /\ last = [call |-> "init", res |-> "ok"]
  /\ pushed = 0
  /\ taken = 0

(* The buffer and the count after the body of `advance`: the loop copies   *)
(* cell i down to cell i - ready, for i from ready up to have.  With       *)
(* ready = 0 both are unchanged, the early return.                         *)
MovedStopsEarly ==
  [i \in Cells |-> IF i + ready + 1 < have THEN buf[i + ready] ELSE buf[i]]

Moved ==
  [i \in Cells |-> IF i + ready < have THEN buf[i + ready] ELSE buf[i]]

Held == have - ready

Advance ==
  /\ buf' = Moved
  /\ have' = Held
  /\ ready' = 0
  /\ taken' = taken + ready
  /\ last' = [call |-> "advance", res |-> "ok"]
  /\ UNCHANGED pushed

(* The capacity check of `push`, made after the message held is dropped *)
Fits(len) == len <= Cap - Held

(* push(data, len), where data is the next len bytes of the stream.  The   *)
(* message held is dropped first, whether or not the new bytes fit.        *)
Push(len) ==
  /\ ready' = 0
  /\ taken' = taken + ready
  /\ \/ /\ ~Fits(len)
        /\ buf' = Moved
        /\ have' = Held
        /\ last' = [call |-> "push", res |-> "bounds"]
        /\ UNCHANGED pushed
     \/ /\ Fits(len)
        /\ buf' = [i \in Cells |->
                     IF i >= Held /\ i < Held + len
                     THEN pushed + (i - Held)
                     ELSE Moved[i]]
        /\ have' = Held + len
        /\ pushed' = pushed + len
        /\ last' = [call |-> "push", res |-> "ok"]

(* required(buf, have, &need): its answer about `h` bytes in `b` *)
RequiredOneShort(b, h) ==
  IF h >= 1 /\ h + 1 >= LenAt(b[0])
  THEN [res |-> "ok", need |-> LenAt(b[0])]
  ELSE [res |-> "truncated", need |-> KnownNeed(b[0], h)]

Required(b, h) ==
  IF h >= 1 /\ h >= LenAt(b[0])
  THEN [res |-> "ok", need |-> LenAt(b[0])]
  ELSE [res |-> "truncated", need |-> KnownNeed(b[0], h)]

(* The view guard: a message shorter than SIZE_MIN is SITU_ERR_BOUNDS *)
ViewRefusesTheMinimum(need) == need <= SizeMin

ViewRefuses(need) == need < SizeMin

(* What `next` returns once `required` has answered r, and the bytes it    *)
(* hands out.                                                              *)
OutcomeIgnoringCap(r) ==
  IF r.res = "truncated" \/ ViewRefuses(r.need)
  THEN [res |-> r.res, ready |-> 0]
  ELSE [res |-> "ok", ready |-> r.need]

Outcome(r) ==
  IF r.res = "truncated"
  THEN [res |-> IF r.need > Cap THEN "bounds" ELSE "truncated", ready |-> 0]
  ELSE IF ViewRefuses(r.need)
       THEN [res |-> "bounds", ready |-> 0]
       ELSE [res |-> "ok", ready |-> r.need]

NextMessage ==
  LET r == Outcome(Required(Moved, Held)) IN
  /\ buf' = Moved
  /\ have' = Held
  /\ taken' = taken + ready
  /\ ready' = r.ready
  /\ last' = [call |-> "next", res |-> r.res]
  /\ UNCHANGED pushed

(* The caller may push any number of the bytes that have not been pushed. *)
Next == Advance \/ NextMessage \/ \E len \in 0 .. End - pushed : Push(len)

Spec == Init /\ [][Next]_vars

-----------------------------------------------------------------------------
(***************************************************************************)
(* Properties                                                              *)
(***************************************************************************)

TypeOK ==
  /\ buf \in [Cells -> Nat]
  /\ have \in 0 .. Cap
  /\ ready \in 0 .. have
  /\ last \in [call : Calls, res : Results]
  /\ pushed \in Nat
  /\ taken \in Nat

(* The cells held are exactly the bytes pushed and not yet dropped, in     *)
(* order, whatever mixture of push, next and advance (and refused pushes)  *)
(* came before: the in-place move of `advance` loses or repeats nothing.   *)
Contents ==
  /\ pushed = taken + have
  /\ \A i \in Cells : i < have => buf[i] = taken + i

(* What `next` handed out is one whole message, and it is still in the     *)
(* buffer under the view: every byte of it is its own byte of the stream.  *)
ViewIntact ==
  ready > 0 => /\ ready = LenAt(taken)
               /\ \A i \in Cells : i < ready => buf[i] = taken + i

(* A `next` that says TRUNCATED asks for something the caller can bring:   *)
(* a byte of the message at the front is missing, and the buffer has room  *)
(* for it.  A TRUNCATED with a full buffer, or with a whole message in it, *)
(* would leave the caller waiting for what can never happen.               *)
TruncatedCanBeMet ==
  last = [call |-> "next", res |-> "truncated"] =>
    /\ have < Cap
    /\ have < LenAt(taken)

(* The comment on `next`: SITU_ERR_BOUNDS "where a whole one needs more    *)
(* than this buffer can ever hold".                                        *)
BoundsMeansTooBig ==
  last = [call |-> "next", res |-> "bounds"] => LenAt(taken) > Cap

Stream == INSTANCE MessageStream
            WITH arrived <- pushed, cursor <- taken, current <- ready

(* The reader implements the abstract stream: whole messages, each handed  *)
(* out once, in order, and only when all of it has arrived.                *)
StreamSpec == Stream!Spec
=============================================================================
