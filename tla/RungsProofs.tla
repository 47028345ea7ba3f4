---------------------------- MODULE RungsProofs -----------------------------
(***************************************************************************)
(* Theorems about the stream readers and the pending table, for every      *)
(* buffer size, every stream, every `required` that keeps its contract and *)
(* every number of slots, requests and keys.  First the reader of C and    *)
(* C++ (FrameReader), then those of Rust and of Python and the walker,     *)
(* then what holds of any of them, and the table.                          *)
(***************************************************************************)
EXTENDS Rungs, FiniteSetTheorems, WellFoundedInduction, TLAPS

(* TypeOK is inductive only with Contents (a position read from the buffer *)
(* must be one the assumptions speak of) and with the bound on what was    *)
(* pushed.                                                                 *)
IInv == TypeOK /\ Contents /\ ViewIntact /\ pushed <= End

(* What the in-place move of `advance` leaves: the bytes not dropped, at   *)
(* the front of the buffer and in order.                                   *)
LEMMA MovedContents ==
  ASSUME TypeOK, Contents
  PROVE  /\ Moved \in [Cells -> Nat]
         /\ Held \in 0 .. Cap
         /\ pushed = taken + ready + Held
         /\ \A i \in Cells : i < Held => Moved[i] = taken + ready + i
<1> USE CapAssumption
<1>1. Held \in 0 .. Cap /\ pushed = taken + ready + Held
  BY DEF TypeOK, Contents, Held
<1>2. \A i \in Cells : i + ready < have => i + ready \in Cells
  BY DEF TypeOK, Cells
<1>3. Moved \in [Cells -> Nat]
  BY <1>2 DEF TypeOK, Moved
<1>4. ASSUME NEW i \in Cells, i < Held PROVE Moved[i] = taken + ready + i
  <2>1. i + ready < have /\ i + ready \in Cells
    BY <1>2, <1>4 DEF Held, TypeOK, Cells
  <2>2. Moved[i] = buf[i + ready]
    BY <2>1 DEF Moved
  <2>3. buf[i + ready] = taken + (i + ready)
    BY <2>1 DEF Contents
  <2> QED BY <2>2, <2>3 DEF TypeOK, Cells
<1> QED BY <1>1, <1>3, <1>4

(* What a reader of a buffer of its own size may conclude: a message that  *)
(* is whole is the one at the front, and one that is not is missing a      *)
(* byte, for which there is room unless the reader says BOUNDS.            *)
LEMMA OutcomeOfFront ==
  ASSUME NEW b, NEW h \in 0 .. Cap, NEW p \in Positions, h >= 1 => b[0] = p
  PROVE  LET q == Required(b, h)
             r == Outcome(q) IN
         /\ q.res \in {"ok", "truncated"}
         /\ q.res = "ok" => q.need = LenAt(p) /\ LenAt(p) \in 1 .. h
         /\ r.res \in Results
         /\ r.ready \in 0 .. h
         /\ r.ready > 0 => r.ready = LenAt(p)
         /\ r.res = "truncated" => h < Cap /\ h < LenAt(p)
<1> DEFINE q == Required(b, h)
           r == Outcome(q)
<1> USE CapAssumption
<1>1. LenAt(p) \in Nat \ {0} /\ h \in Nat
  BY LenAssumption
<1>2. CASE h >= 1 /\ h >= LenAt(b[0])
  <2>1. q = [res |-> "ok", need |-> LenAt(p)]
    BY <1>2 DEF Required
  <2>2. \/ r = [res |-> "bounds", ready |-> 0]
        \/ r = [res |-> "ok", ready |-> LenAt(p)]
    BY <2>1 DEF Outcome
  <2>3. LenAt(p) \in 1 .. h
    BY <1>1, <1>2
  <2> QED BY <1>1, <2>1, <2>2, <2>3 DEF Results
<1>3. CASE ~(h >= 1 /\ h >= LenAt(b[0]))
  <2>1. q = [res |-> "truncated", need |-> KnownNeed(b[0], h)]
    BY <1>3 DEF Required
  <2>2. /\ r.ready = 0 /\ r.res \in {"bounds", "truncated"}
        /\ r.res = "truncated" => ~(KnownNeed(b[0], h) > Cap)
    BY <2>1 DEF Outcome
  <2>3. h < LenAt(p)
    BY <1>1, <1>3
  <2>4. r.res = "truncated" => h < Cap
    <3>1. CASE h = 0
      BY <3>1
    <3>2. CASE h >= 1
      <4>1. KnownNeed(p, h) \in h + 1 .. LenAt(p) /\ b[0] = p
        BY <2>3, <3>2, KnownNeedAssumption
      <4> QED BY <1>1, <2>2, <4>1
    <3> QED BY <1>1, <3>1, <3>2
  <2> QED BY <1>1, <2>1, <2>2, <2>3, <2>4 DEF Results
<1> QED BY <1>2, <1>3

(* Where the buffer holds what it should, its first byte is the position   *)
(* the next message starts at.                                             *)
LEMMA FrontIsPosition ==
  ASSUME TypeOK, Contents, pushed <= End
  PROVE  /\ taken \in Positions /\ taken + ready \in Positions
         /\ have >= 1 => buf[0] = taken
         /\ Held >= 1 => Moved[0] = taken + ready
<1> USE CapAssumption, SizesAssumption
<1>1. taken \in Positions /\ taken + ready \in Positions
  BY MovedContents DEF TypeOK, Contents, Positions
<1>2. have >= 1 => buf[0] = taken
  BY DEF TypeOK, Contents, Cells
<1>3. Held >= 1 => Moved[0] = taken + ready
  BY MovedContents DEF TypeOK, Cells
<1> QED BY <1>1, <1>2, <1>3

(* What `next` may conclude from the front of the buffer: a message it     *)
(* hands out is one whole message of the stream, all of it held.           *)
LEMMA OutcomeIsOneMessage ==
  ASSUME TypeOK, Contents, pushed <= End
  PROVE  LET r == Outcome(Required(Moved, Held)) IN
         /\ r.res \in Results
         /\ r.ready \in 0 .. Held
         /\ r.ready > 0 => r.ready = LenAt(taken + ready)
         /\ r.res = "truncated" => Held < Cap /\ Held < LenAt(taken + ready)
BY MovedContents, FrontIsPosition, OutcomeOfFront

LEMMA InitEstablishes == Init => IInv
BY CapAssumption, SizesAssumption
   DEF Init, IInv, TypeOK, Contents, ViewIntact, Cells, Calls, Results

LEMMA NextPreserves == IInv /\ [Next]_vars => IInv'
<1> SUFFICES ASSUME IInv, [Next]_vars PROVE IInv'
  OBVIOUS
<1> USE CapAssumption, SizesAssumption
<1>0. TypeOK /\ Contents /\ ViewIntact /\ pushed <= End
  BY DEF IInv
<1>m. /\ Moved \in [Cells -> Nat]
      /\ Held \in 0 .. Cap
      /\ pushed = taken + ready + Held
      /\ \A i \in Cells : i < Held => Moved[i] = taken + ready + i
  BY <1>0, MovedContents
<1>t. taken \in Nat /\ ready \in Nat /\ pushed \in Nat /\ taken + ready \in Nat
  BY <1>0 DEF TypeOK
<1>1. CASE Advance
  <2>1. TypeOK'
    BY <1>1, <1>m, <1>t DEF Advance, TypeOK, Calls, Results
  <2>2. Contents'
    BY <1>1, <1>m, <1>t DEF Advance, Contents
  <2>3. ViewIntact' /\ (pushed <= End)'
    BY <1>1, <1>0 DEF Advance, ViewIntact
  <2> QED BY <2>1, <2>2, <2>3 DEF IInv
<1>2. CASE NextMessage
  <2> DEFINE r == Outcome(Required(Moved, Held))
  <2>r. /\ r.res \in Results
        /\ r.ready \in 0 .. Held
        /\ r.ready > 0 => r.ready = LenAt(taken + ready)
    BY <1>0, OutcomeIsOneMessage
  <2>n. /\ buf' = Moved /\ have' = Held /\ taken' = taken + ready
        /\ ready' = r.ready /\ pushed' = pushed
        /\ last' = [call |-> "next", res |-> r.res]
    BY <1>2 DEF NextMessage
  <2> HIDE DEF r
  <2>1. TypeOK'
    BY <2>r, <2>n, <1>m, <1>t DEF TypeOK, Calls
  <2>2. Contents'
    BY <2>n, <1>m, <1>t DEF Contents
  <2>3. ViewIntact'
    BY <2>r, <2>n, <1>m, <1>t DEF ViewIntact, Cells
  <2> QED BY <2>1, <2>2, <2>3, <2>n, <1>0 DEF IInv
<1>3. ASSUME NEW len \in 0 .. End - pushed, Push(len) PROVE IInv'
  <2>1. CASE ~Fits(len)
    <3>1. /\ buf' = Moved /\ have' = Held /\ taken' = taken + ready
          /\ ready' = 0 /\ pushed' = pushed
          /\ last' = [call |-> "push", res |-> "bounds"]
      BY <1>3, <2>1 DEF Push
    <3>2. TypeOK'
      BY <3>1, <1>m, <1>t DEF TypeOK, Calls, Results
    <3>3. Contents' /\ ViewIntact'
      BY <3>1, <1>m, <1>t DEF Contents, ViewIntact
    <3> QED BY <3>1, <3>2, <3>3, <1>0 DEF IInv
  <2>2. CASE Fits(len)
    <3>1. /\ buf' = [i \in Cells |->
                       IF i >= Held /\ i < Held + len
                       THEN pushed + (i - Held)
                       ELSE Moved[i]]
          /\ have' = Held + len /\ taken' = taken + ready
          /\ ready' = 0 /\ pushed' = pushed + len
          /\ last' = [call |-> "push", res |-> "ok"]
      BY <1>3, <2>2 DEF Push
    <3>2. len \in Nat /\ Held + len \in 0 .. Cap /\ pushed + len <= End
      BY <2>2, <1>m, <1>t, <1>0 DEF Fits
    <3>3. TypeOK'
      <4>1. buf' \in [Cells -> Nat]
        BY <3>1, <1>m, <1>t DEF Cells
      <4> QED BY <4>1, <3>1, <3>2, <1>m, <1>t DEF TypeOK, Calls, Results
    <3>4. Contents'
      BY <3>1, <3>2, <1>m, <1>t DEF Contents, Cells
    <3> QED BY <3>1, <3>2, <3>3, <3>4 DEF IInv, ViewIntact
  <2> QED BY <2>1, <2>2
<1>4. CASE UNCHANGED vars
  BY <1>4, <1>0 DEF vars, IInv, TypeOK, Contents, ViewIntact
<1> QED BY <1>1, <1>2, <1>3, <1>4 DEF Next

(* The reader holds its type, exactly the bytes pushed and not dropped,    *)
(* and under a view handed out one whole message, in every reachable state *)
(* of push, next and advance.                                              *)
THEOREM ReaderInvariant == Spec => [](TypeOK /\ Contents /\ ViewIntact)
<1>1. Spec => []IInv
  BY InitEstablishes, NextPreserves, PTL DEF Spec
<1>2. IInv => TypeOK /\ Contents /\ ViewIntact
  BY DEF IInv
<1> QED BY <1>1, <1>2, PTL

(* What a step of the abstract stream is, of the reader's own variables *)
StreamMove ==
  /\ taken' = taken + ready
  /\ \/ pushed' \in Nat /\ pushed' >= pushed /\ ready' = 0
     \/ /\ pushed' = pushed
        /\ ready' = 0 \/ (ready' = LenAt(taken') /\ taken' + ready' <= pushed)

LEMMA HeldMoves ==
  ASSUME IInv, Next
  PROVE  StreamMove
<1> USE CapAssumption, SizesAssumption
<1>0. TypeOK /\ Contents /\ pushed <= End
  BY DEF IInv
<1>1. /\ Held \in Nat /\ pushed = taken + ready + Held
      /\ taken \in Nat /\ ready \in Nat /\ pushed \in Nat
  BY <1>0, MovedContents DEF TypeOK
<1>2. CASE Advance
  BY <1>1, <1>2 DEF Advance, StreamMove
<1>3. CASE NextMessage
  <2> DEFINE r == Outcome(Required(Moved, Held))
  <2>1. /\ r.ready \in 0 .. Held
        /\ r.ready > 0 => r.ready = LenAt(taken + ready)
    BY <1>0, OutcomeIsOneMessage
  <2>2. taken' = taken + ready /\ ready' = r.ready /\ pushed' = pushed
    BY <1>3 DEF NextMessage
  <2> HIDE DEF r
  <2> QED BY <1>1, <2>1, <2>2 DEF StreamMove
<1>4. ASSUME NEW len \in 0 .. End - pushed, Push(len) PROVE StreamMove
  <2>1. /\ taken' = taken + ready /\ ready' = 0
        /\ pushed' = pushed \/ pushed' = pushed + len
    BY <1>4 DEF Push
  <2> QED BY <1>1, <2>1 DEF StreamMove
<1> QED BY <1>2, <1>3, <1>4 DEF Next

(* Every step of the reader is a step of the abstract stream or leaves it  *)
(* alone: whole messages, each handed out once, in order, and only when    *)
(* all of it has arrived.                                                  *)
THEOREM ReaderImplementsStream == Spec => StreamSpec
<1>1. Init => Stream!Init
  BY DEF Init, Stream!Init
<1>2. IInv /\ [Next]_vars => [Stream!Next]_(Stream!vars)
  <2>1. StreamMove => Stream!Next
    BY DEF StreamMove, Stream!Next, Stream!Arrive, Stream!Turn
  <2>2. UNCHANGED vars => UNCHANGED Stream!vars
    BY DEF vars, Stream!vars
  <2> QED BY <2>1, <2>2, HeldMoves
<1>3. Spec => []IInv
  BY InitEstablishes, NextPreserves, PTL DEF Spec
<1> QED BY <1>1, <1>2, <1>3, PTL DEF Spec, StreamSpec, Stream!Spec

-----------------------------------------------------------------------------
LEMMA HeldWaits ==
  ASSUME IInv, Next
  PROVE  TruncatedCanBeMet'
<1>0. TypeOK /\ Contents /\ pushed <= End
  BY DEF IInv
<1>1. CASE NextMessage
  <2> DEFINE r == Outcome(Required(Moved, Held))
  <2>2. r.res = "truncated" => Held < Cap /\ Held < LenAt(taken + ready)
    BY <1>0, OutcomeIsOneMessage
  <2>3. /\ have' = Held /\ taken' = taken + ready
        /\ last' = [call |-> "next", res |-> r.res]
    BY <1>1 DEF NextMessage
  <2> HIDE DEF r
  <2> QED BY <2>2, <2>3 DEF TruncatedCanBeMet
<1>2. CASE Advance \/ \E len \in 0 .. End - pushed : Push(len)
  <2>1. last'.call # "next"
    BY <1>2 DEF Advance, Push
  <2> QED BY <2>1 DEF TruncatedCanBeMet
<1> QED BY <1>1, <1>2 DEF Next

(* A message that goes is the whole message that was handed out *)
DropStep == taken' # taken => taken' = taken + LenAt(taken) /\ taken' <= pushed

LEMMA HeldDrops ==
  ASSUME IInv, Next
  PROVE  DropStep
<1>1. taken' = taken \/ taken' = taken + ready
  BY DEF Next, Advance, NextMessage, Push
<1>2. ready > 0 => ready = LenAt(taken)
  BY DEF IInv, ViewIntact
<1>3. taken \in Nat /\ ready \in Nat /\ taken + ready <= pushed
  BY CapAssumption DEF IInv, TypeOK, Contents
<1> QED BY <1>1, <1>2, <1>3 DEF DropStep

-----------------------------------------------------------------------------
(* The Rust reader: the same invariant, with nothing dropped but by        *)
(* `advance`.                                                              *)
LEMMA RustPushKeeps ==
  ASSUME IInv, NEW len \in 0 .. End - pushed, RustPush(len)
  PROVE  IInv'
<1> USE CapAssumption, SizesAssumption
<1>0. TypeOK /\ Contents /\ pushed <= End
  BY DEF IInv
<1>1. CASE UNCHANGED <<buf, have, pushed, taken>> /\ ready' = 0
           /\ last' = [call |-> "push", res |-> "bounds"]
  BY <1>0, <1>1 DEF IInv, TypeOK, Contents, ViewIntact, Calls, Results
<1>2. CASE /\ len <= Cap - have /\ ready' = 0 /\ taken' = taken
           /\ buf' = [i \in Cells |->
                        IF i >= have /\ i < have + len THEN pushed + (i - have)
                        ELSE buf[i]]
           /\ have' = have + len /\ pushed' = pushed + len
           /\ last' = [call |-> "push", res |-> "ok"]
  <2>1. /\ len \in Nat /\ have \in Nat /\ pushed \in Nat /\ taken \in Nat
        /\ have + len \in 0 .. Cap /\ pushed + len <= End
    BY <1>0, <1>2 DEF TypeOK
  <2>2. buf' \in [Cells -> Nat]
    BY <1>0, <1>2, <2>1 DEF TypeOK, Cells
  <2>3. TypeOK'
    BY <1>2, <2>1, <2>2 DEF TypeOK, Calls, Results
  <2>4. Contents'
    BY <1>0, <1>2, <2>1 DEF Contents, Cells
  <2> QED BY <1>2, <2>1, <2>3, <2>4 DEF IInv, ViewIntact
<1> QED BY <1>1, <1>2 DEF RustPush

LEMMA RustNextKeeps ==
  ASSUME IInv, RustNextMessage
  PROVE  IInv' /\ TruncatedCanBeMet'
<1>0. TypeOK /\ Contents /\ pushed <= End
  BY DEF IInv
<1> DEFINE r == Outcome(Required(buf, have))
<1>1. have \in 0 .. Cap /\ have \in Nat /\ taken \in Nat
  BY <1>0, CapAssumption DEF TypeOK
<1>2. /\ r.res \in Results /\ r.ready \in 0 .. have
      /\ r.ready > 0 => r.ready = LenAt(taken)
      /\ r.res = "truncated" => have < Cap /\ have < LenAt(taken)
  BY <1>0, <1>1, FrontIsPosition, OutcomeOfFront
<1>3. /\ ready' = r.ready /\ last' = [call |-> "next", res |-> r.res]
      /\ UNCHANGED <<buf, have, pushed, taken>>
  BY DEF RustNextMessage
<1> HIDE DEF r
<1>4. TypeOK'
  BY <1>0, <1>2, <1>3 DEF TypeOK, Calls
<1>5. Contents'
  BY <1>0, <1>3 DEF Contents
<1>6. ViewIntact'
  BY <1>0, <1>1, <1>2, <1>3 DEF ViewIntact, Contents, Cells
<1>7. TruncatedCanBeMet'
  BY <1>2, <1>3 DEF TruncatedCanBeMet
<1> QED BY <1>0, <1>3, <1>4, <1>5, <1>6, <1>7 DEF IInv

LEMMA RustAdvanceKeeps ==
  ASSUME IInv, RustAdvance
  PROVE  IInv' /\ DropStep
<1> USE CapAssumption, SizesAssumption
<1>0. TypeOK /\ Contents /\ pushed <= End
  BY DEF IInv
<1> DEFINE q == Required(buf, have)
           n == Dropped(q.need)
<1>1. /\ have \in 0 .. Cap /\ have \in Nat /\ taken \in Nat /\ pushed \in Nat
      /\ pushed = taken + have
  BY <1>0 DEF TypeOK, Contents
<1>2. q.res = "ok" => n = LenAt(taken) /\ LenAt(taken) \in 1 .. have
  BY <1>0, <1>1, FrontIsPosition, OutcomeOfFront DEF Dropped
<1>3. \/ /\ q.res = "ok"
         /\ buf' = [i \in Cells |-> IF i + n < have THEN buf[i + n] ELSE buf[i]]
         /\ have' = have - n /\ taken' = taken + n
         /\ last' = [call |-> "advance", res |-> "ok"]
      \/ /\ UNCHANGED <<buf, have, taken>>
         /\ \E res \in {"bounds", "truncated"} :
              last' = [call |-> "advance", res |-> res]
  BY DEF RustAdvance
<1>4. ready' = 0 /\ pushed' = pushed
  BY DEF RustAdvance
<1> HIDE DEF q, n
<1>5. CASE /\ UNCHANGED <<buf, have, taken>>
           /\ \E res \in {"bounds", "truncated"} :
                last' = [call |-> "advance", res |-> res]
  BY <1>0, <1>4, <1>5
     DEF IInv, TypeOK, Contents, ViewIntact, DropStep, Calls, Results
<1>6. CASE /\ q.res = "ok"
           /\ buf' = [i \in Cells |-> IF i + n < have THEN buf[i + n] ELSE buf[i]]
           /\ have' = have - n /\ taken' = taken + n
           /\ last' = [call |-> "advance", res |-> "ok"]
  <2>1. n = LenAt(taken) /\ n \in 1 .. have /\ n \in Nat
    BY <1>1, <1>2, <1>6
  <2>2. \A i \in Cells : i + n < have => i + n \in Cells
    BY <1>1, <2>1 DEF Cells
  <2>3. buf' \in [Cells -> Nat]
    BY <1>0, <1>6, <2>2 DEF TypeOK
  <2>4. TypeOK'
    BY <1>1, <1>4, <1>6, <2>1, <2>3 DEF TypeOK, Calls, Results
  <2>5. ASSUME NEW i \in Cells, i < have' PROVE buf'[i] = taken' + i
    <3>1. i + n < have /\ i + n \in Cells /\ i \in Nat
      BY <1>1, <1>6, <2>1, <2>2, <2>5 DEF Cells
    <3>2. buf'[i] = buf[i + n] /\ buf[i + n] = taken + (i + n)
      BY <1>0, <1>6, <3>1 DEF Contents
    <3> QED BY <1>1, <1>6, <2>1, <3>1, <3>2
  <2>6. Contents'
    BY <1>1, <1>4, <1>6, <2>1, <2>5 DEF Contents
  <2>7. DropStep
    BY <1>1, <1>4, <1>6, <2>1 DEF DropStep
  <2> QED BY <1>0, <1>4, <2>4, <2>6, <2>7 DEF IInv, ViewIntact
<1> QED BY <1>3, <1>5, <1>6

LEMMA RustKeeps ==
  ASSUME IInv, RustNext
  PROVE  IInv' /\ TruncatedCanBeMet' /\ DropStep
<1>1. ASSUME NEW len \in 0 .. End - pushed, RustPush(len)
      PROVE  IInv' /\ TruncatedCanBeMet' /\ DropStep
  <2>1. last'.call # "next" /\ taken' = taken
    BY <1>1 DEF RustPush
  <2> QED BY <1>1, <2>1, RustPushKeeps DEF TruncatedCanBeMet, DropStep
<1>2. CASE RustNextMessage
  <2>1. taken' = taken
    BY <1>2 DEF RustNextMessage
  <2> QED BY <1>2, <2>1, RustNextKeeps DEF DropStep
<1>3. CASE RustAdvance
  <2>1. last'.call # "next"
    BY <1>3 DEF RustAdvance
  <2> QED BY <1>3, <2>1, RustAdvanceKeeps DEF TruncatedCanBeMet
<1> QED BY <1>1, <1>2, <1>3 DEF RustNext
-----------------------------------------------------------------------------
(* The reader with a buffer that grows: its cells are exactly what is held *)
GrowingInv ==
  /\ have \in Nat /\ taken \in Nat /\ pushed \in Nat /\ ready \in 0 .. have
  /\ pushed = taken + have /\ pushed <= End
  /\ \A i \in 0 .. have - 1 : buf[i] = taken + i
  /\ ready > 0 => ready = LenAt(taken)
  /\ last.res # "truncated"

LEMMA RestContents ==
  ASSUME GrowingInv
  PROVE  /\ Held \in Nat /\ pushed = taken + ready + Held
         /\ taken + ready \in Nat /\ taken + ready \in Positions
         /\ Rest = [i \in 0 .. Held - 1 |-> taken + ready + i]
<1>1. /\ Held \in Nat /\ pushed = taken + ready + Held
      /\ taken + ready \in Nat /\ ready \in Nat /\ taken \in Nat
  BY DEF GrowingInv, Held
<1>2. taken + ready \in Positions
  BY <1>1, SizesAssumption DEF GrowingInv, Positions
<1>3. ASSUME NEW i \in 0 .. Held - 1 PROVE buf[i + ready] = taken + ready + i
  <2>1. i + ready \in 0 .. have - 1 /\ i \in Nat
    BY <1>1, <1>3 DEF GrowingInv, Held
  <2>2. buf[i + ready] = taken + (i + ready)
    BY <2>1 DEF GrowingInv
  <2> QED BY <1>1, <2>1, <2>2
<1> QED BY <1>1, <1>2, <1>3 DEF Rest

LEMMA GrowingOutcomeOfFront ==
  ASSUME GrowingInv, Held # 0, NEW r \in GrowingOutcomes(Required(Rest, Held))
  PROVE  /\ r.ready \in 0 .. Held
         /\ r.ready > 0 => r.ready = LenAt(taken + ready)
         /\ r.res # "truncated"
         /\ r.res = "not_yet" => Held < LenAt(taken + ready)
<1> DEFINE p == taken + ready
           q == Required(Rest, Held)
<1>1. Held \in Nat /\ Held >= 1 /\ p \in Positions /\ Rest[0] = p
  BY RestContents
<1>2. LenAt(p) \in Nat \ {0}
  BY <1>1, LenAssumption
<1>3. CASE Held >= LenAt(p)
  <2>1. q = [res |-> "ok", need |-> LenAt(p)]
    BY <1>1, <1>3 DEF Required
  <2>2. r.res \in {"bounds", "ok"} /\ r.ready \in {0, LenAt(p)}
    BY <2>1 DEF GrowingOutcomes
  <2>3. 0 \in 0 .. Held /\ LenAt(p) \in 0 .. Held
    BY <1>1, <1>2, <1>3
  <2> QED BY <2>2, <2>3
<1>4. CASE Held < LenAt(p)
  <2>1. q.res = "truncated"
    BY <1>1, <1>2, <1>4 DEF Required
  <2>2. r = [res |-> "not_yet", ready |-> 0]
    BY <2>1 DEF GrowingOutcomes
  <2> QED BY <1>1, <1>4, <2>2
<1> QED BY <1>1, <1>2, <1>3, <1>4

LEMMA GrowingKeeps ==
  ASSUME GrowingInv, GrowingNext
  PROVE  GrowingInv' /\ NotYetCanBeMet' /\ DropStep /\ StreamMove
<1>0. /\ Held \in Nat /\ pushed = taken + ready + Held
      /\ taken + ready \in Nat /\ taken + ready \in Positions
      /\ Rest = [i \in 0 .. Held - 1 |-> taken + ready + i]
  BY RestContents
<1>t. /\ taken \in Nat /\ pushed \in Nat /\ ready \in Nat /\ pushed <= End
      /\ ready > 0 => ready = LenAt(taken)
  BY DEF GrowingInv
<1>d. taken' = taken + ready /\ pushed' \in Nat /\ pushed' >= pushed => DropStep
  <2>1. taken + ready <= pushed
    BY <1>0, <1>t
  <2> QED BY <1>t, <2>1 DEF DropStep
<1>1. CASE GrowingAdvance
  <2>1. /\ buf' = Rest /\ have' = Held /\ ready' = 0 /\ taken' = taken + ready
        /\ pushed' = pushed /\ last' = [call |-> "advance", res |-> "ok"]
    BY <1>1 DEF GrowingAdvance
  <2>2. GrowingInv'
    BY <1>0, <1>t, <2>1 DEF GrowingInv
  <2> QED BY <1>t, <1>d, <2>1, <2>2 DEF NotYetCanBeMet, StreamMove
<1>2. CASE GrowingNextMessage
  <2>0. PICK r \in IF Held = 0 THEN {[res |-> "not_yet", ready |-> 0]}
                   ELSE GrowingOutcomes(Required(Rest, Held)) :
               /\ buf' = Rest /\ have' = Held /\ ready' = r.ready
               /\ taken' = taken + ready /\ pushed' = pushed
               /\ last' = [call |-> "next", res |-> r.res]
    BY <1>2 DEF GrowingNextMessage
  <2>1. /\ r.ready \in 0 .. Held
        /\ r.ready > 0 => r.ready = LenAt(taken + ready)
        /\ r.res # "truncated"
        /\ r.res = "not_yet" => Held < LenAt(taken + ready)
    <3>1. CASE Held = 0
      <4>1. r = [res |-> "not_yet", ready |-> 0]
        BY <2>0, <3>1
      <4>2. LenAt(taken + ready) \in Nat \ {0}
        BY <1>0, LenAssumption
      <4> QED BY <3>1, <4>1, <4>2
    <3>2. CASE Held # 0
      BY <2>0, <3>2, GrowingOutcomeOfFront
    <3> QED BY <3>1, <3>2
  <2>2. /\ buf' = Rest /\ have' = Held /\ ready' = r.ready
        /\ taken' = taken + ready /\ pushed' = pushed
        /\ last' = [call |-> "next", res |-> r.res]
    BY <2>0
  <2>3. GrowingInv'
    BY <1>0, <1>t, <2>1, <2>2 DEF GrowingInv
  <2>4. NotYetCanBeMet'
    BY <2>1, <2>2 DEF NotYetCanBeMet
  <2>5. StreamMove
    BY <1>0, <1>t, <2>1, <2>2 DEF StreamMove
  <2> QED BY <1>t, <1>d, <2>2, <2>3, <2>4, <2>5
<1>3. ASSUME NEW len \in 0 .. End - pushed, GrowingPush(len)
      PROVE  GrowingInv' /\ NotYetCanBeMet' /\ DropStep /\ StreamMove
  <2>1. /\ buf' = [i \in 0 .. Held + len - 1 |->
                     IF i < Held THEN Rest[i] ELSE pushed + (i - Held)]
        /\ have' = Held + len /\ ready' = 0 /\ taken' = taken + ready
        /\ pushed' = pushed + len /\ last' = [call |-> "push", res |-> "ok"]
    BY <1>3 DEF GrowingPush
  <2>2. len \in Nat /\ pushed + len <= End
    BY <1>t, SizesAssumption
  <2>3. ASSUME NEW i \in 0 .. Held + len - 1
        PROVE  buf'[i] = taken + ready + i
    BY <1>0, <1>t, <2>1, <2>2
  <2>4. GrowingInv'
    BY <1>0, <1>t, <2>1, <2>2, <2>3 DEF GrowingInv
  <2> QED BY <1>t, <1>d, <2>1, <2>2, <2>4 DEF NotYetCanBeMet, StreamMove
<1> QED BY <1>1, <1>2, <1>3 DEF GrowingNext

-----------------------------------------------------------------------------
(* Any of the readers *)
RungsInv ==
  IF part = "growing" THEN GrowingInv /\ NotYetCanBeMet
  ELSE IInv /\ TruncatedCanBeMet

LEMMA RungsInvInit == RungsInit => RungsInv
<1>1. Init => IInv /\ TruncatedCanBeMet
  BY InitEstablishes DEF Init, TruncatedCanBeMet
<1>2. GrowingInit => GrowingInv /\ NotYetCanBeMet
  BY SizesAssumption DEF GrowingInit, GrowingInv, NotYetCanBeMet
<1> QED BY <1>1, <1>2 DEF RungsInit, RungsInv

LEMMA ReaderStep ==
  ASSUME RungsInv, [RungsNext]_rungsVars
  PROVE  /\ RungsInv' /\ part' = part
         /\ \/ UNCHANGED vars
            \/ DropStep /\ (part = "rust" \/ StreamMove)
<1>0. part' = part
  BY DEF RungsNext, rungsVars
<1>1. CASE UNCHANGED vars
  <2>1. RungsInv'
    BY <1>0, <1>1
       DEF vars, RungsInv, IInv, TypeOK, Contents, ViewIntact, TruncatedCanBeMet,
           GrowingInv, NotYetCanBeMet
  <2> QED BY <1>0, <1>1, <2>1
<1>2. CASE part = "held" /\ Next
  BY <1>0, <1>2, NextPreserves, HeldWaits, HeldDrops, HeldMoves DEF RungsInv
<1>3. CASE part = "rust" /\ RustNext
  BY <1>0, <1>3, RustKeeps DEF RungsInv
<1>4. CASE part = "growing" /\ GrowingNext
  BY <1>0, <1>4, GrowingKeeps DEF RungsInv
<1> QED BY <1>1, <1>2, <1>3, <1>4 DEF RungsNext, rungsVars

LEMMA RungsInvNext == RungsInv /\ [RungsNext]_rungsVars => RungsInv'
BY ReaderStep

(* What a reader of any backend handed out is one whole message, and every *)
(* byte of it is still its own under the view, until the caller goes on.   *)
THEOREM ReadersKeepViews == RungsSpec => []ViewIntact
<1>1. RungsInv => ViewIntact
  BY DEF RungsInv, IInv, GrowingInv, ViewIntact, Cells
<1> QED BY RungsInvInit, RungsInvNext, <1>1, PTL DEF RungsSpec

(* A reader of any backend that says to wait lacks a byte of the message   *)
(* at the front, and one of a fixed size has room for it: no caller waits  *)
(* for what cannot come.                                                   *)
THEOREM ReadersNeverWaitInVain == RungsSpec => []WaitingHelps
<1>1. RungsInv => WaitingHelps
  BY DEF RungsInv, IInv, TypeOK, Results, GrowingInv, WaitingHelps,
         TruncatedCanBeMet, NotYetCanBeMet
<1> QED BY RungsInvInit, RungsInvNext, <1>1, PTL DEF RungsSpec

(* Every reader drops one whole message at a time, the one at the front,   *)
(* and none of which a byte has not arrived: in Rust also where `advance`  *)
(* is called for a message that was never handed out.                      *)
THEOREM ReadersDropOneWhole == RungsSpec => DropsOneWhole
<1>1. RungsInv /\ [RungsNext]_rungsVars => [DropStep]_vars
  BY ReaderStep
<1> QED BY RungsInvInit, RungsInvNext, <1>1, PTL DEF RungsSpec, DropsOneWhole, DropStep

(* The readers of C, C++, Python and the walker implement the one abstract *)
(* stream: whole messages, each handed out once, in order, and only when   *)
(* all of it has arrived.                                                  *)
THEOREM ReadersOfEveryBackendStream == RungsSpec => ReadersImplementStream
<1>1. RungsInit => Streams!Init
  BY DEF RungsInit, Init, GrowingInit, Streams!Init
<1>2. RungsInv /\ [RungsNext]_rungsVars => [Streams!Next]_(Streams!vars)
  <2> SUFFICES ASSUME RungsInv, [RungsNext]_rungsVars
               PROVE  [Streams!Next]_(Streams!vars)
    OBVIOUS
  <2>1. part' = part /\ (UNCHANGED vars \/ part = "rust" \/ StreamMove)
    BY ReaderStep
  <2>2. CASE part = "rust"
    BY <2>1, <2>2 DEF Streams!vars
  <2>3. CASE UNCHANGED vars
    BY <2>1, <2>3 DEF vars, Streams!vars
  <2>4. CASE part # "rust" /\ StreamMove
    BY <2>1, <2>4 DEF StreamMove, Streams!Next, Streams!Arrive, Streams!Turn
  <2> QED BY <2>1, <2>2, <2>3, <2>4
<1> QED BY RungsInvInit, RungsInvNext, <1>1, <1>2, PTL
        DEF RungsSpec, ReadersImplementStream, Streams!Spec

-----------------------------------------------------------------------------
(* The pending table: what is in a slot is a request whose key was read *)
Recordable == {r \in Requests : KeyOf[r] # NoKey}

TableInv == pend \in [1 .. TableCap -> Recordable \cup {None}]

(* Taking a free slot, and freeing one, in a finite set of slots           *)
LEMMA SlotsCounted ==
  /\ \A r : IsFiniteSet(Holding(r)) /\ Cardinality(Holding(r)) \in Nat
  /\ IsFiniteSet(Taken) /\ Cardinality(Taken) \in 0 .. TableCap
  /\ Cardinality(Taken) = TableCap => \A i \in 1 .. TableCap : pend[i] # None
<1>1. IsFiniteSet(1 .. TableCap) /\ Cardinality(1 .. TableCap) = TableCap
  BY FS_Interval, TableAssumption
<1>2. ASSUME NEW S \in SUBSET (1 .. TableCap)
      PROVE  /\ IsFiniteSet(S) /\ Cardinality(S) \in 0 .. TableCap
             /\ Cardinality(S) = TableCap => S = 1 .. TableCap
  <2>1. IsFiniteSet(S) /\ Cardinality(S) \in Nat /\ Cardinality(S) <= TableCap
    BY <1>1, FS_Subset, FS_CardinalityType
  <2>2. Cardinality(S) = TableCap => S = 1 .. TableCap
    BY <1>1, FS_Subset
  <2> QED BY <2>1, <2>2, TableAssumption
<1>3. \A r : Holding(r) \in SUBSET (1 .. TableCap)
  BY DEF Holding
<1>4. Taken \in SUBSET (1 .. TableCap)
  BY DEF Taken
<1>5. Taken = 1 .. TableCap => \A i \in 1 .. TableCap : pend[i] # None
  BY DEF Taken
<1>6. \A r : IsFiniteSet(Holding(r)) /\ Cardinality(Holding(r)) \in Nat
  <2> TAKE r
  <2>1. IsFiniteSet(Holding(r))
    BY <1>2, <1>3
  <2> QED BY <2>1, FS_CardinalityType
<1> QED BY <1>2, <1>4, <1>5, <1>6

(* A walk that finds no slot of a kind has none to find *)
LEMMA WalkFinds ==
  ASSUME NEW S \in SUBSET (1 .. TableCap), S # {}
  PROVE  \E i \in S : \A j \in 1 .. i - 1 : j \notin S
<1>1. S \in SUBSET Nat
  BY TableAssumption
<1>2. PICK i \in S : \A j \in Nat : <<j, i>> \in OpToRel(<, Nat) => j \notin S
  BY <1>1, NatLessThanWellFounded, WFMin, Zenon
<1>3. \A j \in 1 .. i - 1 : j \in Nat /\ j < i
  BY <1>1
<1>4. \A j \in Nat : j < i => <<j, i>> \in OpToRel(<, Nat)
  BY <1>1 DEF OpToRel
<1> QED BY <1>2, <1>3, <1>4

LEMMA FullTable ==
  Table!FirstFree(pend) = {} => \A i \in 1 .. TableCap : pend[i] # None
<1> DEFINE S == {i \in 1 .. TableCap : pend[i] = None}
<1> SUFFICES ASSUME S # {} PROVE Table!FirstFree(pend) # {}
  OBVIOUS
<1>1. PICK i \in S : \A j \in 1 .. i - 1 : j \notin S
  BY WalkFinds
<1>2. \A j \in 1 .. i - 1 : j \in 1 .. TableCap
  BY TableAssumption
<1>3. i \in Table!FirstFree(pend)
  BY <1>1, <1>2 DEF Table!FirstFree, Table!Slots
<1> QED BY <1>3

LEMMA TableRecords ==
  ASSUME TableInv, NEW r \in Requests, Table!Record(r)
  PROVE  TableInv' /\ Bag!Record(r)
<1>1. CASE Table!RecordSlot(r) = {}
  <2>1. /\ pend' = [i \in 1 .. TableCap |-> pend[i]]
        /\ answer' = [res |-> "bounds"]
    BY <1>1 DEF Table!Record, Table!Recorded, Table!Slots
  <2>2. pend' = pend
    BY <2>1 DEF TableInv
  <2>3. KeyOf[r] = NoKey \/ Cardinality(Taken) = TableCap
    <3>1. CASE Table!FirstFree(pend) = {}
      <4>1. Taken = 1 .. TableCap
        BY <3>1, FullTable DEF Taken
      <4>2. Cardinality(1 .. TableCap) = TableCap
        BY FS_Interval, TableAssumption
      <4> QED BY <4>1, <4>2
    <3> QED BY <1>1, <3>1 DEF Table!RecordSlot
  <2> QED BY <2>1, <2>2, <2>3 DEF TableInv, Bag!Record, Holding, Taken
<1>2. CASE Table!RecordSlot(r) # {}
  <2>1. PICK p : p \in Table!RecordSlot(r)
    BY <1>2
  <2>2. /\ p \in 1 .. TableCap /\ pend[p] = None /\ KeyOf[r] # NoKey
        /\ \A q \in Table!RecordSlot(r) : q = p
    BY <2>1, TableAssumption DEF Table!RecordSlot, Table!FirstFree, Table!Slots
  <2>3. /\ pend' = [i \in 1 .. TableCap |-> IF i = p THEN r ELSE pend[i]]
        /\ answer' = [res |-> "ok"]
    BY <1>2, <2>1, <2>2 DEF Table!Record, Table!Recorded, Table!Slots
  <2>4. TableInv'
    BY <2>2, <2>3 DEF TableInv, Recordable
  <2>5. r # None /\ \A s \in Requests : s # None
    BY TableAssumption
  <2>6. /\ Taken' = Taken \cup {p} /\ p \notin Taken
        /\ Holding(r)' = Holding(r) \cup {p} /\ p \notin Holding(r)
        /\ \A s \in Requests \ {r} : Holding(s)' = Holding(s)
    BY <2>2, <2>3, <2>5 DEF Taken, Holding
  <2>7. /\ Cardinality(Taken') = Cardinality(Taken) + 1
        /\ Cardinality(Holding(r)') = Cardinality(Holding(r)) + 1
    BY <2>6, SlotsCounted, FS_AddElement
  <2>8. Cardinality(Taken) < TableCap
    BY <2>2, SlotsCounted, TableAssumption
  <2>9. [s \in Requests |-> Cardinality(Holding(s))]'
          = [[s \in Requests |-> Cardinality(Holding(s))] EXCEPT ![r] = @ + 1]
    BY <2>6, <2>7
  <2> QED BY <2>2, <2>3, <2>4, <2>7, <2>8, <2>9 DEF Bag!Record
<1> QED BY <1>1, <1>2

LEMMA TableMatches ==
  ASSUME TableInv, NEW k \in Keys \cup {NoKey}, Table!Match(k)
  PROVE  TableInv' /\ Bag!Match(k)
<1>1. CASE Table!MatchSlot(k) = {}
  <2>1. /\ pend' = [i \in 1 .. TableCap |-> pend[i]]
        /\ answer' = [res |-> IF k = NoKey THEN "bounds" ELSE "constraint"]
    BY <1>1 DEF Table!Match, Table!Unmatched, Table!Slots, Table!MatchRefusal
  <2>2. pend' = pend
    BY <2>1 DEF TableInv
  <2>3. ASSUME NEW s \in Requests, KeyOf[s] = k PROVE Holding(s) = {}
    <3> SUFFICES ASSUME Holding(s) # {} PROVE FALSE
      OBVIOUS
    <3>1. k # NoKey
      BY <2>3, TableAssumption DEF Holding, TableInv, Recordable
    <3> DEFINE S == {i \in 1 .. TableCap : pend[i] # None /\ KeyOf[pend[i]] = k}
    <3>2. S # {}
      BY <2>3, TableAssumption DEF Holding
    <3>3. PICK i \in S : \A j \in 1 .. i - 1 : j \notin S
      BY <3>2, WalkFinds
    <3>4. \A j \in 1 .. i - 1 : j \in 1 .. TableCap
      BY TableAssumption
    <3>5. i \in Table!MatchSlot(k)
      BY <3>1, <3>3, <3>4 DEF Table!MatchSlot, Table!FirstWithKey, Table!Slots
    <3> QED BY <1>1, <3>5
  <2>4. \A s \in Requests : KeyOf[s] = k => Cardinality(Holding(s)) = 0
    BY <2>3, FS_EmptySet
  <2>5. \A s \in Requests :
          [q \in Requests |-> Cardinality(Holding(q))][s] > 0 => KeyOf[s] # k
    BY <2>4
  <2>6. /\ [s \in Requests |-> Cardinality(Holding(s))]'
             = [s \in Requests |-> Cardinality(Holding(s))]
        /\ Cardinality(Taken)' = Cardinality(Taken)
    BY <2>2 DEF Holding, Taken
  <2> QED BY <2>1, <2>2, <2>5, <2>6 DEF TableInv, Bag!Match
<1>2. CASE Table!MatchSlot(k) # {}
  <2>1. PICK p : p \in Table!MatchSlot(k)
    BY <1>2
  <2>2. /\ p \in 1 .. TableCap /\ pend[p] # None /\ KeyOf[pend[p]] = k
        /\ \A q \in Table!MatchSlot(k) : q = p
    BY <2>1, TableAssumption DEF Table!MatchSlot, Table!FirstWithKey, Table!Slots
  <2> DEFINE r == pend[p]
  <2>3. /\ pend' = [i \in 1 .. TableCap |-> IF i = p THEN None ELSE pend[i]]
        /\ answer' = [res |-> "ok", id |-> IdOf[r]]
    BY <1>2, <2>1, <2>2 DEF Table!Match, Table!Unmatched, Table!Slots
  <2>4. TableInv'
    BY <2>2, <2>3 DEF TableInv
  <2>5. r \in Requests /\ \A s \in Requests : s # None
    BY <2>2, TableAssumption DEF TableInv, Recordable
  <2>6. /\ Taken' = Taken \ {p} /\ p \in Taken
        /\ {i \in 1 .. TableCap : pend'[i] = r} = Holding(r) \ {p} /\ p \in Holding(r)
        /\ \A s \in Requests \ {r} : {i \in 1 .. TableCap : pend'[i] = s} = Holding(s)
    BY <2>2, <2>3, <2>5 DEF Taken, Holding
  <2>7. /\ Cardinality(Taken') = Cardinality(Taken) - 1
        /\ Cardinality(Holding(r) \ {p}) = Cardinality(Holding(r)) - 1
        /\ Cardinality(Holding(r)) > 0
    <3> HIDE DEF r
    <3>1. /\ IsFiniteSet(Taken) /\ IsFiniteSet(Holding(r))
          /\ Cardinality(Holding(r)) \in Nat
      BY SlotsCounted
    <3>2. Holding(r) # {}
      BY <2>6
    <3>3. Cardinality(Holding(r)) > 0
      BY <3>1, <3>2, FS_EmptySet
    <3> QED BY <2>6, <3>1, <3>3, FS_RemoveElement
  <2>8. [s \in Requests |-> Cardinality(Holding(s))]'
          = [[s \in Requests |-> Cardinality(Holding(s))] EXCEPT ![r] = @ - 1]
    BY <2>6, <2>7 DEF Holding
  <2> QED BY <2>2, <2>3, <2>4, <2>5, <2>7, <2>8 DEF Bag!Match
<1> QED BY <1>1, <1>2

(* The generated table, whichever slots are free in between, is the        *)
(* bounded bag: a reply takes out one waiting request with its key and is  *)
(* refused where none waits, a request is refused where the bag is full or *)
(* its key cannot be read, and none is evicted.                            *)
THEOREM TableIsABoundedBag == RungsSpec => PendingSpec
<1>1. RungsInit => TableInv /\ Bag!Init
  <2> SUFFICES ASSUME RungsInit PROVE TableInv /\ Bag!Init
    OBVIOUS
  <2>1. pend = [i \in 1 .. TableCap |-> None] /\ answer = [res |-> "none"]
    BY DEF RungsInit, Table!Init, Table!PendInit, Table!Slots
  <2>2. Taken = {} /\ \A s \in Requests : Holding(s) = {}
    BY <2>1, TableAssumption DEF Taken, Holding
  <2> QED BY <2>1, <2>2, FS_EmptySet DEF TableInv, Bag!Init
<1>2. TableInv /\ [RungsNext]_rungsVars => TableInv' /\ [Bag!Next]_(Bag!vars)
  <2> SUFFICES ASSUME TableInv, [RungsNext]_rungsVars
               PROVE  TableInv' /\ [Bag!Next]_(Bag!vars)
    OBVIOUS
  <2>1. CASE UNCHANGED tableVars
    BY <2>1 DEF tableVars, TableInv, Bag!vars, Holding, Taken
  <2>2. CASE Table!Next
    BY <2>2, TableRecords, TableMatches DEF Table!Next, Bag!Next
  <2> QED BY <2>1, <2>2 DEF RungsNext, rungsVars
<1> QED BY <1>1, <1>2, PTL DEF RungsSpec, PendingSpec, Bag!Spec
=============================================================================
