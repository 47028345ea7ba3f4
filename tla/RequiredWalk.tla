---------------------------- MODULE RequiredWalk ----------------------------
(* The framing question the C emitter generates for a struct,              *)
(* `<struct>_required` (emit.py, _required): how many bytes a whole        *)
(* message needs, given the ones that have arrived.  It walks the members, *)
(* checking before every read that the bytes are there.  The other         *)
(* backends emit the same walk.                                            *)
(*                                                                         *)
(* A schema is its structs, by number, and a struct may contain itself.  A *)
(* struct is a sequence of variable members, each with the fixed bytes     *)
(* before it (`gap`), the fixed bytes after the last (`rest`) and the      *)
(* members its version adds (`tail`).  Bytes are small numbers: 0 is the   *)
(* delimiter, and a byte of a varint above 1 says that another follows.    *)
(* The byte in front of a member is the one that sizes, counts or selects  *)
(* it.                                                                     *)
EXTENDS Naturals, Sequences

CONSTANTS
  Schema,      \* the structs
  Bytes,       \* the bytes a stream is made of
  MaxBytes,    \* the most that arrive
  Top,         \* UINT32_MAX
  VarintMax,   \* the most bytes of a varint
  WhileCap     \* the cap on a run that ends by a condition

ASSUME WalkAssumption ==
  /\ Top \in Nat /\ MaxBytes \in Nat /\ Bytes \subseteq 0 .. Top
  /\ VarintMax \in Nat /\ WhileCap \in Nat \ {0}

VARIABLES
  struct,      \* the struct of the message that arrives
  data,        \* the bytes that have arrived
  promised     \* the greatest total an earlier answer asked for

walkVars == <<struct, data, promised>>

(* value[n]: what `first` has become after the first n of the turns *)
Iterated(turns, first, turn) ==
  LET value[n \in 0 .. turns] ==
        IF n = 0 THEN first ELSE turn[n][value[n - 1]]
  IN value

(* Mutant: the sums wrap as `+` does *)
NeedWraps(a, b) == (a + b) % (Top + 1)

(* situ_need_u32 and situ_need_mul_u32: sums and products that saturate *)
Need(a, b) == IF b > Top - a THEN Top ELSE a + b
NeedTimes(count, each) ==
  IF each # 0 /\ count > Top \div each THEN Top ELSE count * each

Larger(a, b) == IF a > b THEN a ELSE b

(* situ_pad_to_u32, not clamped to what has arrived *)
PadTo(pos, n) == (n - (pos % n)) % n

(* The fixed bytes before the k-th variable member, those of every gap so  *)
(* far (framing_gaps), and every fixed byte of the struct, those after its *)
(* last member included.                                                   *)
Gaps(s) ==
  Iterated(Len(s.members), 0,
           [k \in DOMAIN s.members |-> [sum \in Nat |-> sum + s.members[k].gap]])
Constant(s) == Gaps(s)[Len(s.members)] + s.rest

(* The fewest bytes of a whole one, whatever its constraints say *)
FramingFloor(s) == Larger(Constant(s), 1)

(* What a schema is.  A member that is sized, counted or selected has a    *)
(* byte in front.  A struct takes a byte (one of pads alone is zero bytes  *)
(* long, and framed_structs makes no reader for it), and it contains       *)
(* itself, or a struct after it, only behind a byte: a struct that peeks   *)
(* at what selects it and so contains itself in front of its first byte is *)
(* left out.  Fixed bytes and those in the buffer are far from UINT32_MAX. *)
IsSequence(q) == q \in Seq({q[k] : k \in DOMAIN q})

IsMember(m) ==
  /\ m.gap \in Nat
  /\ m.kind \in {"pad", "counted", "varint", "until", "nested", "run", "variant"}
  /\ m.kind = "pad" => m.align \in Nat \ {0}
  /\ m.kind \in {"nested", "run"} => m.of \in DOMAIN Schema
  /\ m.kind = "run" => m.ends \in {"count", "delimiter", "condition"}
  /\ m.kind = "variant" =>
       \A v \in DOMAIN m.arms :
         m.arms[v].of \in {0} \cup DOMAIN Schema /\ m.arms[v].size \in Nat
  /\ \/ m.kind \in {"counted", "variant"}
     \/ m.kind = "run" /\ m.ends = "count"
     => m.gap > 0

TakesAByte(m) ==
  \/ m.gap > 0
  \/ m.kind \in {"varint", "until", "nested"}
  \/ m.kind = "run" /\ m.ends # "count"

PartsOf(m) ==
  CASE m.kind \in {"nested", "run"} -> {m.of}
    [] m.kind = "variant" -> {m.arms[v].of : v \in DOMAIN m.arms} \ {0}
    [] OTHER -> {}

(* Some of the first k members takes a byte *)
TakenBy(s, k) == \E h \in 1 .. k : TakesAByte(s.members[h])

Tails == Seq([since : Nat, adds : Nat])

IsStruct(s, i) ==
  /\ IsSequence(s.members) /\ s.rest \in Nat
  /\ \A k \in DOMAIN s.members :
       LET m == s.members[k]
       IN /\ IsMember(m)
          /\ \A j \in PartsOf(m) : j >= i => m.gap > 0 \/ TakenBy(s, k - 1)
  /\ Constant(s) > 0 \/ TakenBy(s, Len(s.members))
  /\ s.tail \in Tails

ASSUME SchemaAssumption ==
  /\ IsSequence(Schema)
  /\ \A i \in DOMAIN Schema :
       IsStruct(Schema[i], i) /\ MaxBytes + Constant(Schema[i]) < Top

Buffers == {bytes \in Seq(Bytes) : Len(bytes) <= MaxBytes}
HasArrived(bytes, pos) == pos <= Len(bytes)
ByteAt(bytes, pos) == bytes[pos + 1]
From(bytes, pos) == SubSeq(bytes, pos + 1, Len(bytes))

(* The lengths a member of bytes has, as its accessor reads them from the  *)
(* view: none where the last byte of it has not arrived.                   *)
VarintLength(bytes, pos) ==
  {k \in 1 .. VarintMax :
     /\ pos + k <= Len(bytes) /\ ByteAt(bytes, pos + k - 1) < 2
     /\ \A j \in 1 .. k - 1 : ByteAt(bytes, pos + j - 1) >= 2}

DelimitedLength(bytes, pos) ==
  {k \in 1 .. Len(bytes) - pos :
     /\ ByteAt(bytes, pos + k - 1) = 0
     /\ \A j \in 1 .. k - 1 : ByteAt(bytes, pos + j - 1) # 0}

-----------------------------------------------------------------------------
(* The walk: `at` is the running total, every fixed byte included, and     *)
(* `pos` is where the next member starts.  A member that is short ends it  *)
(* with the total it asks for; `over` says that the loop over a run broke. *)
Walks == [at : Nat, pos : Nat, short : BOOLEAN, over : BOOLEAN]
Walking(at, pos) == [at |-> at, pos |-> pos, short |-> FALSE, over |-> FALSE]
Short(need) == [at |-> need, pos |-> 0, short |-> TRUE, over |-> FALSE]
Past(w, len) == Walking(Need(w.at, len), Need(w.pos, len))
Over(w) == [w EXCEPT !.over = TRUE]

(* One byte more than has arrived, and never below the total *)
AskAgain(w, bytes) == Short(Larger(Need(Len(bytes), 1), w.at))

(* A member whose length its accessor answers *)
Measured(w, lengths, bytes) ==
  IF lengths = {} THEN AskAgain(w, bytes)
  ELSE Past(w, CHOOSE k \in lengths : TRUE)

(* A nested struct frames itself (_nested_framing) *)
Nested(w, required, bytes) ==
  LET part == required[From(bytes, w.pos)]
  IN IF ~HasArrived(bytes, w.pos) THEN Short(w.at)
     ELSE IF part.whole THEN Past(w, part.need)
     ELSE Short(Need(w.at, part.need))

(* One element of a run (_framing_walk), of which `left` are to come.  A   *)
(* delimiter adds its byte to the total without saturating.                *)
Element(w, m, required, left, bytes) ==
  LET next == Nested(w, required[m.of], bytes)
  IN CASE m.ends = "count" ->
            IF ~next.short \/ ~HasArrived(bytes, w.pos) THEN next
            ELSE Short(Need(next.at, NeedTimes(left, FramingFloor(Schema[m.of]))))
       [] m.ends = "delimiter" ->
            IF ~HasArrived(bytes, w.pos + 1) THEN Short((w.at + 1) % (Top + 1))
            ELSE IF ByteAt(bytes, w.pos) = 0 THEN Over(Past(w, 1)) ELSE next
       [] m.ends = "condition" ->
            IF ~next.short /\ ByteAt(bytes, w.pos) = 0 THEN Over(next) ELSE next

(* A run is one element at a time, until it is short or over.  One that a  *)
(* delimiter ends has fewer elements than the bytes that can arrive.       *)
Turns(m, pos, bytes) ==
  CASE m.ends = "count" -> ByteAt(bytes, pos - 1)
    [] m.ends = "delimiter" -> MaxBytes + 1
    [] m.ends = "condition" -> WhileCap

Run(w, m, required, bytes) ==
  LET turns == Turns(m, w.pos, bytes)
      turn == [n \in 1 .. turns |-> [v \in Walks |->
                 IF v.short \/ v.over THEN v
                 ELSE Element(v, m, required, turns - n, bytes)]]
  IN [Iterated(turns, w, turn)[turns] EXCEPT !.over = FALSE]

(* The arm its discriminant selects (_variant_framing): a struct frames    *)
(* itself, a scalar has its size, and no arm is no bytes.                  *)
Variant(w, m, required, bytes) ==
  LET value == ByteAt(bytes, w.pos - 1)
  IN IF value \notin DOMAIN m.arms THEN Past(w, 0)
     ELSE IF m.arms[value].of = 0 THEN Past(w, m.arms[value].size)
     ELSE Nested(w, required[m.arms[value].of], bytes)

(* One turn of the loop over the members in _required *)
Member(w, m, required, bytes) ==
  CASE m.kind = "pad" -> Past(w, PadTo(w.pos, m.align))
    [] m.kind # "pad" /\ ~HasArrived(bytes, w.pos) -> Short(w.at)
    [] m.kind # "pad" /\ HasArrived(bytes, w.pos) ->
         CASE m.kind = "counted" -> Past(w, ByteAt(bytes, w.pos - 1))
           [] m.kind = "varint" -> Measured(w, VarintLength(bytes, w.pos), bytes)
           [] m.kind = "until" -> Measured(w, DelimitedLength(bytes, w.pos), bytes)
           [] m.kind = "nested" -> Nested(w, required[m.of], bytes)
           [] m.kind = "run" -> Run(w, m, required, bytes)
           [] m.kind = "variant" -> Variant(w, m, required, bytes)

Walked(s, required, bytes) ==
  Iterated(Len(s.members), Walking(Constant(s), 0),
           [k \in DOMAIN s.members |-> [w \in Walks |->
              IF w.short THEN w
              ELSE Member([w EXCEPT !.pos = Need(@, s.members[k].gap)],
                          s.members[k], required, bytes)]])

(* The members the version in the first byte adds (_version_tail) *)
Versioned(w, s, bytes) ==
  IF s.tail = <<>> \/ w.short THEN w
  ELSE IF ~HasArrived(bytes, 1) THEN Short(w.at)
  ELSE [w EXCEPT !.at =
          Iterated(Len(s.tail), w.at,
                   [k \in DOMAIN s.tail |-> [at \in Nat |->
                      IF ByteAt(bytes, 0) >= s.tail[k].since
                      THEN Need(at, s.tail[k].adds) ELSE at]])[Len(s.tail)]]

Answer(s, required, bytes) ==
  LET end == Versioned(Walked(s, required, bytes)[Len(s.members)], s, bytes)
  IN [whole |-> ~end.short /\ Len(bytes) >= end.at, need |-> end.at]

(* The functions, where a call may go n calls deep: as deep as one may go  *)
(* before all the bytes are spent, each function calling the earlier ones  *)
(* between two bytes, is as deep as any does.                              *)
Answers == [whole : BOOLEAN, need : Nat]
NoAnswer == [whole |-> FALSE, need |-> 0]

Deepest == (MaxBytes + 1) * Len(Schema)

Generated[n \in 0 .. Deepest] ==
  IF n = 0 THEN [i \in DOMAIN Schema |-> [bytes \in Buffers |-> NoAnswer]]
  ELSE LET below == Generated[n - 1]
       IN [i \in DOMAIN Schema |->
             [bytes \in Buffers |-> Answer(Schema[i], below, bytes)]]

Functions == Generated[Deepest]
RequiredOf(i, bytes) == Functions[i][bytes]

-----------------------------------------------------------------------------
(* A receiver asks about the first bytes of a stream after each of them *)
WalkInit == struct \in DOMAIN Schema /\ data = <<>> /\ promised = 0

Receive(b) ==
  LET answer == RequiredOf(struct, data)
  IN /\ Len(data) < MaxBytes
     /\ data' = Append(data, b)
     /\ promised' = IF answer.whole THEN promised ELSE Larger(promised, answer.need)
     /\ UNCHANGED struct

WalkNext == \E b \in Bytes : Receive(b)

WalkSpec == WalkInit /\ [][WalkNext]_walkVars

-----------------------------------------------------------------------------
(* Where a message ends, read as the schema says and never past the bytes  *)
(* there are: the places where a member that starts at p may end.          *)
Upto(bytes) == 0 .. Len(bytes)

PartPlaces(part, bytes, p) == {p + k : k \in part[From(bytes, p)]}

(* Where a run that starts at p may end, by where it may after an element, *)
(* and by how many elements at most are left                               *)
OnePlaces(m, ends, bytes, after, p) ==
  LET one == PartPlaces(ends[m.of], bytes, p)
      onward == UNION {after[q] : q \in one}
      marked == p < Len(bytes) /\ ByteAt(bytes, p) = 0
  IN CASE m.ends = "count" -> onward
       [] m.ends = "condition" -> IF marked THEN one ELSE onward
       [] m.ends = "delimiter" ->
            IF marked THEN {p + 1} ELSE IF p < Len(bytes) THEN onward ELSE {}

RunPlaces(m, ends, bytes, turns) ==
  LET after[n \in 0 .. turns] ==
        [p \in Upto(bytes) |->
           IF n = 0 THEN {p} ELSE OnePlaces(m, ends, bytes, after[n - 1], p)]
  IN after

MemberPlaces(m, ends, bytes, p) ==
  CASE m.kind = "pad" -> {q \in p .. p + m.align - 1 : q % m.align = 0}
    [] m.kind = "counted" -> {p + ByteAt(bytes, p - 1)}
    [] m.kind = "varint" -> {p + k : k \in VarintLength(bytes, p)}
    [] m.kind = "until" -> {p + k : k \in DelimitedLength(bytes, p)}
    [] m.kind = "nested" -> PartPlaces(ends[m.of], bytes, p)
    [] m.kind = "run" ->
         LET turns == Turns(m, p, bytes) IN RunPlaces(m, ends, bytes, turns)[turns][p]
    [] m.kind = "variant" ->
         LET value == ByteAt(bytes, p - 1)
         IN IF value \notin DOMAIN m.arms THEN {p}
            ELSE IF m.arms[value].of = 0 THEN {p + m.arms[value].size}
            ELSE PartPlaces(ends[m.arms[value].of], bytes, p)

Places(s, ends, bytes) ==
  Iterated(Len(s.members), {0},
    [k \in DOMAIN s.members |-> [places \in SUBSET Upto(bytes) |->
       UNION {MemberPlaces(s.members[k], ends, bytes, p + s.members[k].gap)
                \cap Upto(bytes)
              : p \in {p \in places : p + s.members[k].gap <= Len(bytes)}}]])

Added(s, version) ==
  Iterated(Len(s.tail), 0,
    [k \in DOMAIN s.tail |-> [sum \in Nat |->
       IF version >= s.tail[k].since THEN sum + s.tail[k].adds ELSE sum]])

(* The lengths of a message of the struct at the front of the bytes *)
Lengths(s, ends, bytes) ==
  LET last == Places(s, ends, bytes)[Len(s.members)]
  IN {q \in Upto(bytes) :
        /\ s.tail # <<>> => bytes # <<>>
        /\ \E p \in last :
             q = p + s.rest + IF s.tail = <<>> THEN 0
                              ELSE Added(s, ByteAt(bytes, 0))[Len(s.tail)]}

Described[n \in 0 .. Deepest] ==
  IF n = 0 THEN [i \in DOMAIN Schema |-> [bytes \in Buffers |-> {}]]
  ELSE LET below == Described[n - 1]
       IN [i \in DOMAIN Schema |->
             [bytes \in Buffers |-> Lengths(Schema[i], below, bytes)]]

Format == Described[Deepest]
LengthsOf(i, bytes) == Format[i][bytes]

(* The answer is "whole" exactly when all of a message has arrived, and    *)
(* then it is its length, whatever the bytes are: the contract the reader  *)
(* of rung 4 rests on.  Until then it asks for more than has arrived, and  *)
(* a later answer never asks for less, nor is the message shorter, than an *)
(* earlier one asked for: a caller may read all it was told to (_required  *)
(* in emit.py).                                                            *)
RequiredKeepsContract ==
  LET answer == RequiredOf(struct, data)
      lengths == LengthsOf(struct, data)
  IN /\ lengths = IF answer.whole THEN {answer.need} ELSE {}
     /\ answer.whole => answer.need <= Len(data)
     /\ ~answer.whole => answer.need > Len(data)
     /\ promised <= answer.need

=============================================================================
