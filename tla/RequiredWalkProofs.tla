------------------------- MODULE RequiredWalkProofs -------------------------
(* The generated question "how long is the message" keeps its contract for *)
(* the schemas of SchemaAssumption and every buffer: RequiredKeepsContract *)
(* of RequiredWalk, with the bound that the functions of nested structs    *)
(* need of each other.  The order is that of the code: sums that saturate, *)
(* the members that are measured, a nested struct, the elements of a run,  *)
(* one member, all of them, the version.  Last come the functions by how   *)
(* deep a call may go, since a struct may contain itself: a call of the    *)
(* same struct, or of one after it, is past a byte, so that a depth of     *)
(* Deepest is enough for every struct and every buffer.                    *)
EXTENDS RequiredWalk, SequenceTheorems, WellFoundedInduction, TLAPS

(* A set of numbers has a least one. *)
LEMMA Least ==
  ASSUME NEW D \in SUBSET Nat, D # {}
  PROVE  \E n \in D : \A k \in D : n <= k
<1>1. PICK n \in D : \A k \in D : <<k, n>> \notin OpToRel(<, Nat)
  BY NatLessThanWellFounded, WFMin, Zenon
<1>2. \A k \in D : ~(k < n)
  BY <1>1 DEF OpToRel
<1> QED
  BY <1>2

(* Induction up to a bound: what holds of 0, and of n + 1 when of n, holds *)
(* of every number up to the bound (the loops of _required).               *)
LEMMA Induct ==
  ASSUME NEW N \in Nat, NEW S, 0 \in S,
         \A n \in 0 .. N : n # N /\ n \in S => n + 1 \in S
  PROVE  \A n \in 0 .. N : n \in S
<1> DEFINE D == {n \in 0 .. N : n \notin S}
<1>1. SUFFICES ASSUME D # {} PROVE FALSE
  OBVIOUS
<1>2. D \in SUBSET Nat
  OBVIOUS
<1>3. PICK n \in D : \A k \in D : n <= k
  BY <1>1, <1>2, Least
<1>4. n # 0 /\ n \in 0 .. N
  OBVIOUS
<1>5. n - 1 \in 0 .. N /\ n - 1 # N /\ n - 1 \notin D
  BY <1>3, <1>4
<1>6. (n - 1) + 1 \in S
  BY <1>5
<1> QED
  BY <1>3, <1>4, <1>6

(* What a loop makes of `first` (the loops of _required). *)
IsLoop(f, N, first, turn) ==
  f = [n \in 0 .. N |-> IF n = 0 THEN first ELSE turn[n][f[n - 1]]]

(* A loop whose turns keep its value in V has values: by induction, up to  *)
(* any of its turns.                                                       *)
LEMMA LoopExists ==
  ASSUME NEW N \in Nat, NEW V, NEW first \in V, NEW turn \in [1 .. N -> [V -> V]]
  PROVE  \E f \in [0 .. N -> V] : IsLoop(f, N, first, turn)
<1> DEFINE Is(f, k) == \A n \in 0 .. k :
                          f[n] = IF n = 0 THEN first ELSE turn[n][f[n - 1]]
           S == {k \in 0 .. N : \E f \in [0 .. N -> V] : Is(f, k)}
<1>1. 0 \in S
  <2>1. [n \in 0 .. N |-> first] \in [0 .. N -> V] /\ 0 \in 0 .. N
    OBVIOUS
  <2>2. Is([n \in 0 .. N |-> first], 0)
    OBVIOUS
  <2> QED BY <2>1, <2>2
<1>2. ASSUME NEW k \in 0 .. N, k # N, k \in S PROVE k + 1 \in S
  <2>1. PICK f \in [0 .. N -> V] : Is(f, k)
    BY <1>2
  <2> DEFINE g == [f EXCEPT ![k + 1] = turn[k + 1][f[k]]]
  <2>2. k + 1 \in 1 .. N /\ k + 1 \in 0 .. N
    BY <1>2
  <2>3. turn[k + 1][f[k]] \in V
    BY <2>2
  <2>4. g \in [0 .. N -> V]
    BY <2>3
  <2>5. ASSUME NEW n \in 0 .. k + 1
        PROVE  g[n] = IF n = 0 THEN first ELSE turn[n][g[n - 1]]
    <3>1. CASE n = k + 1
      <4>1. g[n] = turn[k + 1][f[k]] /\ g[k] = f[k]
        BY <2>2, <3>1
      <4> QED BY <3>1, <4>1
    <3>2. CASE n # k + 1
      <4>1. n \in 0 .. k /\ n \in 0 .. N /\ n # k + 1
        BY <3>2, <2>5
      <4>2. g[n] = f[n]
        BY <4>1
      <4>3. n # 0 => n - 1 \in 0 .. N /\ n - 1 # k + 1
        BY <4>1
      <4>4. n # 0 => g[n - 1] = f[n - 1]
        BY <4>3
      <4>5. f[n] = IF n = 0 THEN first ELSE turn[n][f[n - 1]]
        BY <4>1, <2>1
      <4> QED BY <4>2, <4>4, <4>5
    <3> QED BY <3>1, <3>2
  <2>6. Is(g, k + 1)
    BY <2>5
  <2> QED BY <2>2, <2>4, <2>6
<1>3. N \in S
  <2> HIDE DEF S
  <2>1. \A n \in 0 .. N : n # N /\ n \in S => n + 1 \in S
    BY <1>2
  <2>2. \A n \in 0 .. N : n \in S
    BY <1>1, <2>1, Induct
  <2> QED BY <2>2
<1>4. PICK f \in [0 .. N -> V] : Is(f, N)
  BY <1>3
<1>5. IsLoop(f, N, first, turn)
  BY <1>4 DEF IsLoop
<1> QED BY <1>5

(* What Iterated is: the turns, one after another (the loops of _required). *)
LEMMA IteratedDef ==
  ASSUME NEW N \in Nat, NEW V, NEW first \in V, NEW turn \in [1 .. N -> [V -> V]]
  PROVE  /\ Iterated(N, first, turn) \in [0 .. N -> V]
         /\ Iterated(N, first, turn)[0] = first
         /\ \A n \in 1 .. N : Iterated(N, first, turn)[n]
                                = turn[n][Iterated(N, first, turn)[n - 1]]
<1> DEFINE value == CHOOSE value : value = [n \in 0 .. N |->
                      IF n = 0 THEN first ELSE turn[n][value[n - 1]]]
<1>1. \E f \in [0 .. N -> V] : IsLoop(f, N, first, turn)
  BY LoopExists
<1>2. Iterated(N, first, turn) = value
  BY DEF Iterated
<1>3. value = [n \in 0 .. N |-> IF n = 0 THEN first ELSE turn[n][value[n - 1]]]
  <2>1. \E f : f = [n \in 0 .. N |-> IF n = 0 THEN first ELSE turn[n][f[n - 1]]]
    BY <1>1 DEF IsLoop
  <2> QED BY <2>1, Zenon
<1> HIDE DEF value
<1>4. /\ value[0] = first
      /\ \A n \in 1 .. N : value[n] = turn[n][value[n - 1]]
  <2>1. 0 \in 0 .. N
    OBVIOUS
  <2>2. value[0] = first
    BY <1>3, <2>1
  <2>3. ASSUME NEW n \in 1 .. N PROVE value[n] = turn[n][value[n - 1]]
    <3>1. n \in 0 .. N /\ n # 0
      OBVIOUS
    <3> QED BY <1>3, <3>1
  <2> QED BY <2>2, <2>3
<1>5. value \in [0 .. N -> V]
  <2> DEFINE S == {n \in 0 .. N : value[n] \in V}
  <2>1. 0 \in S
    BY <1>4
  <2>2. ASSUME NEW n \in 0 .. N, n # N, n \in S PROVE n + 1 \in S
    <3>1. n + 1 \in 1 .. N /\ (n + 1) - 1 = n
      BY <2>2
    <3>2. value[n + 1] = turn[n + 1][value[n]]
      BY <1>4, <3>1
    <3>3. turn[n + 1][value[n]] \in V
      BY <3>1, <2>2
    <3> QED BY <3>1, <3>2, <3>3
  <2>3. \A n \in 0 .. N : n \in S
    <3> HIDE DEF S
    <3> QED BY <2>1, <2>2, Induct
  <2> QED BY <1>3, <2>3
<1> QED BY <1>2, <1>4, <1>5

IsIterated(value, N, V, first, turn) ==
  /\ value \in [0 .. N -> V]
  /\ value[0] = first
  /\ \A n \in 1 .. N : value[n] = turn[n][value[n - 1]]

(* The same of Iterated as one fact: the value before the first turn, and  *)
(* the value each turn leaves (the loops of _required).                    *)
LEMMA IteratedIs ==
  ASSUME NEW N \in Nat, NEW V, NEW first \in V, NEW turn \in [1 .. N -> [V -> V]]
  PROVE  IsIterated(Iterated(N, first, turn), N, V, first, turn)
<1> DEFINE value == Iterated(N, first, turn)
<1>1. /\ value \in [0 .. N -> V] /\ value[0] = first
      /\ \A n \in 1 .. N : value[n] = turn[n][value[n - 1]]
  BY IteratedDef
<1> HIDE DEF value
<1>2. IsIterated(value, N, V, first, turn)
  BY <1>1 DEF IsIterated
<1> QED BY <1>2 DEF value

-----------------------------------------------------------------------------
(* The saturating product is the product, or UINT32_MAX                    *)
(* (situ_need_mul_u32).                                                    *)
LEMMA NeedTimesIs ==
  ASSUME NEW c \in Nat, NEW f \in Nat
  PROVE  NeedTimes(c, f) = IF c * f > Top THEN Top ELSE c * f
<1> USE WalkAssumption
<1>1. CASE f = 0
  <2>1. c * f = 0
    BY <1>1
  <2> QED BY <1>1, <2>1 DEF NeedTimes
<1>2. CASE f # 0
  <2> DEFINE d == Top \div f
  <2>1. d \in Nat /\ f * d <= Top /\ Top < f * (d + 1)
    BY <1>2
  <2> HIDE DEF d
  <2>2. c > d => c * f > Top
    <3>1. SUFFICES ASSUME c >= d + 1 PROVE c * f > Top
      BY <2>1
    <3>2. c * f >= (d + 1) * f
      BY <3>1, <2>1
    <3>3. (d + 1) * f = f * (d + 1) /\ c * f \in Nat /\ (d + 1) * f \in Nat
      BY <2>1
    <3> QED BY <3>2, <3>3, <2>1
  <2>3. ~(c > d) => ~(c * f > Top)
    <3>1. SUFFICES ASSUME c <= d PROVE c * f <= Top
      BY <2>1
    <3>2. c * f <= d * f
      BY <3>1, <2>1
    <3>3. d * f = f * d /\ c * f \in Nat /\ d * f \in Nat
      BY <2>1
    <3> QED BY <3>2, <3>3, <2>1
  <2>4. NeedTimes(c, f) = IF c > d THEN Top ELSE c * f
    BY <1>2 DEF NeedTimes, d
  <2> QED BY <2>2, <2>3, <2>4
<1> QED BY <1>1, <1>2

(* A saturating sum is a sum as long as it fits, is never less than what   *)
(* it started from, and is greater where anything fits (situ_need_u32).    *)
LEMMA NeedIs ==
  ASSUME NEW a \in 0 .. Top
  PROVE  /\ Need(a, 0) = a
         /\ \A b \in Nat : Need(a, b) \in 0 .. Top /\ Need(a, b) >= a
         /\ \A b \in Nat : a + b <= Top => Need(a, b) = a + b
         /\ \A b \in Nat : b >= 1 /\ a < Top => Need(a, b) >= a + 1
  BY WalkAssumption DEF Need

(* Saturating sums grow with their first part, and a saturated second part *)
(* makes no difference (situ_need_u32, situ_need_mul_u32).                 *)
LEMMA NeedGrows ==
  ASSUME NEW a \in 0 .. Top, NEW x \in 0 .. Top, NEW rest \in Nat, x >= a
  PROVE  /\ Need(x, rest) >= Need(a, rest) /\ Need(x, rest) \in 0 .. Top
         /\ Need(x, 0) = x
         /\ Need(a, IF rest > Top THEN Top ELSE rest) = Need(a, rest)
  BY WalkAssumption DEF Need

(* Credit may be taken at once or after: saturating sums associate.        *)
LEMMA NeedAdds ==
  ASSUME NEW a \in 0 .. Top, NEW x \in 0 .. Top, NEW rest \in Nat, NEW f \in Nat,
         x >= Need(a, f)
  PROVE  /\ Need(x, rest) >= Need(a, rest + f)
         /\ Need(x, rest) \in 0 .. Top /\ Need(x, rest) >= x
         /\ Need(x, IF rest > Top THEN Top ELSE rest) = Need(x, rest)
  BY WalkAssumption DEF Need

(* To ask for more leaves the sum no smaller (situ_need_u32).              *)
LEMMA NeedRises ==
  ASSUME NEW a \in 0 .. Top, NEW x \in Nat, NEW y \in Nat, x <= y
  PROVE  Need(a, y) >= Need(a, x) /\ Need(a, x) \in 0 .. Top /\ Need(a, x) >= a
  BY WalkAssumption DEF Need

(* A part that asks for more than the bytes left of it has the whole ask   *)
(* for more than there are: the nested struct that is short                *)
(* (_nested_framing).                                                      *)
LEMMA NeedReaches ==
  ASSUME NEW a \in 0 .. Top, NEW p \in Nat, p <= a, NEW n \in Nat, n < Top,
         NEW x \in Nat, x > n - p
  PROVE  Need(a, x) > n
  BY WalkAssumption DEF Need

(* A place that is left of the modulus is its own remainder (the sum after *)
(* a delimiter, which `+` makes, does not wrap).                           *)
LEMMA SmallRemainder ==
  ASSUME NEW a \in Nat, NEW n \in Nat, a < n
  PROVE  a % n = a
  OBVIOUS

(* One element less is one floor less (the counted run of _framing_walk). *)
LEMMA OneTimesLess ==
  ASSUME NEW c \in Nat, c > 0, NEW f \in Nat
  PROVE  c * f = (c - 1) * f + f /\ (c - 1) * f \in Nat
  OBVIOUS

(* The padding of a place reaches the next multiple, and only that one is  *)
(* less than the alignment away (situ_pad_to_u32).                         *)
LEMMA PadToIs ==
  ASSUME NEW p \in Nat, NEW n \in Nat \ {0}
  PROVE  /\ PadTo(p, n) \in 0 .. n - 1
         /\ {q \in p .. p + n - 1 : q % n = 0} = {p + PadTo(p, n)}
<1> DEFINE r == p % n
           k == p \div n
<1>1. r \in 0 .. n - 1 /\ k \in Nat /\ p = n * k + r
  OBVIOUS
<1> HIDE DEF r, k
<1>2. PadTo(p, n) = IF r = 0 THEN 0 ELSE n - r
  <2>1. PadTo(p, n) = (n - r) % n
    BY DEF PadTo, r
  <2>2. r = 0 => (n - r) % n = 0
    OBVIOUS
  <2>3. r # 0 => (n - r) % n = n - r
    BY <1>1
  <2> QED BY <2>1, <2>2, <2>3
<1>3. PadTo(p, n) \in 0 .. n - 1
  BY <1>1, <1>2
<1>4. \E j \in Nat : p + PadTo(p, n) = n * j
  <2>1. CASE r = 0
    BY <2>1, <1>1, <1>2
  <2>2. CASE r # 0
    <3>1. p + PadTo(p, n) = n * k + n
      BY <2>2, <1>1, <1>2
    <3>2. n * k + n = n * (k + 1) /\ k + 1 \in Nat
      BY <1>1
    <3> QED BY <3>1, <3>2
  <2> QED BY <2>1, <2>2
<1>5. PICK j \in Nat : p + PadTo(p, n) = n * j
  BY <1>4
<1>6. (p + PadTo(p, n)) % n = 0
  <2>1. (n * j) % n = 0
    OBVIOUS
  <2> QED BY <1>5, <2>1
<1>7. ASSUME NEW q \in p .. p + n - 1, q % n = 0
      PROVE  q = p + PadTo(p, n)
  <2> DEFINE i == q \div n
  <2>1. i \in Nat /\ q = n * i
    BY <1>7
  <2> HIDE DEF i
  <2>2. n * i - n * j < n /\ n * j - n * i < n
    BY <2>1, <1>3, <1>5, <1>7
  <2>3. ~(i > j)
    <3>1. SUFFICES ASSUME i >= j + 1 PROVE FALSE
      BY <2>1
    <3>2. n * i >= n * (j + 1) /\ n * (j + 1) = n * j + n
      BY <3>1, <2>1
    <3> QED BY <3>2, <2>2, <2>1
  <2>4. ~(j > i)
    <3>1. SUFFICES ASSUME j >= i + 1 PROVE FALSE
      BY <2>1
    <3>2. n * j >= n * (i + 1) /\ n * (i + 1) = n * i + n
      BY <3>1, <2>1
    <3> QED BY <3>2, <2>2, <2>1
  <2>5. i = j
    BY <2>1, <2>3, <2>4
  <2> QED BY <2>1, <2>5, <1>5
<1> QED
  <2>1. p + PadTo(p, n) \in p .. p + n - 1
    BY <1>3
  <2> QED BY <2>1, <1>3, <1>6, <1>7

(* A pad is never a negative number of bytes (situ_pad_to_u32).            *)
LEMMA PadToType ==
  ASSUME NEW p \in Nat, NEW n \in Nat \ {0}
  PROVE  PadTo(p, n) \in Nat
<1>1. PadTo(p, n) \in 0 .. n - 1
  BY PadToIs
<1> QED BY <1>1

-----------------------------------------------------------------------------
(* What may have arrived later than b *)
Extends(c, b) ==
  /\ Len(b) <= Len(c)
  /\ \A i \in 1 .. Len(b) : c[i] = b[i]

(* The bytes of a buffer, and that one that has arrived stays (the data    *)
(* pointer of _required).                                                  *)
LEMMA BytesStay ==
  ASSUME NEW b \in Buffers, NEW p \in Nat, p < Len(b)
  PROVE  /\ ByteAt(b, p) \in 0 .. Top
         /\ \A c \in Buffers : Extends(c, b) => ByteAt(c, p) = ByteAt(b, p)
<1>1. p + 1 \in 1 .. Len(b)
  BY DEF Buffers
<1>2. b[p + 1] \in Bytes
  BY <1>1 DEF Buffers
<1> QED BY <1>1, <1>2, WalkAssumption DEF ByteAt, Extends

(* The bytes from a place on are a buffer, and extend with it (`data +     *)
(* pos` and situ_remaining_u32 in _nested_framing).                        *)
LEMMA FromIs ==
  ASSUME NEW b \in Buffers, NEW p \in 0 .. Len(b)
  PROVE  /\ From(b, p) \in Buffers
         /\ Len(From(b, p)) = Len(b) - p
         /\ \A i \in 1 .. Len(b) - p : From(b, p)[i] = b[p + i]
<1>1. b \in Seq(Bytes) /\ Len(b) \in Nat /\ Len(b) <= MaxBytes
  BY DEF Buffers
<1>2. p + 1 \in 1 .. Len(b) + 1 /\ Len(b) \in p .. Len(b)
  BY <1>1
<1>3. From(b, p) = [i \in 1 .. Len(b) - p |-> b[i + p]]
  <2>1. SubSeq(b, p + 1, Len(b)) = [i \in 1 .. (1 + Len(b) - (p + 1)) |-> b[i + (p + 1) - 1]]
    BY <1>1, <1>2
  <2> QED BY <2>1, <1>1 DEF From
<1>4. ASSUME NEW i \in 1 .. Len(b) - p PROVE b[i + p] \in Bytes /\ i + p = p + i
  BY <1>1
<1>5. Len(b) - p \in Nat /\ Len(b) - p <= MaxBytes
  BY <1>1, WalkAssumption
<1> HIDE DEF From
<1>6. From(b, p) \in Seq(Bytes) /\ Len(From(b, p)) = Len(b) - p
  BY <1>3, <1>4, <1>5
<1> QED BY <1>3, <1>4, <1>5, <1>6 DEF Buffers

(* What a nested struct is handed grows as the stream does: the bytes from *)
(* its place on (the pointer `_nested_framing` passes on).                 *)
LEMMA FromExtends ==
  ASSUME NEW b \in Buffers, NEW c \in Buffers, Extends(c, b), NEW p \in 0 .. Len(b)
  PROVE  p \in 0 .. Len(c) /\ Extends(From(c, p), From(b, p))
<1>1. Len(b) \in Nat /\ Len(c) \in Nat /\ Len(b) <= Len(c)
  BY DEF Buffers, Extends
<1>2. p \in 0 .. Len(c)
  BY <1>1
<1>3. Len(From(b, p)) = Len(b) - p /\ Len(From(c, p)) = Len(c) - p
  BY <1>2, FromIs
<1>4. ASSUME NEW i \in 1 .. Len(b) - p PROVE From(c, p)[i] = From(b, p)[i]
  <2>1. i \in 1 .. Len(c) - p /\ p + i \in 1 .. Len(b)
    BY <1>1
  <2>2. From(c, p)[i] = c[p + i] /\ From(b, p)[i] = b[p + i]
    BY <2>1, <1>2, FromIs
  <2> QED BY <2>1, <2>2 DEF Extends
<1> QED BY <1>1, <1>2, <1>3, <1>4 DEF Extends

(* The lengths an accessor reads from a place: at most one, within the     *)
(* bytes, and one that is there stays (_len and _terminated_from).         *)
ReadsOne(lengths, later, b, p) ==
  /\ lengths \subseteq 1 .. Len(b) - p
  /\ \A k, l \in lengths : k = l
  /\ lengths \subseteq later
  /\ \A k \in later : k \in Nat \ {0} /\ (p + k <= Len(b) => k \in lengths)
  /\ \A k, l \in later : k = l

(* A varint has one length, and more bytes neither change a length that    *)
(* was read nor shorten one that was not (the varint accessor that         *)
(* _required measures with).                                               *)
LEMMA VarintReadsOne ==
  ASSUME NEW b \in Buffers, NEW c \in Buffers, Extends(c, b), NEW p \in 0 .. Len(b)
  PROVE  ReadsOne(VarintLength(b, p), VarintLength(c, p), b, p)
<1>1. Len(b) \in Nat /\ Len(c) \in Nat /\ Len(b) <= Len(c) /\ VarintMax \in Nat
  BY WalkAssumption DEF Buffers, Extends
<1>2. ASSUME NEW d \in Buffers, NEW k \in VarintLength(d, p), NEW l \in VarintLength(d, p)
      PROVE  ~(k < l)
  <2>1. SUFFICES ASSUME k < l PROVE FALSE
    OBVIOUS
  <2>2. /\ k \in 1 .. VarintMax /\ l \in 1 .. VarintMax /\ p + l <= Len(d)
        /\ ByteAt(d, p + k - 1) < 2
        /\ \A j \in 1 .. l - 1 : ByteAt(d, p + j - 1) >= 2
    BY DEF VarintLength
  <2>3. k \in 1 .. l - 1
    BY <2>1, <2>2, <1>1
  <2>4. Len(d) \in Nat
    BY DEF Buffers
  <2>5. p + k - 1 \in Nat /\ p + k - 1 < Len(d)
    BY <2>2, <2>1, <2>4, <1>1
  <2>6. ByteAt(d, p + k - 1) \in 0 .. Top
    BY <2>5, BytesStay
  <2>7. ByteAt(d, p + k - 1) >= 2
    BY <2>2, <2>3
  <2> QED BY <2>2, <2>6, <2>7, WalkAssumption
<1>3. ASSUME NEW d \in Buffers, NEW k \in VarintLength(d, p), NEW l \in VarintLength(d, p)
      PROVE  k = l
  <2>1. ~(k < l) /\ ~(l < k)
    BY <1>2
  <2> QED BY <2>1, <1>1 DEF VarintLength
<1>4. ASSUME NEW k \in 1 .. VarintMax, p + k <= Len(b)
      PROVE  k \in VarintLength(b, p) <=> k \in VarintLength(c, p)
  <2>1. ASSUME NEW j \in 1 .. k
        PROVE  ByteAt(c, p + j - 1) = ByteAt(b, p + j - 1)
    <3>1. p + j - 1 \in Nat /\ p + j - 1 < Len(b)
      BY <1>1, <1>4
    <3> QED BY <3>1, BytesStay
  <2>2. k \in 1 .. k /\ \A j \in 1 .. k - 1 : j \in 1 .. k
    BY <1>1
  <2>3. p + k <= Len(c)
    BY <1>1, <1>4
  <2>4. ByteAt(c, p + k - 1) = ByteAt(b, p + k - 1)
    BY <2>1, <2>2
  <2>5. ASSUME NEW j \in 1 .. k - 1 PROVE ByteAt(c, p + j - 1) = ByteAt(b, p + j - 1)
    BY <2>1, <2>2
  <2> HIDE DEF ByteAt
  <2> QED BY <2>3, <2>4, <2>5, <1>4 DEF VarintLength
<1>5. VarintLength(b, p) \subseteq 1 .. Len(b) - p
  BY <1>1 DEF VarintLength
<1>6. VarintLength(b, p) \subseteq VarintLength(c, p)
  BY <1>4 DEF VarintLength
<1>7. ASSUME NEW k \in VarintLength(c, p)
      PROVE  k \in Nat \ {0} /\ (p + k <= Len(b) => k \in VarintLength(b, p))
  <2>1. k \in 1 .. VarintMax
    BY DEF VarintLength
  <2> QED BY <1>1, <1>4, <2>1
<1> QED BY <1>3, <1>5, <1>6, <1>7 DEF ReadsOne

(* So has a run of bytes up to a delimiter: its first delimiter ends it    *)
(* (the accessor that _required measures with).                            *)
LEMMA DelimitedReadsOne ==
  ASSUME NEW b \in Buffers, NEW c \in Buffers, Extends(c, b), NEW p \in 0 .. Len(b)
  PROVE  ReadsOne(DelimitedLength(b, p), DelimitedLength(c, p), b, p)
<1>1. Len(b) \in Nat /\ Len(c) \in Nat /\ Len(b) <= Len(c)
  BY WalkAssumption DEF Buffers, Extends
<1>2. ASSUME NEW d \in Buffers, NEW k \in DelimitedLength(d, p), NEW l \in DelimitedLength(d, p)
      PROVE  ~(k < l)
  <2>1. SUFFICES ASSUME k < l PROVE FALSE
    OBVIOUS
  <2>2. Len(d) \in Nat
    BY DEF Buffers
  <2>3. /\ k \in Nat \ {0} /\ l \in Nat
        /\ ByteAt(d, p + k - 1) = 0
        /\ \A j \in 1 .. l - 1 : ByteAt(d, p + j - 1) # 0
    BY <2>2, <1>1 DEF DelimitedLength
  <2>4. k \in 1 .. l - 1
    BY <2>1, <2>3
  <2> QED BY <2>3, <2>4
<1>3. ASSUME NEW d \in Buffers, NEW k \in DelimitedLength(d, p), NEW l \in DelimitedLength(d, p)
      PROVE  k = l
  <2>1. ~(k < l) /\ ~(l < k)
    BY <1>2
  <2>2. Len(d) \in Nat
    BY DEF Buffers
  <2> QED BY <2>1, <2>2, <1>1 DEF DelimitedLength
<1>4. ASSUME NEW k \in Nat \ {0}, p + k <= Len(b)
      PROVE  k \in DelimitedLength(b, p) <=> k \in DelimitedLength(c, p)
  <2>1. ASSUME NEW j \in 1 .. k
        PROVE  ByteAt(c, p + j - 1) = ByteAt(b, p + j - 1)
    <3>1. p + j - 1 \in Nat /\ p + j - 1 < Len(b)
      BY <1>1, <1>4
    <3> QED BY <3>1, BytesStay
  <2>2. k \in 1 .. k /\ \A j \in 1 .. k - 1 : j \in 1 .. k
    BY <1>1
  <2>3. k \in 1 .. Len(b) - p /\ k \in 1 .. Len(c) - p
    BY <1>1, <1>4
  <2>4. ByteAt(c, p + k - 1) = ByteAt(b, p + k - 1)
    BY <2>1, <2>2
  <2>5. ASSUME NEW j \in 1 .. k - 1 PROVE ByteAt(c, p + j - 1) = ByteAt(b, p + j - 1)
    BY <2>1, <2>2
  <2> HIDE DEF ByteAt
  <2> QED BY <2>3, <2>4, <2>5, <1>4 DEF DelimitedLength
<1>5. DelimitedLength(b, p) \subseteq 1 .. Len(b) - p
  BY DEF DelimitedLength
<1>6. ASSUME NEW k \in DelimitedLength(b, p) PROVE k \in DelimitedLength(c, p)
  <2>1. k \in Nat \ {0} /\ p + k <= Len(b)
    BY <1>5, <1>1
  <2> QED BY <1>4, <2>1
<1>7. ASSUME NEW k \in DelimitedLength(c, p)
      PROVE  k \in Nat \ {0} /\ (p + k <= Len(b) => k \in DelimitedLength(b, p))
  <2>1. k \in Nat \ {0}
    BY <1>1 DEF DelimitedLength
  <2> QED BY <1>4, <2>1
<1> QED BY <1>3, <1>5, <1>6, <1>7 DEF ReadsOne

-----------------------------------------------------------------------------
(* What holds of the walk while it goes: the total is where the next       *)
(* member starts and `more`, the fixed bytes behind it, and once it is     *)
(* short it asks for more than there is.                                   *)
Sound(w, more, bytes) ==
  /\ w \in Walks /\ w.at <= Top
  /\ IF w.short THEN w.at > Len(bytes)
     ELSE w.pos <= Top /\ w.at = Need(w.pos, more)

(* Where it is, if that is within the bytes *)
Here(w, bytes) == IF ~w.short /\ w.pos <= Len(bytes) THEN {w.pos} ELSE {}

(* It never goes back *)
GoesOn(w, u) == u.at >= w.at /\ (~u.short => u.pos >= w.pos)

(* With more bytes: the same, or it asked for no more than is asked then *)
Follows(u, v) == IF u.short THEN v.at >= u.at ELSE v = u

(* What a struct's `required` promises of it, and its lengths, of a buffer *)
(* of at most `room` bytes: the same contract, with the floor that a run   *)
(* counts on.                                                              *)
Typed(required, ends) ==
  \A b \in Buffers : required[b] \in Answers /\ ends[b] \in SUBSET Upto(b)

Keeps(required, ends, floor, room) ==
  /\ Typed(required, ends) /\ room \in Int
  /\ \A b \in Buffers : Len(b) <= room =>
       /\ required[b].need >= floor
       /\ ends[b] = IF required[b].whole THEN {required[b].need} ELSE {}
       /\ required[b].whole => required[b].need <= Len(b)
       /\ ~required[b].whole => required[b].need > Len(b)
       /\ \A c \in Buffers : Len(c) <= room /\ Extends(c, b) =>
            /\ required[c].need >= required[b].need
            /\ required[b].whole => required[c] = required[b]

(* There are no more bytes than the buffer holds (the `len` handed to      *)
(* _required).                                                             *)
LEMMA LenIs ==
  ASSUME NEW b \in Buffers
  PROVE  Len(b) \in Nat /\ Len(b) <= MaxBytes
  BY DEF Buffers

(* Past a member of a known length the walk is sound (situ_need_u32).      *)
LEMMA PastIsSound ==
  ASSUME NEW b \in Buffers, MaxBytes < Top, NEW more \in Nat, NEW len \in Nat,
         NEW w, Sound(w, more, b), ~w.short
  PROVE  /\ Sound(Past(w, len), more, b) /\ GoesOn(w, Past(w, len))
         /\ ~Past(w, len).short /\ ~Past(w, len).over
         /\ Here(Past(w, len), b) = {w.pos + len} \cap Upto(b)
         /\ Past(w, len).at = Need(w.at, len)
         /\ Past(w, len).pos = Need(w.pos, len)
<1> DEFINE u == Past(w, len)
<1>1. /\ w.at \in 0 .. Top /\ w.pos \in 0 .. Top /\ w.at = Need(w.pos, more)
      /\ Top \in Nat
  BY WalkAssumption DEF Sound, Walks
<1>2. /\ u.at = Need(w.at, len) /\ u.pos = Need(w.pos, len)
      /\ u.short = FALSE /\ u.over = FALSE
      /\ u = [at |-> Need(w.at, len), pos |-> Need(w.pos, len),
              short |-> FALSE, over |-> FALSE]
  BY DEF Past, Walking
<1> HIDE DEF u
<1>3. u.at \in 0 .. Top /\ u.pos \in 0 .. Top /\ u.at >= w.at /\ u.pos >= w.pos
  BY <1>1, <1>2 DEF Need
<1>4. u.at = Need(u.pos, more)
  BY <1>1, <1>2 DEF Need
<1>5. u \in Walks
  BY <1>2, <1>3 DEF Walks
<1>6. Here(u, b) = {w.pos + len} \cap Upto(b)
  <2>1. Len(b) \in Nat /\ Len(b) < Top
    BY LenIs, WalkAssumption
  <2>2. u.pos <= Len(b) => u.pos = w.pos + len
    BY <2>1, <1>1, <1>2 DEF Need
  <2>3. u.pos > Len(b) => w.pos + len > Len(b)
    BY <2>1, <1>1, <1>2 DEF Need
  <2> QED BY <2>1, <2>2, <2>3, <1>1, <1>2, <1>3 DEF Here, Upto
<1>7. Sound(u, more, b) /\ GoesOn(w, u)
  BY <1>2, <1>3, <1>4, <1>5 DEF Sound, GoesOn
<1> QED BY <1>2, <1>6, <1>7 DEF u

(* A walk that ends short, of more than there is                           *)
LEMMA ShortIsSound ==
  ASSUME NEW b \in Buffers, NEW more \in Nat, NEW w, Sound(w, more, b),
         NEW need \in 0 .. Top, need > Len(b), need >= w.at
  PROVE  /\ Sound(Short(need), more, b) /\ GoesOn(w, Short(need))
         /\ Short(need).short /\ ~Short(need).over /\ Short(need).at = need
         /\ Here(Short(need), b) = {}
<1>1. /\ Short(need).at = need /\ Short(need).short = TRUE /\ Short(need).over = FALSE
      /\ Short(need) \in Walks
  BY WalkAssumption DEF Short, Walks
<1> QED BY <1>1, WalkAssumption DEF Sound, GoesOn, Here

(* What a member of a measured length leaves *)
MeasuredIs(w, u, v, more, bytes, lengths) ==
  /\ Sound(u, more, bytes) /\ GoesOn(w, u) /\ ~u.over /\ (~u.short => u.pos >= 1)
  /\ Here(u, bytes) = {w.pos + k : k \in lengths}
  /\ Follows(u, v)

(* A member whose length an accessor reads is sound, and follows (the      *)
(* varint and delimiter steps of _required).                               *)
LEMMA MeasuredIsSound ==
  ASSUME NEW b \in Buffers, NEW c \in Buffers, Extends(c, b), MaxBytes < Top,
         NEW more \in Nat, NEW w, Sound(w, more, b), ~w.short, w.pos <= Len(b),
         NEW lengths, NEW later, ReadsOne(lengths, later, b, w.pos)
  PROVE  MeasuredIs(w, Measured(w, lengths, b), Measured(w, later, c), more, b, lengths)
<1> DEFINE u == Measured(w, lengths, b)
           v == Measured(w, later, c)
<1> SUFFICES /\ Sound(u, more, b) /\ GoesOn(w, u) /\ ~u.over /\ (~u.short => u.pos >= 1)
             /\ Here(u, b) = {w.pos + k : k \in lengths}
             /\ Follows(u, v)
  BY DEF MeasuredIs
<1>1. /\ w.at \in 0 .. Top /\ w.pos \in 0 .. Top /\ w.at >= w.pos
      /\ Len(b) \in Nat /\ Len(b) < Top /\ Top \in Nat
      /\ Len(c) \in Nat /\ Len(c) < Top /\ Len(b) <= Len(c)
  BY WalkAssumption, LenIs DEF Sound, Walks, Need, Extends
<1>2. CASE lengths = {}
  <2> DEFINE need == Larger(Need(Len(b), 1), w.at)
  <2>1. u = Short(need)
    BY <1>2 DEF Measured, AskAgain
  <2>2. need \in 0 .. Top /\ need > Len(b) /\ need >= w.at
    BY <1>1 DEF Larger, Need
  <2>3. need = IF w.at > Len(b) + 1 THEN w.at ELSE Len(b) + 1
    BY <1>1 DEF Larger, Need
  <2> HIDE DEF need
  <2>4. v.at >= need
    <3>1. CASE later = {}
      <4>1. v.at = Larger(Need(Len(c), 1), w.at)
        BY <3>1 DEF Measured, AskAgain, Short
      <4> QED BY <4>1, <2>3, <1>1 DEF Larger, Need
    <3>2. CASE later # {}
      <4> DEFINE k == CHOOSE k \in later : TRUE
      <4>1. k \in later
        BY <3>2
      <4>2. k \in Nat /\ ~(w.pos + k <= Len(b))
        BY <4>1, <1>2 DEF ReadsOne
      <4>3. v.at = Need(w.at, k)
        BY <3>2 DEF Measured, Past, Walking
      <4> HIDE DEF k
      <4> QED BY <4>2, <4>3, <2>3, <1>1 DEF Need
    <3> QED BY <3>1, <3>2
  <2>5. /\ Sound(u, more, b) /\ GoesOn(w, u) /\ u.short /\ ~u.over /\ u.at = need
        /\ Here(u, b) = {}
    BY <2>1, <2>2, ShortIsSound
  <2> HIDE DEF u, v
  <2>6. {w.pos + k : k \in lengths} = {}
    BY <1>2
  <2> QED BY <2>2, <2>4, <2>5, <2>6 DEF Follows, u, v
<1>3. CASE lengths # {}
  <2> DEFINE k == CHOOSE k \in lengths : TRUE
  <2>1. k \in lengths
    BY <1>3
  <2>2. lengths = {k} /\ later = {k} /\ k \in 1 .. Len(b) - w.pos
    BY <2>1 DEF ReadsOne
  <2>3. u = Past(w, k)
    BY <1>3 DEF Measured
  <2>4. v = Past(w, CHOOSE l \in later : TRUE)
    BY <2>2 DEF Measured
  <2>5. (CHOOSE l \in later : TRUE) = k
    <3>1. (CHOOSE l \in later : TRUE) \in later
      BY <2>2
    <3> QED BY <3>1, <2>2
  <2>6. v = u
    BY <2>3, <2>4, <2>5
  <2> HIDE DEF k, u, v
  <2>7. /\ Sound(u, more, b) /\ GoesOn(w, u) /\ ~u.short /\ ~u.over
        /\ Here(u, b) = {w.pos + k} \cap Upto(b) /\ u.pos = Need(w.pos, k)
    <3>1. k \in Nat
      BY <2>2, <1>1
    <3> QED BY <2>3, <3>1, PastIsSound
  <2>8. u.pos >= 1
    BY <2>2, <2>7, <1>1 DEF Need
  <2>9. {w.pos + k} \cap Upto(b) = {w.pos + l : l \in lengths}
    BY <2>2, <1>1 DEF Upto
  <2> HIDE DEF u, v
  <2> QED BY <2>6, <2>7, <2>8, <2>9 DEF Follows, u, v
<1> QED BY <1>2, <1>3

(* What a struct answers of the bytes from a place on, and of more of them *)
PartIs(part, later, places, b, p, floor) ==
  /\ part.whole \in BOOLEAN /\ part.need \in Nat /\ part.need >= floor
  /\ part.whole => later = part /\ part.need <= Len(b) - p
  /\ ~part.whole => part.need > Len(b) - p
  /\ later.whole \in BOOLEAN /\ later.need \in Nat /\ later.need >= part.need
  /\ places = IF part.whole THEN {p + part.need} ELSE {}

(* The contract of a struct, asked about the bytes from a place on: what   *)
(* it answers of a part of the stream (_nested_framing).                   *)
LEMMA PartKeeps ==
  ASSUME NEW b \in Buffers, NEW c \in Buffers, Extends(c, b), NEW p \in 0 .. Len(b),
         NEW required, NEW ends, NEW floor \in Nat, NEW room,
         Keeps(required, ends, floor, room), Len(c) - p <= room
  PROVE  PartIs(required[From(b, p)], required[From(c, p)], PartPlaces(ends, b, p),
                b, p, floor)
<1> DEFINE part == required[From(b, p)]
           later == required[From(c, p)]
<1>1. /\ From(b, p) \in Buffers /\ Len(From(b, p)) = Len(b) - p
      /\ p \in 0 .. Len(c) /\ Extends(From(c, p), From(b, p))
  BY FromIs, FromExtends
<1>2. From(c, p) \in Buffers /\ Len(From(c, p)) = Len(c) - p
  BY <1>1, FromIs
<1>7. Len(From(b, p)) <= room /\ Len(From(c, p)) <= room
  BY <1>1, <1>2, LenIs DEF Extends, Keeps
<1>3. /\ part.need >= floor
      /\ ends[From(b, p)] = IF part.whole THEN {part.need} ELSE {}
      /\ part.whole => part.need <= Len(b) - p
      /\ ~part.whole => part.need > Len(b) - p
      /\ later.need >= part.need /\ (part.whole => later = part)
  BY <1>1, <1>2, <1>7 DEF Keeps
<1>4. part \in Answers /\ later \in Answers
  BY <1>1, <1>2 DEF Keeps, Typed
<1>5. PartPlaces(ends, b, p) = {p + k : k \in ends[From(b, p)]}
  BY DEF PartPlaces
<1> HIDE DEF part, later
<1>6. PartIs(part, later, PartPlaces(ends, b, p), b, p, floor)
  BY <1>3, <1>4, <1>5 DEF Answers, PartIs
<1> QED BY <1>6 DEF part, later

(* A nested struct is sound, and follows (_nested_framing). *)
LEMMA NestedIsSound ==
  ASSUME NEW b \in Buffers, NEW c \in Buffers, Extends(c, b), MaxBytes < Top,
         NEW more \in Nat, NEW w, Sound(w, more, b), ~w.short,
         NEW required, NEW ends, NEW floor \in Nat, NEW room,
         Keeps(required, ends, floor, room), Len(c) - w.pos <= room,
         NEW u, u = Nested(w, required, b), NEW v, v = Nested(w, required, c)
  PROVE  /\ Sound(u, more, b) /\ GoesOn(w, u) /\ ~u.over
         /\ w.pos <= Len(b) => /\ Here(u, b) = PartPlaces(ends, b, w.pos)
                               /\ u.at >= Need(w.at, floor)
                               /\ v.at >= Need(w.at, floor)
         /\ ~u.short => /\ w.pos <= Len(b) /\ u.pos <= Len(b)
                        /\ u.pos >= w.pos + floor
         /\ Follows(u, v)
         /\ v.at \in 0 .. Top /\ v.at >= w.at /\ ~v.over
<1>1. /\ w.at \in 0 .. Top /\ w.pos \in 0 .. Top /\ w.at >= w.pos
      /\ Len(b) \in Nat /\ Len(b) < Top /\ Top \in Nat
      /\ Len(c) \in Nat /\ Len(c) < Top /\ Len(b) <= Len(c)
  BY WalkAssumption, LenIs DEF Sound, Walks, Need, Extends
<1>2. v.at \in 0 .. Top /\ v.at >= w.at /\ ~v.over
  <2>1. CASE ~HasArrived(c, w.pos)
    <3>1. v = Short(w.at)
      BY <2>1 DEF Nested
    <3> QED BY <3>1, <1>1 DEF Short
  <2>2. CASE HasArrived(c, w.pos)
    <3> DEFINE later == required[From(c, w.pos)]
    <3>1. From(c, w.pos) \in Buffers
      BY <2>2, <1>1, FromIs DEF HasArrived
    <3>2. later.need \in Nat
      BY <3>1 DEF Keeps, Typed, Answers
    <3>3. v = IF later.whole THEN Past(w, later.need) ELSE Short(Need(w.at, later.need))
      BY <2>2 DEF Nested
    <3> HIDE DEF later
    <3>4. v.at = Need(w.at, later.need) /\ v.over = FALSE
      BY <3>3 DEF Past, Walking, Short
    <3> QED BY <3>2, <3>4, <1>1 DEF Need
  <2> QED BY <2>1, <2>2
<1>3. CASE w.pos > Len(b)
  <2>1. u = Short(w.at) /\ w.at > Len(b)
    BY <1>3, <1>1 DEF Nested, HasArrived
  <2>2. Sound(u, more, b) /\ GoesOn(w, u) /\ u.short /\ ~u.over /\ u.at = w.at
    BY <2>1, <1>1, ShortIsSound
  <2> QED BY <2>2, <1>1, <1>2, <1>3 DEF Follows
<1>4. CASE w.pos <= Len(b)
  <2> DEFINE p == w.pos
             part == required[From(b, p)]
             later == required[From(c, p)]
  <2>1. p \in 0 .. Len(b) /\ p = w.pos /\ Len(c) - p <= room
    BY <1>1, <1>4
  <2> HIDE DEF p
  <2>9. part = required[From(b, p)] /\ later = required[From(c, p)]
    OBVIOUS
  <2> HIDE DEF part, later
  <2>10. PartIs(part, later, PartPlaces(ends, b, p), b, p, floor)
    BY <2>1, <2>9, PartKeeps
  <2>2. /\ part.whole \in BOOLEAN /\ part.need \in Nat /\ part.need >= floor
        /\ part.whole => later = part /\ part.need <= Len(b) - w.pos
        /\ ~part.whole => part.need > Len(b) - w.pos
        /\ later.whole \in BOOLEAN /\ later.need \in Nat /\ later.need >= part.need
        /\ PartPlaces(ends, b, w.pos) = IF part.whole THEN {w.pos + part.need} ELSE {}
    BY <2>1, <2>10 DEF PartIs
  <2>3. u = IF part.whole THEN Past(w, part.need) ELSE Short(Need(w.at, part.need))
    BY <1>4, <2>1, <2>9 DEF Nested, HasArrived
  <2>4. v = IF later.whole THEN Past(w, later.need) ELSE Short(Need(w.at, later.need))
    BY <1>4, <1>1, <2>1, <2>9 DEF Nested, HasArrived
  <2>5. v.at = Need(w.at, later.need)
    BY <2>4 DEF Past, Walking, Short
  <2>11. floor \in Nat
    BY <2>10 DEF PartIs
  <2>6. v.at >= Need(w.at, floor) /\ v.at >= Need(w.at, part.need)
    <3>1. floor <= later.need /\ part.need <= later.need
      BY <2>2, <2>11
    <3> QED BY <2>2, <2>5, <2>11, <3>1, <1>1, NeedRises
  <2>7. CASE part.whole
    <3>1. u = Past(w, part.need) /\ v = u
      BY <2>2, <2>3, <2>4, <2>7
    <3>2. /\ Sound(u, more, b) /\ GoesOn(w, u) /\ ~u.short /\ ~u.over
          /\ Here(u, b) = {w.pos + part.need} \cap Upto(b)
          /\ u.at = Need(w.at, part.need) /\ u.pos = Need(w.pos, part.need)
      BY <2>2, <3>1, PastIsSound
    <3>3. u.pos = w.pos + part.need /\ u.pos <= Len(b) /\ u.pos >= w.pos + floor
      BY <2>2, <2>7, <3>2, <1>1 DEF Need
    <3>4. Here(u, b) = PartPlaces(ends, b, w.pos)
      <4>1. w.pos + part.need \in Upto(b)
        BY <2>2, <2>7, <1>1 DEF Upto
      <4> QED BY <4>1, <2>2, <2>7, <3>2
    <3>5. u.at >= Need(w.at, floor)
      BY <2>2, <2>11, <3>2, <1>1, NeedRises
    <3> QED BY <2>6, <3>1, <3>2, <3>3, <3>4, <3>5, <1>2, <1>4 DEF Follows
  <2>8. CASE ~part.whole
    <3> DEFINE need == Need(w.at, part.need)
    <3>1. u = Short(need)
      BY <2>3, <2>8
    <3>2. need \in 0 .. Top /\ need > Len(b) /\ need >= w.at /\ need >= Need(w.at, floor)
      <4>1. need \in 0 .. Top /\ need >= w.at /\ need >= Need(w.at, floor)
        BY <2>2, <2>11, <1>1, NeedRises
      <4>2. /\ w.at \in 0 .. Top /\ w.pos \in Nat /\ w.pos <= w.at
            /\ Len(b) \in Nat /\ Len(b) < Top
            /\ part.need \in Nat /\ part.need > Len(b) - w.pos
        BY <2>2, <2>8, <1>1
      <4>3. need > Len(b)
        BY <4>2, NeedReaches, Zenon
      <4> QED BY <4>1, <4>3
    <3> HIDE DEF need
    <3>3. /\ Sound(u, more, b) /\ GoesOn(w, u) /\ u.short /\ ~u.over /\ u.at = need
          /\ Here(u, b) = {}
      BY <3>1, <3>2, ShortIsSound
    <3>4. v.at >= need
      BY <2>6 DEF need
    <3> QED BY <2>2, <2>6, <2>8, <3>2, <3>3, <3>4, <1>2, <1>4 DEF Follows
  <2> QED BY <2>2, <2>7, <2>8
<1> QED BY <1>1, <1>3, <1>4

-----------------------------------------------------------------------------
(* A run, and what its elements keep *)
IsRun(m, required, ends, floor, room) ==
  /\ m.ends \in {"count", "delimiter", "condition"}
  /\ floor \in Nat \ {0} /\ floor = FramingFloor(Schema[m.of])
  /\ Keeps(required[m.of], ends[m.of], floor, room)

(* What a run credits n elements it has not reached with *)
Credit(m, n, floor) == IF m.ends = "count" THEN n * floor ELSE 0

(* A walk that covers a total: by what it asks for, or with its credit *)
Covers(w, credit, need) ==
  IF w.short THEN w.at >= need ELSE Need(w.at, credit) >= need

(* What one element leaves of a walk that was in the bytes *)
ElementIs(w, u, more, bytes, m, credit, before) ==
  /\ Sound(u, more, bytes) /\ GoesOn(w, u)
  /\ ~u.short => u.pos <= Len(bytes)
  /\ u.over => ~u.short /\ m.ends # "count"
  /\ Covers(u, credit, Need(w.at, before))

(* What a counted run still owes falls by one floor with each element; a   *)
(* run that ends by its bytes owes nothing (_framing_walk).                *)
LEMMA CreditIs ==
  ASSUME NEW m, NEW n \in Nat, NEW floor \in Nat
  PROVE  /\ Credit(m, n, floor) \in Nat
         /\ m.ends = "count" => Credit(m, n + 1, floor) = Credit(m, n, floor) + floor
         /\ m.ends # "count" => Credit(m, n, floor) = 0
<1>1. n + 1 \in Nat /\ n + 1 > 0 /\ (n + 1) - 1 = n
  OBVIOUS
<1>2. (n + 1) * floor = n * floor + floor /\ n * floor \in Nat
  BY <1>1, OneTimesLess
<1> QED BY <1>2 DEF Credit

(* One element leaves a walk that is sound, that goes on within the bytes  *)
(* unless it is short, and whose total covers the floor of this element    *)
(* and of those to come (_framing_walk).                                   *)
LEMMA ElementIsSound ==
  ASSUME NEW b \in Buffers, NEW more \in Nat, MaxBytes + more < Top,
         NEW m, NEW required, NEW ends, NEW floor, NEW room,
         IsRun(m, required, ends, floor, room),
         NEW w, Sound(w, more, b), ~w.short, ~w.over, w.pos <= Len(b),
         Len(b) - w.pos <= room,
         NEW left \in Nat
  PROVE  ElementIs(w, Element(w, m, required, left, b), more, b, m,
                   Credit(m, left, floor), Credit(m, left + 1, floor))
<1> DEFINE u == Element(w, m, required, left, b)
           next == Nested(w, required[m.of], b)
<1>1. /\ w.at \in 0 .. Top /\ w.pos \in 0 .. Top /\ w.at >= w.pos
      /\ Len(b) \in Nat /\ Len(b) <= MaxBytes /\ Top \in Nat /\ MaxBytes \in Nat
      /\ w.at = w.pos + more /\ w.at < Top
  BY WalkAssumption, LenIs DEF Sound, Walks, Need
<1>2. Extends(b, b) /\ MaxBytes < Top /\ HasArrived(b, w.pos)
  BY <1>1 DEF Extends, HasArrived
<1>3. floor \in Nat /\ floor >= 1 /\ Keeps(required[m.of], ends[m.of], floor, room)
  BY DEF IsRun
<1>4. /\ Sound(next, more, b) /\ GoesOn(w, next) /\ ~next.over
      /\ next.at >= Need(w.at, floor)
      /\ ~next.short => next.pos <= Len(b)
  BY <1>2, <1>3, NestedIsSound
<1>5. next.at \in 0 .. Top /\ next.short \in BOOLEAN /\ (next.short => next.at > Len(b))
  BY <1>4 DEF Sound, Walks
<1>6. CASE m.ends = "count"
  <2> DEFINE rest == left * floor
  <2>1. /\ Credit(m, left, floor) = rest /\ Credit(m, left + 1, floor) = rest + floor
        /\ rest \in Nat
    BY <1>3, <1>6, CreditIs DEF Credit
  <2>2. NeedTimes(left, floor) = IF rest > Top THEN Top ELSE rest
    BY <1>3, NeedTimesIs
  <2>3. u = IF ~next.short THEN next
            ELSE Short(Need(next.at, NeedTimes(left, floor)))
    BY <1>2, <1>6 DEF Element, IsRun
  <2> HIDE DEF u, next, rest
  <2>4. CASE ~next.short
    <3>1. u = next
      BY <2>3, <2>4
    <3>2. Covers(u, rest, Need(w.at, rest + floor))
      <4>1. Need(next.at, rest) >= Need(w.at, rest + floor)
        BY <2>1, <1>1, <1>3, <1>4, <1>5, NeedAdds
      <4> QED BY <4>1, <2>4, <3>1 DEF Covers
    <3> QED BY <2>1, <3>1, <3>2, <1>4 DEF ElementIs, u
  <2>5. CASE next.short
    <3> DEFINE need == Need(next.at, NeedTimes(left, floor))
    <3>8. /\ Need(next.at, rest) >= Need(w.at, rest + floor)
          /\ Need(next.at, rest) \in 0 .. Top /\ Need(next.at, rest) >= next.at
          /\ Need(next.at, IF rest > Top THEN Top ELSE rest) = Need(next.at, rest)
      BY <2>1, <1>1, <1>3, <1>4, <1>5, NeedAdds
    <3>9. need = Need(next.at, rest)
      BY <2>2, <3>8
    <3>1. need \in 0 .. Top /\ need > Len(b) /\ need >= next.at
      <4> HIDE DEF need
      <4> QED BY <2>5, <3>8, <3>9, <1>1, <1>5
    <3>2. next.at >= w.at
      BY <1>4 DEF GoesOn
    <3>3. need >= Need(w.at, rest + floor)
      BY <3>8, <3>9
    <3>4. u = Short(need)
      BY <2>3, <2>5
    <3>5. need >= w.at
      BY <3>1, <3>2, <1>1, <1>5
    <3> HIDE DEF need
    <3>6. Sound(u, more, b) /\ GoesOn(w, u) /\ u.short /\ ~u.over /\ u.at = need
      BY <3>1, <3>4, <3>5, ShortIsSound
    <3>7. Covers(u, rest, Need(w.at, rest + floor))
      BY <3>3, <3>6 DEF Covers
    <3> QED BY <2>1, <3>6, <3>7 DEF ElementIs, u
  <2> QED BY <2>4, <2>5
<1>7. CASE m.ends = "delimiter"
  <2>1. Credit(m, left, floor) = 0 /\ Credit(m, left + 1, floor) = 0
    BY <1>7 DEF Credit
  <2>2. u = IF ~HasArrived(b, w.pos + 1) THEN Short((w.at + 1) % (Top + 1))
            ELSE IF ByteAt(b, w.pos) = 0 THEN Over(Past(w, 1)) ELSE next
    BY <1>7 DEF Element
  <2>3. Need(w.at, 0) = w.at
    BY <1>1 DEF Need
  <2> HIDE DEF u, next
  <2>4. CASE ~HasArrived(b, w.pos + 1)
    <3>1. (w.at + 1) % (Top + 1) = w.at + 1
      BY <1>1, SmallRemainder
    <3>2. w.at + 1 \in 0 .. Top /\ w.at + 1 > Len(b) /\ w.at + 1 >= w.at
      BY <2>4, <1>1 DEF HasArrived
    <3>3. u = Short(w.at + 1)
      BY <2>2, <2>4, <3>1
    <3>4. /\ Sound(u, more, b) /\ GoesOn(w, u) /\ u.short /\ ~u.over
          /\ u.at = w.at + 1
      BY <3>2, <3>3, ShortIsSound
    <3> QED BY <2>1, <2>3, <3>2, <3>4 DEF ElementIs, Covers, u
  <2>5. CASE HasArrived(b, w.pos + 1) /\ ByteAt(b, w.pos) = 0
    <3> DEFINE past == Past(w, 1)
    <3>1. /\ Sound(past, more, b) /\ GoesOn(w, past) /\ ~past.short
          /\ past.at = Need(w.at, 1) /\ past.pos = Need(w.pos, 1)
      BY <1>2, PastIsSound
    <3>2. u = [past EXCEPT !.over = TRUE]
      BY <2>2, <2>5 DEF Over
    <3> HIDE DEF past
    <3>3. /\ u.at = past.at /\ u.pos = past.pos /\ u.short = past.short
          /\ u.over = TRUE /\ u \in Walks
      BY <3>1, <3>2 DEF Sound, Walks
    <3>4. Sound(u, more, b) /\ GoesOn(w, u) /\ ~u.short
      BY <3>1, <3>3 DEF Sound, GoesOn
    <3>5. u.pos <= Len(b) /\ u.at \in 0 .. Top /\ u.at >= w.at
      <4>1. Need(w.pos, 1) = w.pos + 1 /\ w.pos + 1 <= Len(b)
        <5>1. w.pos + 1 <= Len(b) /\ w.pos + 1 <= Top
          BY <2>5, <1>1 DEF HasArrived
        <5> QED BY <5>1, <1>1, NeedIs
      <4>2. Need(w.at, 1) \in 0 .. Top /\ Need(w.at, 1) >= w.at
        BY <1>1, NeedIs
      <4> QED BY <3>1, <3>3, <4>1, <4>2
    <3>6. Need(u.at, 0) >= w.at
      BY <3>5, <1>1 DEF Need
    <3> QED BY <2>1, <2>3, <3>4, <3>5, <3>6, <1>7 DEF ElementIs, Covers, u
  <2>6. CASE HasArrived(b, w.pos + 1) /\ ByteAt(b, w.pos) # 0
    <3>1. u = next
      BY <2>2, <2>6
    <3>2. u.at >= w.at /\ Need(u.at, 0) >= w.at
      BY <3>1, <1>1, <1>4, <1>5 DEF GoesOn, Need
    <3> QED BY <2>1, <2>3, <3>1, <3>2, <1>4 DEF ElementIs, Covers, u
  <2> QED BY <2>4, <2>5, <2>6
<1>8. CASE m.ends = "condition"
  <2>1. Credit(m, left, floor) = 0 /\ Credit(m, left + 1, floor) = 0
    BY <1>8 DEF Credit
  <2>2. u = IF ~next.short /\ ByteAt(b, w.pos) = 0 THEN [next EXCEPT !.over = TRUE]
            ELSE next
    BY <1>8 DEF Element, Over
  <2> HIDE DEF u, next
  <2>3. Need(w.at, 0) = w.at /\ Need(next.at, 0) >= w.at /\ next.at >= w.at
    BY <1>1, <1>4, <1>5 DEF Need, GoesOn
  <2>4. /\ u.at = next.at /\ u.pos = next.pos /\ u.short = next.short /\ u \in Walks
        /\ u.over => ~u.short
    BY <2>2, <1>4 DEF Sound, Walks
  <2>5. Sound(u, more, b) /\ GoesOn(w, u)
    BY <2>4, <1>4 DEF Sound, GoesOn
  <2> QED BY <2>1, <2>3, <2>4, <2>5, <1>4, <1>8 DEF ElementIs, Covers, u
<1> QED BY <1>6, <1>7, <1>8 DEF IsRun

(* With more bytes an element that was whole is the same, and one that was *)
(* not is asked no less for (_framing_walk).                               *)
ElementFollows(u, v, credit) == IF u.short THEN Covers(v, credit, u.at) ELSE v = u

(* With more bytes the element of a run that was whole is the same, and    *)
(* one that was short is asked no less for, the elements to come included  *)
(* (_framing_walk).                                                        *)
LEMMA ElementFollowsIt ==
  ASSUME NEW b \in Buffers, NEW c \in Buffers, Extends(c, b),
         NEW more \in Nat, MaxBytes + more < Top,
         NEW m, NEW required, NEW ends, NEW floor, NEW room,
         IsRun(m, required, ends, floor, room),
         NEW w, Sound(w, more, b), ~w.short, ~w.over, w.pos <= Len(b),
         Len(c) - w.pos <= room,
         NEW left \in Nat
  PROVE  ElementFollows(Element(w, m, required, left, b),
                        Element(w, m, required, left, c), Credit(m, left, floor))
<1> DEFINE u == Element(w, m, required, left, b)
           v == Element(w, m, required, left, c)
           next == Nested(w, required[m.of], b)
           then == Nested(w, required[m.of], c)
           rest == Credit(m, left, floor)
<1>1. /\ w.at \in 0 .. Top /\ w.pos \in 0 .. Top /\ w.at >= w.pos
      /\ Len(b) \in Nat /\ Len(b) <= MaxBytes /\ Top \in Nat /\ MaxBytes \in Nat
      /\ Len(c) \in Nat /\ Len(b) <= Len(c)
      /\ w.at = w.pos + more /\ w.at < Top
  BY WalkAssumption, LenIs DEF Sound, Walks, Need, Extends
<1>2. MaxBytes < Top /\ HasArrived(b, w.pos) /\ HasArrived(c, w.pos)
  BY <1>1 DEF HasArrived
<1>3. floor \in Nat /\ floor >= 1 /\ Keeps(required[m.of], ends[m.of], floor, room)
  BY DEF IsRun
<1>4. /\ Sound(next, more, b) /\ ~next.over
      /\ ~next.short => next.pos <= Len(b) /\ next.pos >= w.pos + floor
      /\ Follows(next, then)
      /\ then.at \in 0 .. Top /\ then.at >= w.at /\ ~then.over
      /\ then.at >= Need(w.at, floor)
  BY <1>2, <1>3, NestedIsSound
<1>5. /\ next.at \in 0 .. Top /\ next.short \in BOOLEAN
      /\ next.short => then.at >= next.at
      /\ ~next.short => then = next /\ w.pos < Len(b)
  <2>1. next.at \in 0 .. Top /\ next.short \in BOOLEAN /\ next.pos \in Nat
    BY <1>4, WalkAssumption DEF Sound, Walks
  <2> HIDE DEF next, then
  <2>2. next.short => then.at >= next.at
    BY <1>4 DEF Follows
  <2>3. ~next.short => then = next
    BY <1>4 DEF Follows
  <2>4. ~next.short => w.pos < Len(b)
    BY <2>1, <1>1, <1>3, <1>4
  <2> QED BY <2>1, <2>2, <2>3, <2>4
<1>6. CASE m.ends = "count"
  <2>1. rest \in Nat /\ rest = left * floor
    BY <1>3, <1>6, CreditIs DEF Credit
  <2>2. NeedTimes(left, floor) = IF rest > Top THEN Top ELSE rest
    BY <2>1, <1>3, NeedTimesIs
  <2>3. /\ u = IF ~next.short THEN next
               ELSE Short(Need(next.at, NeedTimes(left, floor)))
        /\ v = IF ~then.short THEN then
               ELSE Short(Need(then.at, NeedTimes(left, floor)))
    BY <1>2, <1>6 DEF Element, IsRun
  <2> HIDE DEF u, v, next, then, rest
  <2>4. CASE ~next.short
    BY <2>3, <2>4, <1>5 DEF ElementFollows, u, v, rest
  <2>5. CASE next.short
    <3>1. /\ Need(then.at, rest) >= Need(next.at, rest)
          /\ Need(next.at, IF rest > Top THEN Top ELSE rest) = Need(next.at, rest)
      BY <2>1, <2>5, <1>4, <1>5, NeedGrows
    <3>2. Need(then.at, IF rest > Top THEN Top ELSE rest) = Need(then.at, rest)
      BY <2>1, <1>4, NeedGrows
    <3>3. u.short /\ u.at = Need(next.at, rest)
      BY <2>2, <2>3, <2>5, <3>1 DEF Short
    <3>4. v.short => v.at = Need(then.at, rest)
      BY <2>2, <2>3, <3>2 DEF Short
    <3>5. ~v.short => v.at = then.at
      BY <2>3 DEF Short
    <3>6. Covers(v, rest, u.at)
      BY <3>1, <3>3, <3>4, <3>5 DEF Covers
    <3> QED BY <3>3, <3>6 DEF ElementFollows, u, v, rest
  <2> QED BY <2>4, <2>5
<1>7. CASE m.ends = "delimiter"
  <2>1. rest = 0
    BY <1>7 DEF Credit
  <2>2. /\ u = IF ~HasArrived(b, w.pos + 1) THEN Short((w.at + 1) % (Top + 1))
               ELSE IF ByteAt(b, w.pos) = 0 THEN Over(Past(w, 1)) ELSE next
        /\ v = IF ~HasArrived(c, w.pos + 1) THEN Short((w.at + 1) % (Top + 1))
               ELSE IF ByteAt(c, w.pos) = 0 THEN Over(Past(w, 1)) ELSE then
    BY <1>7 DEF Element
  <2>3. (w.at + 1) % (Top + 1) = w.at + 1
    BY <1>1, SmallRemainder
  <2>4. Over(Past(w, 1)).at = w.at + 1 /\ ~Over(Past(w, 1)).short
    BY <1>1 DEF Over, Past, Walking, Need
  <2>5. Need(w.at, floor) >= w.at + 1 /\ Need(w.at, floor) \in 0 .. Top
    BY <1>1, <1>3, NeedIs
  <2>9. w.at + 1 \in 0 .. Top
    BY <1>1
  <2>6. Need(then.at, 0) = then.at /\ Need(w.at + 1, 0) = w.at + 1
    BY <2>9, <1>4, NeedIs
  <2> HIDE DEF u, v, next, then, rest
  <2>7. CASE ~HasArrived(b, w.pos + 1)
    <3>1. u.short /\ u.at = w.at + 1
      BY <2>2, <2>3, <2>7 DEF Short
    <3>2. v.at >= w.at + 1 /\ Need(v.at, 0) = v.at
      <4>1. v \in {Short(w.at + 1), Over(Past(w, 1)), then}
        BY <2>2, <2>3
      <4>2. CASE v = Short(w.at + 1)
        <5>1. v.at = w.at + 1
          BY <4>2 DEF Short
        <5> QED BY <5>1, <2>6, <1>1
      <4>3. CASE v = Over(Past(w, 1))
        BY <4>3, <2>4, <2>6, <1>1
      <4>4. CASE v = then
        BY <4>4, <2>5, <2>6, <1>1, <1>4
      <4> QED BY <4>1, <4>2, <4>3, <4>4
    <3> QED BY <2>1, <3>1, <3>2 DEF ElementFollows, Covers, u, v, rest
  <2>8. CASE HasArrived(b, w.pos + 1)
    <3>1. HasArrived(c, w.pos + 1) /\ ByteAt(c, w.pos) = ByteAt(b, w.pos)
      <4>1. w.pos \in Nat /\ w.pos < Len(b) /\ HasArrived(c, w.pos + 1)
        BY <2>8, <1>1 DEF HasArrived
      <4> QED BY <4>1, BytesStay
    <3>2. CASE ByteAt(b, w.pos) = 0
      BY <2>2, <2>4, <2>8, <3>1, <3>2 DEF ElementFollows, u, v, rest
    <3>3. CASE ByteAt(b, w.pos) # 0
      <4>1. u = next /\ v = then
        BY <2>2, <2>8, <3>1, <3>3
      <4> QED BY <2>1, <2>6, <4>1, <1>5 DEF ElementFollows, Covers, u, v, rest
    <3> QED BY <3>2, <3>3
  <2> QED BY <2>7, <2>8
<1>8. CASE m.ends = "condition"
  <2>1. rest = 0
    BY <1>8 DEF Credit
  <2>2. /\ u = IF ~next.short /\ ByteAt(b, w.pos) = 0 THEN [next EXCEPT !.over = TRUE]
               ELSE next
        /\ v = IF ~then.short /\ ByteAt(c, w.pos) = 0 THEN [then EXCEPT !.over = TRUE]
               ELSE then
    BY <1>8 DEF Element, Over
  <2>3. Need(then.at, 0) = then.at
    BY <1>4, NeedGrows
  <2>4. next \in Walks
    BY <1>4 DEF Sound
  <2>7. w.pos \in Nat
    BY <1>1
  <2> HIDE DEF u, v, next, then, rest
  <2>5. CASE ~next.short
    <3>1. ByteAt(c, w.pos) = ByteAt(b, w.pos)
      BY <2>5, <2>7, <1>5, BytesStay
    <3>2. v = u
      BY <2>2, <2>5, <3>1, <1>5
    <3>3. ~u.short
      BY <2>2, <2>4, <2>5 DEF Walks
    <3> QED BY <3>2, <3>3 DEF ElementFollows, u, v, rest
  <2>6. CASE next.short
    <3>1. u = next
      BY <2>2, <2>6
    <3>2. v.at = then.at
      <4>1. CASE then.short
        BY <2>2, <4>1
      <4>2. CASE ~then.short
        <5>1. then.at = [then EXCEPT !.over = TRUE].at
          OBVIOUS
        <5> QED BY <2>2, <5>1
      <4> QED BY <4>1, <4>2
    <3> QED BY <2>1, <2>3, <2>6, <3>1, <3>2, <1>5 DEF ElementFollows, Covers, u, v, rest
  <2> QED BY <2>5, <2>6
<1> QED BY <1>6, <1>7, <1>8 DEF IsRun

PlacesFrom(bytes) == [Upto(bytes) -> SUBSET Upto(bytes)]

(* Where a struct inside a buffer may end is a place of it (the cursor    *)
(* that _nested_framing moves).                                            *)
LEMMA PartPlacesAre ==
  ASSUME NEW b \in Buffers, NEW p \in Upto(b),
         NEW required, NEW ends, Typed(required, ends)
  PROVE  PartPlaces(ends, b, p) \subseteq Upto(b)
<1>1. p \in 0 .. Len(b) /\ Len(b) \in Nat
  BY LenIs DEF Upto
<1>2. From(b, p) \in Buffers /\ Len(From(b, p)) = Len(b) - p
  BY <1>1, FromIs
<1>3. ends[From(b, p)] \subseteq 0 .. Len(b) - p
  BY <1>2 DEF Typed, Upto
<1>4. \A k \in ends[From(b, p)] : p + k \in 0 .. Len(b)
  BY <1>1, <1>3
<1> QED BY <1>4 DEF PartPlaces, Upto

(* A run whose next element starts within the bytes ends within them (the  *)
(* elements _framing_walk passes).                                         *)
LEMMA OnePlacesType ==
  ASSUME NEW b \in Buffers, NEW m, NEW required, NEW ends, NEW floor, NEW room,
         IsRun(m, required, ends, floor, room),
         NEW after \in PlacesFrom(b), NEW p \in Upto(b)
  PROVE  OnePlaces(m, ends, b, after, p) \in SUBSET Upto(b)
<1> DEFINE one == PartPlaces(ends[m.of], b, p)
<1>1. one \subseteq Upto(b)
  BY PartPlacesAre DEF IsRun, Keeps
<1> HIDE DEF one
<1>2. UNION {after[q] : q \in one} \in SUBSET Upto(b)
  BY <1>1 DEF PlacesFrom
<1>3. p < Len(b) => {p + 1} \in SUBSET Upto(b)
  BY LenIs DEF Upto
<1> QED BY <1>1, <1>2, <1>3 DEF OnePlaces, IsRun, one

(* Where runs of up to so many elements may end, element by element: the   *)
(* reading of the schema that the loop of _framing_walk is held against.   *)
LEMMA RunPlacesDef ==
  ASSUME NEW b \in Buffers, NEW m, NEW required, NEW ends, NEW floor, NEW room,
         IsRun(m, required, ends, floor, room), NEW turns \in Nat
  PROVE  /\ RunPlaces(m, ends, b, turns) \in [0 .. turns -> PlacesFrom(b)]
         /\ \A p \in Upto(b) : RunPlaces(m, ends, b, turns)[0][p] = {p}
         /\ \A n \in 1 .. turns, p \in Upto(b) :
              RunPlaces(m, ends, b, turns)[n][p]
                = OnePlaces(m, ends, b, RunPlaces(m, ends, b, turns)[n - 1], p)
<1> DEFINE V == PlacesFrom(b)
           first == [p \in Upto(b) |-> {p}]
           turn == [n \in 1 .. turns |-> [after \in V |->
                      [p \in Upto(b) |-> OnePlaces(m, ends, b, after, p)]]]
           Is(f) == f = [n \in 0 .. turns |-> [p \in Upto(b) |->
                      IF n = 0 THEN {p} ELSE OnePlaces(m, ends, b, f[n - 1], p)]]
           runs == CHOOSE f : Is(f)
<1>1. first \in V
  BY DEF PlacesFrom
<1>2. turn \in [1 .. turns -> [V -> V]]
  <2>1. ASSUME NEW after \in V
        PROVE  [p \in Upto(b) |-> OnePlaces(m, ends, b, after, p)] \in V
    <3>1. \A p \in Upto(b) : OnePlaces(m, ends, b, after, p) \in SUBSET Upto(b)
      BY OnePlacesType
    <3> QED BY <3>1 DEF PlacesFrom
  <2> HIDE DEF V
  <2> QED BY <2>1
<1> HIDE DEF V, first, turn
<1>3. PICK f \in [0 .. turns -> V] : IsLoop(f, turns, first, turn)
  BY <1>1, <1>2, LoopExists
<1>4. f[0] = first /\ \A n \in 1 .. turns : f[n] = turn[n][f[n - 1]]
  BY <1>3 DEF IsLoop
<1>5. ASSUME NEW n \in 1 .. turns, NEW g \in [0 .. turns -> V]
      PROVE  turn[n][g[n - 1]] = [p \in Upto(b) |-> OnePlaces(m, ends, b, g[n - 1], p)]
  <2>1. g[n - 1] \in V
    BY <1>5
  <2> QED BY <2>1 DEF turn
<1>8. Is(f)
  <2>1. ASSUME NEW n \in 0 .. turns
        PROVE  f[n] = [p \in Upto(b) |->
                         IF n = 0 THEN {p} ELSE OnePlaces(m, ends, b, f[n - 1], p)]
    <3>1. CASE n = 0
      BY <3>1, <1>4 DEF first
    <3>2. CASE n # 0
      <4>1. n \in 1 .. turns
        BY <3>2
      <4>2. f[n] = [p \in Upto(b) |-> OnePlaces(m, ends, b, f[n - 1], p)]
        BY <4>1, <1>3, <1>4, <1>5
      <4> QED BY <3>2, <4>2
    <3> QED BY <3>1, <3>2
  <2>2. f = [n \in 0 .. turns |-> [p \in Upto(b) |->
               IF n = 0 THEN {p} ELSE OnePlaces(m, ends, b, f[n - 1], p)]]
    BY <2>1
  <2> QED BY <2>2
<1> HIDE DEF Is
<1>9. Is(runs)
  BY <1>8, Zenon
<1>10. RunPlaces(m, ends, b, turns) = runs
  BY DEF RunPlaces, Is
<1> HIDE DEF runs
<1>11. runs = [n \in 0 .. turns |-> [p \in Upto(b) |->
               IF n = 0 THEN {p} ELSE OnePlaces(m, ends, b, runs[n - 1], p)]]
  BY <1>9 DEF Is
<1>12. \A p \in Upto(b) : runs[0][p] = {p}
  BY <1>11
<1>13. ASSUME NEW n \in 1 .. turns
       PROVE  runs[n] = [p \in Upto(b) |-> OnePlaces(m, ends, b, runs[n - 1], p)]
  <2>1. n \in 0 .. turns /\ n # 0
    OBVIOUS
  <2> QED BY <2>1, <1>11
<1>14. runs \in [0 .. turns -> V]
  <2> DEFINE S == {n \in 0 .. turns : runs[n] \in V}
  <2>1. 0 \in S
    <3>1. runs[0] = first
      BY <1>11 DEF first
    <3> QED BY <3>1, <1>1
  <2>2. ASSUME NEW n \in 0 .. turns, n # turns, n \in S PROVE n + 1 \in S
    <3>1. n + 1 \in 1 .. turns /\ (n + 1) - 1 = n /\ runs[n] \in V
      BY <2>2
    <3>2. runs[n + 1] = [p \in Upto(b) |-> OnePlaces(m, ends, b, runs[n], p)]
      BY <3>1, <1>13
    <3>3. \A p \in Upto(b) : OnePlaces(m, ends, b, runs[n], p) \in SUBSET Upto(b)
      BY <3>1, OnePlacesType DEF V
    <3>4. runs[n + 1] \in V
      BY <3>2, <3>3 DEF V, PlacesFrom
    <3> QED BY <3>1, <3>4
  <2>3. \A n \in 0 .. turns : n \in S
    <3> HIDE DEF S
    <3> QED BY <2>1, <2>2, Induct
  <2> QED BY <2>3, <1>11
<1>15. \A n \in 1 .. turns, p \in Upto(b) :
         runs[n][p] = OnePlaces(m, ends, b, runs[n - 1], p)
  BY <1>13
<1> QED BY <1>10, <1>12, <1>14, <1>15 DEF V

(* What an element leaves of the places where its run may end *)
Leaves(places, u, after) ==
  /\ places = IF u.short THEN {} ELSE IF u.over THEN {u.pos} ELSE after[u.pos]
  /\ ~u.short => u.pos >= 1

(* Where a run may end is where its element leaves it: the element took a  *)
(* byte, or asks for one (_framing_walk).                                  *)
LEMMA ElementPlaces ==
  ASSUME NEW b \in Buffers, NEW more \in Nat, MaxBytes + more < Top,
         NEW m, NEW required, NEW ends, NEW floor, NEW room,
         IsRun(m, required, ends, floor, room),
         NEW w, Sound(w, more, b), ~w.short, ~w.over, w.pos <= Len(b),
         Len(b) - w.pos <= room,
         NEW left \in Nat, NEW after \in PlacesFrom(b),
         NEW u, u = Element(w, m, required, left, b)
  PROVE  Leaves(OnePlaces(m, ends, b, after, w.pos), u, after)
<1> SUFFICES /\ OnePlaces(m, ends, b, after, w.pos)
                  = IF u.short THEN {} ELSE IF u.over THEN {u.pos} ELSE after[u.pos]
             /\ ~u.short => u.pos >= 1
  BY DEF Leaves
<1> DEFINE next == Nested(w, required[m.of], b)
           one == PartPlaces(ends[m.of], b, w.pos)
           onward == UNION {after[q] : q \in one}
           marked == w.pos < Len(b) /\ ByteAt(b, w.pos) = 0
<1>1. /\ w.at \in 0 .. Top /\ w.pos \in 0 .. Top /\ w.at >= w.pos
      /\ Len(b) \in Nat /\ Len(b) <= MaxBytes /\ Top \in Nat /\ MaxBytes \in Nat
      /\ w.at < Top
  BY WalkAssumption, LenIs DEF Sound, Walks, Need
<1>2. Extends(b, b) /\ MaxBytes < Top /\ HasArrived(b, w.pos)
  BY <1>1 DEF Extends, HasArrived
<1>3. floor \in Nat /\ floor >= 1 /\ Keeps(required[m.of], ends[m.of], floor, room)
  BY DEF IsRun
<1>4. /\ Sound(next, more, b) /\ ~next.over
      /\ next.at >= Need(w.at, floor)
      /\ ~next.short => next.pos <= Len(b) /\ next.pos >= w.pos + floor
      /\ Here(next, b) = one
  BY <1>2, <1>3, NestedIsSound
<1>5. next \in Walks /\ next.at \in 0 .. Top /\ next.short \in BOOLEAN /\ next.pos \in Nat
  BY <1>4, WalkAssumption DEF Sound, Walks
<1>6. one = IF next.short THEN {} ELSE {next.pos}
  BY <1>4 DEF Here
<1>8. ~next.short => next.pos >= 1
  BY <1>1, <1>3, <1>4, <1>5
<1>9. ~next.short => w.pos < Len(b)
  BY <1>1, <1>3, <1>4, <1>5
<1>10. OnePlaces(m, ends, b, after, w.pos) =
         CASE m.ends = "count" -> onward
           [] m.ends = "condition" -> IF marked THEN one ELSE onward
           [] m.ends = "delimiter" ->
                IF marked THEN {w.pos + 1} ELSE IF w.pos < Len(b) THEN onward ELSE {}
  BY DEF OnePlaces
<1> HIDE DEF next, one
<1>11. onward = IF next.short THEN {} ELSE after[next.pos]
  BY <1>6
<1> HIDE DEF onward, marked
<1>12. CASE m.ends = "count"
  <2>1. OnePlaces(m, ends, b, after, w.pos) = onward
    BY <1>10, <1>12
  <2>2. u = IF ~next.short THEN next
            ELSE Short(Need(next.at, NeedTimes(left, FramingFloor(Schema[m.of]))))
    BY <1>2, <1>12 DEF Element, next
  <2>3. CASE ~next.short
    BY <2>1, <2>2, <2>3, <1>4, <1>8, <1>11
  <2>4. CASE next.short
    <3>1. u.short
      BY <2>2, <2>4 DEF Short
    <3> QED BY <2>1, <2>4, <3>1, <1>11
  <2> QED BY <2>3, <2>4
<1>13. CASE m.ends = "delimiter"
  <2>1. OnePlaces(m, ends, b, after, w.pos) =
          IF marked THEN {w.pos + 1} ELSE IF w.pos < Len(b) THEN onward ELSE {}
    BY <1>10, <1>13
  <2>2. u = IF ~HasArrived(b, w.pos + 1) THEN Short((w.at + 1) % (Top + 1))
            ELSE IF ByteAt(b, w.pos) = 0 THEN Over(Past(w, 1)) ELSE next
    BY <1>13 DEF Element, next
  <2>3. HasArrived(b, w.pos + 1) <=> w.pos < Len(b)
    BY <1>1 DEF HasArrived
  <2>4. CASE ~(w.pos < Len(b))
    <3>1. u.short
      BY <2>2, <2>3, <2>4 DEF Short
    <3>2. OnePlaces(m, ends, b, after, w.pos) = {}
      BY <2>1, <2>4 DEF marked
    <3> QED BY <3>1, <3>2
  <2>5. CASE w.pos < Len(b) /\ ByteAt(b, w.pos) = 0
    <3>1. u = Over(Past(w, 1))
      BY <2>2, <2>3, <2>5
    <3>2. u.short = FALSE /\ u.over = TRUE /\ u.pos = Need(w.pos, 1)
      BY <3>1 DEF Over, Past, Walking
    <3>3. u.pos >= 1 /\ u.pos = w.pos + 1
      BY <3>2, <2>5, <1>1, <1>2 DEF Need
    <3> QED BY <2>1, <2>5, <3>2, <3>3 DEF marked
  <2>6. CASE w.pos < Len(b) /\ ByteAt(b, w.pos) # 0
    <3>1. u = next
      BY <2>2, <2>3, <2>6
    <3>2. OnePlaces(m, ends, b, after, w.pos) = onward
      BY <2>1, <2>6 DEF marked
    <3> QED BY <3>1, <3>2, <1>4, <1>8, <1>11
  <2> QED BY <2>4, <2>5, <2>6
<1>14. CASE m.ends = "condition"
  <2>1. OnePlaces(m, ends, b, after, w.pos) = IF marked THEN one ELSE onward
    BY <1>10, <1>14
  <2>2. u = IF ~next.short /\ ByteAt(b, w.pos) = 0 THEN [next EXCEPT !.over = TRUE]
            ELSE next
    BY <1>14 DEF Element, Over, next
  <2>3. /\ u.pos = next.pos /\ u.short = next.short
        /\ u.over <=> ~next.short /\ ByteAt(b, w.pos) = 0
    BY <2>2, <1>4, <1>5 DEF Walks
  <2>4. marked /\ ~next.short <=> u.over
    BY <2>3, <1>9 DEF marked
  <2> QED BY <2>1, <2>3, <2>4, <1>6, <1>8, <1>11
<1> QED BY <1>12, <1>13, <1>14 DEF IsRun

(* An element leaves a walk, whatever it finds (_framing_walk). *)
LEMMA ElementType ==
  ASSUME NEW b \in Buffers, NEW w \in Walks, NEW left \in Nat,
         NEW m, NEW required, NEW ends, NEW floor, NEW room,
         IsRun(m, required, ends, floor, room)
  PROVE  Element(w, m, required, left, b) \in Walks
<1> DEFINE part == required[m.of][From(b, w.pos)]
           next == Nested(w, required[m.of], b)
<1>1. /\ w.at \in Nat /\ w.pos \in Nat /\ Top \in Nat /\ Len(b) \in Nat
      /\ FramingFloor(Schema[m.of]) \in Nat
  BY WalkAssumption, LenIs DEF Walks, IsRun
<1>2. ASSUME NEW x \in Nat, NEW y \in Nat
      PROVE  Need(x, y) \in Nat /\ NeedTimes(x, y) \in Nat
  <2>1. x * y \in Nat
    OBVIOUS
  <2>2. NeedTimes(x, y) = IF x * y > Top THEN Top ELSE x * y
    BY NeedTimesIs
  <2>3. Need(x, y) \in Nat
    BY <1>1 DEF Need
  <2> QED BY <2>1, <2>2, <2>3, <1>1
<1>3. ASSUME NEW x \in Nat PROVE Short(x) \in Walks
  BY DEF Short, Walks
<1>4. ASSUME NEW x \in Nat
      PROVE Past(w, x) \in Walks /\ Over(Past(w, x)) \in Walks
  BY <1>1, <1>2 DEF Past, Over, Walking, Walks
<1>5. next \in Walks
  <2>1. HasArrived(b, w.pos) => part.need \in Nat
    <3>1. HasArrived(b, w.pos) => From(b, w.pos) \in Buffers
      BY <1>1, FromIs DEF HasArrived
    <3> QED BY <3>1 DEF IsRun, Keeps, Typed, Answers
  <2>2. next = IF ~HasArrived(b, w.pos) THEN Short(w.at)
               ELSE IF part.whole THEN Past(w, part.need)
               ELSE Short(Need(w.at, part.need))
    BY DEF Nested
  <2> HIDE DEF next, part
  <2> QED BY <2>1, <2>2, <1>1, <1>2, <1>3, <1>4
<1>6. next.at \in Nat
  BY <1>5 DEF Walks
<1>7. (w.at + 1) % (Top + 1) \in Nat
  BY <1>1
<1>8. Over(next) \in Walks
  BY <1>5 DEF Over, Walks
<1>9. Short(Need(next.at, NeedTimes(left, FramingFloor(Schema[m.of])))) \in Walks
  BY <1>1, <1>2, <1>3, <1>6
<1>10. /\ m.ends = "count" => Element(w, m, required, left, b) \in
            {next, Short(Need(next.at, NeedTimes(left, FramingFloor(Schema[m.of]))))}
       /\ m.ends = "delimiter" => Element(w, m, required, left, b) \in
            {Short((w.at + 1) % (Top + 1)), Over(Past(w, 1)), next}
       /\ m.ends = "condition" => Element(w, m, required, left, b) \in {next, Over(next)}
  BY DEF Element
<1> HIDE DEF next
<1> QED BY <1>3, <1>4, <1>5, <1>7, <1>8, <1>9, <1>10 DEF IsRun

(* The walks of a run, after each of its turns *)
Elements(w, m, required, turns, bytes) ==
  Iterated(turns, w,
           [n \in 1 .. turns |-> [v \in Walks |->
              IF v.short \/ v.over THEN v
              ELSE Element(v, m, required, turns - n, bytes)]])

(* The walk one turn later *)
NextOf(v, m, required, left, bytes) ==
  IF v.short \/ v.over THEN v ELSE Element(v, m, required, left, bytes)

AreElements(walk, w, m, required, turns, bytes) ==
  /\ walk \in [0 .. turns -> Walks]
  /\ walk[0] = w
  /\ \A n \in 1 .. turns :
       walk[n] = NextOf(walk[n - 1], m, required, turns - n, bytes)

(* The loop over the elements of a run is the elements, one after another, *)
(* until one is short or ends the run (the loop _framing_walk emits).      *)
LEMMA ElementsAre ==
  ASSUME NEW b \in Buffers, NEW w \in Walks, NEW turns \in Nat,
         NEW m, NEW required, NEW ends, NEW floor, NEW room,
         IsRun(m, required, ends, floor, room),
         NEW walk, walk = Elements(w, m, required, turns, b)
  PROVE  AreElements(walk, w, m, required, turns, b)
<1> DEFINE turn == [n \in 1 .. turns |-> [v \in Walks |->
                      IF v.short \/ v.over THEN v
                      ELSE Element(v, m, required, turns - n, b)]]
<1>1. turn \in [1 .. turns -> [Walks -> Walks]]
  <2>1. ASSUME NEW n \in 1 .. turns, NEW v \in Walks
        PROVE  Element(v, m, required, turns - n, b) \in Walks
    <3>1. turns - n \in Nat
      OBVIOUS
    <3> QED BY <3>1, ElementType
  <2> HIDE DEF Walks
  <2> QED BY <2>1
<1>2. walk = Iterated(turns, w, turn)
  BY DEF Elements
<1>3. ASSUME NEW n \in 1 .. turns, NEW v \in Walks
      PROVE  turn[n][v] = NextOf(v, m, required, turns - n, b)
  BY DEF NextOf
<1> HIDE DEF turn
<1>4. /\ walk \in [0 .. turns -> Walks] /\ walk[0] = w
      /\ \A n \in 1 .. turns : walk[n] = turn[n][walk[n - 1]]
  <2>1. IsIterated(Iterated(turns, w, turn), turns, Walks, w, turn)
    BY <1>1, IteratedIs
  <2> QED BY <1>2, <2>1 DEF IsIterated
<1>5. ASSUME NEW n \in 1 .. turns
      PROVE  walk[n] = NextOf(walk[n - 1], m, required, turns - n, b)
  <2>1. n - 1 \in 0 .. turns
    OBVIOUS
  <2>2. walk[n - 1] \in Walks
    BY <2>1, <1>4
  <2> QED BY <2>2, <1>3, <1>4
<1> QED BY <1>4, <1>5 DEF AreElements

(* What holds of a run after n of its turns *)
RunState(w, v, more, m, ends, turns, n, b) ==
  /\ Sound(v, more, b) /\ GoesOn(w, v)
  /\ ~v.short => v.pos <= Len(b)
  /\ v.over => ~v.short /\ m.ends # "count"
  /\ RunPlaces(m, ends, b, turns)[turns][w.pos]
       = IF v.short THEN {} ELSE IF v.over THEN {v.pos}
         ELSE RunPlaces(m, ends, b, turns)[turns - n][v.pos]
  /\ (n > 0 \/ v.over) /\ ~v.short => v.pos >= 1

(* One turn of the loop over a run keeps what holds of it: the places its  *)
(* run may end are those of the elements to come from where the walk is    *)
(* (_framing_walk).                                                        *)
LEMMA RunStep ==
  ASSUME NEW b \in Buffers, NEW more \in Nat, MaxBytes + more < Top,
         NEW m, NEW required, NEW ends, NEW floor, NEW room,
         IsRun(m, required, ends, floor, room),
         NEW w \in Walks, Len(b) - w.pos <= room,
         NEW v, NEW turns \in Nat, NEW n \in 0 .. turns, n # turns,
         RunState(w, v, more, m, ends, turns, n, b),
         NEW u, u = NextOf(v, m, required, turns - (n + 1), b)
  PROVE  RunState(w, u, more, m, ends, turns, n + 1, b)
<1> DEFINE places == RunPlaces(m, ends, b, turns)
           left == turns - (n + 1)
<1>1. left \in Nat /\ turns - n \in 1 .. turns /\ (turns - n) - 1 = left /\ n + 1 > 0
      /\ left \in 0 .. turns
  OBVIOUS
<1>2. Sound(v, more, b) /\ GoesOn(w, v) /\ (~v.short => v.pos <= Len(b))
  BY DEF RunState
<1>3. CASE v.short
  <2>1. u = v
    BY <1>3 DEF NextOf
  <2> QED BY <2>1, <1>3 DEF RunState
<1>4. CASE ~v.short /\ v.over
  <2>1. u = v
    BY <1>4 DEF NextOf
  <2>3. v.pos >= 1
    BY <1>4 DEF RunState
  <2> QED BY <2>1, <2>3, <1>4 DEF RunState
<1>5. CASE ~v.short /\ ~v.over
  <2>1. u = Element(v, m, required, left, b)
    BY <1>5 DEF NextOf
  <2>2. v.pos \in Upto(b) /\ v.pos <= Len(b) /\ Len(b) - v.pos <= room
    <3>1. v.pos \in Nat /\ w.pos \in Nat /\ v.pos >= w.pos /\ v.pos <= Len(b)
      BY <1>2, <1>5 DEF Sound, GoesOn, Walks
    <3>2. room \in Int
      BY DEF IsRun, Keeps
    <3> QED BY <3>1, <3>2, LenIs DEF Upto
  <2>3. /\ places \in [0 .. turns -> PlacesFrom(b)]
        /\ places[turns - n][v.pos] = OnePlaces(m, ends, b, places[left], v.pos)
    <3>1. /\ places \in [0 .. turns -> PlacesFrom(b)]
          /\ \A k \in 1 .. turns, p \in Upto(b) :
               places[k][p] = OnePlaces(m, ends, b, places[k - 1], p)
      BY RunPlacesDef
    <3> HIDE DEF places
    <3> QED BY <3>1, <1>1, <2>2
  <2> HIDE DEF places, left
  <2>4. places[left] \in PlacesFrom(b)
    BY <2>3, <1>1
  <2>5. Leaves(OnePlaces(m, ends, b, places[left], v.pos), u, places[left])
    BY <2>1, <2>2, <2>4, <1>1, <1>2, <1>5, ElementPlaces
  <2>6. ElementIs(v, u, more, b, m, Credit(m, left, floor), Credit(m, left + 1, floor))
    BY <2>1, <2>2, <1>1, <1>2, <1>5, ElementIsSound
  <2>7. GoesOn(w, u)
    <3>1. GoesOn(v, u) /\ GoesOn(w, v) /\ Sound(u, more, b)
      BY <2>6, <1>2 DEF ElementIs
    <3> QED BY <3>1, <1>2, <1>5 DEF GoesOn, Sound, Walks
  <2>8. places[turns][w.pos] = places[turns - n][v.pos]
    BY <1>5 DEF RunState, places
  <2> QED BY <2>3, <2>5, <2>6, <2>7, <2>8, <1>1 DEF RunState, ElementIs, Leaves, places, left
<1> QED BY <1>3, <1>4, <1>5

(* After any number of turns the walk of a run is sound, and where it is   *)
(* says where the run may end (the loops of _framing_walk).                *)
LEMMA RunGoesOn ==
  ASSUME NEW b \in Buffers, NEW more \in Nat, MaxBytes + more < Top,
         NEW m, NEW required, NEW ends, NEW floor, NEW room,
         IsRun(m, required, ends, floor, room),
         NEW w \in Walks, Sound(w, more, b), ~w.short, ~w.over, w.pos <= Len(b),
         Len(b) - w.pos <= room,
         NEW turns \in Nat, NEW walk, walk = Elements(w, m, required, turns, b)
  PROVE  \A n \in 0 .. turns : RunState(w, walk[n], more, m, ends, turns, n, b)
<1> DEFINE Is(f, d) == AreElements(f, w, m, required, turns, d)
<1>0. Is(walk, b)
  BY ElementsAre
<1>1. /\ walk[0] = w
      /\ \A n \in 1 .. turns :
           walk[n] = NextOf(walk[n - 1], m, required, turns - n, b)
  BY <1>0 DEF AreElements
<1> DEFINE S == {n \in 0 .. turns : RunState(w, walk[n], more, m, ends, turns, n, b)}
<1>2. 0 \in S
  <2>1. turns - 0 = turns /\ w.at \in Nat /\ w.pos \in Nat /\ 0 \in 0 .. turns
    BY DEF Walks
  <2>2. GoesOn(w, w)
    BY <2>1 DEF GoesOn
  <2>3. RunState(w, w, more, m, ends, turns, 0, b)
    BY <2>1, <2>2 DEF RunState
  <2> QED BY <2>1, <2>3, <1>1
<1>3. ASSUME NEW n \in 0 .. turns, n # turns, n \in S PROVE n + 1 \in S
  <2>1. n + 1 \in 1 .. turns /\ (n + 1) - 1 = n /\ n + 1 \in 0 .. turns
    BY <1>3
  <2>2. walk[n + 1] = NextOf(walk[n], m, required, turns - (n + 1), b)
    BY <1>1, <2>1
  <2>3. RunState(w, walk[n], more, m, ends, turns, n, b)
    BY <1>3
  <2>4. RunState(w, walk[n + 1], more, m, ends, turns, n + 1, b)
    BY <2>2, <2>3, <1>3, RunStep
  <2> QED BY <2>1, <2>4
<1> HIDE DEF S
<1>4. \A n \in 0 .. turns : n \in S
  BY <1>2, <1>3, Induct
<1> QED BY <1>4 DEF S

(* With more bytes a run that was not short is where it was, and one that  *)
(* was is asked no less for: its elements to come are credited at their    *)
(* floor, which they are when they come (_framing_walk).                   *)
RunFollows(u, v, credit) == IF u.short THEN Covers(v, credit, u.at) ELSE v = u

(* One turn of that loop over fewer and over more bytes: the second walk   *)
(* is the first, or covers what the first asked for (_framing_walk).       *)
LEMMA RunFollowsStep ==
  ASSUME NEW b \in Buffers, NEW c \in Buffers, Extends(c, b),
         NEW more \in Nat, MaxBytes + more < Top,
         NEW m, NEW required, NEW ends, NEW floor, NEW room,
         IsRun(m, required, ends, floor, room),
         NEW w \in Walks, Len(c) - w.pos <= room,
         NEW turns \in Nat, NEW n \in 0 .. turns, n # turns,
         NEW u, NEW v,
         RunState(w, u, more, m, ends, turns, n, b),
         RunState(w, v, more, m, ends, turns, n, c),
         RunFollows(u, v, Credit(m, turns - n, floor))
  PROVE  RunFollows(NextOf(u, m, required, turns - (n + 1), b),
                    NextOf(v, m, required, turns - (n + 1), c),
                    Credit(m, turns - (n + 1), floor))
<1> DEFINE left == turns - (n + 1)
           after == NextOf(u, m, required, left, b)
           then == NextOf(v, m, required, left, c)
           rest == Credit(m, left, floor)
           credit == Credit(m, left + 1, floor)
<1> SUFFICES RunFollows(after, then, rest)
  OBVIOUS
<1>1. left \in Nat /\ turns - n = left + 1
  OBVIOUS
<1>2. floor \in Nat
  BY DEF IsRun
<1> HIDE DEF left
<1>3. rest \in Nat /\ (m.ends # "count" => rest = 0)
  BY <1>1, <1>2, CreditIs
<1>8. credit \in Nat /\ (m.ends # "count" => credit = 0)
  <2>1. left + 1 \in Nat
    BY <1>1
  <2> QED BY <1>2, <2>1, CreditIs
<1>4. /\ Sound(u, more, b) /\ (~u.short => u.pos <= Len(b))
      /\ Sound(v, more, c) /\ (~v.short => v.pos <= Len(c))
      /\ u.over => ~u.short
      /\ v.over => ~v.short /\ m.ends # "count"
      /\ v.at \in 0 .. Top /\ u.at \in 0 .. Top
  BY WalkAssumption DEF RunState, Sound, Walks
<1>9. /\ ~u.short => Len(c) - u.pos <= room
      /\ ~v.short => Len(c) - v.pos <= room
  <2>1. /\ ~u.short => u.pos \in Nat /\ u.pos >= w.pos
        /\ ~v.short => v.pos \in Nat /\ v.pos >= w.pos
        /\ w.pos \in Nat
    BY DEF RunState, Sound, GoesOn, Walks
  <2>2. room \in Int /\ Len(c) \in Nat
    BY LenIs DEF IsRun, Keeps
  <2> QED BY <2>1, <2>2
<1>5. RunFollows(u, v, credit)
  BY <1>1
<1>6. CASE u.short
  <2>1. after = u
    BY <1>6 DEF NextOf
  <2>2. Covers(v, credit, u.at)
    BY <1>5, <1>6 DEF RunFollows
  <2>3. CASE v.short
    <3>1. then = v
      BY <2>3 DEF NextOf
    <3> HIDE DEF after, then, rest, credit
    <3> QED BY <2>1, <2>2, <2>3, <3>1, <1>6 DEF RunFollows, Covers, after, then, rest
  <2>4. CASE ~v.short /\ v.over
    <3>1. then = v
      BY <2>4 DEF NextOf
    <3>2. credit = rest
      BY <2>4, <1>3, <1>4, <1>8
    <3> HIDE DEF after, then, rest, credit
    <3>3. Covers(v, rest, u.at)
      BY <2>2, <3>2
    <3> QED BY <2>1, <3>1, <3>3, <1>6 DEF RunFollows, after, then, rest
  <2>5. CASE ~v.short /\ ~v.over
    <3>1. then = Element(v, m, required, left, c)
      BY <2>5 DEF NextOf
    <3>2. ElementIs(v, then, more, c, m, rest, credit)
      BY <3>1, <2>5, <1>1, <1>4, <1>9, ElementIsSound
    <3>3. Need(v.at, credit) >= u.at /\ Covers(then, rest, Need(v.at, credit))
      BY <2>2, <2>5, <3>2 DEF Covers, ElementIs
    <3>4. Need(v.at, credit) \in 0 .. Top
      BY <1>4, <1>8, NeedIs
    <3>5. then.at \in 0 .. Top
      BY <3>2, WalkAssumption DEF ElementIs, Sound, Walks
    <3> HIDE DEF after, then, rest, credit
    <3>6. Need(then.at, rest) \in 0 .. Top
      BY <1>3, <3>5, NeedIs
    <3>7. Covers(then, rest, u.at)
      BY <3>3, <3>4, <3>5, <3>6, <1>4 DEF Covers
    <3> QED BY <2>1, <3>7, <1>6 DEF RunFollows, after, then, rest
  <2> QED BY <2>3, <2>4, <2>5
<1>7. CASE ~u.short
  <2>1. v = u
    BY <1>5, <1>7 DEF RunFollows
  <2>2. CASE u.over
    <3>1. after = u /\ then = u
      BY <2>1, <2>2 DEF NextOf
    <3> HIDE DEF after, then, rest
    <3> QED BY <3>1, <1>7 DEF RunFollows, after, then, rest
  <2>3. CASE ~u.over
    <3>1. after = Element(u, m, required, left, b) /\ then = Element(u, m, required, left, c)
      BY <2>1, <2>3, <1>7 DEF NextOf
    <3>2. ElementFollows(Element(u, m, required, left, b), Element(u, m, required, left, c), rest)
      BY <2>3, <1>1, <1>4, <1>7, <1>9, ElementFollowsIt
    <3> HIDE DEF after, then, rest
    <3> QED BY <3>1, <3>2 DEF RunFollows, ElementFollows, after, then, rest
  <2> QED BY <2>2, <2>3
<1> QED BY <1>6, <1>7 DEF left

(* So after every turn: the loop over more bytes never asks for less than  *)
(* the loop over fewer did (_framing_walk).                                *)
LEMMA RunFollowsAlways ==
  ASSUME NEW b \in Buffers, NEW c \in Buffers, Extends(c, b),
         NEW more \in Nat, MaxBytes + more < Top,
         NEW m, NEW required, NEW ends, NEW floor, NEW room,
         IsRun(m, required, ends, floor, room),
         NEW w \in Walks, Sound(w, more, b), ~w.short, ~w.over, w.pos <= Len(b),
         Len(c) - w.pos <= room,
         NEW turns \in Nat,
         NEW walk, walk = Elements(w, m, required, turns, b),
         NEW later, later = Elements(w, m, required, turns, c)
  PROVE  \A n \in 0 .. turns :
           RunFollows(walk[n], later[n], Credit(m, turns - n, floor))
<1> DEFINE Is(f, d) == AreElements(f, w, m, required, turns, d)
<1>0. Is(walk, b)
  BY ElementsAre
<1>1. /\ walk[0] = w
      /\ \A n \in 1 .. turns :
           walk[n] = NextOf(walk[n - 1], m, required, turns - n, b)
  BY <1>0 DEF AreElements
<1>9. Is(later, c)
  BY ElementsAre
<1>2. /\ later[0] = w
      /\ \A n \in 1 .. turns :
           later[n] = NextOf(later[n - 1], m, required, turns - n, c)
  BY <1>9 DEF AreElements
<1>3. Sound(w, more, c) /\ w.pos <= Len(c)
  BY LenIs DEF Sound, Extends, Walks
<1>10. Len(b) - w.pos <= room
  <2>1. room \in Int /\ w.pos \in Nat /\ Len(b) <= Len(c)
    BY DEF IsRun, Keeps, Walks, Extends
  <2> QED BY <2>1, LenIs
<1>4. \A n \in 0 .. turns : RunState(w, walk[n], more, m, ends, turns, n, b)
  BY <1>10, RunGoesOn
<1>5. \A n \in 0 .. turns : RunState(w, later[n], more, m, ends, turns, n, c)
  BY <1>3, RunGoesOn
<1> DEFINE S == {n \in 0 .. turns :
                   RunFollows(walk[n], later[n], Credit(m, turns - n, floor))}
<1>6. 0 \in S
  <2>1. 0 \in 0 .. turns
    OBVIOUS
  <2> QED BY <2>1, <1>1, <1>2 DEF RunFollows
<1>7. ASSUME NEW n \in 0 .. turns, n # turns, n \in S PROVE n + 1 \in S
  <2>1. n + 1 \in 1 .. turns /\ (n + 1) - 1 = n /\ n + 1 \in 0 .. turns
    BY <1>7
  <2>2. /\ walk[n + 1] = NextOf(walk[n], m, required, turns - (n + 1), b)
        /\ later[n + 1] = NextOf(later[n], m, required, turns - (n + 1), c)
    BY <1>1, <1>2, <2>1
  <2>3. /\ RunState(w, walk[n], more, m, ends, turns, n, b)
        /\ RunState(w, later[n], more, m, ends, turns, n, c)
        /\ RunFollows(walk[n], later[n], Credit(m, turns - n, floor))
    BY <1>4, <1>5, <1>7
  <2>4. RunFollows(NextOf(walk[n], m, required, turns - (n + 1), b),
                   NextOf(later[n], m, required, turns - (n + 1), c),
                   Credit(m, turns - (n + 1), floor))
    BY <2>3, <1>7, RunFollowsStep
  <2> QED BY <2>1, <2>2, <2>4
<1> HIDE DEF S
<1>8. \A n \in 0 .. turns : n \in S
  BY <1>6, <1>7, Induct
<1> QED BY <1>8 DEF S

(* What a member of a walk within the bytes is, and what more of them      *)
(* leave of it                                                             *)
MemberIs(w, u, v, more, bytes, places) ==
  /\ Sound(u, more, bytes) /\ GoesOn(w, u) /\ ~u.over
  /\ Here(u, bytes) = places
  /\ Follows(u, v)

(* How many elements a run has is settled by the byte in front of it,      *)
(* which more bytes do not change (the count accessor that _framing_walk   *)
(* reads).                                                                 *)
LEMMA TurnsStay ==
  ASSUME NEW b \in Buffers, NEW c \in Buffers, Extends(c, b),
         NEW m, m.ends \in {"count", "delimiter", "condition"},
         NEW p \in Nat, p <= Len(b), m.ends = "count" => p > 0
  PROVE  Turns(m, p, b) \in Nat /\ Turns(m, p, c) = Turns(m, p, b)
<1>1. CASE m.ends = "count"
  <2>1. p - 1 \in Nat /\ p - 1 < Len(b)
    BY <1>1, LenIs
  <2>2. ByteAt(b, p - 1) \in 0 .. Top /\ ByteAt(c, p - 1) = ByteAt(b, p - 1)
    BY <2>1, BytesStay
  <2>3. Turns(m, p, b) = ByteAt(b, p - 1) /\ Turns(m, p, c) = ByteAt(c, p - 1)
    BY <1>1 DEF Turns
  <2> QED BY <2>2, <2>3, WalkAssumption
<1>2. CASE m.ends = "delimiter"
  BY <1>2, WalkAssumption DEF Turns
<1>3. CASE m.ends = "condition"
  BY <1>3, WalkAssumption DEF Turns
<1> QED BY <1>1, <1>2, <1>3

(* A run is sound, and follows (_framing_walk). *)
LEMMA RunIsSound ==
  ASSUME NEW b \in Buffers, NEW c \in Buffers, Extends(c, b),
         NEW more \in Nat, MaxBytes + more < Top,
         NEW m, NEW required, NEW ends, NEW floor, NEW room,
         IsRun(m, required, ends, floor, room),
         NEW w, Sound(w, more, b), ~w.short, ~w.over, w.pos <= Len(b),
         Len(c) - w.pos <= room, m.ends = "count" => w.pos > 0,
         NEW places, places = RunPlaces(m, ends, b, Turns(m, w.pos, b))
  PROVE  /\ MemberIs(w, Run(w, m, required, b), Run(w, m, required, c), more, b,
                     places[Turns(m, w.pos, b)][w.pos])
         /\ m.ends # "count" /\ ~Run(w, m, required, b).short => Run(w, m, required, b).pos >= 1
<1> DEFINE turns == Turns(m, w.pos, b)
           u == Run(w, m, required, b)
           v == Run(w, m, required, c)
           walk == Elements(w, m, required, turns, b)
           later == Elements(w, m, required, turns, c)
           x == walk[turns]
           y == later[turns]
<1>1. w \in Walks /\ w.pos \in Nat
  BY DEF Sound, Walks
<1>2. turns \in Nat /\ Turns(m, w.pos, c) = turns
  BY <1>1, TurnsStay DEF IsRun
<1>3. u = [walk[turns] EXCEPT !.over = FALSE] /\ v = [later[turns] EXCEPT !.over = FALSE]
  BY <1>2 DEF Run, Elements
<1>4. m.ends # "count" => turns > 0
  BY WalkAssumption DEF IsRun, Turns
<1> HIDE DEF turns, u, v, walk, later
<1>20. Len(b) - w.pos <= room
  <2>1. room \in Int /\ Len(b) <= Len(c)
    BY DEF IsRun, Keeps, Extends
  <2> QED BY <2>1, <1>1, LenIs
<1>5. \A n \in 0 .. turns : RunState(w, walk[n], more, m, ends, turns, n, b)
  BY <1>1, <1>2, <1>20, RunGoesOn DEF walk
<1>6. \A n \in 0 .. turns : RunFollows(walk[n], later[n], Credit(m, turns - n, floor))
  BY <1>1, <1>2, RunFollowsAlways DEF walk, later
<1>7. turns \in 0 .. turns /\ turns - turns = 0 /\ floor \in Nat
  BY <1>2 DEF IsRun
<1>8. RunState(w, x, more, m, ends, turns, turns, b) /\ RunFollows(x, y, Credit(m, 0, floor))
  <2>1. /\ RunState(w, walk[turns], more, m, ends, turns, turns, b)
        /\ RunFollows(walk[turns], later[turns], Credit(m, turns - turns, floor))
    BY <1>5, <1>6, <1>7
  <2> QED BY <2>1, <1>7
<1>9. Credit(m, 0, floor) = 0
  BY <1>7 DEF Credit
<1>10. /\ Sound(x, more, b) /\ GoesOn(w, x) /\ (~x.short => x.pos <= Len(b))
       /\ x.over => ~x.short
       /\ RunPlaces(m, ends, b, turns)[turns][w.pos]
            = IF x.short THEN {} ELSE IF x.over THEN {x.pos}
              ELSE RunPlaces(m, ends, b, turns)[0][x.pos]
       /\ m.ends # "count" /\ ~x.short => x.pos >= 1
  BY <1>4, <1>7, <1>8 DEF RunState
<1>11. y \in Walks /\ y.at \in 0 .. Top
  <2>1. Sound(w, more, c) /\ w.pos <= Len(c)
    BY <1>1, LenIs DEF Sound, Extends
  <2>2. \A n \in 0 .. turns : RunState(w, later[n], more, m, ends, turns, n, c)
    BY <1>1, <1>2, <2>1, RunGoesOn DEF later
  <2>3. Sound(y, more, c)
    BY <1>7, <2>2 DEF RunState
  <2> QED BY <2>3, WalkAssumption DEF Sound, Walks
<1>12. x \in Walks
  BY <1>10 DEF Sound
<1> HIDE DEF x, y
<1>13. /\ u.at = x.at /\ u.pos = x.pos /\ u.short = x.short /\ u.over = FALSE
       /\ u \in Walks
  BY <1>3, <1>12 DEF Walks, x
<1>14. v.at = y.at /\ (y = x => v = u)
  <2>1. [y EXCEPT !.over = FALSE].at = y.at
    BY <1>11 DEF Walks
  <2> QED BY <2>1, <1>3 DEF x, y
<1>15. Sound(u, more, b) /\ GoesOn(w, u)
  BY <1>10, <1>13 DEF Sound, GoesOn
<1>16. Follows(u, v)
  <2>1. CASE ~x.short
    BY <2>1, <1>8, <1>13, <1>14 DEF RunFollows, Follows
  <2>2. CASE x.short
    <3>1. Covers(y, 0, x.at)
      BY <2>2, <1>8, <1>9 DEF RunFollows
    <3>2. Need(y.at, 0) = y.at
      BY <1>11, NeedIs
    <3>3. y.at >= x.at
      BY <3>1, <3>2 DEF Covers
    <3> QED BY <2>2, <3>3, <1>13, <1>14 DEF Follows
  <2> QED BY <2>1, <2>2
<1>17. Here(u, b) = RunPlaces(m, ends, b, turns)[turns][w.pos]
  <2>1. CASE x.short
    BY <2>1, <1>10, <1>13 DEF Here
  <2>2. CASE ~x.short
    <3>1. x.pos \in Upto(b)
      BY <2>2, <1>10, <1>12, LenIs DEF Walks, Upto
    <3>2. RunPlaces(m, ends, b, turns)[0][x.pos] = {x.pos}
      BY <3>1, <1>2, RunPlacesDef
    <3> QED BY <2>2, <3>2, <1>10, <1>13 DEF Here
  <2> QED BY <2>1, <2>2
<1>18. places = RunPlaces(m, ends, b, turns)
  BY DEF turns
<1>19. MemberIs(w, u, v, more, b, places[turns][w.pos])
  BY <1>13, <1>15, <1>16, <1>17, <1>18 DEF MemberIs
<1> QED BY <1>10, <1>13, <1>19 DEF u, v, turns

(* How long a part of a message may be that a function is asked about: as *)
(* long as the message where it is of an earlier struct, and shorter where *)
(* it is of this struct or a later one                                     *)
Room(i, j, len) == IF j < i THEN len ELSE len - 1

(* The structs a struct may contain keep the contract, of such parts *)
Lower(required, ends, i, len) ==
  /\ len \in Int
  /\ \A j \in DOMAIN Schema :
       /\ FramingFloor(Schema[j]) \in Nat \ {0}
       /\ Keeps(required[j], ends[j], FramingFloor(Schema[j]), Room(i, j, len))

(* A member that contains its own struct, or a later one, is past a byte *)
Inside(m, i, pos) == \A j \in PartsOf(m) : j >= i => pos > 0

(* A schema is a sequence (what frameable is asked about).                 *)
LEMMA SchemaIs ==
  Len(Schema) \in Nat /\ DOMAIN Schema = 1 .. Len(Schema)
<1>1. Schema \in Seq({Schema[k] : k \in DOMAIN Schema})
  BY SchemaAssumption DEF IsSequence
<1> QED BY <1>1

(* The rest of the bytes from such a member on is no more than the         *)
(* function of what it contains is asked about (_nested_framing).          *)
LEMMA LowerIs ==
  ASSUME NEW i \in Nat, NEW len, NEW required, NEW ends, Lower(required, ends, i, len),
         NEW c \in Buffers, Len(c) <= len, NEW pos \in Nat,
         NEW j \in DOMAIN Schema, j >= i => pos > 0
  PROVE  /\ FramingFloor(Schema[j]) \in Nat \ {0}
         /\ Keeps(required[j], ends[j], FramingFloor(Schema[j]), Room(i, j, len))
         /\ Len(c) - pos <= Room(i, j, len)
<1>1. len \in Int /\ Len(c) \in Nat /\ j \in Nat
  BY LenIs, SchemaIs DEF Lower
<1>2. Len(c) - pos <= Room(i, j, len)
  BY <1>1 DEF Room
<1> QED BY <1>2 DEF Lower

(* A member past which the walk goes is the same with more bytes           *)
(* (situ_need_u32 in _required).                                           *)
LEMMA PastIsMember ==
  ASSUME NEW b \in Buffers, MaxBytes < Top, NEW more \in Nat, NEW len \in Nat,
         NEW w, Sound(w, more, b), ~w.short
  PROVE  MemberIs(w, Past(w, len), Past(w, len), more, b, {w.pos + len} \cap Upto(b))
<1> DEFINE u == Past(w, len)
<1>1. /\ Sound(u, more, b) /\ GoesOn(w, u) /\ ~u.short /\ ~u.over
      /\ Here(u, b) = {w.pos + len} \cap Upto(b)
  BY PastIsSound
<1> HIDE DEF u
<1>2. MemberIs(w, u, u, more, b, {w.pos + len} \cap Upto(b))
  BY <1>1 DEF MemberIs, Follows
<1> QED BY <1>2 DEF u

(* A nested struct is a member, and takes a byte (_nested_framing).        *)
LEMMA NestedIsMember ==
  ASSUME NEW b \in Buffers, NEW c \in Buffers, Extends(c, b), MaxBytes < Top,
         NEW more \in Nat, NEW w, Sound(w, more, b), ~w.short, w.pos <= Len(b),
         NEW required, NEW ends, NEW floor \in Nat \ {0}, NEW room,
         Keeps(required, ends, floor, room), Len(c) - w.pos <= room
  PROVE  /\ MemberIs(w, Nested(w, required, b), Nested(w, required, c), more, b,
                     PartPlaces(ends, b, w.pos) \cap Upto(b))
         /\ ~Nested(w, required, b).short => Nested(w, required, b).pos >= 1
<1> DEFINE u == Nested(w, required, b)
           v == Nested(w, required, c)
           one == PartPlaces(ends, b, w.pos)
<1>1. /\ Sound(u, more, b) /\ GoesOn(w, u) /\ ~u.over /\ Follows(u, v)
      /\ Here(u, b) = one
      /\ ~u.short => u.pos >= w.pos + floor
  BY NestedIsSound
<1>2. w.pos \in Upto(b) /\ w.pos \in Nat
  BY LenIs DEF Sound, Walks, Upto
<1>3. one \subseteq Upto(b)
  BY <1>2, PartPlacesAre DEF Keeps
<1>5. u.pos \in Nat
  BY <1>1 DEF Sound, Walks
<1> HIDE DEF u, v, one
<1>6. MemberIs(w, u, v, more, b, one \cap Upto(b))
  BY <1>1, <1>3 DEF MemberIs
<1>7. ~u.short => u.pos >= 1
  BY <1>1, <1>2, <1>5
<1> QED BY <1>6, <1>7 DEF u, v, one

(* The arm its discriminant selects is a member (_variant_framing).        *)
LEMMA VariantIsSound ==
  ASSUME NEW b \in Buffers, NEW c \in Buffers, Extends(c, b), MaxBytes < Top,
         NEW more \in Nat, NEW w, Sound(w, more, b), ~w.short, w.pos <= Len(b),
         NEW i \in Nat, NEW m, IsMember(m), m.kind = "variant", w.pos > 0,
         NEW required, NEW ends, NEW len, Lower(required, ends, i, len), Len(c) <= len
  PROVE  MemberIs(w, Variant(w, m, required, b), Variant(w, m, required, c), more, b,
                  MemberPlaces(m, ends, b, w.pos) \cap Upto(b))
<1> DEFINE value == ByteAt(b, w.pos - 1)
           arm == m.arms[value]
           u == Variant(w, m, required, b)
           v == Variant(w, m, required, c)
           places == MemberPlaces(m, ends, b, w.pos)
<1>1. w.pos \in Nat /\ Len(b) \in Nat
  BY LenIs DEF Sound, Walks
<1>2. ByteAt(c, w.pos - 1) = value
  <2>1. w.pos - 1 \in Nat /\ w.pos - 1 < Len(b)
    BY <1>1
  <2> QED BY <2>1, BytesStay
<1>3. w.pos <= Len(c)
  BY <1>1, LenIs DEF Extends
<1>4. value \in DOMAIN m.arms => arm.of \in {0} \cup DOMAIN Schema /\ arm.size \in Nat
  BY DEF IsMember
<1>5. /\ u = IF value \notin DOMAIN m.arms THEN Past(w, 0)
             ELSE IF arm.of = 0 THEN Past(w, arm.size)
             ELSE Nested(w, required[arm.of], b)
      /\ v = IF value \notin DOMAIN m.arms THEN Past(w, 0)
             ELSE IF arm.of = 0 THEN Past(w, arm.size)
             ELSE Nested(w, required[arm.of], c)
      /\ places = IF value \notin DOMAIN m.arms THEN {w.pos}
                  ELSE IF arm.of = 0 THEN {w.pos + arm.size}
                  ELSE PartPlaces(ends[arm.of], b, w.pos)
  BY <1>2 DEF Variant, MemberPlaces
<1> HIDE DEF value, arm, u, v, places
<1>6. CASE value \notin DOMAIN m.arms
  <2>1. MemberIs(w, Past(w, 0), Past(w, 0), more, b, {w.pos + 0} \cap Upto(b))
    BY PastIsMember
  <2>2. w.pos + 0 = w.pos
    BY <1>1
  <2> QED BY <2>1, <2>2, <1>5, <1>6 DEF u, v, places
<1>7. CASE value \in DOMAIN m.arms /\ arm.of = 0
  <2>1. MemberIs(w, Past(w, arm.size), Past(w, arm.size), more, b,
                 {w.pos + arm.size} \cap Upto(b))
    BY <1>4, <1>7, PastIsMember
  <2> QED BY <2>1, <1>5, <1>7 DEF u, v, places
<1>8. CASE value \in DOMAIN m.arms /\ arm.of # 0
  <2>1. arm.of \in DOMAIN Schema
    BY <1>4, <1>8
  <2>2. /\ FramingFloor(Schema[arm.of]) \in Nat \ {0}
        /\ Keeps(required[arm.of], ends[arm.of], FramingFloor(Schema[arm.of]),
                 Room(i, arm.of, len))
        /\ Len(c) - w.pos <= Room(i, arm.of, len)
    BY <2>1, <1>1, LowerIs
  <2>3. MemberIs(w, Nested(w, required[arm.of], b), Nested(w, required[arm.of], c),
                 more, b, PartPlaces(ends[arm.of], b, w.pos) \cap Upto(b))
    BY <2>2, NestedIsMember
  <2> QED BY <2>3, <1>5, <1>8 DEF u, v, places
<1> QED BY <1>6, <1>7, <1>8

(* A member whose length its accessor reads is a member (_required).       *)
LEMMA MeasuredIsMember ==
  ASSUME NEW b \in Buffers, NEW c \in Buffers, Extends(c, b), MaxBytes < Top,
         NEW more \in Nat, NEW w, Sound(w, more, b), ~w.short, w.pos <= Len(b),
         NEW lengths, NEW later, ReadsOne(lengths, later, b, w.pos)
  PROVE  /\ MemberIs(w, Measured(w, lengths, b), Measured(w, later, c), more, b,
                     {w.pos + k : k \in lengths} \cap Upto(b))
         /\ ~Measured(w, lengths, b).short => Measured(w, lengths, b).pos >= 1
<1> DEFINE u == Measured(w, lengths, b)
           v == Measured(w, later, c)
<1>1. /\ Sound(u, more, b) /\ GoesOn(w, u) /\ ~u.over /\ Follows(u, v)
      /\ Here(u, b) = {w.pos + k : k \in lengths}
      /\ ~u.short => u.pos >= 1
  <2>1. MeasuredIs(w, u, v, more, b, lengths)
    BY MeasuredIsSound
  <2> HIDE DEF u, v
  <2> QED BY <2>1 DEF MeasuredIs
<1> HIDE DEF u, v
<1>2. w.pos \in Nat /\ Len(b) \in Nat
  BY LenIs DEF Sound, Walks
<1>3. \A k \in lengths : k \in 1 .. Len(b) - w.pos
  BY DEF ReadsOne
<1>4. \A k \in lengths : w.pos + k \in Upto(b)
  BY <1>2, <1>3 DEF Upto
<1>5. {w.pos + k : k \in lengths} \cap Upto(b) = {w.pos + k : k \in lengths}
  BY <1>4
<1> QED BY <1>1, <1>5 DEF MemberIs, u, v

(* A member that starts within the bytes keeps the walk sound, and takes a *)
(* byte where the schema says that it does (the loop of _required).        *)
LEMMA MemberHere ==
  ASSUME NEW b \in Buffers, NEW c \in Buffers, Extends(c, b),
         NEW more \in Nat, MaxBytes + more < Top,
         NEW i \in Nat, NEW m, IsMember(m),
         NEW required, NEW ends, NEW len, Lower(required, ends, i, len), Len(c) <= len,
         NEW w, Sound(w, more, b), ~w.short, ~w.over, w.pos <= Len(b),
         m.gap > 0 => w.pos > 0, Inside(m, i, w.pos)
  PROVE  /\ MemberIs(w, Member(w, m, required, b), Member(w, m, required, c), more, b,
                     MemberPlaces(m, ends, b, w.pos) \cap Upto(b))
         /\ TakesAByte(m) /\ ~Member(w, m, required, b).short
              => Member(w, m, required, b).pos >= 1
<1> DEFINE u == Member(w, m, required, b)
           v == Member(w, m, required, c)
           p == w.pos
           places == MemberPlaces(m, ends, b, p)
<1> SUFFICES /\ MemberIs(w, u, v, more, b, places \cap Upto(b))
             /\ TakesAByte(m) /\ ~u.short => u.pos >= 1
  OBVIOUS
<1>1. /\ w.at \in 0 .. Top /\ p \in 0 .. Top /\ w.at >= p
      /\ Len(b) \in Nat /\ Len(b) <= MaxBytes /\ Top \in Nat /\ MaxBytes \in Nat
      /\ MaxBytes < Top /\ p \in 0 .. Len(b)
  BY WalkAssumption, LenIs DEF Sound, Walks, Need
<1>2. HasArrived(b, p) /\ HasArrived(c, p)
  BY <1>1, LenIs DEF HasArrived, Extends
<1>3. w.pos > 0 /\ GoesOn(w, u) /\ Sound(u, more, b) /\ ~u.short => u.pos >= 1
  BY <1>1 DEF GoesOn, Sound, Walks
<1>4. m.gap \in Nat /\ m.kind \in {"pad", "counted", "varint", "until", "nested", "run", "variant"}
  BY DEF IsMember
<1>5. ASSUME m.kind = "pad" \/ m.kind = "counted" \/ m.kind = "variant",
             MemberIs(w, u, v, more, b, places \cap Upto(b))
      PROVE  TakesAByte(m) /\ ~u.short => u.pos >= 1
  BY <1>3, <1>5, <1>4 DEF TakesAByte, MemberIs
<1>6. p > 0 => p - 1 \in Nat /\ p - 1 < Len(b)
  BY <1>1
<1>7. CASE m.kind = "pad"
  <2>1. m.align \in Nat \ {0} /\ p \in Nat
    BY <1>1, <1>7 DEF IsMember
  <2>2. PadTo(p, m.align) \in Nat /\ places = {p + PadTo(p, m.align)}
    <3> DEFINE n == m.align
    <3>1. n \in Nat \ {0} /\ places = {q \in p .. p + n - 1 : q % n = 0}
      BY <1>7, <2>1 DEF MemberPlaces
    <3> HIDE DEF n, places
    <3>2. PadTo(p, n) \in 0 .. n - 1 /\ {q \in p .. p + n - 1 : q % n = 0} = {p + PadTo(p, n)}
      BY <2>1, <3>1, PadToIs
    <3>3. PadTo(p, n) \in Nat /\ places = {p + PadTo(p, n)}
      BY <3>1, <3>2
    <3> QED BY <3>3 DEF n
  <2>3. MemberIs(w, Past(w, PadTo(p, m.align)), Past(w, PadTo(p, m.align)), more, b,
                 {p + PadTo(p, m.align)} \cap Upto(b))
    BY <1>1, <2>2, PastIsMember
  <2>4. u = Past(w, PadTo(p, m.align)) /\ v = Past(w, PadTo(p, m.align))
    BY <1>7 DEF Member
  <2> HIDE DEF u, v, places
  <2>5. MemberIs(w, u, v, more, b, places \cap Upto(b))
    BY <2>2, <2>3, <2>4
  <2> QED BY <2>5, <1>5, <1>7
<1>8. CASE m.kind = "counted"
  <2>1. p > 0
    BY <1>4, <1>8 DEF IsMember
  <2>2. ByteAt(b, p - 1) \in Nat /\ ByteAt(c, p - 1) = ByteAt(b, p - 1)
    BY <1>6, <2>1, BytesStay, WalkAssumption
  <2>3. MemberIs(w, Past(w, ByteAt(b, p - 1)), Past(w, ByteAt(b, p - 1)), more, b,
                 {p + ByteAt(b, p - 1)} \cap Upto(b))
    BY <1>1, <2>2, PastIsMember
  <2>4. u = Past(w, ByteAt(b, p - 1)) /\ v = Past(w, ByteAt(b, p - 1))
    BY <1>2, <1>8, <2>2 DEF Member
  <2>5. places = {p + ByteAt(b, p - 1)}
    BY <1>8 DEF MemberPlaces
  <2> HIDE DEF u, v, places
  <2>6. MemberIs(w, u, v, more, b, places \cap Upto(b))
    BY <2>3, <2>4, <2>5
  <2> QED BY <2>6, <1>5, <1>8
<1>9. CASE m.kind = "varint"
  <2>1. ReadsOne(VarintLength(b, p), VarintLength(c, p), b, p)
    BY <1>1, VarintReadsOne
  <2>2. u = Measured(w, VarintLength(b, p), b) /\ v = Measured(w, VarintLength(c, p), c)
    BY <1>2, <1>9 DEF Member
  <2>4. /\ MemberIs(w, Measured(w, VarintLength(b, p), b), Measured(w, VarintLength(c, p), c), more, b,
                    {p + k : k \in VarintLength(b, p)} \cap Upto(b))
        /\ ~Measured(w, VarintLength(b, p), b).short => Measured(w, VarintLength(b, p), b).pos >= 1
    BY <1>1, <2>1, MeasuredIsMember
  <2>3. places = {p + k : k \in VarintLength(b, p)}
    BY <1>9 DEF MemberPlaces
  <2> HIDE DEF u, v, places
  <2> QED BY <2>2, <2>3, <2>4
<1>10. CASE m.kind = "until"
  <2>1. ReadsOne(DelimitedLength(b, p), DelimitedLength(c, p), b, p)
    BY <1>1, DelimitedReadsOne
  <2>2. u = Measured(w, DelimitedLength(b, p), b) /\ v = Measured(w, DelimitedLength(c, p), c)
    BY <1>2, <1>10 DEF Member
  <2>4. /\ MemberIs(w, Measured(w, DelimitedLength(b, p), b), Measured(w, DelimitedLength(c, p), c), more, b,
                    {p + k : k \in DelimitedLength(b, p)} \cap Upto(b))
        /\ ~Measured(w, DelimitedLength(b, p), b).short => Measured(w, DelimitedLength(b, p), b).pos >= 1
    BY <1>1, <2>1, MeasuredIsMember
  <2>3. places = {p + k : k \in DelimitedLength(b, p)}
    BY <1>10 DEF MemberPlaces
  <2> HIDE DEF u, v, places
  <2> QED BY <2>2, <2>3, <2>4
<1>11. CASE m.kind = "nested"
  <2>1. m.of \in DOMAIN Schema /\ (m.of >= i => w.pos > 0)
    BY <1>11 DEF IsMember, Inside, PartsOf
  <2>2. /\ FramingFloor(Schema[m.of]) \in Nat \ {0}
        /\ Keeps(required[m.of], ends[m.of], FramingFloor(Schema[m.of]), Room(i, m.of, len))
        /\ Len(c) - w.pos <= Room(i, m.of, len)
    <3> DEFINE j == m.of
    <3>1. w.pos \in Nat /\ j \in DOMAIN Schema /\ (j >= i => w.pos > 0)
      BY <2>1, <1>1
    <3> HIDE DEF j
    <3>2. /\ FramingFloor(Schema[j]) \in Nat \ {0}
          /\ Keeps(required[j], ends[j], FramingFloor(Schema[j]), Room(i, j, len))
          /\ Len(c) - w.pos <= Room(i, j, len)
      BY <3>1, LowerIs
    <3> QED BY <2>1, <3>2 DEF j
  <2>3. u = Nested(w, required[m.of], b) /\ v = Nested(w, required[m.of], c)
    BY <1>2, <1>11 DEF Member
  <2>4. places = PartPlaces(ends[m.of], b, p)
    BY <1>11 DEF MemberPlaces
  <2> HIDE DEF u, v, places
  <2> QED BY <1>1, <2>2, <2>3, <2>4, NestedIsMember
<1>12. CASE m.kind = "run"
  <2> DEFINE turns == Turns(m, p, b)
             run == RunPlaces(m, ends, b, turns)
  <2>1. /\ m.of \in DOMAIN Schema /\ (m.of >= i => w.pos > 0)
        /\ m.ends \in {"count", "delimiter", "condition"}
    BY <1>12 DEF IsMember, Inside, PartsOf
  <2>2. /\ IsRun(m, required, ends, FramingFloor(Schema[m.of]), Room(i, m.of, len))
        /\ Len(c) - w.pos <= Room(i, m.of, len)
    <3> DEFINE j == m.of
    <3>1. w.pos \in Nat /\ j \in DOMAIN Schema /\ (j >= i => w.pos > 0)
      BY <2>1, <1>1
    <3> HIDE DEF j
    <3>2. /\ FramingFloor(Schema[j]) \in Nat \ {0}
          /\ Keeps(required[j], ends[j], FramingFloor(Schema[j]), Room(i, j, len))
          /\ Len(c) - w.pos <= Room(i, j, len)
      BY <3>1, LowerIs
    <3> QED BY <2>1, <3>2 DEF j, IsRun
  <2>3. m.ends = "count" => p > 0
    BY <1>4, <1>12 DEF IsMember
  <2>4. u = Run(w, m, required, b) /\ v = Run(w, m, required, c)
    BY <1>2, <1>12 DEF Member
  <2>5. /\ MemberIs(w, Run(w, m, required, b), Run(w, m, required, c), more, b, run[turns][p])
        /\ m.ends # "count" /\ ~Run(w, m, required, b).short => Run(w, m, required, b).pos >= 1
    BY <2>2, <2>3, RunIsSound
  <2>6. places = run[turns][p]
    BY <1>12 DEF MemberPlaces
  <2>7. run[turns][p] \subseteq Upto(b)
    <3>1. turns \in Nat
      BY <1>1, <2>1, <2>3, TurnsStay
    <3> HIDE DEF turns
    <3>2. run \in [0 .. turns -> PlacesFrom(b)]
      BY <2>2, <3>1, RunPlacesDef
    <3> HIDE DEF run
    <3>3. turns \in 0 .. turns /\ p \in Upto(b)
      BY <1>1, <3>1 DEF Upto
    <3> QED BY <3>2, <3>3 DEF PlacesFrom
  <2> HIDE DEF u, v, places, run, turns
  <2>8. places \cap Upto(b) = places
    BY <2>6, <2>7
  <2>9. MemberIs(w, u, v, more, b, places \cap Upto(b))
    BY <2>4, <2>5, <2>6, <2>8
  <2>10. TakesAByte(m) => m.ends # "count" \/ m.gap > 0
    BY <1>12 DEF TakesAByte
  <2> QED BY <1>3, <2>4, <2>5, <2>9, <2>10 DEF MemberIs, u
<1>13. CASE m.kind = "variant"
  <2>1. p > 0
    BY <1>4, <1>13 DEF IsMember
  <2>2. u = Variant(w, m, required, b) /\ v = Variant(w, m, required, c)
    BY <1>2, <1>13 DEF Member
  <2>3. MemberIs(w, Variant(w, m, required, b), Variant(w, m, required, c), more, b,
                 places \cap Upto(b))
    BY <1>1, <1>13, <2>1, VariantIsSound
  <2> HIDE DEF u, v, places
  <2>4. MemberIs(w, u, v, more, b, places \cap Upto(b))
    BY <2>2, <2>3
  <2> QED BY <2>4, <1>5, <1>13
<1> QED BY <1>4, <1>7, <1>8, <1>9, <1>10, <1>11, <1>12, <1>13

(* A member that starts past the bytes asks for them; a pad may go on.     *)
(* Wherever it starts, with more bytes it follows (_required).             *)
LEMMA MemberIsSound ==
  ASSUME NEW b \in Buffers, NEW c \in Buffers, Extends(c, b),
         NEW more \in Nat, MaxBytes + more < Top,
         NEW i \in Nat, NEW m, IsMember(m),
         NEW required, NEW ends, NEW len, Lower(required, ends, i, len), Len(c) <= len,
         NEW w, Sound(w, more, b), ~w.short, ~w.over, m.gap > 0 => w.pos > 0,
         Inside(m, i, w.pos)
  PROVE  /\ MemberIs(w, Member(w, m, required, b), Member(w, m, required, c), more, b,
                     IF w.pos <= Len(b)
                     THEN MemberPlaces(m, ends, b, w.pos) \cap Upto(b) ELSE {})
         /\ TakesAByte(m) /\ ~Member(w, m, required, b).short
              => Member(w, m, required, b).pos >= 1
<1> DEFINE u == Member(w, m, required, b)
           v == Member(w, m, required, c)
<1>1. /\ w.at \in 0 .. Top /\ w.pos \in 0 .. Top /\ w.at >= w.pos
      /\ Len(b) \in Nat /\ Len(b) <= MaxBytes /\ Top \in Nat /\ MaxBytes \in Nat
      /\ MaxBytes < Top /\ Len(c) \in Nat
  BY WalkAssumption, LenIs DEF Sound, Walks, Need
<1>2. CASE w.pos <= Len(b)
  BY <1>2, MemberHere
<1>3. CASE w.pos > Len(b) /\ m.kind = "pad"
  <2>1. PadTo(w.pos, m.align) \in Nat
    <3>1. m.align \in Nat \ {0} /\ w.pos \in Nat
      BY <1>1, <1>3 DEF IsMember
    <3> QED BY <3>1, PadToType, Zenon
  <2>2. u = Past(w, PadTo(w.pos, m.align)) /\ v = u
    BY <1>3 DEF Member
  <2>3. MemberIs(w, Past(w, PadTo(w.pos, m.align)), Past(w, PadTo(w.pos, m.align)), more, b,
                 {w.pos + PadTo(w.pos, m.align)} \cap Upto(b))
    BY <1>1, <2>1, PastIsMember
  <2>4. {w.pos + PadTo(w.pos, m.align)} \cap Upto(b) = {}
    BY <1>1, <1>3, <2>1 DEF Upto
  <2> HIDE DEF u, v
  <2>5. MemberIs(w, u, v, more, b, {})
    BY <2>2, <2>3, <2>4
  <2>6. ~u.short => u.pos >= 1
    BY <2>5, <1>1, <1>3 DEF MemberIs, GoesOn, Sound, Walks
  <2> QED BY <2>5, <2>6, <1>1, <1>3 DEF u, v
<1>4. CASE w.pos > Len(b) /\ m.kind # "pad"
  <2>1. u = Short(w.at)
    BY <1>1, <1>4 DEF Member, HasArrived
  <2>2. /\ Sound(Short(w.at), more, b) /\ GoesOn(w, Short(w.at))
        /\ Short(w.at).short /\ ~Short(w.at).over /\ Short(w.at).at = w.at
        /\ Here(Short(w.at), b) = {}
    BY <1>1, <1>4, ShortIsSound
  <2>3. v.at >= w.at
    <3>1. CASE w.pos <= Len(c)
      <4>1. Extends(c, c)
        BY <1>1 DEF Extends
      <4>2. Sound(w, more, c)
        BY DEF Sound
      <4>3. MemberIs(w, v, v, more, c, MemberPlaces(m, ends, c, w.pos) \cap Upto(c))
        BY <3>1, <4>1, <4>2, MemberHere
      <4> QED BY <4>3 DEF MemberIs, GoesOn
    <3>2. CASE w.pos > Len(c)
      <4>1. v = Short(w.at)
        BY <1>1, <1>4, <3>2 DEF Member, HasArrived
      <4> QED BY <4>1, <1>1 DEF Short
    <3> QED BY <1>1, <3>1, <3>2
  <2> HIDE DEF u, v
  <2>4. MemberIs(w, u, v, more, b, {})
    BY <2>1, <2>2, <2>3 DEF MemberIs, Follows
  <2> QED BY <2>1, <2>2, <2>4, <1>1, <1>4 DEF u, v
<1> QED BY <1>1, <1>2, <1>3, <1>4

(* The walk of a member is a walk (the loop of _required).                 *)
LEMMA NeedType ==
  ASSUME NEW x \in Nat, NEW y \in Nat
  PROVE  Need(x, y) \in Nat
  BY WalkAssumption DEF Need

(* Past a member the walk is a walk (situ_need_u32 keeps the totals in 32  *)
(* bits).                                                                  *)
LEMMA PastType ==
  ASSUME NEW w \in Walks, NEW len \in Nat
  PROVE  Past(w, len) \in Walks
<1>1. Need(w.at, len) \in Nat /\ Need(w.pos, len) \in Nat
  BY NeedType DEF Walks
<1> QED BY <1>1 DEF Past, Walking, Walks

(* A walk that is short is a walk (_required returns its total).           *)
LEMMA ShortType ==
  ASSUME NEW need \in Nat
  PROVE  Short(need) \in Walks
  BY DEF Short, Walks

(* What a nested struct leaves is a walk (_nested_framing).                *)
LEMMA NestedType ==
  ASSUME NEW b \in Buffers, NEW w \in Walks,
         NEW required, NEW ends, Typed(required, ends)
  PROVE  Nested(w, required, b) \in Walks
<1> DEFINE part == required[From(b, w.pos)]
<1>1. w.at \in Nat /\ w.pos \in Nat /\ Len(b) \in Nat
  BY LenIs DEF Walks
<1>2. HasArrived(b, w.pos) => part.need \in Nat
  <2>1. HasArrived(b, w.pos) => From(b, w.pos) \in Buffers
    BY <1>1, FromIs DEF HasArrived
  <2> QED BY <2>1 DEF Typed, Answers
<1>3. Nested(w, required, b) = IF ~HasArrived(b, w.pos) THEN Short(w.at)
                               ELSE IF part.whole THEN Past(w, part.need)
                               ELSE Short(Need(w.at, part.need))
  BY DEF Nested
<1> HIDE DEF part
<1>4. CASE ~HasArrived(b, w.pos)
  BY <1>1, <1>3, <1>4, ShortType
<1>5. CASE HasArrived(b, w.pos)
  <2>1. Past(w, part.need) \in Walks /\ Need(w.at, part.need) \in Nat
    BY <1>1, <1>2, <1>5, PastType, NeedType
  <2>2. Short(Need(w.at, part.need)) \in Walks
    BY <2>1, ShortType
  <2> QED BY <1>3, <1>5, <2>1, <2>2
<1> QED BY <1>4, <1>5

(* What a member with an accessor for its length leaves is a walk          *)
(* (_required).                                                            *)
LEMMA MeasuredType ==
  ASSUME NEW b \in Buffers, NEW w \in Walks, NEW lengths \in SUBSET Nat
  PROVE  Measured(w, lengths, b) \in Walks
<1>1. CASE lengths = {}
  <2>1. w.at \in Nat /\ Len(b) \in Nat /\ Need(Len(b), 1) \in Nat
    BY LenIs, NeedType DEF Walks
  <2>2. Larger(Need(Len(b), 1), w.at) \in Nat
    BY <2>1 DEF Larger
  <2>3. Measured(w, lengths, b) = Short(Larger(Need(Len(b), 1), w.at))
    BY <1>1 DEF Measured, AskAgain
  <2> QED BY <2>2, <2>3, ShortType
<1>2. CASE lengths # {}
  <2>1. (CHOOSE k \in lengths : TRUE) \in Nat
    BY <1>2
  <2>2. Measured(w, lengths, b) = Past(w, CHOOSE k \in lengths : TRUE)
    BY <1>2 DEF Measured
  <2> QED BY <2>1, <2>2, PastType
<1> QED BY <1>1, <1>2

(* What any member leaves is a walk (the loop over the members in          *)
(* _required).                                                             *)
LEMMA MemberType ==
  ASSUME NEW b \in Buffers, NEW i \in Nat, NEW m, IsMember(m),
         NEW required, NEW ends, NEW len, Lower(required, ends, i, len),
         NEW w \in Walks, m.gap > 0 => w.pos > 0
  PROVE  Member(w, m, required, b) \in Walks
<1> DEFINE u == Member(w, m, required, b)
           p == w.pos
<1>1. w.at \in Nat /\ p \in Nat /\ Len(b) \in Nat /\ Top \in Nat
  BY LenIs, WalkAssumption DEF Walks
<1>2. m.gap \in Nat /\ m.kind \in {"pad", "counted", "varint", "until", "nested", "run", "variant"}
  BY DEF IsMember
<1>3. CASE m.kind = "pad"
  <2>1. m.align \in Nat \ {0} /\ w.pos \in Nat
    BY <1>1, <1>3 DEF IsMember
  <2>2. PadTo(w.pos, m.align) \in Nat
    BY <2>1, PadToType, Zenon
  <2>3. u = Past(w, PadTo(p, m.align))
    BY <1>3 DEF Member
  <2> HIDE DEF u
  <2> QED BY <2>2, <2>3, PastType DEF u
<1>4. CASE m.kind # "pad" /\ ~HasArrived(b, p)
  <2>1. u = Short(w.at)
    BY <1>4 DEF Member
  <2> QED BY <1>1, <2>1, ShortType
<1>5. ASSUME HasArrived(b, p), p > 0 PROVE ByteAt(b, p - 1) \in Nat
  <2>1. p - 1 \in Nat /\ p - 1 < Len(b)
    BY <1>1, <1>5 DEF HasArrived
  <2> QED BY <1>1, <2>1, BytesStay
<1>6. CASE HasArrived(b, p) /\ m.kind = "counted"
  <2>1. ByteAt(b, p - 1) \in Nat
    BY <1>2, <1>5, <1>6 DEF IsMember
  <2>2. u = Past(w, ByteAt(b, p - 1))
    BY <1>6 DEF Member
  <2> QED BY <2>1, <2>2, PastType
<1>7. CASE HasArrived(b, p) /\ m.kind = "varint"
  <2>1. VarintLength(b, p) \in SUBSET Nat
    BY WalkAssumption DEF VarintLength
  <2>2. u = Measured(w, VarintLength(b, p), b)
    BY <1>7 DEF Member
  <2> QED BY <2>1, <2>2, MeasuredType
<1>8. CASE HasArrived(b, p) /\ m.kind = "until"
  <2>1. DelimitedLength(b, p) \in SUBSET Nat
    BY <1>1 DEF DelimitedLength
  <2>2. u = Measured(w, DelimitedLength(b, p), b)
    BY <1>8 DEF Member
  <2> QED BY <2>1, <2>2, MeasuredType
<1>9. CASE HasArrived(b, p) /\ m.kind = "nested"
  <2>1. m.of \in DOMAIN Schema
    BY <1>9 DEF IsMember
  <2>2. Typed(required[m.of], ends[m.of])
    BY <2>1 DEF Lower, Keeps
  <2>3. u = Nested(w, required[m.of], b)
    BY <1>9 DEF Member
  <2> QED BY <2>2, <2>3, NestedType
<1>10. CASE HasArrived(b, p) /\ m.kind = "run"
  <2> DEFINE turns == Turns(m, p, b)
             walk == Elements(w, m, required, turns, b)
  <2>1. m.of \in DOMAIN Schema /\ m.ends \in {"count", "delimiter", "condition"}
    BY <1>10 DEF IsMember
  <2>2. IsRun(m, required, ends, FramingFloor(Schema[m.of]), Room(i, m.of, len))
    BY <2>1 DEF Lower, IsRun
  <2>3. turns \in Nat
    <3>1. m.ends = "count" => p > 0
      BY <1>2, <1>10 DEF IsMember
    <3>2. Extends(b, b) /\ p <= Len(b)
      BY <1>1, <1>10 DEF Extends, HasArrived
    <3> QED BY <1>1, <2>1, <3>1, <3>2, TurnsStay
  <2>4. u = [walk[turns] EXCEPT !.over = FALSE]
    BY <1>10 DEF Member, Run, Elements
  <2> HIDE DEF turns, u
  <2>5. AreElements(walk, w, m, required, turns, b)
    BY <2>2, <2>3, ElementsAre
  <2> HIDE DEF walk
  <2>6. walk[turns] \in Walks
    <3>1. turns \in 0 .. turns
      BY <2>3
    <3> QED BY <2>5, <3>1 DEF AreElements
  <2>7. [walk[turns] EXCEPT !.over = FALSE] \in Walks
    BY <2>6 DEF Walks
  <2> QED BY <2>4, <2>7 DEF u
<1>11. CASE HasArrived(b, p) /\ m.kind = "variant"
  <2> DEFINE value == ByteAt(b, p - 1)
             arm == m.arms[value]
  <2>1. value \in DOMAIN m.arms => arm.of \in {0} \cup DOMAIN Schema /\ arm.size \in Nat
    BY <1>11 DEF IsMember
  <2>2. u = IF value \notin DOMAIN m.arms THEN Past(w, 0)
            ELSE IF arm.of = 0 THEN Past(w, arm.size)
            ELSE Nested(w, required[arm.of], b)
    BY <1>11 DEF Member, Variant
  <2> HIDE DEF value, arm, u
  <2>3. CASE value \notin DOMAIN m.arms
    BY <2>2, <2>3, PastType DEF u
  <2>4. CASE value \in DOMAIN m.arms /\ arm.of = 0
    BY <2>1, <2>2, <2>4, PastType DEF u
  <2>5. CASE value \in DOMAIN m.arms /\ arm.of # 0
    <3>1. arm.of \in DOMAIN Schema
      BY <2>1, <2>5
    <3>2. Typed(required[arm.of], ends[arm.of])
      BY <3>1 DEF Lower, Keeps
    <3>3. Nested(w, required[arm.of], b) \in Walks
      BY <3>2, NestedType
    <3> QED BY <2>2, <2>5, <3>3 DEF u
  <2> QED BY <2>3, <2>4, <2>5
<1> QED BY <1>2, <1>3, <1>4, <1>6, <1>7, <1>8, <1>9, <1>10, <1>11

-----------------------------------------------------------------------------
(* The fixed bytes of a struct, up to each of its members *)
GapsRise(s) ==
  /\ Gaps(s) \in [0 .. Len(s.members) -> Nat]
  /\ Gaps(s)[0] = 0
  /\ \A k \in 1 .. Len(s.members) : Gaps(s)[k] = Gaps(s)[k - 1] + s.members[k].gap
  /\ Constant(s) \in Nat
  /\ \A k \in 0 .. Len(s.members) : Gaps(s)[k] <= Constant(s)

(* The members of a struct are a sequence of members (what frameable       *)
(* passes to _required).                                                   *)
LEMMA MembersAre ==
  ASSUME NEW i \in Nat, NEW s, IsStruct(s, i)
  PROVE  /\ Len(s.members) \in Nat /\ DOMAIN s.members = 1 .. Len(s.members)
         /\ \A k \in 1 .. Len(s.members) :
              /\ IsMember(s.members[k])
              /\ \A j \in PartsOf(s.members[k]) :
                   j >= i => s.members[k].gap > 0 \/ TakenBy(s, k - 1)
<1>1. s.members \in Seq({s.members[k] : k \in DOMAIN s.members})
  BY DEF IsStruct, IsSequence
<1> QED BY <1>1 DEF IsStruct

(* The fixed bytes before each member are those before the last and its    *)
(* own gap, and never more than all of them (framing_gaps).                *)
LEMMA GapsAre ==
  ASSUME NEW i \in Nat, NEW s, IsStruct(s, i)
  PROVE  GapsRise(s)
<1> DEFINE N == Len(s.members)
           turn == [k \in DOMAIN s.members |-> [sum \in Nat |-> sum + s.members[k].gap]]
           gaps == Gaps(s)
<1>1. /\ N \in Nat /\ DOMAIN s.members = 1 .. N
      /\ \A k \in 1 .. N : s.members[k].gap \in Nat
  BY MembersAre DEF IsMember
<1>2. s.rest \in Nat
  BY DEF IsStruct
<1>3. gaps = Iterated(N, 0, turn)
  BY DEF Gaps
<1> HIDE DEF N
<1>4. turn \in [1 .. N -> [Nat -> Nat]]
  BY <1>1
<1>5. ASSUME NEW k \in 1 .. N, NEW sum \in Nat PROVE turn[k][sum] = sum + s.members[k].gap
  BY <1>1
<1> HIDE DEF turn, gaps
<1>6. /\ gaps \in [0 .. N -> Nat] /\ gaps[0] = 0
      /\ \A k \in 1 .. N : gaps[k] = turn[k][gaps[k - 1]]
  <2> DEFINE first == 0
             V == Nat
  <2>1. first \in V /\ turn \in [1 .. N -> [V -> V]] /\ gaps = Iterated(N, first, turn)
    BY <1>3, <1>4
  <2> HIDE DEF first, V
  <2>2. /\ gaps \in [0 .. N -> V] /\ gaps[0] = first
        /\ \A k \in 1 .. N : gaps[k] = turn[k][gaps[k - 1]]
    <3>1. IsIterated(Iterated(N, first, turn), N, V, first, turn)
      BY <1>1, <2>1, IteratedIs
    <3> QED BY <2>1, <3>1 DEF IsIterated
  <2> QED BY <2>2 DEF first, V
<1>7. ASSUME NEW k \in 1 .. N PROVE gaps[k] = gaps[k - 1] + s.members[k].gap
  <2>1. gaps[k - 1] \in Nat
    BY <1>1, <1>6
  <2> QED BY <2>1, <1>5, <1>6
<1> DEFINE S == {j \in 0 .. N : \A k \in 0 .. j : gaps[k] <= gaps[j]}
<1>8. N \in S
  <2>1. 0 \in S
    BY <1>1, <1>6
  <2>2. ASSUME NEW j \in 0 .. N, j # N, j \in S PROVE j + 1 \in S
    <3>1. j + 1 \in 1 .. N /\ (j + 1) - 1 = j
      BY <2>2, <1>1
    <3>2. gaps[j + 1] = gaps[j] + s.members[j + 1].gap
      BY <1>7, <3>1
    <3>3. gaps[j] \in Nat /\ gaps[j + 1] \in Nat /\ s.members[j + 1].gap \in Nat
      BY <1>1, <1>6, <3>1
    <3>4. ASSUME NEW k \in 0 .. j + 1 PROVE gaps[k] <= gaps[j + 1]
      <4>1. CASE k = j + 1
        BY <4>1, <3>3
      <4>2. CASE k # j + 1
        <5>1. k \in 0 .. j /\ k \in 0 .. N
          BY <4>2, <3>1, <1>1
        <5>2. gaps[k] <= gaps[j] /\ gaps[k] \in Nat
          BY <5>1, <2>2, <1>6
        <5> QED BY <5>2, <3>2, <3>3
      <4> QED BY <4>1, <4>2
    <3> QED BY <3>1, <3>4
  <2>3. \A n \in 0 .. N : n \in S
    <3> HIDE DEF S
    <3> QED BY <1>1, <2>1, <2>2, Induct
  <2> QED BY <2>3, <1>1
<1>9. Constant(s) = gaps[N] + s.rest
  BY DEF Constant, gaps, N
<1>10. gaps[N] \in Nat
  BY <1>1, <1>6
<1>11. ASSUME NEW k \in 0 .. N PROVE gaps[k] <= Constant(s)
  <2>1. gaps[k] <= gaps[N] /\ gaps[k] \in Nat
    BY <1>6, <1>8
  <2> QED BY <2>1, <1>2, <1>9, <1>10
<1>12. Constant(s) \in Nat
  BY <1>2, <1>9, <1>10
<1> QED BY <1>6, <1>7, <1>11, <1>12 DEF GapsRise, gaps, N

(* The places where the members of a struct may end, one after another *)
ArePlaces(places, s, ends, bytes) ==
  /\ places \in [0 .. Len(s.members) -> SUBSET Upto(bytes)]
  /\ places[0] = {0}
  /\ \A k \in 1 .. Len(s.members) :
       places[k] = UNION {MemberPlaces(s.members[k], ends, bytes, p + s.members[k].gap)
                            \cap Upto(bytes)
                          : p \in {p \in places[k - 1] :
                                     p + s.members[k].gap <= Len(bytes)}}

(* Where the first members of a struct may end, member by member: the      *)
(* reading of the schema that the walk of _required is held against.       *)
LEMMA PlacesAre ==
  ASSUME NEW b \in Buffers, NEW i \in Nat, NEW s, IsStruct(s, i), NEW ends
  PROVE  ArePlaces(Places(s, ends, b), s, ends, b)
<1> DEFINE N == Len(s.members)
           V == SUBSET Upto(b)
           step(k, places) ==
             UNION {MemberPlaces(s.members[k], ends, b, p + s.members[k].gap) \cap Upto(b)
                    : p \in {p \in places : p + s.members[k].gap <= Len(b)}}
           turn == [k \in DOMAIN s.members |-> [places \in V |-> step(k, places)]]
           all == Places(s, ends, b)
<1>1. N \in Nat /\ DOMAIN s.members = 1 .. N
  BY MembersAre
<1>2. all = Iterated(N, {0}, turn)
  BY DEF Places
<1>3. {0} \in V
  BY LenIs DEF Upto
<1>4. \A k, places : step(k, places) \in V
  OBVIOUS
<1> HIDE DEF N, V, step
<1>5. turn \in [1 .. N -> [V -> V]]
  BY <1>1, <1>4
<1>6. ASSUME NEW k \in 1 .. N, NEW places \in V PROVE turn[k][places] = step(k, places)
  BY <1>1
<1> HIDE DEF turn, all
<1>7. /\ all \in [0 .. N -> V] /\ all[0] = {0}
      /\ \A k \in 1 .. N : all[k] = turn[k][all[k - 1]]
  <2> DEFINE first == {0}
  <2>1. first \in V /\ all = Iterated(N, first, turn)
    BY <1>2, <1>3
  <2> HIDE DEF first
  <2>2. /\ all \in [0 .. N -> V] /\ all[0] = first
        /\ \A k \in 1 .. N : all[k] = turn[k][all[k - 1]]
    <3>1. IsIterated(Iterated(N, first, turn), N, V, first, turn)
      BY <1>1, <1>5, <2>1, IteratedIs
    <3> QED BY <2>1, <3>1 DEF IsIterated
  <2> QED BY <2>2 DEF first
<1>8. ASSUME NEW k \in 1 .. N PROVE all[k] = step(k, all[k - 1])
  <2>1. all[k - 1] \in V
    BY <1>1, <1>7
  <2> QED BY <2>1, <1>6, <1>7
<1> QED BY <1>7, <1>8 DEF ArePlaces, N, V, step, all

(* The walk after each member of a struct *)
MemberOf(w, m, required, bytes) ==
  IF w.short THEN w
  ELSE Member([w EXCEPT !.pos = Need(@, m.gap)], m, required, bytes)

AreWalked(walk, s, required, bytes) ==
  /\ walk \in [0 .. Len(s.members) -> Walks]
  /\ walk[0] = Walking(Constant(s), 0)
  /\ \A k \in 1 .. Len(s.members) :
       walk[k] = MemberOf(walk[k - 1], s.members[k], required, bytes)

(* The walk over the members is the members, one after another, each past  *)
(* its gap, until one is short (_required).                                *)
LEMMA WalkedAre ==
  ASSUME NEW b \in Buffers, NEW i \in Nat, NEW s, IsStruct(s, i), Top > 0,
         NEW required, NEW ends, NEW len, Lower(required, ends, i, len)
  PROVE  AreWalked(Walked(s, required, b), s, required, b)
<1> DEFINE N == Len(s.members)
           first == Walking(Constant(s), 0)
           turn == [k \in DOMAIN s.members |-> [w \in Walks |->
                      IF w.short THEN w
                      ELSE Member([w EXCEPT !.pos = Need(@, s.members[k].gap)],
                                  s.members[k], required, b)]]
           all == Walked(s, required, b)
<1>1. /\ N \in Nat /\ DOMAIN s.members = 1 .. N
      /\ \A k \in 1 .. N : IsMember(s.members[k])
  BY MembersAre
<1>2. all = Iterated(N, first, turn)
  BY DEF Walked
<1>3. first \in Walks
  <2>1. Constant(s) \in Nat
    BY GapsAre DEF GapsRise
  <2> QED BY <2>1 DEF Walking, Walks
<1>4. ASSUME NEW k \in 1 .. N, NEW w \in Walks
      PROVE  Member([w EXCEPT !.pos = Need(@, s.members[k].gap)], s.members[k], required, b)
               \in Walks
  <2> DEFINE m == s.members[k]
             x == [w EXCEPT !.pos = Need(@, m.gap)]
  <2>1. IsMember(m) /\ m.gap \in Nat
    BY <1>1 DEF IsMember
  <2> HIDE DEF m
  <2>2. w.pos \in Nat /\ Need(w.pos, m.gap) \in Nat
    BY <2>1, NeedType DEF Walks
  <2>3. x \in Walks /\ x.pos = Need(w.pos, m.gap)
    BY <2>2 DEF Walks
  <2> HIDE DEF x
  <2>4. m.gap > 0 => x.pos > 0
    BY <2>1, <2>2, <2>3, WalkAssumption DEF Need
  <2>5. Member(x, m, required, b) \in Walks
    BY <2>1, <2>3, <2>4, MemberType
  <2> QED BY <2>5 DEF x, m
<1>5. ASSUME NEW k \in 1 .. N, NEW w \in Walks
      PROVE  turn[k][w] = MemberOf(w, s.members[k], required, b) /\ turn[k][w] \in Walks
  <2>1. turn[k][w] = MemberOf(w, s.members[k], required, b)
    BY <1>1 DEF MemberOf
  <2> HIDE DEF turn
  <2>2. MemberOf(w, s.members[k], required, b) \in Walks
    BY <1>4 DEF MemberOf
  <2> QED BY <2>1, <2>2
<1>6. turn \in [1 .. N -> [Walks -> Walks]]
  <2>1. ASSUME NEW k \in 1 .. N, NEW w \in Walks
        PROVE (IF w.short THEN w
               ELSE Member([w EXCEPT !.pos = Need(@, s.members[k].gap)],
                           s.members[k], required, b)) \in Walks
    BY <1>4
  <2> HIDE DEF N, Walks
  <2> QED BY <1>1, <2>1
<1> HIDE DEF turn, all, first
<1>7. /\ all \in [0 .. N -> Walks] /\ all[0] = first
      /\ \A k \in 1 .. N : all[k] = turn[k][all[k - 1]]
  <2>1. IsIterated(Iterated(N, first, turn), N, Walks, first, turn)
    BY <1>1, <1>3, <1>6, IteratedIs
  <2> QED BY <1>2, <2>1 DEF IsIterated
<1>8. ASSUME NEW k \in 1 .. N PROVE all[k] = MemberOf(all[k - 1], s.members[k], required, b)
  <2> HIDE DEF N, Walks
  <2>1. k - 1 \in 0 .. N
    BY <1>1
  <2>2. all[k - 1] \in Walks
    BY <2>1, <1>7
  <2> QED BY <2>2, <1>5, <1>7
<1> QED BY <1>7, <1>8 DEF AreWalked, first, all

(* The fixed bytes behind the k-th member of a struct *)
Behind(s, k) == Constant(s) - Gaps(s)[k]

(* The fixed bytes behind a member are its own gap fewer than those behind *)
(* the one before it (framing_gaps).                                       *)
LEMMA BehindIs ==
  ASSUME NEW i \in Nat, NEW s, IsStruct(s, i), MaxBytes + Constant(s) < Top,
         NEW k \in 1 .. Len(s.members)
  PROVE  /\ Behind(s, k - 1) = Behind(s, k) + s.members[k].gap
         /\ Behind(s, k) \in Nat /\ MaxBytes + Behind(s, k) < Top
<1> DEFINE sum == Gaps(s)[k]
           less == Gaps(s)[k - 1]
           all == Constant(s)
           gap == s.members[k].gap
<1>1. Len(s.members) \in Nat /\ gap \in Nat
  BY MembersAre DEF IsMember
<1>2. k \in 0 .. Len(s.members) /\ k - 1 \in 0 .. Len(s.members)
  BY <1>1
<1>3. GapsRise(s)
  BY GapsAre
<1>4. /\ sum \in Nat /\ less \in Nat /\ all \in Nat /\ sum = less + gap /\ sum <= all
      /\ MaxBytes + all < Top
  BY <1>2, <1>3 DEF GapsRise
<1>5. Behind(s, k) = all - sum /\ Behind(s, k - 1) = all - less
  BY DEF Behind
<1> HIDE DEF sum, less, all, gap
<1>6. /\ all - less = (all - sum) + gap
      /\ all - sum \in Nat /\ MaxBytes + (all - sum) < Top
  BY <1>1, <1>4, WalkAssumption
<1> QED BY <1>5, <1>6 DEF gap

(* A walk past the gap in front of a member *)
PastGap(w, x, gap, more, bytes) ==
  /\ Sound(x, more, bytes) /\ ~x.short /\ ~x.over /\ x.at = w.at /\ x.pos >= w.pos
  /\ gap > 0 => x.pos > 0
  /\ IF w.pos + gap <= Len(bytes) THEN x.pos = w.pos + gap ELSE x.pos > Len(bytes)

(* A saturating sum may be taken in two steps (situ_need_u32).             *)
LEMMA NeedSplits ==
  ASSUME NEW a \in 0 .. Top, NEW g \in Nat, NEW r \in Nat
  PROVE  Need(a, r + g) = Need(Need(a, g), r)
<1>1. CASE a + g <= Top
  <2>1. Need(a, g) = a + g
    BY <1>1, NeedIs
  <2> QED BY <1>1, <2>1, WalkAssumption DEF Need
<1>2. CASE a + g > Top
  <2>1. Need(a, g) = Top /\ Need(a, r + g) = Top
    BY <1>2, WalkAssumption DEF Need
  <2>2. Need(Top, r) = Top
    BY WalkAssumption DEF Need
  <2> QED BY <2>1, <2>2
<1> QED BY <1>1, <1>2, WalkAssumption

(* The place after a gap is told exactly from the bytes there are, since   *)
(* they are fewer than UINT32_MAX (situ_need_u32).                         *)
LEMMA NeedArrives ==
  ASSUME NEW a \in 0 .. Top, NEW g \in Nat, NEW n \in Nat, n < Top
  PROVE  /\ IF a + g <= n THEN Need(a, g) = a + g ELSE Need(a, g) > n
         /\ g > 0 => Need(a, g) > 0
  BY WalkAssumption DEF Need

(* The total counts every fixed byte from the start: the place moves past  *)
(* the gap, and the total stays (`pos` and `at` of _required).             *)
LEMMA GapIsPassed ==
  ASSUME NEW b \in Buffers, NEW i \in Nat, NEW s, IsStruct(s, i),
         MaxBytes + Constant(s) < Top, NEW k \in 1 .. Len(s.members),
         NEW w, Sound(w, Behind(s, k - 1), b), ~w.short, ~w.over,
         NEW x, x = [w EXCEPT !.pos = Need(@, s.members[k].gap)]
  PROVE  /\ PastGap(w, x, s.members[k].gap, Behind(s, k), b)
         /\ Behind(s, k) \in Nat /\ MaxBytes + Behind(s, k) < Top
<1> DEFINE gap == s.members[k].gap
           more == Behind(s, k)
           before == Behind(s, k - 1)
<1>1. Len(s.members) \in Nat /\ gap \in Nat
  BY MembersAre DEF IsMember
<1>2. before = more + gap /\ more \in Nat /\ MaxBytes + more < Top
  BY BehindIs DEF gap
<1> HIDE DEF gap, more, before
<1>3. /\ w \in Walks /\ w.at \in 0 .. Top /\ w.pos \in 0 .. Top
      /\ w.at = Need(w.pos, before)
      /\ Len(b) \in Nat /\ Len(b) <= MaxBytes /\ Top \in Nat /\ MaxBytes \in Nat
  BY LenIs, WalkAssumption DEF Sound, Walks, before
<1>4. Need(w.pos, gap) \in 0 .. Top
  BY <1>1, <1>3, NeedIs
<1>5. /\ x \in Walks /\ x.at = w.at /\ x.pos = Need(w.pos, gap)
      /\ x.short = w.short /\ x.over = w.over
  <2>1. w \in Walks /\ Need(w.pos, gap) \in Nat
    BY <1>3, <1>4
  <2> QED BY <2>1 DEF Walks, gap
<1>6. Need(w.pos, before) = Need(Need(w.pos, gap), more)
  BY <1>1, <1>2, <1>3, NeedSplits
<1>7. Sound(x, more, b)
  BY <1>3, <1>4, <1>5, <1>6 DEF Sound
<1> DEFINE pos == w.pos
           n == Len(b)
<1>8. pos \in 0 .. Top /\ n \in Nat /\ n < Top
  BY <1>2, <1>3
<1> HIDE DEF pos, n
<1>9. /\ gap > 0 => Need(pos, gap) > 0
      /\ IF pos + gap <= n THEN Need(pos, gap) = pos + gap ELSE Need(pos, gap) > n
  BY <1>1, <1>8, NeedArrives
<1>10. x.pos >= w.pos
  BY <1>1, <1>3, <1>5, NeedIs
<1>11. /\ gap > 0 => x.pos > 0
       /\ IF w.pos + gap <= Len(b) THEN x.pos = w.pos + gap ELSE x.pos > Len(b)
  BY <1>5, <1>9 DEF pos, n
<1> QED BY <1>2, <1>3, <1>5, <1>7, <1>10, <1>11 DEF PastGap, gap, more

(* What holds of the walk after k members *)
WalkState(w, k, s, ends, bytes) ==
  /\ Sound(w, Behind(s, k), bytes) /\ ~w.over
  /\ w.at >= Constant(s)
  /\ TakenBy(s, k) /\ ~w.short => w.pos >= 1
  /\ Places(s, ends, bytes)[k] = Here(w, bytes)

(* One member keeps what holds of the walk: its total is where it is and   *)
(* all the fixed bytes behind, it is where the schema says the member      *)
(* ends, and with more bytes it is the same or asks for no less            *)
(* (_required).                                                            *)
LEMMA WalkStep ==
  ASSUME NEW b \in Buffers, NEW c \in Buffers, Extends(c, b),
         NEW i \in Nat, NEW s, IsStruct(s, i), MaxBytes + Constant(s) < Top,
         NEW required, NEW ends, NEW len, Lower(required, ends, i, len), Len(c) <= len,
         NEW k \in 1 .. Len(s.members),
         NEW w, WalkState(w, k - 1, s, ends, b), ~w.short,
         NEW u, u = MemberOf(w, s.members[k], required, b),
         NEW v, v = MemberOf(w, s.members[k], required, c)
  PROVE  WalkState(u, k, s, ends, b) /\ GoesOn(w, u) /\ Follows(u, v)
<1> DEFINE m == s.members[k]
           x == [w EXCEPT !.pos = Need(@, m.gap)]
           more == Behind(s, k)
           places == IF x.pos <= Len(b) THEN MemberPlaces(m, ends, b, x.pos) \cap Upto(b)
                     ELSE {}
<1>1. /\ IsMember(m) /\ m.gap \in Nat /\ Len(s.members) \in Nat
      /\ \A j \in PartsOf(m) : j >= i => m.gap > 0 \/ TakenBy(s, k - 1)
  BY MembersAre DEF IsMember
<1>2. /\ Sound(w, Behind(s, k - 1), b) /\ ~w.over /\ w.at >= Constant(s)
      /\ TakenBy(s, k - 1) => w.pos >= 1
      /\ Places(s, ends, b)[k - 1] = Here(w, b)
  BY DEF WalkState
<1>3. /\ PastGap(w, x, m.gap, more, b) /\ more \in Nat /\ MaxBytes + more < Top
  BY <1>2, GapIsPassed
<1>4. u = Member(x, m, required, b) /\ v = Member(x, m, required, c)
  BY DEF MemberOf
<1>5. w.pos \in Nat /\ w.at \in Nat /\ Constant(s) \in Nat /\ Len(b) \in Nat
  BY <1>2, LenIs, GapsAre DEF Sound, Walks, GapsRise
<1> HIDE DEF x, more
<1>6. /\ Sound(x, more, b) /\ ~x.short /\ ~x.over /\ x.at = w.at /\ x.pos >= w.pos
      /\ m.gap > 0 => x.pos > 0
      /\ IF w.pos + m.gap <= Len(b) THEN x.pos = w.pos + m.gap ELSE x.pos > Len(b)
  BY <1>3 DEF PastGap
<1>14. Inside(m, i, x.pos)
  <2>1. x.pos \in Nat /\ (w.pos >= 1 => x.pos > 0)
    BY <1>5, <1>6 DEF Sound, Walks
  <2> QED BY <2>1, <1>1, <1>2, <1>6 DEF Inside
<1>7. /\ MemberIs(x, Member(x, m, required, b), Member(x, m, required, c), more, b, places)
      /\ TakesAByte(m) /\ ~Member(x, m, required, b).short
           => Member(x, m, required, b).pos >= 1
  <2> HIDE DEF m
  <2> QED BY <1>1, <1>3, <1>6, <1>14, MemberIsSound
<1> HIDE DEF places
<1>8. /\ Sound(u, more, b) /\ GoesOn(x, u) /\ ~u.over /\ Here(u, b) = places
      /\ Follows(u, v)
      /\ TakesAByte(m) /\ ~u.short => u.pos >= 1
  BY <1>4, <1>7 DEF MemberIs
<1>9. /\ u.at \in Nat /\ u.at >= w.at /\ (~u.short => u.pos \in Nat /\ u.pos >= x.pos)
      /\ x.pos \in Nat /\ x.pos >= w.pos
  BY <1>1, <1>5, <1>6, <1>8 DEF GoesOn, Sound, Walks
<1>10. GoesOn(w, u) /\ u.at >= Constant(s)
  <2>1. w.at >= Constant(s)
    BY <1>2
  <2>2. ~u.short => u.pos >= w.pos
    BY <1>5, <1>9
  <2>3. u.at >= w.at /\ u.at >= Constant(s)
    BY <1>5, <1>9, <2>1
  <2> QED BY <2>2, <2>3 DEF GoesOn
<1>11. TakenBy(s, k) /\ ~u.short => u.pos >= 1
  <2>1. CASE TakenBy(s, k - 1)
    BY <2>1, <1>2, <1>5, <1>9
  <2>2. CASE TakesAByte(m)
    BY <2>2, <1>8
  <2>3. TakenBy(s, k) => TakenBy(s, k - 1) \/ TakesAByte(m)
    <3>1. \A h \in 1 .. k : h = k \/ h \in 1 .. k - 1
      BY <1>1
    <3> QED BY <3>1 DEF TakenBy
  <2> QED BY <2>1, <2>2, <2>3
<1>12. Places(s, ends, b)[k] = places
  <2> DEFINE next(p) == MemberPlaces(m, ends, b, p + m.gap) \cap Upto(b)
             all == Places(s, ends, b)
  <2>1. ArePlaces(all, s, ends, b)
    BY PlacesAre
  <2>2. all[k] = UNION {next(p) : p \in {p \in all[k - 1] : p + m.gap <= Len(b)}}
    BY <2>1 DEF ArePlaces
  <2>3. all[k - 1] = IF w.pos <= Len(b) THEN {w.pos} ELSE {}
    BY <1>2 DEF Here
  <2> HIDE DEF next, all, m
  <2>4. CASE w.pos + m.gap <= Len(b)
    <3>1. all[k - 1] = {w.pos} /\ x.pos = w.pos + m.gap
      BY <2>3, <2>4, <1>1, <1>5, <1>6
    <3>2. {p \in all[k - 1] : p + m.gap <= Len(b)} = {w.pos}
      BY <2>4, <3>1
    <3>3. all[k] = next(w.pos)
      BY <2>2, <3>2
    <3>4. places = MemberPlaces(m, ends, b, w.pos + m.gap) \cap Upto(b)
      BY <2>4, <3>1 DEF places
    <3> QED BY <3>3, <3>4 DEF next, all
  <2>5. CASE ~(w.pos + m.gap <= Len(b))
    <3>1. {p \in all[k - 1] : p + m.gap <= Len(b)} = {}
      BY <2>3, <2>5
    <3>2. all[k] = {}
      BY <2>2, <3>1
    <3>3. places = {}
      BY <2>5, <1>5, <1>6, <1>9 DEF places
    <3> QED BY <3>2, <3>3 DEF all
  <2> QED BY <2>4, <2>5
<1>13. WalkState(u, k, s, ends, b)
  BY <1>8, <1>10, <1>11, <1>12 DEF WalkState, more
<1> QED BY <1>8, <1>10, <1>13

(* The same when the walk was short before the member: then it stays as it *)
(* is (the returns of _required).                                          *)
LEMMA WalkStepAny ==
  ASSUME NEW b \in Buffers, NEW i \in Nat, NEW s, IsStruct(s, i), MaxBytes + Constant(s) < Top,
         NEW required, NEW ends, NEW len, Lower(required, ends, i, len), Len(b) <= len,
         NEW k \in 1 .. Len(s.members), NEW w, WalkState(w, k - 1, s, ends, b)
  PROVE  /\ WalkState(MemberOf(w, s.members[k], required, b), k, s, ends, b)
         /\ MemberOf(w, s.members[k], required, b).at >= w.at
<1> DEFINE u == MemberOf(w, s.members[k], required, b)
<1>1. Extends(b, b)
  BY LenIs DEF Extends
<1>2. CASE ~w.short
  <2>1. WalkState(u, k, s, ends, b) /\ GoesOn(w, u)
    BY <1>1, <1>2, WalkStep
  <2> HIDE DEF u
  <2>2. WalkState(u, k, s, ends, b) /\ u.at >= w.at
    BY <2>1 DEF GoesOn
  <2> QED BY <2>2 DEF u
<1>3. CASE w.short
  <2>1. u = w
    BY <1>3 DEF MemberOf
  <2>2. w \in Walks /\ w.at \in Nat /\ w.at > Len(b) /\ Len(b) \in Nat
    BY <1>3, LenIs DEF WalkState, Sound, Walks
  <2>3. Here(w, b) = {}
    BY <1>3 DEF Here
  <2>4. Places(s, ends, b)[k] = {}
    <3> DEFINE next(p) == MemberPlaces(s.members[k], ends, b, p + s.members[k].gap) \cap Upto(b)
               all == Places(s, ends, b)
    <3>1. ArePlaces(all, s, ends, b)
      BY PlacesAre
    <3>2. all[k] = UNION {next(p) : p \in {p \in all[k - 1] :
                                             p + s.members[k].gap <= Len(b)}}
      BY <3>1 DEF ArePlaces
    <3>3. all[k - 1] = {}
      BY <2>3 DEF WalkState
    <3> HIDE DEF next, all
    <3>4. all[k] = {}
      BY <3>2, <3>3
    <3> QED BY <3>4 DEF all
  <2>5. Sound(w, Behind(s, k), b)
    BY <1>3 DEF WalkState, Sound
  <2>6. WalkState(w, k, s, ends, b)
    BY <1>3, <2>2, <2>3, <2>4, <2>5 DEF WalkState
  <2> QED BY <2>1, <2>2, <2>6
<1> QED BY <1>2, <1>3

(* After any of its members the walk of a struct is sound (_required).     *)
LEMMA WalkGoesOn ==
  ASSUME NEW b \in Buffers, NEW i \in Nat, NEW s, IsStruct(s, i), MaxBytes + Constant(s) < Top,
         NEW required, NEW ends, NEW len, Lower(required, ends, i, len), Len(b) <= len,
         NEW walk, AreWalked(walk, s, required, b)
  PROVE  \A k \in 0 .. Len(s.members) : WalkState(walk[k], k, s, ends, b)
<1> DEFINE N == Len(s.members)
           S == {k \in 0 .. N : WalkState(walk[k], k, s, ends, b)}
<1>1. N \in Nat
  BY MembersAre
<1>2. /\ walk[0] = Walking(Constant(s), 0)
      /\ \A k \in 1 .. N : walk[k] = MemberOf(walk[k - 1], s.members[k], required, b)
  BY DEF AreWalked
<1>3. 0 \in S
  <2> DEFINE w == walk[0]
  <2>1. /\ Constant(s) \in Nat /\ Gaps(s)[0] = 0 /\ Constant(s) < Top
        /\ MaxBytes \in Nat /\ Top \in Nat /\ Len(b) \in Nat
    <3>1. GapsRise(s)
      BY GapsAre
    <3>2. Constant(s) \in Nat /\ Gaps(s)[0] = 0
      BY <3>1 DEF GapsRise
    <3> QED BY <3>2, WalkAssumption, LenIs
  <2>2. Behind(s, 0) = Constant(s)
    BY <2>1 DEF Behind
  <2>3. /\ w.at = Constant(s) /\ w.pos = 0 /\ w.short = FALSE /\ w.over = FALSE
        /\ w \in Walks
    BY <1>2, <2>1 DEF Walking, Walks
  <2>4. Need(0, Constant(s)) = Constant(s)
    BY <2>1 DEF Need
  <2>5. Sound(w, Behind(s, 0), b)
    BY <2>1, <2>2, <2>3, <2>4 DEF Sound
  <2>6. Here(w, b) = {0}
    BY <2>1, <2>3 DEF Here
  <2>7. Places(s, ends, b)[0] = {0}
    BY PlacesAre DEF ArePlaces
  <2>9. ~TakenBy(s, 0)
    BY DEF TakenBy
  <2> HIDE DEF w
  <2>8. WalkState(w, 0, s, ends, b)
    BY <2>1, <2>3, <2>5, <2>6, <2>7, <2>9 DEF WalkState
  <2> QED BY <2>8, <1>1 DEF w
<1>4. ASSUME NEW k \in 0 .. N, k # N, k \in S PROVE k + 1 \in S
  <2>1. k + 1 \in 1 .. N /\ (k + 1) - 1 = k /\ k + 1 \in 0 .. N
    BY <1>1, <1>4
  <2>2. walk[k + 1] = MemberOf(walk[k], s.members[k + 1], required, b)
    BY <1>2, <2>1
  <2>3. WalkState(walk[k], (k + 1) - 1, s, ends, b)
    BY <1>4, <2>1
  <2>4. WalkState(walk[k + 1], k + 1, s, ends, b)
    BY <2>1, <2>2, <2>3, WalkStepAny
  <2> QED BY <2>1, <2>4
<1> HIDE DEF S
<1>5. \A k \in 0 .. N : k \in S
  BY <1>1, <1>3, <1>4, Induct
<1> QED BY <1>5 DEF S

(* With more bytes the walk of a struct follows (_required).               *)
LEMMA WalkFollows ==
  ASSUME NEW b \in Buffers, NEW c \in Buffers, Extends(c, b),
         NEW i \in Nat, NEW s, IsStruct(s, i), MaxBytes + Constant(s) < Top,
         NEW required, NEW ends, NEW len, Lower(required, ends, i, len), Len(c) <= len,
         NEW walk, AreWalked(walk, s, required, b),
         NEW later, AreWalked(later, s, required, c)
  PROVE  \A k \in 0 .. Len(s.members) : Follows(walk[k], later[k])
<1> DEFINE N == Len(s.members)
           S == {k \in 0 .. N : Follows(walk[k], later[k])}
<1>1. N \in Nat
  BY MembersAre
<1>2. /\ walk[0] = Walking(Constant(s), 0)
      /\ \A k \in 1 .. N : walk[k] = MemberOf(walk[k - 1], s.members[k], required, b)
      /\ later[0] = Walking(Constant(s), 0)
      /\ \A k \in 1 .. N : later[k] = MemberOf(later[k - 1], s.members[k], required, c)
  BY DEF AreWalked
<1>7. Len(b) <= len
  <2>1. len \in Int /\ Len(b) <= Len(c)
    BY DEF Lower, Extends
  <2> QED BY <2>1, LenIs
<1>3. /\ \A k \in 0 .. N : WalkState(walk[k], k, s, ends, b)
      /\ \A k \in 0 .. N : WalkState(later[k], k, s, ends, c)
  BY <1>7, WalkGoesOn
<1>4. 0 \in S
  BY <1>1, <1>2 DEF Follows, Walking
<1>5. ASSUME NEW k \in 0 .. N, k # N, k \in S PROVE k + 1 \in S
  <2> DEFINE w == walk[k]
             x == later[k]
             u == walk[k + 1]
             v == later[k + 1]
             m == s.members[k + 1]
  <2>1. k + 1 \in 1 .. N /\ (k + 1) - 1 = k /\ k + 1 \in 0 .. N
    BY <1>1, <1>5
  <2>2. u = MemberOf(w, m, required, b) /\ v = MemberOf(x, m, required, c)
    BY <1>2, <2>1
  <2>3. WalkState(w, (k + 1) - 1, s, ends, b) /\ WalkState(x, (k + 1) - 1, s, ends, c)
    BY <1>3, <2>1
  <2>4. Follows(w, x)
    BY <1>5
  <2> HIDE DEF w, x, u, v, S
  <2>5. CASE ~w.short
    <3>1. x = w
      BY <2>4, <2>5 DEF Follows
    <3>2. Follows(u, v)
      BY <2>1, <2>2, <2>3, <2>5, <3>1, WalkStep
    <3> QED BY <2>1, <3>2 DEF S, u, v
  <2>6. CASE w.short
    <3>1. u = w
      BY <2>2, <2>6 DEF MemberOf
    <3>2. WalkState(v, k + 1, s, ends, c) /\ v.at >= x.at
      BY <2>1, <2>2, <2>3, WalkStepAny
    <3>3. x.at >= w.at
      BY <2>4, <2>6 DEF Follows
    <3>4. x.at \in Nat /\ w.at \in Nat /\ v.at \in Nat
      BY <2>3, <3>2 DEF WalkState, Sound, Walks
    <3>5. Follows(u, v)
      BY <3>1, <3>2, <3>3, <3>4, <2>6 DEF Follows
    <3> QED BY <2>1, <3>5 DEF S, u, v
  <2> QED BY <2>5, <2>6
<1> HIDE DEF S
<1>6. \A k \in 0 .. N : k \in S
  BY <1>1, <1>4, <1>5, Induct
<1> QED BY <1>6 DEF S

-----------------------------------------------------------------------------
(* The bytes a version adds, one member of the tail after another *)
AddedRises(s, version) ==
  /\ Added(s, version) \in [0 .. Len(s.tail) -> Nat]
  /\ Added(s, version)[0] = 0
  /\ \A k \in 1 .. Len(s.tail) :
       /\ s.tail[k].adds \in Nat /\ s.tail[k].since \in Nat
       /\ Added(s, version)[k] = IF version >= s.tail[k].since
                                 THEN Added(s, version)[k - 1] + s.tail[k].adds
                                 ELSE Added(s, version)[k - 1]

(* The members a version adds are a sequence of versions and sizes         *)
(* (_version_tail).                                                        *)
LEMMA TailIs ==
  ASSUME NEW t \in Tails
  PROVE  /\ Len(t) \in Nat /\ DOMAIN t = 1 .. Len(t)
         /\ \A k \in 1 .. Len(t) : t[k].since \in Nat /\ t[k].adds \in Nat
<1> DEFINE R == [since : Nat, adds : Nat]
<1>1. t \in Seq(R)
  BY DEF Tails
<1> HIDE DEF R
<1>2. /\ Len(t) \in Nat /\ DOMAIN t = 1 .. Len(t)
      /\ \A k \in 1 .. Len(t) : t[k] \in R
  BY <1>1
<1> QED BY <1>2 DEF R

(* The bytes a version adds are those of its members, one after another    *)
(* (_version_tail).                                                        *)
LEMMA AddedIs ==
  ASSUME NEW s, s.tail \in Tails, NEW version \in Nat
  PROVE  AddedRises(s, version)
<1> DEFINE N == Len(s.tail)
           first == 0
           V == Nat
           turn == [k \in DOMAIN s.tail |-> [sum \in V |->
                      IF version >= s.tail[k].since THEN sum + s.tail[k].adds ELSE sum]]
           all == Added(s, version)
<1>1. /\ N \in Nat /\ DOMAIN s.tail = 1 .. N
      /\ \A k \in 1 .. N : s.tail[k].since \in Nat /\ s.tail[k].adds \in Nat
  BY TailIs
<1>2. all = Iterated(N, first, turn) /\ first \in V
  BY DEF Added
<1> HIDE DEF N
<1>3. turn \in [1 .. N -> [V -> V]]
  BY <1>1
<1>4. ASSUME NEW k \in 1 .. N, NEW sum \in V
      PROVE  turn[k][sum] = IF version >= s.tail[k].since THEN sum + s.tail[k].adds ELSE sum
  BY <1>1
<1> HIDE DEF turn, all, first, V
<1>5. /\ all \in [0 .. N -> V] /\ all[0] = first
      /\ \A k \in 1 .. N : all[k] = turn[k][all[k - 1]]
  <2>1. IsIterated(Iterated(N, first, turn), N, V, first, turn)
    BY <1>1, <1>2, <1>3, IteratedIs
  <2> QED BY <1>2, <2>1 DEF IsIterated
<1>6. ASSUME NEW k \in 1 .. N
      PROVE  all[k] = IF version >= s.tail[k].since
                      THEN all[k - 1] + s.tail[k].adds ELSE all[k - 1]
  <2>1. all[k - 1] \in V
    BY <1>1, <1>5
  <2> QED BY <2>1, <1>4, <1>5
<1> QED BY <1>1, <1>5, <1>6 DEF AddedRises, N, first, V, all

(* The saturating sums of _version_tail are the saturated sum.             *)
LEMMA SumsSaturate ==
  ASSUME NEW s, s.tail \in Tails, NEW version \in Nat, NEW first \in 0 .. Top
  PROVE  /\ Iterated(Len(s.tail), first,
                      [k \in DOMAIN s.tail |-> [at \in Nat |->
                         IF version >= s.tail[k].since
                         THEN Need(at, s.tail[k].adds) ELSE at]])[Len(s.tail)]
                = Need(first, Added(s, version)[Len(s.tail)])
         /\ Added(s, version)[Len(s.tail)] \in Nat
<1> DEFINE N == Len(s.tail)
           V == Nat
           turn == [k \in DOMAIN s.tail |-> [at \in V |->
                      IF version >= s.tail[k].since THEN Need(at, s.tail[k].adds) ELSE at]]
           sums == Iterated(N, first, turn)
           all == Added(s, version)
<1>1. /\ N \in Nat /\ DOMAIN s.tail = 1 .. N
      /\ \A k \in 1 .. N : s.tail[k].since \in Nat /\ s.tail[k].adds \in Nat
  BY TailIs
<1>4. first \in V
  BY WalkAssumption
<1> HIDE DEF N
<1>5. turn \in [1 .. N -> [V -> V]]
  <2>1. ASSUME NEW k \in 1 .. N, NEW at \in V PROVE Need(at, s.tail[k].adds) \in V
    BY <1>1, NeedType
  <2> QED BY <1>1, <2>1
<1>6. ASSUME NEW k \in 1 .. N, NEW at \in V
      PROVE  turn[k][at] = IF version >= s.tail[k].since THEN Need(at, s.tail[k].adds) ELSE at
  BY <1>1
<1>7. AddedRises(s, version)
  BY AddedIs
<1>17. sums = Iterated(N, first, turn)
  OBVIOUS
<1> HIDE DEF turn, V, sums, all
<1>8. /\ sums \in [0 .. N -> V] /\ sums[0] = first
      /\ \A k \in 1 .. N : sums[k] = turn[k][sums[k - 1]]
  <2>1. IsIterated(Iterated(N, first, turn), N, V, first, turn)
    BY <1>1, <1>4, <1>5, IteratedIs
  <2> QED BY <2>1, <1>17 DEF IsIterated
<1>9. /\ all \in [0 .. N -> Nat] /\ all[0] = 0
      /\ \A k \in 1 .. N : all[k] = IF version >= s.tail[k].since
                                    THEN all[k - 1] + s.tail[k].adds ELSE all[k - 1]
  BY <1>7 DEF AddedRises, all, N
<1> DEFINE S == {k \in 0 .. N : sums[k] = Need(first, all[k])}
<1>10. 0 \in S
  <2>1. Need(first, 0) = first
    BY <1>4, NeedIs
  <2> QED BY <2>1, <1>1, <1>8, <1>9
<1>11. ASSUME NEW k \in 0 .. N, k # N, k \in S PROVE k + 1 \in S
  <2>1. k + 1 \in 1 .. N /\ (k + 1) - 1 = k /\ k + 1 \in 0 .. N
    BY <1>1, <1>11
  <2>2. sums[k] \in V /\ all[k] \in Nat /\ sums[k] = Need(first, all[k])
    BY <1>8, <1>9, <1>11
  <2>3. sums[k + 1] = IF version >= s.tail[k + 1].since
                      THEN Need(sums[k], s.tail[k + 1].adds) ELSE sums[k]
    BY <2>1, <2>2, <1>6, <1>8
  <2>4. all[k + 1] = IF version >= s.tail[k + 1].since
                     THEN all[k] + s.tail[k + 1].adds ELSE all[k]
    BY <2>1, <1>9
  <2>5. s.tail[k + 1].adds \in Nat
    BY <2>1, <1>1
  <2>6. Need(first, s.tail[k + 1].adds + all[k]) = Need(Need(first, all[k]), s.tail[k + 1].adds)
    BY <2>2, <2>5, <1>4, NeedSplits
  <2>7. all[k] + s.tail[k + 1].adds = s.tail[k + 1].adds + all[k]
    BY <2>2, <2>5
  <2>8. sums[k + 1] = Need(first, all[k + 1])
    BY <2>2, <2>3, <2>4, <2>6, <2>7
  <2> QED BY <2>1, <2>8
<1> HIDE DEF S
<1>12. \A k \in 0 .. N : k \in S
  BY <1>1, <1>10, <1>11, Induct
<1>13. N \in 0 .. N
  BY <1>1
<1>14. sums[N] = Need(first, all[N]) /\ all[N] \in Nat
  BY <1>9, <1>12, <1>13 DEF S
<1> QED BY <1>14 DEF all, N, sums, turn, V

(* How a walk ends with the members its version adds           *)
(* (_version_tail).                                                        *)
EndIs(end, w, s, bytes) ==
  IF s.tail = <<>> \/ w.short THEN end = w
  ELSE IF ~HasArrived(bytes, 1) THEN end = Short(w.at)
  ELSE /\ end.short = FALSE
       /\ end.at = Need(w.at, Added(s, ByteAt(bytes, 0))[Len(s.tail)])
       /\ Added(s, ByteAt(bytes, 0))[Len(s.tail)] \in Nat

(* The walk ends with the bytes of its version added, once the version     *)
(* byte is there (_version_tail).                                          *)
LEMMA VersionedIs ==
  ASSUME NEW b \in Buffers, NEW s, s.tail \in Tails,
         NEW w \in Walks, w.at <= Top
  PROVE  EndIs(Versioned(w, s, b), w, s, b)
<1>1. CASE s.tail = <<>> \/ w.short \/ ~HasArrived(b, 1)
  BY <1>1 DEF EndIs, Versioned
<1>2. CASE ~(s.tail = <<>> \/ w.short) /\ HasArrived(b, 1)
  <2> DEFINE version == ByteAt(b, 0)
             sum == Iterated(Len(s.tail), w.at,
                      [k \in DOMAIN s.tail |-> [at \in Nat |->
                         IF version >= s.tail[k].since
                         THEN Need(at, s.tail[k].adds) ELSE at]])[Len(s.tail)]
             more == Added(s, version)[Len(s.tail)]
  <2>1. 0 \in Nat /\ 0 < Len(b)
    BY <1>2, LenIs DEF HasArrived
  <2>2. version \in Nat
    BY <2>1, BytesStay, WalkAssumption
  <2>3. w.at \in 0 .. Top
    BY WalkAssumption DEF Walks
  <2>4. sum = Need(w.at, more) /\ more \in Nat
    <3> HIDE DEF version
    <3> QED BY <2>2, <2>3, SumsSaturate
  <2>5. Versioned(w, s, b) = [w EXCEPT !.at = sum]
    BY <1>2 DEF Versioned
  <2> HIDE DEF sum
  <2>6. [w EXCEPT !.at = sum].at = sum /\ [w EXCEPT !.at = sum].short = w.short
    BY DEF Walks
  <2>7. w.short = FALSE
    BY <1>2 DEF Walks
  <2> QED BY <1>2, <2>4, <2>5, <2>6, <2>7 DEF EndIs
<1> QED BY <1>1, <1>2

(* The total a walk ends with is a number, whatever the bytes are          *)
(* (_version_tail).                                                        *)
LEMMA VersionedType ==
  ASSUME NEW b \in Buffers, NEW s, s.tail \in Tails, NEW w \in Walks
  PROVE  Versioned(w, s, b) \in Walks
<1>1. CASE s.tail = <<>> \/ w.short
  BY <1>1 DEF Versioned
<1>2. CASE ~(s.tail = <<>> \/ w.short) /\ ~HasArrived(b, 1)
  <2>1. w.at \in Nat
    BY DEF Walks
  <2> QED BY <1>2, <2>1, ShortType DEF Versioned
<1>3. CASE ~(s.tail = <<>> \/ w.short) /\ HasArrived(b, 1)
  <2> DEFINE N == Len(s.tail)
             V == Nat
             turn == [k \in DOMAIN s.tail |-> [at \in V |->
                        IF ByteAt(b, 0) >= s.tail[k].since
                        THEN Need(at, s.tail[k].adds) ELSE at]]
             sum == Iterated(N, w.at, turn)[N]
  <2>1. /\ N \in Nat /\ DOMAIN s.tail = 1 .. N
        /\ \A k \in 1 .. N : s.tail[k].adds \in Nat
    BY TailIs
  <2>2. w.at \in V
    BY DEF Walks
  <2>3. Versioned(w, s, b) = [w EXCEPT !.at = sum]
    BY <1>3 DEF Versioned
  <2> HIDE DEF N
  <2>4. turn \in [1 .. N -> [V -> V]]
    <3>1. ASSUME NEW k \in 1 .. N, NEW at \in V PROVE Need(at, s.tail[k].adds) \in V
      BY <2>1, NeedType
    <3> QED BY <2>1, <3>1
  <2> HIDE DEF V, turn
  <2>5. sum \in V
    <3>1. IsIterated(Iterated(N, w.at, turn), N, V, w.at, turn)
      BY <2>1, <2>2, <2>4, IteratedIs
    <3>2. N \in 0 .. N
      BY <2>1
    <3> QED BY <3>1, <3>2 DEF IsIterated
  <2> HIDE DEF sum
  <2> QED BY <2>3, <2>5 DEF V, Walks
<1> QED BY <1>1, <1>2, <1>3

(* The fixed bytes of a struct are its floor, and it has at least one byte *)
(* (framing_floor).                                                        *)
LEMMA FloorIs ==
  ASSUME NEW i \in Nat, NEW s, IsStruct(s, i)
  PROVE  /\ FramingFloor(s) \in Nat \ {0}
         /\ FramingFloor(s) = IF Constant(s) > 1 THEN Constant(s) ELSE 1
<1>1. GapsRise(s)
  BY GapsAre
<1>2. Constant(s) \in Nat
  BY <1>1 DEF GapsRise
<1>3. FramingFloor(s) = IF Constant(s) > 1 THEN Constant(s) ELSE 1
  BY DEF FramingFloor, Larger
<1> QED BY <1>2, <1>3

(* What the walk of all the members leaves *)
WalkEnds(w, s, ends, bytes) ==
  /\ Sound(w, s.rest, bytes) /\ s.rest \in Nat
  /\ w.at >= FramingFloor(s)
  /\ Places(s, ends, bytes)[Len(s.members)] = Here(w, bytes)

(* After all the members the total is the place and the fixed bytes behind *)
(* the last, and at least the floor (_required).                           *)
LEMMA WalkEndsSo ==
  ASSUME NEW b \in Buffers, NEW i \in Nat, NEW s, IsStruct(s, i), MaxBytes + Constant(s) < Top,
         NEW required, NEW ends, NEW len, Lower(required, ends, i, len), Len(b) <= len,
         NEW walk, AreWalked(walk, s, required, b)
  PROVE  WalkEnds(walk[Len(s.members)], s, ends, b)
<1> DEFINE N == Len(s.members)
           w == walk[N]
<1>1. N \in Nat /\ N \in 0 .. N
  BY MembersAre
<1>2. WalkState(w, N, s, ends, b)
  BY <1>1, WalkGoesOn
<1>3. Behind(s, N) = s.rest /\ s.rest \in Nat
  <2> DEFINE sum == Gaps(s)[N]
  <2>1. GapsRise(s)
    BY GapsAre
  <2>2. sum \in Nat
    BY <1>1, <2>1 DEF GapsRise
  <2>3. Behind(s, N) = (sum + s.rest) - sum
    BY DEF Behind, Constant
  <2>4. s.rest \in Nat
    BY DEF IsStruct
  <2> HIDE DEF sum
  <2> QED BY <2>2, <2>3, <2>4
<1> HIDE DEF w
<1>4. w.at >= FramingFloor(s)
  <2>1. /\ w.at >= Constant(s) /\ w.at \in Nat
        /\ TakenBy(s, N) /\ ~w.short => w.pos >= 1
        /\ w.short => w.at > Len(b)
        /\ ~w.short => w.pos \in 0 .. Top /\ w.at = Need(w.pos, Behind(s, N))
    BY <1>2, WalkAssumption DEF WalkState, Sound, Walks
  <2>2. Constant(s) > 0 \/ TakenBy(s, N)
    BY DEF IsStruct
  <2>3. FramingFloor(s) = IF Constant(s) > 1 THEN Constant(s) ELSE 1
    BY FloorIs
  <2>4. Constant(s) \in Nat
    BY GapsAre DEF GapsRise
  <2>5. TakenBy(s, N) => w.at >= 1
    <3>1. CASE w.short
      BY <2>1, <3>1, LenIs
    <3>2. CASE ~w.short
      <4>1. w.at >= w.pos
        BY <2>1, <3>2, <1>3, WalkAssumption DEF Need
      <4> QED BY <2>1, <3>2, <4>1
    <3> QED BY <3>1, <3>2
  <2> QED BY <2>1, <2>2, <2>3, <2>4, <2>5
<1>5. WalkEnds(w, s, ends, b)
  BY <1>2, <1>3, <1>4 DEF WalkEnds, WalkState
<1> QED BY <1>5 DEF w

(* The answer of a struct, and the lengths of its messages *)
AnswerIs(answer, lengths, floor, bytes) ==
  /\ answer \in Answers /\ answer.need >= floor
  /\ lengths = IF answer.whole THEN {answer.need} ELSE {}
  /\ answer.whole => answer.need <= Len(bytes)
  /\ ~answer.whole => answer.need > Len(bytes)

(* How the walk ended, its version included *)
EndsRight(end, lengths, floor, bytes) ==
  /\ end.at \in Nat /\ end.at >= floor /\ end.short \in BOOLEAN
  /\ lengths = IF ~end.short /\ end.at <= Len(bytes) THEN {end.at} ELSE {}
  /\ end.short => end.at > Len(bytes)

(* The answer of _required is "whole" exactly when all the bytes of its    *)
(* total are there.                                                        *)
LEMMA AnswerOf ==
  ASSUME NEW b \in Buffers, NEW lengths, NEW floor \in Nat, NEW end, EndsRight(end, lengths, floor, b)
  PROVE  AnswerIs([whole |-> ~end.short /\ Len(b) >= end.at, need |-> end.at],
                  lengths, floor, b)
<1> DEFINE whole == ~end.short /\ Len(b) >= end.at
           need == end.at
           answer == [whole |-> whole, need |-> need]
<1>1. /\ need \in Nat /\ need >= floor /\ Len(b) \in Nat
      /\ whole \in BOOLEAN
      /\ lengths = IF whole THEN {need} ELSE {}
      /\ whole => need <= Len(b)
      /\ ~whole => need > Len(b)
  BY LenIs DEF EndsRight
<1> HIDE DEF whole, need
<1>2. answer \in Answers /\ answer.whole = whole /\ answer.need = need
  BY <1>1 DEF Answers
<1> HIDE DEF answer
<1>3. AnswerIs(answer, lengths, floor, b)
  BY <1>1, <1>2 DEF AnswerIs
<1> QED BY <1>3 DEF answer, whole, need

(* Where the walk ends is the only length the schema gives the message,    *)
(* and none where it is short (_required, _version_tail).                  *)
LEMMA LengthsAre ==
  ASSUME NEW b \in Buffers, NEW s, s.tail \in Tails,
         MaxBytes < Top, NEW ends, NEW w, WalkEnds(w, s, ends, b),
         FramingFloor(s) \in Nat \ {0},
         NEW end, EndIs(end, w, s, b)
  PROVE  EndsRight(end, Lengths(s, ends, b), FramingFloor(s), b)
<1> DEFINE places == Places(s, ends, b)[Len(s.members)]
           lengths == Lengths(s, ends, b)
           added == Added(s, ByteAt(b, 0))[Len(s.tail)]
           floor == FramingFloor(s)
<1> SUFFICES EndsRight(end, lengths, floor, b)
  OBVIOUS
<1>1. /\ w \in Walks /\ w.at \in 0 .. Top /\ w.at >= floor /\ floor \in Nat /\ floor >= 1
      /\ s.rest \in Nat /\ Top \in Nat /\ Len(b) \in Nat /\ Len(b) < Top
      /\ IF w.short THEN w.at > Len(b)
         ELSE w.pos \in 0 .. Top /\ w.at = Need(w.pos, s.rest)
      /\ places = IF ~w.short /\ w.pos <= Len(b) THEN {w.pos} ELSE {}
  BY WalkAssumption, LenIs DEF WalkEnds, Sound, Walks, Here
<1>2. lengths = {q \in Upto(b) :
                   /\ s.tail # <<>> => b # <<>>
                   /\ \E p \in places : q = p + s.rest + IF s.tail = <<>> THEN 0 ELSE added}
  BY DEF Lengths
<1>3. b # <<>> <=> HasArrived(b, 1)
  <2>1. b \in Seq(Bytes)
    BY DEF Buffers
  <2> QED BY <2>1 DEF HasArrived
<1> HIDE DEF places, lengths, added, floor
<1>5. CASE w.short
  <2>1. end = w
    BY <1>5 DEF EndIs
  <2>2. lengths = {}
    BY <1>1, <1>2, <1>5
  <2>3. w.short \in BOOLEAN
    BY <1>1 DEF Walks
  <2>4. end.at \in Nat
    BY <1>1, <2>1
  <2>5. end.at >= floor
    BY <1>1, <2>1
  <2>6. end.short \in BOOLEAN
    BY <2>1, <2>3
  <2>7. end.short => end.at > Len(b)
    BY <1>1, <2>1
  <2>8. lengths = IF ~end.short /\ end.at <= Len(b) THEN {end.at} ELSE {}
    BY <1>5, <2>1, <2>2
  <2> QED BY <2>4, <2>5, <2>6, <2>7, <2>8 DEF EndsRight
<1>6. CASE ~w.short /\ s.tail = <<>>
  <2>1. end = w /\ end.short = FALSE
    BY <1>1, <1>6 DEF EndIs, Walks
  <2>2. lengths = IF w.at <= Len(b) THEN {w.at} ELSE {}
    <3>1. CASE w.pos + s.rest <= Len(b)
      <4>1. places = {w.pos} /\ w.at = w.pos + s.rest /\ w.at <= Len(b)
        BY <1>1, <1>6, <3>1 DEF Need
      <4>2. lengths = {q \in Upto(b) : q = w.pos + s.rest + 0}
        BY <1>2, <1>6, <4>1
      <4>3. w.pos + s.rest + 0 = w.at /\ w.at \in Upto(b)
        BY <1>1, <1>6, <4>1 DEF Upto
      <4> QED BY <4>1, <4>2, <4>3
    <3>2. CASE ~(w.pos + s.rest <= Len(b))
      <4>1. w.at > Len(b)
        BY <1>1, <1>6, <3>2 DEF Need
      <4>2. ASSUME NEW q \in lengths PROVE FALSE
        <5>1. w.pos <= Len(b) /\ q = w.pos + s.rest + 0 /\ q <= Len(b)
          BY <1>1, <1>2, <1>6, <4>2 DEF Upto
        <5> QED BY <1>1, <1>6, <3>2, <5>1
      <4>3. lengths = {}
        BY <4>2
      <4> QED BY <1>1, <4>1, <4>3
    <3> QED BY <3>1, <3>2
  <2>14. end.at \in Nat
    BY <1>1, <2>1, <2>2
  <2>15. end.at >= floor
    BY <1>1, <2>1, <2>2
  <2>16. end.short \in BOOLEAN
    BY <1>1, <2>1, <2>2
  <2>17. end.short => end.at > Len(b)
    BY <1>1, <2>1, <2>2
  <2>18. lengths = IF ~end.short /\ end.at <= Len(b) THEN {end.at} ELSE {}
    BY <1>1, <2>1, <2>2
  <2> QED BY <2>14, <2>15, <2>16, <2>17, <2>18 DEF EndsRight
<1>7. CASE ~w.short /\ s.tail # <<>> /\ ~HasArrived(b, 1)
  <2>1. end = Short(w.at)
    BY <1>7 DEF EndIs
  <2>2. end.short = TRUE /\ end.at = w.at
    BY <2>1 DEF Short
  <2>3. lengths = {}
    BY <1>2, <1>3, <1>7
  <2>4. w.at > Len(b)
    BY <1>1, <1>7 DEF HasArrived
  <2>14. end.at \in Nat
    BY <1>1, <2>2, <2>3, <2>4
  <2>15. end.at >= floor
    BY <1>1, <2>2, <2>3, <2>4
  <2>16. end.short \in BOOLEAN
    BY <1>1, <2>2, <2>3, <2>4
  <2>17. end.short => end.at > Len(b)
    BY <1>1, <2>2, <2>3, <2>4
  <2>18. lengths = IF ~end.short /\ end.at <= Len(b) THEN {end.at} ELSE {}
    BY <1>1, <2>2, <2>3, <2>4
  <2> QED BY <2>14, <2>15, <2>16, <2>17, <2>18 DEF EndsRight
<1>8. CASE ~w.short /\ s.tail # <<>> /\ HasArrived(b, 1)
  <2>1. end.short = FALSE /\ end.at = Need(w.at, added) /\ added \in Nat
    BY <1>8 DEF EndIs, added
  <2>2. end.at \in 0 .. Top /\ end.at >= w.at
    <3>1. Need(w.at, added) \in 0 .. Top /\ Need(w.at, added) >= w.at
      BY <1>1, <2>1, NeedIs
    <3> QED BY <2>1, <3>1
  <2>3. lengths = IF end.at <= Len(b) THEN {end.at} ELSE {}
    <3>1. CASE w.pos + s.rest + added <= Len(b)
      <4>1. places = {w.pos} /\ w.at = w.pos + s.rest /\ end.at = w.pos + s.rest + added
        <5>1. w.pos \in 0 .. Top /\ w.at = Need(w.pos, s.rest) /\ w.pos <= Len(b)
          BY <1>1, <1>8, <2>1, <3>1
        <5>2. w.at = w.pos + s.rest
          <6>1. w.pos + s.rest <= Top /\ w.pos \in 0 .. Top /\ s.rest \in Nat
            BY <5>1, <1>1, <2>1, <3>1
          <6>2. Need(w.pos, s.rest) = w.pos + s.rest
            BY <6>1, NeedIs
          <6> QED BY <5>1, <6>2
        <5>3. Need(w.at, added) = w.at + added
          <6>1. w.at + added <= Top /\ w.at \in 0 .. Top /\ added \in Nat
            BY <5>1, <5>2, <1>1, <2>1, <3>1
          <6> QED BY <6>1, NeedIs
        <5> QED BY <5>1, <5>2, <5>3, <1>1, <1>8, <2>1
      <4>2. lengths = {q \in Upto(b) : q = w.pos + s.rest + added}
        BY <1>2, <1>3, <1>8, <4>1
      <4>3. end.at \in Upto(b)
        BY <1>1, <1>8, <2>2, <3>1, <4>1 DEF Upto
      <4> QED BY <3>1, <4>1, <4>2, <4>3
    <3>2. CASE ~(w.pos + s.rest + added <= Len(b))
      <4>1. end.at > Len(b)
        BY <1>1, <1>8, <2>1, <3>2 DEF Need
      <4>2. ASSUME NEW q \in lengths PROVE FALSE
        <5>1. w.pos <= Len(b) /\ q = w.pos + s.rest + added /\ q <= Len(b)
          BY <1>1, <1>2, <1>8, <4>2 DEF Upto
        <5> QED BY <1>1, <1>8, <2>1, <3>2, <5>1
      <4>3. lengths = {}
        BY <4>2
      <4> QED BY <1>1, <2>2, <4>1, <4>3
    <3> QED BY <3>1, <3>2
  <2>14. end.at \in Nat
    BY <1>1, <2>1, <2>2, <2>3
  <2>15. end.at >= floor
    BY <1>1, <2>1, <2>2, <2>3
  <2>16. end.short \in BOOLEAN
    BY <1>1, <2>1, <2>2, <2>3
  <2>17. end.short => end.at > Len(b)
    BY <1>1, <2>1, <2>2, <2>3
  <2>18. lengths = IF ~end.short /\ end.at <= Len(b) THEN {end.at} ELSE {}
    BY <1>1, <2>1, <2>2, <2>3
  <2> QED BY <2>14, <2>15, <2>16, <2>17, <2>18 DEF EndsRight
<1> QED BY <1>5, <1>6, <1>7, <1>8

(* With more bytes a walk that ended whole ends there, and one that did    *)
(* not ends no earlier (_version_tail).                                    *)
LEMMA EndFollows ==
  ASSUME NEW b \in Buffers, NEW c \in Buffers, Extends(c, b), NEW s, NEW rest,
         NEW w, Sound(w, rest, b), NEW v, Sound(v, rest, c), Follows(w, v),
         NEW end, EndIs(end, w, s, b), NEW then, EndIs(then, v, s, c)
  PROVE  /\ then.at >= end.at
         /\ ~end.short => ~then.short /\ then.at = end.at
<1>1. /\ w.at \in 0 .. Top /\ v.at \in 0 .. Top /\ Top \in Nat
      /\ Len(b) \in Nat /\ Len(c) \in Nat /\ Len(b) <= Len(c)
  BY WalkAssumption, LenIs DEF Sound, Walks, Extends
<1>2. v.at >= w.at
  BY <1>1 DEF Follows
<1>3. then.at >= v.at
  <2>1. CASE s.tail = <<>> \/ v.short
    BY <2>1, <1>1 DEF EndIs
  <2>2. CASE ~(s.tail = <<>> \/ v.short) /\ ~HasArrived(c, 1)
    <3>1. then = Short(v.at)
      BY <2>2 DEF EndIs
    <3> QED BY <3>1, <1>1 DEF Short
  <2>3. CASE ~(s.tail = <<>> \/ v.short) /\ HasArrived(c, 1)
    <3> DEFINE added == Added(s, ByteAt(c, 0))[Len(s.tail)]
    <3>1. then.at = Need(v.at, added) /\ added \in Nat
      BY <2>3 DEF EndIs
    <3> HIDE DEF added
    <3>2. Need(v.at, added) >= v.at
      BY <3>1, <1>1, NeedIs
    <3> QED BY <3>1, <3>2
  <2> QED BY <2>1, <2>2, <2>3
<1>4. CASE w.short
  <2>1. end = w
    BY <1>4 DEF EndIs
  <2>2. then.at \in Nat
    <3>1. CASE s.tail = <<>> \/ v.short
      BY <3>1, <1>1 DEF EndIs
    <3>2. CASE ~(s.tail = <<>> \/ v.short) /\ ~HasArrived(c, 1)
      <4>1. then = Short(v.at)
        BY <3>2 DEF EndIs
      <4> QED BY <4>1, <1>1 DEF Short
    <3>3. CASE ~(s.tail = <<>> \/ v.short) /\ HasArrived(c, 1)
      <4> DEFINE added == Added(s, ByteAt(c, 0))[Len(s.tail)]
      <4>1. then.at = Need(v.at, added) /\ added \in Nat
        BY <3>3 DEF EndIs
      <4> HIDE DEF added
      <4>2. Need(v.at, added) \in 0 .. Top
        BY <4>1, <1>1, NeedIs
      <4> QED BY <4>1, <4>2, <1>1
    <3> QED BY <3>1, <3>2, <3>3
  <2> QED BY <2>1, <2>2, <1>1, <1>2, <1>3, <1>4
<1>5. CASE ~w.short
  <2>1. v = w
    BY <1>5 DEF Follows
  <2>2. CASE s.tail = <<>>
    <3>1. end = w /\ then = w
      BY <2>1, <2>2 DEF EndIs
    <3> QED BY <3>1, <1>1, <1>5
  <2>3. CASE s.tail # <<>> /\ ~HasArrived(b, 1)
    <3>1. end = Short(w.at)
      BY <2>3, <1>5 DEF EndIs
    <3>2. end.at = w.at /\ end.short = TRUE
      BY <3>1 DEF Short
    <3> QED BY <3>2, <1>3, <2>1
  <2>4. CASE s.tail # <<>> /\ HasArrived(b, 1)
    <3>1. HasArrived(c, 1) /\ ByteAt(c, 0) = ByteAt(b, 0)
      <4>1. 0 \in Nat /\ 0 < Len(b) /\ HasArrived(c, 1)
        BY <2>4, <1>1 DEF HasArrived
      <4> QED BY <4>1, BytesStay
    <3> DEFINE added == Added(s, ByteAt(b, 0))[Len(s.tail)]
    <3>2. /\ end.short = FALSE /\ end.at = Need(w.at, added) /\ added \in Nat
          /\ then.short = FALSE /\ then.at = Need(w.at, added)
      BY <2>1, <2>4, <3>1, <1>5 DEF EndIs
    <3> HIDE DEF added
    <3>3. Need(w.at, added) \in 0 .. Top
      BY <3>2, <1>1, NeedIs
    <3> QED BY <3>2, <3>3, <1>1
  <2> QED BY <2>2, <2>3, <2>4
<1> QED BY <1>4, <1>5

(* The end of the walk over a buffer, its version included *)
EndOf(s, required, bytes) ==
  Versioned(Walked(s, required, bytes)[Len(s.members)], s, bytes)

(* The walk of a whole struct, its version included, ends at the length of *)
(* the message (_required).                                                *)
LEMMA EndOfIs ==
  ASSUME NEW b \in Buffers, NEW i \in Nat, NEW s, IsStruct(s, i), MaxBytes + Constant(s) < Top,
         NEW required, NEW ends, NEW len, Lower(required, ends, i, len), Len(b) <= len
  PROVE  EndsRight(EndOf(s, required, b), Lengths(s, ends, b), FramingFloor(s), b)
<1> DEFINE walk == Walked(s, required, b)
           w == walk[Len(s.members)]
           end == EndOf(s, required, b)
<1>1. /\ Constant(s) \in Nat /\ MaxBytes \in Nat /\ Top \in Nat
  BY GapsAre, WalkAssumption DEF GapsRise
<1>2. Top > 0 /\ MaxBytes < Top
  BY <1>1
<1>3. AreWalked(walk, s, required, b)
  BY <1>2, WalkedAre
<1> HIDE DEF walk
<1>4. WalkEnds(w, s, ends, b)
  BY <1>3, WalkEndsSo
<1>5. end = Versioned(w, s, b)
  BY DEF EndOf, walk
<1> HIDE DEF w, end
<1>6. s.tail \in Tails
  BY DEF IsStruct
<1>7. w \in Walks /\ w.at <= Top
  BY <1>4 DEF WalkEnds, Sound
<1>8. EndIs(end, w, s, b)
  BY <1>5, <1>6, <1>7, VersionedIs
<1>9. FramingFloor(s) \in Nat \ {0}
  BY FloorIs
<1>10. EndsRight(end, Lengths(s, ends, b), FramingFloor(s), b)
  BY <1>2, <1>4, <1>6, <1>8, <1>9, LengthsAre
<1> QED BY <1>10 DEF end

(* With more bytes the walk ends at the same place, or no sooner than it   *)
(* asked for (_required).                                                  *)
LEMMA EndOfFollows ==
  ASSUME NEW b \in Buffers, NEW c \in Buffers, Extends(c, b),
         NEW i \in Nat, NEW s, IsStruct(s, i), MaxBytes + Constant(s) < Top,
         NEW required, NEW ends, NEW len, Lower(required, ends, i, len), Len(c) <= len,
         NEW end, end = EndOf(s, required, b), NEW then, then = EndOf(s, required, c)
  PROVE  /\ then.at >= end.at
         /\ ~end.short => ~then.short /\ then.at = end.at
<1> DEFINE N == Len(s.members)
           walk == Walked(s, required, b)
           later == Walked(s, required, c)
           w == walk[N]
           v == later[N]
<1>1. /\ Constant(s) \in Nat /\ MaxBytes \in Nat /\ Top \in Nat
  BY GapsAre, WalkAssumption DEF GapsRise
<1>2. Top > 0
  BY <1>1
<1>3. AreWalked(walk, s, required, b) /\ AreWalked(later, s, required, c)
  BY <1>2, WalkedAre
<1>4. end = Versioned(w, s, b) /\ then = Versioned(v, s, c)
  BY DEF EndOf
<1> HIDE DEF walk, later
<1>5. N \in 0 .. N
  BY MembersAre
<1>11. Len(b) <= len
  <2>1. len \in Int /\ Len(b) <= Len(c)
    BY DEF Lower, Extends
  <2> QED BY <2>1, LenIs
<1>6. Follows(w, v)
  <2>1. \A k \in 0 .. N : Follows(walk[k], later[k])
    BY <1>3, WalkFollows
  <2> QED BY <2>1, <1>5
<1>7. WalkEnds(w, s, ends, b) /\ WalkEnds(v, s, ends, c)
  BY <1>3, <1>11, WalkEndsSo
<1> HIDE DEF w, v
<1>8. s.tail \in Tails
  BY DEF IsStruct
<1>9. /\ Sound(w, s.rest, b) /\ Sound(v, s.rest, c)
      /\ w \in Walks /\ w.at <= Top /\ v \in Walks /\ v.at <= Top
  BY <1>7 DEF WalkEnds, Sound
<1>10. EndIs(end, w, s, b) /\ EndIs(then, v, s, c)
  BY <1>4, <1>8, <1>9, VersionedIs
<1> QED BY <1>6, <1>9, <1>10, EndFollows

(* The contract of one struct, from that of the structs it contains: the   *)
(* function generated for it keeps it (_required).                         *)
LEMMA StructKeeps ==
  ASSUME NEW i \in Nat, NEW s, IsStruct(s, i), MaxBytes + Constant(s) < Top,
         NEW required, NEW ends, NEW len, Lower(required, ends, i, len),
         NEW answers, answers = [bytes \in Buffers |-> Answer(s, required, bytes)],
         NEW lengths, lengths = [bytes \in Buffers |-> Lengths(s, ends, bytes)]
  PROVE  /\ FramingFloor(s) \in Nat \ {0}
         /\ Keeps(answers, lengths, FramingFloor(s), len)
<1> DEFINE floor == FramingFloor(s)
           end(b) == EndOf(s, required, b)
<1>1. floor \in Nat \ {0}
  BY FloorIs
<1>2. ASSUME NEW b \in Buffers
      PROVE  /\ answers[b] = [whole |-> ~end(b).short /\ Len(b) >= end(b).at, need |-> end(b).at]
             /\ lengths[b] = Lengths(s, ends, b)
  BY DEF Answer, EndOf
<1>3. ASSUME NEW b \in Buffers, Len(b) <= len PROVE AnswerIs(answers[b], lengths[b], floor, b)
  <2> DEFINE e == end(b)
             l == Lengths(s, ends, b)
  <2>1. EndsRight(e, l, floor, b)
    BY <1>3, EndOfIs
  <2>2. answers[b] = [whole |-> ~e.short /\ Len(b) >= e.at, need |-> e.at] /\ lengths[b] = l
    BY <1>2
  <2> HIDE DEF e, l, floor
  <2>3. AnswerIs([whole |-> ~e.short /\ Len(b) >= e.at, need |-> e.at], l, floor, b)
    BY <1>1, <2>1, AnswerOf
  <2> QED BY <2>2, <2>3
<1>4. ASSUME NEW b \in Buffers, NEW c \in Buffers, Extends(c, b),
             Len(b) <= len, Len(c) <= len
      PROVE  /\ answers[c].need >= answers[b].need
             /\ answers[b].whole => answers[c] = answers[b]
  <2> DEFINE e == end(b)
             f == end(c)
  <2>1. f.at >= e.at /\ (~e.short => ~f.short /\ f.at = e.at)
    BY <1>4, EndOfFollows
  <2>2. /\ answers[b] = [whole |-> ~e.short /\ Len(b) >= e.at, need |-> e.at]
        /\ answers[c] = [whole |-> ~f.short /\ Len(c) >= f.at, need |-> f.at]
    BY <1>2
  <2>3. EndsRight(e, Lengths(s, ends, b), floor, b)
    BY <1>4, EndOfIs
  <2>4. Len(b) \in Nat /\ Len(c) \in Nat /\ Len(b) <= Len(c) /\ e.at \in Nat
    BY <1>4, <2>3, LenIs DEF Extends, EndsRight
  <2> HIDE DEF e, f
  <2>5. answers[c].need = f.at /\ answers[b].need = e.at
    BY <2>2
  <2>6. ASSUME answers[b].whole PROVE answers[c] = answers[b]
    <3>1. ~e.short /\ Len(b) >= e.at
      <4> DEFINE whole == ~e.short /\ Len(b) >= e.at
                 need == e.at
      <4>1. answers[b] = [whole |-> whole, need |-> need] /\ whole \in BOOLEAN
        BY <2>2
      <4> HIDE DEF whole, need
      <4>2. whole
        BY <2>6, <4>1
      <4> QED BY <4>2 DEF whole
    <3>2. ~f.short /\ f.at = e.at /\ Len(c) >= f.at
      BY <2>1, <2>4, <3>1
    <3>3. (~e.short /\ Len(b) >= e.at) = TRUE /\ (~f.short /\ Len(c) >= f.at) = TRUE
      BY <3>1, <3>2
    <3>4. answers[b] = [whole |-> TRUE, need |-> e.at] /\ answers[c] = [whole |-> TRUE, need |-> e.at]
      BY <2>2, <3>2, <3>3
    <3> QED BY <3>4
  <2> QED BY <2>1, <2>5, <2>6
<1>6. Typed(answers, lengths)
  <2>1. ASSUME NEW b \in Buffers PROVE answers[b] \in Answers /\ lengths[b] \in SUBSET Upto(b)
    <3> DEFINE w == Walked(s, required, b)[Len(s.members)]
               e == end(b)
    <3>1. w \in Walks
      <4>1. Top > 0 /\ Len(s.members) \in 0 .. Len(s.members)
        BY GapsAre, MembersAre, WalkAssumption DEF GapsRise
      <4>2. AreWalked(Walked(s, required, b), s, required, b)
        BY <4>1, WalkedAre
      <4> QED BY <4>1, <4>2 DEF AreWalked
    <3>2. e = Versioned(w, s, b)
      BY DEF EndOf
    <3>3. s.tail \in Tails
      BY DEF IsStruct
    <3> HIDE DEF w
    <3>4. e \in Walks
      BY <3>1, <3>2, <3>3, VersionedType
    <3>5. answers[b] = [whole |-> ~e.short /\ Len(b) >= e.at, need |-> e.at]
          /\ lengths[b] = Lengths(s, ends, b)
      BY <1>2
    <3> HIDE DEF e
    <3>6. e.at \in Nat /\ (~e.short /\ Len(b) >= e.at) \in BOOLEAN
      BY <3>4 DEF Walks
    <3>7. answers[b] \in Answers
      <4> DEFINE whole == ~e.short /\ Len(b) >= e.at
                 need == e.at
      <4>1. answers[b] = [whole |-> whole, need |-> need]
            /\ whole \in BOOLEAN /\ need \in Nat
        BY <3>5, <3>6
      <4> HIDE DEF whole, need
      <4> QED BY <4>1 DEF Answers
    <3>8. lengths[b] \subseteq Upto(b)
      BY <3>5 DEF Lengths
    <3> QED BY <3>7, <3>8
  <2> QED BY <2>1 DEF Typed
<1>7. len \in Int
  BY DEF Lower
<1> HIDE DEF floor
<1>5. Keeps(answers, lengths, floor, len)
  <2>1. \A b \in Buffers : Len(b) <= len => AnswerIs(answers[b], lengths[b], floor, b)
    BY <1>3
  <2>2. \A b, c \in Buffers : Len(b) <= len /\ Len(c) <= len /\ Extends(c, b) =>
          /\ answers[c].need >= answers[b].need
          /\ answers[b].whole => answers[c] = answers[b]
    BY <1>4
  <2> QED BY <1>6, <1>7, <2>1, <2>2 DEF Keeps, AnswerIs
<1> QED BY <1>1, <1>5 DEF floor

-----------------------------------------------------------------------------
(* The functions that may call those below, and what the schema says of    *)
(* the same structs                                                        *)
Generating(below) ==
  [i \in DOMAIN Schema |-> [bytes \in Buffers |-> Answer(Schema[i], below, bytes)]]
Describing(below) ==
  [i \in DOMAIN Schema |-> [bytes \in Buffers |-> Lengths(Schema[i], below, bytes)]]

NoFunctions == [i \in DOMAIN Schema |-> [bytes \in Buffers |-> NoAnswer]]
NoFormat == [i \in DOMAIN Schema |-> [bytes \in Buffers |-> {}]]

First(code) == IF code THEN NoFunctions ELSE NoFormat
After(code, below) == IF code THEN Generating(below) ELSE Describing(below)

InOrder(code, f) ==
  f = [n \in 0 .. Deepest |-> IF n = 0 THEN First(code) ELSE After(code, f[n - 1])]

(* How deep the calls go is a number *)
LEMMA DeepestIs == Deepest \in Nat
<1>1. MaxBytes + 1 \in Nat /\ Len(Schema) \in Nat
  BY SchemaIs, WalkAssumption
<1> QED BY <1>1 DEF Deepest

(* The functions of one depth of calls after another are there, and so are *)
(* the lengths: each depth from the one below it (the calls _required      *)
(* makes of itself and of others).                                         *)
LEMMA OrderExists ==
  ASSUME NEW code \in BOOLEAN
  PROVE  Deepest \in Nat /\ \E f : InOrder(code, f)
<1> DEFINE N == Deepest
           Is(f, k) == \A n \in 0 .. k :
                          f[n] = IF n = 0 THEN First(code) ELSE After(code, f[n - 1])
           S == {k \in 0 .. N : \E f : Is(f, k)}
<1>1. N \in Nat
  BY DeepestIs
<1> HIDE DEF N
<1>2. 0 \in S
  <2>1. Is([n \in 0 .. 0 |-> First(code)], 0)
    OBVIOUS
  <2>2. \E f : Is(f, 0)
    BY <2>1
  <2>3. 0 \in 0 .. N
    BY <1>1
  <2> QED BY <2>2, <2>3
<1>3. ASSUME NEW k \in 0 .. N, k # N, k \in S PROVE k + 1 \in S
  <2>1. PICK f : Is(f, k)
    BY <1>3
  <2> DEFINE g == [n \in 0 .. N |-> IF n = k + 1 THEN After(code, f[k]) ELSE f[n]]
  <2>2. k + 1 \in 0 .. N
    BY <1>1, <1>3
  <2>3. ASSUME NEW n \in 0 .. k + 1
        PROVE  g[n] = IF n = 0 THEN First(code) ELSE After(code, g[n - 1])
    <3>1. n \in 0 .. N
      BY <2>2, <1>1
    <3>2. CASE n = k + 1
      <4>1. g[n] = After(code, f[k])
        BY <3>1, <3>2
      <4>2. n - 1 = k /\ k \in 0 .. N /\ k # k + 1 /\ n # 0
        BY <3>2
      <4>3. g[n - 1] = f[k]
        BY <4>2
      <4> QED BY <4>1, <4>2, <4>3
    <3>3. CASE n # k + 1
      <4>1. n \in 0 .. k
        BY <3>3
      <4>2. g[n] = f[n]
        BY <3>1, <3>3
      <4>3. n # 0 => n - 1 \in 0 .. N /\ n - 1 # k + 1
        BY <4>1, <3>1, <1>1
      <4>4. n # 0 => g[n - 1] = f[n - 1]
        BY <4>3
      <4>5. f[n] = IF n = 0 THEN First(code) ELSE After(code, f[n - 1])
        BY <4>1, <2>1
      <4> QED BY <4>2, <4>4, <4>5
    <3> QED BY <3>2, <3>3
  <2>4. Is(g, k + 1)
    BY <2>3
  <2> QED BY <2>2, <2>4
<1>4. N \in S
  <2> HIDE DEF S
  <2>1. \A n \in 0 .. N : n \in S
    BY <1>1, <1>2, <1>3, Induct
  <2> QED BY <1>1, <2>1
<1>5. PICK f : Is(f, N)
  BY <1>4
<1> DEFINE h == [n \in 0 .. N |-> f[n]]
           Fixed(g) == g = [n \in 0 .. N |->
                              IF n = 0 THEN First(code) ELSE After(code, g[n - 1])]
<1>6. Fixed(h)
  <2>1. ASSUME NEW n \in 0 .. N
        PROVE  h[n] = IF n = 0 THEN First(code) ELSE After(code, h[n - 1])
    <3>1. h[n] = f[n] /\ f[n] = IF n = 0 THEN First(code) ELSE After(code, f[n - 1])
      BY <1>5
    <3>2. n # 0 => n - 1 \in 0 .. N
      BY <1>1
    <3>3. n # 0 => h[n - 1] = f[n - 1]
      BY <3>2
    <3> QED BY <3>1, <3>3
  <2> QED BY <2>1
<1> HIDE DEF h
<1>7. InOrder(code, h)
  BY <1>6 DEF InOrder, N
<1> QED BY <1>1, <1>7 DEF N

(* What the depths are: the first is as it is given, and each is made from *)
(* the one below (the calls of _required).                                 *)
LEMMA OrderIs ==
  ASSUME NEW code \in BOOLEAN, NEW all, InOrder(code, all)
  PROVE  /\ all[0] = First(code)
         /\ \A n \in 1 .. Deepest : all[n] = After(code, all[n - 1])
<1> DEFINE N == Deepest
<1>1. N \in Nat
  BY OrderExists
<1>2. all = [n \in 0 .. N |-> IF n = 0 THEN First(code) ELSE After(code, all[n - 1])]
  BY DEF InOrder
<1> HIDE DEF N
<1>3. all[0] = First(code)
  <2>1. 0 \in 0 .. N
    BY <1>1
  <2> QED BY <2>1, <1>2
<1>4. ASSUME NEW n \in 1 .. N PROVE all[n] = After(code, all[n - 1])
  <2>1. n \in 0 .. N /\ n # 0
    BY <1>1
  <2> QED BY <2>1, <1>2
<1> QED BY <1>3, <1>4 DEF N

(* The functions of a depth call those of the depth below (_required).     *)
LEMMA GeneratedIs ==
  /\ Generated[0] = NoFunctions
  /\ \A n \in 1 .. Deepest : Generated[n] = Generating(Generated[n - 1])
<1> DEFINE all == CHOOSE g : InOrder(TRUE, g)
<1>1. Generated = all
  BY DEF Generated, Generating, NoFunctions, InOrder, First, After
<1>2. \E f : InOrder(TRUE, f)
  BY OrderExists
<1>3. InOrder(TRUE, all)
  BY <1>2, Zenon
<1> HIDE DEF all
<1>4. /\ all[0] = First(TRUE)
      /\ \A n \in 1 .. Deepest : all[n] = After(TRUE, all[n - 1])
  BY <1>3, OrderIs
<1> QED BY <1>1, <1>4 DEF First, After

(* The lengths at a depth are read with those of the depth below (the      *)
(* schema read the same way).                                              *)
LEMMA DescribedIs ==
  /\ Described[0] = NoFormat
  /\ \A n \in 1 .. Deepest : Described[n] = Describing(Described[n - 1])
<1> DEFINE all == CHOOSE g : InOrder(FALSE, g)
<1>1. Described = all
  BY DEF Described, Describing, NoFormat, InOrder, First, After
<1>2. \E f : InOrder(FALSE, f)
  BY OrderExists
<1>3. InOrder(FALSE, all)
  BY <1>2, Zenon
<1> HIDE DEF all
<1>4. /\ all[0] = First(FALSE)
      /\ \A n \in 1 .. Deepest : all[n] = After(FALSE, all[n - 1])
  BY <1>3, OrderIs
<1> QED BY <1>1, <1>4 DEF First, After

(* How deep the calls go that a message of `len` bytes of the i-th struct  *)
(* may make: a call is of an earlier struct, or past a byte                *)
Calls(i, len) == len * Len(Schema) + i

AllKeep(required, ends, n) ==
  \A i \in DOMAIN Schema, len \in Int :
    len < 0 \/ Calls(i, len) <= n =>
      Keeps(required[i], ends[i], FramingFloor(Schema[i]), len)

(* One byte fewer is as many calls fewer as there are structs (the calls   *)
(* of _required).                                                          *)
LEMMA CallsAre ==
  ASSUME NEW i \in DOMAIN Schema, NEW j \in DOMAIN Schema, NEW len \in Nat
  PROVE  /\ Calls(i, len) \in Nat \ {0} /\ Calls(j, len) \in Nat
         /\ j < i => Calls(j, len) < Calls(i, len)
         /\ len > 0 => Calls(j, len - 1) < Calls(i, len)
<1> DEFINE N == Len(Schema)
           all == len * N
           less == (len - 1) * N
<1>1. N \in Nat /\ i \in 1 .. N /\ j \in 1 .. N
  BY SchemaIs
<1>2. all \in Nat
  BY <1>1
<1>3. len > 0 => less \in Nat /\ all = less + N
  BY <1>1, OneTimesLess
<1>4. Calls(i, len) = all + i /\ Calls(j, len) = all + j /\ Calls(j, len - 1) = less + j
  BY DEF Calls
<1> HIDE DEF N, all, less
<1> QED BY <1>1, <1>2, <1>3, <1>4

(* By induction over the depth of the calls every function keeps the       *)
(* contract of the messages whose calls go no deeper: a struct is walked   *)
(* with the functions of those it contains (_required).                    *)
LEMMA StructsKeep ==
  \A n \in 0 .. Deepest : AllKeep(Generated[n], Described[n], n)
<1> DEFINE N == Deepest
           S == {n \in 0 .. N : AllKeep(Generated[n], Described[n], n)}
<1>1. N \in Nat /\ DOMAIN Schema = 1 .. Len(Schema) /\ Len(Schema) \in Nat
  BY SchemaIs, DeepestIs
<1> HIDE DEF N
<1>2. 0 \in S
  <2>1. Generated[0] = NoFunctions /\ Described[0] = NoFormat
    BY GeneratedIs, DescribedIs
  <2>2. ASSUME NEW i \in DOMAIN Schema, NEW len \in Int, len < 0 \/ Calls(i, len) <= 0
        PROVE  Keeps(NoFunctions[i], NoFormat[i], FramingFloor(Schema[i]), len)
    <3>1. len < 0
      <4>1. len >= 0 => len \in Nat
        OBVIOUS
      <4>2. len >= 0 => Calls(i, len) \in Nat \ {0}
        BY <4>1, CallsAre
      <4> QED BY <2>2, <4>2
    <3>2. Typed(NoFunctions[i], NoFormat[i])
      BY DEF Typed, NoFunctions, NoFormat, NoAnswer, Answers
    <3>3. \A b \in Buffers : ~(Len(b) <= len)
      BY <3>1, LenIs
    <3> QED BY <3>2, <3>3 DEF Keeps
  <2>3. AllKeep(NoFunctions, NoFormat, 0)
    BY <2>2 DEF AllKeep
  <2> QED BY <1>1, <2>1, <2>3
<1>3. ASSUME NEW n \in 0 .. N, n # N, n \in S PROVE n + 1 \in S
  <2> DEFINE required == Generated[n]
             ends == Described[n]
             code == Generated[n + 1]
             format == Described[n + 1]
  <2>1. n + 1 \in 1 .. N /\ n + 1 - 1 = n /\ n + 1 \in 0 .. N
    BY <1>1, <1>3
  <2>2. AllKeep(required, ends, n)
    BY <1>3
  <2>3. code = Generating(required) /\ format = Describing(ends)
    BY <2>1, GeneratedIs, DescribedIs DEF N
  <2> HIDE DEF required, ends, code, format
  <2>4. ASSUME NEW i \in DOMAIN Schema, NEW len \in Int, len < 0 \/ Calls(i, len) <= n + 1
        PROVE  Keeps(code[i], format[i], FramingFloor(Schema[i]), len)
    <3> DEFINE s == Schema[i]
               answers == [bytes \in Buffers |-> Answer(s, required, bytes)]
               lengths == [bytes \in Buffers |-> Lengths(s, ends, bytes)]
    <3>1. ASSUME NEW j \in DOMAIN Schema
          PROVE  /\ FramingFloor(Schema[j]) \in Nat \ {0}
                 /\ Keeps(required[j], ends[j], FramingFloor(Schema[j]), Room(i, j, len))
      <4>1. i \in Nat /\ j \in Nat /\ n \in Nat
        BY <1>1, <1>3
      <4>2. Room(i, j, len) \in Int
            /\ (Room(i, j, len) < 0 \/ Calls(j, Room(i, j, len)) <= n)
        <5>1. CASE len < 0
          BY <5>1, <4>1 DEF Room
        <5>2. CASE len >= 0
          <6>1. len \in Nat /\ Calls(i, len) <= n + 1
            BY <2>4, <5>2
          <6>2. CASE j < i
            <7>1. Room(i, j, len) = len
              BY <6>2 DEF Room
            <7>2. /\ Calls(i, len) \in Nat /\ Calls(j, len) \in Nat
                  /\ Calls(j, len) < Calls(i, len)
              BY <6>1, <6>2, CallsAre
            <7> QED BY <6>1, <7>1, <7>2, <4>1
          <6>3. CASE ~(j < i)
            <7>1. Room(i, j, len) = len - 1
              BY <6>3 DEF Room
            <7>2. CASE len = 0
              BY <7>1, <7>2
            <7>3. CASE len > 0
              <8>1. len - 1 \in Nat
                BY <6>1, <7>3
              <8>2. /\ Calls(i, len) \in Nat /\ Calls(j, len - 1) \in Nat
                    /\ Calls(j, len - 1) < Calls(i, len)
                BY <6>1, <7>3, <8>1, CallsAre
              <8> QED BY <6>1, <7>1, <8>1, <8>2, <4>1
            <7> QED BY <6>1, <7>2, <7>3
          <6> QED BY <6>2, <6>3
        <5> QED BY <5>1, <5>2
      <4>3. Keeps(required[j], ends[j], FramingFloor(Schema[j]), Room(i, j, len))
        BY <2>2, <4>2 DEF AllKeep
      <4>4. FramingFloor(Schema[j]) \in Nat \ {0}
        BY <4>1, SchemaAssumption, FloorIs
      <4> QED BY <4>3, <4>4
    <3>2. Lower(required, ends, i, len)
      BY <3>1 DEF Lower
    <3>3. IsStruct(s, i) /\ MaxBytes + Constant(s) < Top /\ i \in Nat
      BY <1>1, SchemaAssumption
    <3>4. code[i] = answers /\ format[i] = lengths
      BY <2>3 DEF Generating, Describing
    <3> HIDE DEF s, answers, lengths
    <3>5. Keeps(answers, lengths, FramingFloor(s), len)
      BY <3>2, <3>3, StructKeeps DEF answers, lengths
    <3> QED BY <3>4, <3>5 DEF s
  <2>5. AllKeep(code, format, n + 1)
    BY <2>4 DEF AllKeep
  <2> QED BY <2>1, <2>5 DEF code, format
<1> HIDE DEF S
<1>4. \A n \in 0 .. N : n \in S
  BY <1>1, <1>2, <1>3, Induct
<1> QED BY <1>4 DEF S, N

(* In every schema that meets SchemaAssumption each generated function     *)
(* keeps the contract (_required), that of a struct which contains itself  *)
(* included: it says whole exactly when the bytes hold a message, which is *)
(* then of that length, and otherwise asks for more than there is, and     *)
(* never for more than a message turns out to need; the fewest it asks for *)
(* is a byte.                                                              *)
THEOREM RequiredIsRight ==
  \A i \in DOMAIN Schema :
    /\ FramingFloor(Schema[i]) \in Nat \ {0}
    /\ Keeps(Functions[i], Format[i], FramingFloor(Schema[i]), MaxBytes)
<1>1. SUFFICES ASSUME NEW i \in DOMAIN Schema
               PROVE  /\ FramingFloor(Schema[i]) \in Nat \ {0}
                      /\ Keeps(Functions[i], Format[i], FramingFloor(Schema[i]), MaxBytes)
  OBVIOUS
<1>2. Deepest \in Nat /\ Deepest \in 0 .. Deepest /\ MaxBytes \in Nat
  BY DeepestIs, WalkAssumption
<1>3. AllKeep(Functions, Format, Deepest)
  BY <1>2, StructsKeep DEF Functions, Format
<1>4. Calls(i, MaxBytes) <= Deepest
  <2> DEFINE N == Len(Schema)
             all == MaxBytes * N
  <2>1. N \in Nat /\ i \in 1 .. N
    BY SchemaIs
  <2>2. all \in Nat /\ (MaxBytes + 1) * N = all + N
    BY <1>2, <2>1
  <2>3. Calls(i, MaxBytes) = all + i /\ Deepest = all + N
    BY <2>2 DEF Calls, Deepest
  <2> HIDE DEF N, all
  <2> QED BY <2>1, <2>2, <2>3
<1>5. Keeps(Functions[i], Format[i], FramingFloor(Schema[i]), MaxBytes)
  BY <1>2, <1>3, <1>4 DEF AllKeep
<1>6. IsStruct(Schema[i], i) /\ i \in Nat
  BY SchemaIs, SchemaAssumption
<1> QED BY <1>5, <1>6, FloorIs

(* What a reader builds on (_required and frame.py), in every schema that  *)
(* meets SchemaAssumption, structs that contain themselves included. Where *)
(* a stream starts with a message, that message has one length, of one     *)
(* byte at least: every shorter prefix is answered with more than it holds *)
(* and no more than that length, and every longer one with that length,    *)
(* whatever follows.                                                       *)
THEOREM RequiredFramesMessages ==
  ASSUME NEW i \in DOMAIN Schema, NEW b \in Buffers, RequiredOf(i, b).whole,
         NEW held \in 0 .. Len(b)
  PROVE  LET length == RequiredOf(i, b).need
             answer == RequiredOf(i, SubSeq(b, 1, held))
         IN  /\ length \in 1 .. Len(b)
             /\ held < length
                  => ~answer.whole /\ answer.need \in held + 1 .. length
             /\ held >= length => answer.whole /\ answer.need = length
<1> DEFINE required == Functions[i]
           length == required[b].need
           seen == SubSeq(b, 1, held)
           answer == required[seen]
<1>1. /\ Keeps(required, Format[i], FramingFloor(Schema[i]), MaxBytes)
      /\ FramingFloor(Schema[i]) \in Nat \ {0}
  BY RequiredIsRight
<1>2. b \in Seq(Bytes) /\ Len(b) \in Nat /\ Len(b) <= MaxBytes
  BY DEF Buffers
<1>3. /\ seen \in Seq(Bytes) /\ Len(seen) = held
      /\ \A k \in 1 .. held : seen[k] = b[k]
  BY <1>2
<1>4. seen \in Buffers /\ Extends(b, seen)
  BY <1>2, <1>3, WalkAssumption DEF Buffers, Extends
<1> HIDE DEF seen
<1>5. /\ required[b] \in Answers /\ required[b].whole
      /\ length >= FramingFloor(Schema[i]) /\ length <= Len(b)
  BY <1>1, <1>2 DEF Keeps, Typed, RequiredOf
<1>6. /\ answer \in Answers
      /\ answer.whole => answer.need <= held /\ required[b] = answer
      /\ ~answer.whole => answer.need > held
      /\ length >= answer.need
  BY <1>1, <1>2, <1>3, <1>4, LenIs DEF Keeps, Typed
<1>7. /\ length \in Nat /\ length >= 1 /\ answer.need \in Nat
      /\ answer.whole \in BOOLEAN
  BY <1>1, <1>5, <1>6 DEF Answers
<1>8. length \in 1 .. Len(b)
  BY <1>2, <1>5, <1>7
<1> HIDE DEF required
<1>9. CASE answer.whole
  <2>1. answer.need = length
    BY <1>6, <1>9
  <2> QED BY <1>5, <1>6, <1>7, <1>8, <1>9, <2>1 DEF required, seen, RequiredOf
<1>10. CASE ~answer.whole
  <2>1. held < length /\ answer.need \in held + 1 .. length
    BY <1>6, <1>7, <1>10
  <2> QED BY <1>7, <1>8, <1>10, <2>1 DEF required, seen, RequiredOf
<1> QED BY <1>7, <1>9, <1>10

(* What a receiver holds while a message arrives: the promises made are no *)
(* more than the message needs.                                            *)
WalkInv ==
  /\ struct \in DOMAIN Schema /\ data \in Buffers /\ promised \in Nat
  /\ promised <= RequiredOf(struct, data).need

(* The contract holds at every moment of every message that arrives, for   *)
(* every schema that meets SchemaAssumption (_required in emit.py).         *)
THEOREM WalkKeepsContract == WalkSpec => []RequiredKeepsContract
<1>1. WalkInit => WalkInv
  <2>1. SUFFICES ASSUME WalkInit PROVE WalkInv
    OBVIOUS
  <2>2. struct \in DOMAIN Schema /\ data = <<>> /\ promised = 0
    BY <2>1 DEF WalkInit
  <2>3. data \in Buffers
    BY <2>2, WalkAssumption DEF Buffers
  <2>4. RequiredOf(struct, data).need \in Nat
    BY <2>2, <2>3, RequiredIsRight DEF Keeps, Typed, Answers, RequiredOf
  <2> QED BY <2>2, <2>3, <2>4 DEF WalkInv
<1>2. WalkInv /\ [WalkNext]_walkVars => WalkInv'
  <2>1. SUFFICES ASSUME WalkInv, [WalkNext]_walkVars PROVE WalkInv'
    OBVIOUS
  <2>2. CASE UNCHANGED walkVars
    BY <2>1, <2>2 DEF WalkInv, walkVars, RequiredOf
  <2>3. ASSUME NEW b \in Bytes, Receive(b) PROVE WalkInv'
    <3> DEFINE required == Functions[struct]
               answer == required[data]
               later == required[data']
    <3>1. /\ struct \in DOMAIN Schema /\ data \in Buffers /\ promised \in Nat
          /\ promised <= answer.need
      BY <2>1 DEF WalkInv, RequiredOf
    <3>2. /\ Len(data) < MaxBytes /\ data' = Append(data, b) /\ struct' = struct
          /\ promised' = IF answer.whole THEN promised ELSE Larger(promised, answer.need)
      BY <2>3 DEF Receive, RequiredOf
    <3>3. data' \in Buffers /\ Extends(data', data)
      <4>1. data \in Seq(Bytes) /\ Len(data) \in Nat
        BY <3>1 DEF Buffers
      <4>2. /\ Append(data, b) \in Seq(Bytes) /\ Len(Append(data, b)) = Len(data) + 1
            /\ \A j \in 1 .. Len(data) : Append(data, b)[j] = data[j]
        BY <4>1
      <4> QED BY <3>2, <4>1, <4>2, WalkAssumption DEF Buffers, Extends
    <3>4. Keeps(required, Format[struct], FramingFloor(Schema[struct]), MaxBytes)
      BY <3>1, RequiredIsRight
    <3> HIDE DEF required
    <3>5. later.need >= answer.need /\ answer \in Answers /\ later \in Answers
      BY <3>1, <3>3, <3>4, LenIs DEF Keeps, Typed
    <3> HIDE DEF answer, later
    <3>6. answer.need \in Nat /\ later.need \in Nat
      BY <3>5 DEF Answers
    <3>7. promised' \in Nat /\ promised' <= later.need
      BY <3>1, <3>2, <3>5, <3>6 DEF Larger
    <3> QED BY <3>1, <3>2, <3>3, <3>7 DEF WalkInv, RequiredOf, required, later
  <2> QED BY <2>1, <2>2, <2>3 DEF WalkNext
<1>3. WalkInv => RequiredKeepsContract
  <2>1. SUFFICES ASSUME WalkInv PROVE RequiredKeepsContract
    OBVIOUS
  <2>2. /\ struct \in DOMAIN Schema /\ data \in Buffers
        /\ promised <= RequiredOf(struct, data).need
    BY <2>1 DEF WalkInv
  <2>3. Keeps(Functions[struct], Format[struct], FramingFloor(Schema[struct]), MaxBytes)
    BY <2>2, RequiredIsRight
  <2> QED BY <2>2, <2>3, LenIs DEF Keeps, RequiredKeepsContract, RequiredOf, LengthsOf
<1> QED BY <1>1, <1>2, <1>3, PTL DEF WalkSpec

=============================================================================
