------------------------------ MODULE MCRungs ------------------------------
(* Model-checking instances of rung 4, the framing question and the stream *)
(* readers of the four backends and the walker, and of rung 5, the pending *)
(* table.  For the readers a stream is given by the lengths of its         *)
(* messages, for the framing question by its bytes.                        *)
EXTENDS Rungs, RequiredWalk, SequencesExt

CONSTANTS
  Layout,                                  \* the lengths of the messages
  r1, r2, r3, r4, k1, k2, h1, h2

mcVars == <<rungsVars, walkVars>>

Total(s) == FoldLeft(LAMBDA a, b : a + b, 0, s)

(* Where the k-th message of the layout starts *)
StartOf(k) == Total(SubSeq(Layout, 1, k - 1))

(* Past the layout, and off a boundary, a message of one byte would start *)
MCLenAt(p) ==
  LET at == {k \in 1 .. Len(Layout) : StartOf(k) = p}
  IN IF at = {} THEN 1 ELSE Layout[CHOOSE k \in at : TRUE]

(* A one-byte head that says the length, or (at odd positions) a message   *)
(* that is delimited, of which `required` knows only that one more byte is *)
(* needed.                                                                 *)
MCKnownNeed(p, h) ==
  IF h = 0 THEN 1 ELSE IF p % 2 = 0 THEN MCLenAt(p) ELSE h + 1

(* Four messages that fit a buffer of four bytes, and one that does not *)
MCLayout == <<3, 2, 4, 2, 6>>
MCEnd == Total(Layout)

-----------------------------------------------------------------------------
(* Two requests that share a key, two that share a handle, and one whose   *)
(* key cannot be read                                                      *)
MCKeyOf == (r1 :> k1) @@ (r2 :> k1) @@ (r3 :> k2) @@ (r4 :> NoKey)
MCIdOf == (r1 :> h1) @@ (r2 :> h2) @@ (r3 :> h1) @@ (r4 :> h2)

-----------------------------------------------------------------------------
(* Structs of every kind of member, with one more behind the member that a *)
(* wrong cursor would misread.  A tree counts the trees in it, and an      *)
(* expression is one behind a byte, two, or a leaf.                        *)
M(kind, gap) == [kind |-> kind, gap |-> gap]
S(members, rest) == [members |-> members, rest |-> rest, tail |-> <<>>]
Pad(n) == M("pad", 0) @@ [align |-> n]
Nests(gap, s) == M("nested", gap) @@ [of |-> s]
RunOf(gap, s, ends) == M("run", gap) @@ [of |-> s, ends |-> ends]
OneOf(arms) == M("variant", 1) @@ [arms |-> arms]

Fixed(n) == S(<<>>, n)
Scalar(n) == [of |-> 0, size |-> n]
Arm(s) == [of |-> s, size |-> 0]

Since == <<[since |-> 1, adds |-> 1], [since |-> 2, adds |-> 2]>>

(* The structs that others contain or that contain themselves, by number *)
Item == 1
Number == 2
Word == 3
Tagged == 4
Pair == 5
Tree == 18
Expr == 19
Op == 20
Chain == 21

MCSchema ==
  <<S(<<M("counted", 1)>>, 0),
    S(<<M("varint", 0)>>, 0),
    S(<<M("until", 0)>>, 0),
    S(<<M("varint", 1)>>, 0),
    Fixed(2),
    S(<<M("counted", 1), Pad(4)>>, 0),
    S(<<M("counted", 1), Pad(2)>>, 1),
    S(<<M("until", 0), M("counted", 1)>>, 1),
    S(<<M("varint", 0), M("counted", 1), M("until", 0)>>, 0),
    S(<<Nests(1, Number), M("counted", 1)>>, 1),
    S(<<Nests(1, Item), Pad(2)>>, 1),
    S(<<RunOf(1, Item, "count"), M("varint", 0)>>, 1),
    S(<<RunOf(1, Number, "count")>>, 1),
    S(<<RunOf(0, Number, "delimiter"), M("varint", 0)>>, 1),
    S(<<RunOf(0, Pair, "condition")>>, 1),
    S(<<RunOf(0, Tagged, "condition"), M("until", 0)>>, 0),
    S(<<OneOf((0 :> Scalar(2)) @@ (1 :> Arm(Item)) @@ (2 :> Arm(Word))), Pad(2)>>, 1),
    S(<<RunOf(1, Tree, "count"), Pad(2)>>, 0),
    S(<<OneOf((0 :> Arm(Expr)) @@ (1 :> Arm(Op)) @@ (2 :> Scalar(1)))>>, 0),
    S(<<Nests(0, Expr), Nests(0, Expr)>>, 0),
    S(<<Pad(2), M("varint", 0), RunOf(0, Chain, "delimiter")>>, 0),
    [S(<<M("counted", 2)>>, 1) EXCEPT !.tail = Since],
    [Fixed(2) EXCEPT !.tail = Since]>>

MCInit ==
  /\ part \in {"held", "rust", "growing", "table", "required"}
  /\ RungsInit
  /\ IF part = "required" THEN WalkInit
     ELSE struct = Pair /\ data = <<>> /\ promised = 0

MCNext ==
  \/ RungsNext /\ UNCHANGED walkVars
  \/ part = "required" /\ WalkNext /\ UNCHANGED rungsVars

MCSpec == MCInit /\ [][MCNext]_mcVars /\ Pumped
=============================================================================
