--------------------------- MODULE CoverageProofs ---------------------------
(***************************************************************************)
(* What is proved of CoveredMessage and of EditorDocument, for any sets of *)
(* members and regions and any set of structs.  For the dirty word more    *)
(* is needed than that what is stale is marked: an obligation whose bytes  *)
(* are input to another has the other marked too, since finalizing the     *)
(* inner one is what makes the outer one stale.                            *)
(***************************************************************************)
EXTENDS CoveredMessage, EditorDocument, TLAPS

(* What is marked, of which obligations the marks are closed *)
ClosedIn(s, marks) == \A p \in marks \cap Renewable(s) : Staled(s, p) \subseteq marks

(* No obligation that can be renewed comes before o *)
FirstIn(s, marks, o) == \A p \in marks \cap Renewable(s) : ~Before(s, p, o)

(* The tag just written agrees, and nothing marked comes before it *)
WrittenAgrees ==
  written \in Tags => written \notin stale /\ FirstIn(schema, dirty, written)

MarkInv ==
  /\ schema \in Structs
  /\ dirty \subseteq Obligations
  /\ stale \subseteq dirty
  /\ ClosedIn(schema, dirty)
  /\ WrittenAgrees

(* What covers a member is an obligation *)
LEMMA CoveredByObligations ==
  ASSUME NEW s, NEW m
  PROVE  CoveredBy(s, m) \subseteq Obligations
  BY DEF CoveredBy, TagsOver, ReadBy, Obligations

(* A member that decides no extent moves nothing *)
LEMMA NothingMoved ==
  ASSUME NEW s, NEW m, s.sizes[m] = {}
  PROVE  Moved(s, m) = {}
  BY DEF Moved

(* In a sound struct no obligation's own bytes are input to it *)
LEMMA NotItsOwnInput ==
  ASSUME NEW s, Sound(s), NEW o \in Obligations
  PROVE  o \notin Staled(s, o)
  <1>1. CASE o \in Tags
    BY <1>1 DEF Staled, InputOf
  <1>2. CASE o \notin Tags
    <2>1. s.sizes[o] = {} /\ Moved(s, o) = {}
      BY NothingMoved DEF Sound
    <2>. QED BY <1>2, <2>1 DEF Staled, InputOf
  <1>. QED BY <1>1, <1>2

(* In a sound struct a field write marks everything it leaves stale *)
LEMMA FieldMarks ==
  ASSUME NEW s, Sound(s), NEW x \in Fields
  PROVE  Staled(s, x) \subseteq CoveredBy(s, x)
  <1>1. SUFFICES ASSUME NEW o \in Staled(s, x)
                 PROVE  o \in CoveredBy(s, x)
    OBVIOUS
  <1>2. o \in Obligations /\ x \in InputOf(s, o)
    BY DEF Staled
  <1>3. x \notin Obligations /\ x \notin Renewable(s)
    BY KindsAssumption DEF Renewable, Obligations
  <1>. QED BY <1>2, <1>3 DEF Sound, InputsNamed

(* In a sound struct, whatever marks an inner obligation marks the outer   *)
(* one, which comes later.                                                 *)
LEMMA OuterFollows ==
  ASSUME NEW s, Sound(s), NEW p \in Renewable(s), NEW o \in Staled(s, p)
  PROVE  /\ Before(s, p, o)
         /\ \A x \in Fields : p \in CoveredBy(s, x) => o \in CoveredBy(s, x)
  <1>1. o \in Obligations /\ p \in InputOf(s, o)
    BY DEF Staled
  <1>2. p \notin Fields
    BY KindsAssumption DEF Renewable, Obligations
  <1>. QED BY <1>1, <1>2 DEF Sound, InputsNamed

(* A write of some fields and the mark of their coverage keep what is      *)
(* stale marked, and the marks closed.                                     *)
LEMMA WriteKeeps ==
  ASSUME MarkInv, Sound(schema), NEW spans \in SUBSET Fields,
         stale' = stale \cup UNION {Staled(schema, x) : x \in spans},
         written' = Untouched,
         dirty' = dirty \cup Marked(spans), schema' = schema
  PROVE  MarkInv'
  <1>1. Marked(spans) \subseteq Obligations
    BY CoveredByObligations DEF Marked
  <1>2. UNION {Staled(schema, x) : x \in spans} \subseteq Marked(spans)
    BY FieldMarks DEF Marked
  <1>3. stale' \subseteq dirty'
    BY <1>2 DEF MarkInv
  <1>4. ClosedIn(schema, dirty')
    <2>1. SUFFICES ASSUME NEW p \in dirty' \cap Renewable(schema),
                          NEW o \in Staled(schema, p)
                   PROVE  o \in dirty'
      BY DEF ClosedIn
    <2>2. CASE p \in dirty
      BY <2>2 DEF MarkInv, ClosedIn
    <2>3. CASE p \in Marked(spans)
      <3>1. PICK x \in spans : p \in CoveredBy(schema, x)
        BY <2>3 DEF Marked
      <3>2. o \in CoveredBy(schema, x)
        BY <3>1, <2>3, OuterFollows
      <3>. QED BY <3>2 DEF Marked
    <2>. QED BY <2>2, <2>3
  <1>5. WrittenAgrees'
    BY UntouchedAssumption DEF WrittenAgrees
  <1>. QED BY <1>1, <1>3, <1>4, <1>5 DEF MarkInv

(* The stored bytes of a due obligation are renewed: what that leaves      *)
(* stale is marked, the obligation itself is not stale, and taking its     *)
(* mark away leaves the marks closed.                                      *)
LEMMA RenewalKeeps ==
  ASSUME MarkInv, Sound(schema), NEW o \in dirty \cap Renewable(schema),
         FirstIn(schema, dirty, o)
  PROVE  /\ Renewed(o) \subseteq dirty \ {o}
         /\ ClosedIn(schema, dirty \ {o})
  <1>1. o \in Obligations
    BY DEF MarkInv
  <1>2. o \notin Staled(schema, o)
    BY <1>1, NotItsOwnInput
  <1>3. Renewed(o) \subseteq dirty \ {o}
    BY <1>2 DEF MarkInv, ClosedIn, Renewed
  <1>4. ASSUME NEW p \in (dirty \ {o}) \cap Renewable(schema)
        PROVE  Staled(schema, p) \subseteq dirty \ {o}
    <2>1. o \notin Staled(schema, p)
      BY OuterFollows DEF FirstIn
    <2>. QED BY <2>1 DEF MarkInv, ClosedIn
  <1>. QED BY <1>3, <1>4 DEF ClosedIn

(* Every step keeps the invariant *)
LEMMA MarkStep ==
  ASSUME MarkInv, \A s \in Structs : Sound(s), [Next]_vars
  PROVE  MarkInv'
  <1>0. Sound(schema)
    BY DEF MarkInv
  <1>1. CASE Bind
    BY <1>1, UntouchedAssumption DEF Bind, MarkInv, ClosedIn, WrittenAgrees
  <1>2. CASE UNCHANGED <<schema, stale, dirty, written>>
    BY <1>2 DEF MarkInv, WrittenAgrees
  <1>3. ASSUME NEW x \in Fields, Set(x) PROVE MarkInv'
    BY <1>0, <1>3, WriteKeeps DEF Set, Stored
  <1>4. ASSUME NEW x \in Fields \cup Derived, SetShifting(x) PROVE MarkInv'
    <2>1. x \in Fields /\ {x} \cap Derived = {}
      BY <1>0, <1>4, KindsAssumption DEF SetShifting, Sound, Obligations
    <2>2. stale' = stale \cup UNION {Staled(schema, y) : y \in {x}}
      BY <1>4, <2>1 DEF SetShifting
    <2>. QED BY <1>0, <1>4, <2>1, <2>2, WriteKeeps DEF SetShifting
  <1>5. ASSUME Transform PROVE MarkInv'
    <2>1. schema.masked \in SUBSET Fields
      BY StructsAssumption DEF MarkInv, StructType
    <2>. QED BY <1>0, <1>5, <2>1, WriteKeeps DEF Transform, Stored
  <1>6. ASSUME NEW x \in Derived, Recompute(x) PROVE MarkInv'
    <2>1. /\ Renewed(x) \subseteq dirty \ {x}
          /\ ClosedIn(schema, dirty \ {x})
      BY <1>0, <1>6, RenewalKeeps DEF Recompute, Due, FirstIn
    <2>2. WrittenAgrees'
      BY <1>6, UntouchedAssumption DEF Recompute, WrittenAgrees
    <2>. QED BY <1>6, <2>1, <2>2 DEF Recompute, MarkInv
  <1>7. ASSUME NEW x \in Tags, WriteTag(x) PROVE MarkInv'
    <2>1. x \in dirty \cap Renewable(schema) /\ FirstIn(schema, dirty, x)
      BY <1>7 DEF WriteTag, Due, FirstIn
    <2>2. Renewed(x) \subseteq dirty \ {x}
      BY <1>0, <2>1, RenewalKeeps
    <2>3. WrittenAgrees'
      BY <1>7, <2>1, <2>2 DEF WriteTag, WrittenAgrees
    <2>. QED BY <1>7, <2>2, <2>3 DEF WriteTag, MarkInv
  <1>8. ASSUME NEW x \in Tags, Finalize(x) PROVE MarkInv'
    <2>1. x \notin stale /\ FirstIn(schema, dirty, x)
      BY <1>8 DEF Finalize, MarkInv, WrittenAgrees
    <2>2. ClosedIn(schema, dirty \ {x})
      <3>1. CASE x \in dirty
        BY <1>0, <2>1, <3>1, RenewalKeeps DEF Renewable
      <3>2. CASE x \notin dirty
        <4>1. dirty \ {x} = dirty
          BY <3>2
        <4>. QED BY <4>1 DEF MarkInv
      <3>. QED BY <3>1, <3>2
    <2>3. WrittenAgrees'
      BY <1>8, <2>1 DEF Finalize, WrittenAgrees, FirstIn
    <2>. QED BY <1>8, <2>1, <2>2, <2>3 DEF Finalize, MarkInv
  <1>. QED BY <1>1, <1>2, <1>3, <1>4, <1>5, <1>6, <1>7, <1>8
       DEF Next, Acquire, vars, msgVars

(* THEOREM  In every struct whose coverage names what its obligations      *)
(* depend on, extents and places included, nothing is out of date without  *)
(* its bit in the dirty word: the masks the setters mark with, and a       *)
(* caller that works through them in the listed order, are enough          *)
(* (runtime/c/situ.h, situc/codegen/c/emit.py).                            *)
THEOREM DirtyWordIsSound ==
  ASSUME \A s \in Structs : Sound(s)
  PROVE  Spec => []StaleIsMarked
  <1>1. Init => MarkInv
    BY UntouchedAssumption DEF Init, MarkInv, ClosedIn, WrittenAgrees
  <1>2. MarkInv /\ [Next]_vars => MarkInv'
    BY MarkStep
  <1>3. MarkInv => StaleIsMarked
    BY DEF MarkInv, StaleIsMarked
  <1>. QED BY <1>1, <1>2, <1>3, PTL DEF Spec

(* The generation runs around 1 .. Wrap - 1.  The kept view is as many     *)
(* moves behind it as it has been kept across, or one turn fewer; so for   *)
(* less than a whole turn the two differ.                                  *)
ViewInv ==
  /\ schema \in Structs
  /\ generation \in 1 .. Wrap - 1
  /\ view \in [generation: 0 .. Wrap - 1, moves: Nat, present: BOOLEAN]
  /\ view.present =>
       /\ view.generation # 0
       /\ view.moves < Wrap - 1 =>
            \/ generation = view.generation + view.moves
            \/ generation = view.generation + view.moves - (Wrap - 1)

(* One shifting write counts one more, and from the last value goes to 1 *)
LEMMA TouchCounts ==
  ASSUME NEW w \in Nat, NEW k \in 1 .. w - 1
  PROVE  /\ k + 1 < w => (k + 1) % w = k + 1
         /\ k + 1 = w => (k + 1) % w = 0
  BY SMTT(30)

LEMMA TouchedIs ==
  ASSUME generation \in 1 .. Wrap - 1
  PROVE  Touched = IF generation + 1 = Wrap THEN 1 ELSE generation + 1
  BY WrapAssumption, TouchCounts DEF Touched

(* A move of members, with the bump *)
LEMMA MoveKeeps ==
  ASSUME ViewInv, NEW members, Carried(members),
         \E m \in members : schema.sizes[m] # {},
         generation' = Touched, schema' = schema
  PROVE  ViewInv'
  <1>1. Touched = IF generation + 1 = Wrap THEN 1 ELSE generation + 1
    BY TouchedIs DEF ViewInv
  <1>2. generation' \in 1 .. Wrap - 1
    BY <1>1, WrapAssumption DEF ViewInv
  <1>3. CASE view.present
    <2>1. view' = [view EXCEPT !.moves = view.moves + 1]
      BY <1>3 DEF Carried
    <2>2. /\ view' \in [generation: 0 .. Wrap - 1, moves: Nat, present: BOOLEAN]
          /\ view'.generation = view.generation /\ view'.moves = view.moves + 1
      BY <2>1 DEF ViewInv
    <2>3. view.moves + 1 < Wrap - 1 =>
            \/ generation' = view.generation + (view.moves + 1)
            \/ generation' = view.generation + (view.moves + 1) - (Wrap - 1)
      BY <1>1, <1>3, WrapAssumption DEF ViewInv
    <2>. QED BY <1>2, <1>3, <2>2, <2>3 DEF ViewInv
  <1>4. CASE ~view.present
    <2>1. view' = view
      BY <1>4 DEF Carried
    <2>. QED BY <1>2, <1>4, <2>1 DEF ViewInv
  <1>. QED BY <1>3, <1>4

(* A write that moves nothing leaves the view as it is *)
LEMMA NothingCarried ==
  ASSUME NEW members, Carried(members), \A m \in members : schema.sizes[m] = {}
  PROVE  view' = view
  BY DEF Carried

LEMMA ViewStep ==
  ASSUME ViewInv, \A s \in Structs : OnlySettersMove(s), [Next]_vars
  PROVE  ViewInv'
  <1>0. \A m \in schema.masked \cup Obligations : schema.sizes[m] = {}
    BY DEF ViewInv, OnlySettersMove
  <1>1. CASE Bind
    BY <1>1, WrapAssumption DEF Bind, ViewInv
  <1>2. CASE Acquire
    BY <1>2, WrapAssumption DEF Acquire, ViewInv
  <1>3. ASSUME NEW m \in Fields \cup Derived, SetShifting(m) PROVE ViewInv'
    BY <1>3, MoveKeeps DEF SetShifting
  <1>4. CASE UNCHANGED <<schema, generation, view>>
    BY <1>4 DEF ViewInv
  <1>5. ASSUME NEW x \in Fields, Set(x) PROVE ViewInv'
    BY <1>4, <1>5, NothingCarried DEF Set, Stored
  <1>6. CASE Transform
    BY <1>0, <1>4, <1>6, NothingCarried DEF Transform, Stored
  <1>7. ASSUME NEW x \in Derived, Recompute(x) PROVE ViewInv'
    <2>1. \A m \in {x} : schema.sizes[m] = {}
      BY <1>0 DEF Obligations
    <2>. QED BY <1>4, <1>7, <2>1, NothingCarried DEF Recompute
  <1>. QED BY <1>1, <1>2, <1>3, <1>4, <1>5, <1>6, <1>7
       DEF Next, WriteTag, Finalize, vars, msgVars

(* THEOREM  Where only setters move members, a view that passes            *)
(* situ_view_check is of the present layout, unless it was kept across a   *)
(* whole turn of the generation: for every modulus, the wrap and the       *)
(* skipped 0 included (runtime/c/situ.c situ_msg_touch).                   *)
THEOREM ViewsAreCaught ==
  ASSUME \A s \in Structs : OnlySettersMove(s)
  PROVE  Spec => []StaleViewCaught
  <1>1. Init => ViewInv
    BY WrapAssumption DEF Init, ViewInv, NoView
  <1>2. ViewInv /\ [Next]_vars => ViewInv'
    BY ViewStep
  <1>3. ViewInv => StaleViewCaught
    <2>1. SUFFICES ASSUME ViewInv, Live PROVE StaleViewCaught
      BY DEF StaleViewCaught
    <2>2. view # NoView
      BY <2>1 DEF ViewInv, Live, NoView
    <2>3. view.present /\ view.moves < Wrap - 1 => view.moves = 0
      BY <2>1, WrapAssumption DEF ViewInv, Live
    <2>. QED BY <2>2, <2>3 DEF StaleViewCaught
  <1>. QED BY <1>1, <1>2, <1>3, PTL DEF Spec

-----------------------------------------------------------------------------
(* The editor: the notes of `set` are truthful in every struct where sums  *)
(* and coverage are the same bytes and an inner tag is declared before the *)
(* tags its bytes are input to.                                            *)
(* Part way through a walk: a tag that is wrong without a note is one the  *)
(* walk has still to come to, since it is over the member that was written *)
StillToCome ==
  \A t \in wrong \cap Tags :
    t \in noted \/ (edited # NoField /\ t \in left /\ Inside(schema, edited, t))

(* A tag nobody can compute has its note once the walk is past it *)
Reported ==
  edited # NoField =>
    \A t \in Tags \ left :
      Inside(schema, edited, t) /\ t \notin schema.computes => t \in noted

(* The walk has passed the earlier declarations *)
InOrder ==
  /\ left \subseteq Tags
  /\ \A t \in Tags \ left, u \in left : schema.place[t] <= schema.place[u]

WalkInv ==
  /\ schema \in Structs
  /\ edited \in Fields \cup {NoField}
  /\ StillToCome
  /\ Reported
  /\ InOrder

(* What a tag's place is *)
LEMMA PlaceIsNat ==
  ASSUME NEW s \in Structs, NEW t \in Tags
  PROVE  s.place[t] \in Nat
  BY StructsAssumption DEF StructType, Members, Obligations

(* A fixed-size field is input to the tags it is inside, and no others *)
LEMMA FieldStales ==
  ASSUME NEW s, NEW x \in Fields, s.sizes[x] = {}, NEW t \in Tags
  PROVE  t \in Staled(s, x) <=> Inside(s, x, t)
  <1>1. x # t
    BY KindsAssumption DEF Obligations
  <1>2. Moved(s, x) = {}
    BY NothingMoved
  <1>. QED BY <1>1, <1>2 DEF Staled, InputOf, Members, Obligations

(* `set` stores the member and starts the walk, if it is covered *)
LEMMA SetKeeps ==
  ASSUME WalkInv, NEW x \in Fields, SetField(x)
  PROVE  WalkInv'
  <1>1. \A t \in Tags : t \in Staled(schema, x) <=> Inside(schema, x, t)
    BY FieldStales DEF SetField
  <1>2. \A t \in wrong \cap Tags : t \in noted
    BY DEF WalkInv, StillToCome, SetField
  <1>3. \A t \in Tags : Inside(schema, x, t) <=> t \in TagsOver(schema, x)
    <2>1. x \notin Tags
      BY KindsAssumption DEF Obligations
    <2>. QED BY <2>1 DEF TagsOver
  <1>4. CASE CoveredBy(schema, x) = {}
    <2>1. \A t \in Tags : t \notin Staled(schema, x)
      BY <1>1, <1>3, <1>4 DEF CoveredBy
    <2>2. \A t \in wrong' \cap Tags : t \in noted'
      BY <1>2, <2>1 DEF SetField
    <2>. QED BY <1>4, <2>2 DEF SetField, WalkInv, StillToCome, Reported, InOrder
  <1>5. CASE CoveredBy(schema, x) # {}
    <2>1. edited' = x /\ left' = Tags /\ schema' = schema /\ noted' = noted
      BY <1>5 DEF SetField
    <2>2. StillToCome'
      <3>1. SUFFICES ASSUME NEW t \in wrong' \cap Tags, t \notin noted
                     PROVE  Inside(schema, x, t)
        BY <2>1, NoFieldAssumption DEF StillToCome, Inside, CoverageOf
      <3>2. t \in Staled(schema, x)
        BY <1>2, <3>1 DEF SetField
      <3>. QED BY <1>1, <3>2
    <2>. QED BY <2>1, <2>2 DEF WalkInv, Reported, InOrder
  <1>. QED BY <1>4, <1>5

(* One tag of the walk: skipped, reported or computed *)
LEMMA WalkKeeps ==
  ASSUME WalkInv, EditorSound(schema), NEW t \in Tags, WalkTag(t)
  PROVE  WalkInv'
  <1>1. /\ schema' = schema /\ edited \in Fields /\ left' = left \ {t}
        /\ edited # NoField /\ t \in left
    BY DEF WalkTag, WalkInv
  <1>2. InOrder'
    <2>1. SUFFICES ASSUME NEW x \in Tags \ left', NEW u \in left'
                   PROVE  schema.place[x] <= schema.place[u]
      BY <1>1 DEF InOrder, WalkInv
    <2>. QED BY <1>1, <2>1 DEF WalkTag, WalkInv, InOrder
  <1>3. \A x \in Tags : Spans(schema, x, edited) <=> Inside(schema, edited, x)
    <2>1. edited \notin Tags /\ edited \in Members
      BY <1>1, KindsAssumption DEF Obligations, Members
    <2>. QED BY <2>1 DEF EditorSound, SumIsCoverage
  <1>4. /\ \A x \in wrong' \cap Tags :
             x \in noted' \/ (x \in left' /\ Inside(schema, edited, x))
        /\ \A x \in Tags \ left' :
             Inside(schema, edited, x) /\ x \notin schema.computes => x \in noted'
    <2>1. CASE ~Spans(schema, t, edited) /\ Skip(t)
      BY <1>1, <1>3, <2>1 DEF Skip, WalkInv, StillToCome, Reported
    <2>2. CASE Spans(schema, t, edited) /\ Report(t)
      BY <1>1, <2>2 DEF Report, WalkInv, StillToCome, Reported
    <2>3. CASE Spans(schema, t, edited) /\ t \in schema.computes /\ Compute(t)
      <3>1. Compute(t)
        BY <2>3
      <3>2. /\ wrong' = (wrong \ {t}) \cup Staled(schema, t)
            /\ noted' = noted \ {t}
        BY <3>1 DEF Compute, EditorSound
      <3>3. t \notin Staled(schema, t)
        BY DEF Staled, InputOf
      <3>4. ASSUME NEW x \in Staled(schema, t) \cap Tags
            PROVE  x \in noted' \/ (x \in left' /\ Inside(schema, edited, x))
        <4>1. t \in schema.computes \cap InputOf(schema, x) /\ x # t
          BY <2>3, <3>3, <3>4 DEF Staled
        <4>2. Inside(schema, edited, x)
          BY <1>1, <1>3, <2>3, <4>1 DEF EditorSound
        <4>3. CASE x \in schema.computes
          <5>1. schema.place[t] < schema.place[x]
            BY <4>1, <4>3 DEF EditorSound
          <5>2. x \in left
            BY <5>1, PlaceIsNat DEF WalkInv, InOrder, WalkTag
          <5>. QED BY <1>1, <4>1, <4>2, <5>2
        <4>4. CASE x \notin schema.computes
          <5>1. CASE x \in left
            BY <1>1, <4>1, <4>2, <5>1
          <5>2. CASE x \notin left
            BY <4>1, <4>2, <4>4, <5>2, <3>2 DEF WalkInv, Reported, WalkTag
          <5>. QED BY <5>1, <5>2
        <4>. QED BY <4>3, <4>4
      <3>5. \A x \in Tags \ left' :
              Inside(schema, edited, x) /\ x \notin schema.computes => x \in noted'
        BY <1>1, <2>3, <3>2 DEF WalkInv, Reported, WalkTag
      <3>. QED BY <1>1, <3>2, <3>4, <3>5 DEF WalkInv, StillToCome
    <2>. QED BY <2>1, <2>2, <2>3 DEF WalkTag, Walk
  <1>5. CASE left = {t}
    <2>1. edited' = NoField /\ left' = {}
      BY <1>1, <1>5 DEF WalkTag
    <2>. QED BY <1>1, <1>2, <1>4, <2>1 DEF WalkInv, StillToCome, Reported
  <1>6. CASE left # {t}
    <2>1. edited' = edited
      BY <1>6 DEF WalkTag
    <2>2. StillToCome' /\ Reported'
      BY <1>1, <1>4, <2>1, NoFieldAssumption
      DEF StillToCome, Reported, Inside, CoverageOf
    <2>. QED BY <1>1, <1>2, <2>1, <2>2 DEF WalkInv
  <1>. QED BY <1>5, <1>6

(* THEOREM  In every such struct the notes are truthful: when `set` has    *)
(* returned, each tag that no longer matches was reported as stale         *)
(* (editor/document.py set, _recompute).                                   *)
THEOREM NotesStayTruthful ==
  ASSUME \A s \in Structs : EditorSound(s)
  PROVE  EditorSpec => []NotesTruthful
  <1>1. EditorInit => WalkInv
    BY DEF EditorInit, WalkInv, StillToCome, Reported, InOrder
  <1>2. WalkInv /\ [EditorNext]_<<schema, editorVars>> => WalkInv'
    <2>1. SUFFICES ASSUME WalkInv, [EditorNext]_<<schema, editorVars>>
                   PROVE  WalkInv'
      OBVIOUS
    <2>2. CASE UNCHANGED <<schema, editorVars>>
      BY <2>1, <2>2 DEF editorVars, WalkInv, StillToCome, Reported, InOrder,
                        Inside, CoverageOf
    <2>3. ASSUME NEW x \in Fields, SetField(x) PROVE WalkInv'
      BY <2>1, <2>3, SetKeeps
    <2>4. ASSUME NEW t \in Tags, WalkTag(t) PROVE WalkInv'
      <3>1. EditorSound(schema)
        BY <2>1 DEF WalkInv
      <3>. QED BY <2>1, <2>4, <3>1, WalkKeeps
    <2>. QED BY <2>1, <2>2, <2>3, <2>4 DEF EditorNext
  <1>3. WalkInv => NotesTruthful
    BY DEF WalkInv, StillToCome, NotesTruthful
  <1>. QED BY <1>1, <1>2, <1>3, PTL DEF EditorSpec
=============================================================================
