------------------------------ MODULE Coverage ------------------------------
(***************************************************************************)
(* Which writes leave which obligation of a struct stale.                  *)
(*                                                                         *)
(* An obligation is a member whose stored bytes must agree with others: a  *)
(* tag or checksum over the regions it covers, or a field an invariant     *)
(* derives.  The struct is data: `schema` is any struct of a set, laid out *)
(* and joined to its coverage as situc/layout.py does it.  The second half *)
(* says what the bytes themselves depend on, which no pass of the compiler *)
(* computes, so that the two can be compared.                              *)
(***************************************************************************)
EXTENDS Naturals, FiniteSets

CONSTANTS
  Fields,   \* plain members, which have a setter
  Tags,     \* tags and checksums
  Derived,  \* fields that an invariant derives
  Regions,  \* authenticated and sealed regions
  Structs   \* the structs considered

Obligations == Tags \cup Derived
Members == Fields \cup Obligations

(* A struct: where each member is declared, the regions it sits in, the    *)
(* `covers` clause of each tag ({} when omitted), the members an invariant *)
(* takes the size or count of and those it takes the offset of, the        *)
(* members whose extent each member decides, the fields that its scattered *)
(* transform runs over, and the tags whose kernel the packed image carries.*)
StructType ==
  [place: [Members -> Nat], regions: [Members -> SUBSET Regions],
   covers: [Tags -> SUBSET Regions], extents: [Derived -> SUBSET Members],
   offsets: [Derived -> SUBSET Members], sizes: [Members -> SUBSET Members],
   masked: SUBSET Fields, computes: SUBSET Tags]

ASSUME KindsAssumption ==
  /\ Fields \cap Obligations = {}
  /\ Tags \cap Derived = {}

ASSUME StructsAssumption == Structs \subseteq StructType

VARIABLE schema  \* the struct of the message

(* ------------------- what the compiler says of a struct ---------------- *)

CoverageOf(s, t) == IF s.covers[t] = {} THEN Regions ELSE s.covers[t]

Inside(s, m, t) == s.regions[m] \cap CoverageOf(s, t) # {}

(* A tag does not cover itself, though it may sit in its own region *)
TagsOver(s, m) == {t \in Tags \ {m} : Inside(s, m, t)}

(* An invariant covers the members it names, other than derived ones *)
ReadBy(s, m) ==
  IF m \in Derived THEN {} ELSE {d \in Derived : m \in s.extents[d] \cup s.offsets[d]}

CoveredBy(s, m) == TagsOver(s, m) \cup ReadBy(s, m)

(* Innermost first: the narrower coverage, then the earlier declaration.   *)
(* A caller brings derived fields up to date before the tags over them.    *)
Before(s, o, p) ==
  \/ o \in Derived /\ p \in Tags
  \/ /\ {o, p} \subseteq Tags
     /\ LET wide(t) == Cardinality(CoverageOf(s, t))
        IN \/ wide(o) < wide(p)
           \/ wide(o) = wide(p) /\ s.place[o] < s.place[p]

(* What the checks ask of a struct: names are compared, never bytes *)
WellFormed(s) ==
  /\ \A t, u \in Tags :
       LET ct == CoverageOf(s, t)
           cu == CoverageOf(s, u)
       IN ct \cap cu = {} \/ ct \subseteq cu \/ cu \subseteq ct
  /\ \A d \in Derived : d \notin s.extents[d] \cup s.offsets[d]

(* The members a write to m moves: those after one whose extent m decides *)
Moved(s, m) == {x \in Members : \E run \in s.sizes[m] : s.place[run] < s.place[x]}

(* The offset is a constant of the struct *)
Static(s, m) == \A x \in Members : m \notin Moved(s, x)

(* A recompute is emitted when each offset the invariant asks for is one *)
Evaluable(s, d) == \A m \in s.offsets[d] : Static(s, m)

(* It stores at a constant offset: the emitter stops at any other field *)
HasAccessors(s) == \A d \in Derived : Evaluable(s, d) => Static(s, d)

(* What generated code, or the caller through a pointer, can bring up to date *)
Renewable(s) == Tags \cup {d \in Derived : Evaluable(s, d)}

(* -------------------- what the bytes really depend on ------------------ *)

(* A tag is over every byte in its coverage, over as many as the lengths   *)
(* in it say and wherever they put them, its own place included.  A        *)
(* derived field is over extents and offsets, and has a place of its own.  *)
(* A write that moves a member moves no bytes: it is read somewhere else.  *)
InputOf(s, o) ==
  IF o \in Tags
  THEN {m \in Members \ {o} :
          \/ Inside(s, m, o)
          \/ o \in Moved(s, m)
          \/ \E x \in s.sizes[m] \cup Moved(s, m) : Inside(s, x, o)}
  ELSE {m \in Members :
          \/ o \in Moved(s, m)
          \/ s.sizes[m] \cap s.extents[o] # {}
          \/ Moved(s, m) \cap s.offsets[o] # {}}

(* What a write to member m leaves stale *)
Staled(s, m) == {o \in Obligations : m \in InputOf(s, o)}

(* The coverage names every input of o: a setter marks what its write      *)
(* leaves stale, and where bytes that can be renewed are input, whatever   *)
(* marks the inner obligation marks this one as well and this one comes    *)
(* later in the listed order.                                              *)
InputsNamed(s, o) ==
  \A m \in InputOf(s, o) :
    \/ m \in Fields /\ o \in CoveredBy(s, m)
    \/ m \in Obligations \ Renewable(s)
    \/ /\ m \in Renewable(s)
       /\ Before(s, m, o)
       /\ \A f \in Fields : m \in CoveredBy(s, f) => o \in CoveredBy(s, f)

(* A setter is emitted for an obligation that decides an extent, though it *)
(* has no mark for the obligation itself: no struct with one is sound.     *)
Sound(s) == \A o \in Obligations : s.sizes[o] = {} /\ InputsNamed(s, o)

(* Only a setter tells the message that members have moved *)
OnlySettersMove(s) == \A m \in s.masked \cup Obligations : s.sizes[m] = {}
=============================================================================
