----------------------------- MODULE Capability -----------------------------
(* The capability vectors of situc/capability.py, the requirements that    *)
(* requirements.py discharges against them and the changes that            *)
(* revision.py reports between two schemas.                                *)
(*                                                                         *)
(* A value is a place in its axis's weakening order, with parameters: the  *)
(* least and the worst size, in bits, of `size`, the boundary of `align`,  *)
(* the set of tags of `auth`, and what tells values apart elsewhere.       *)
EXTENDS Integers, Sequences, FiniteSetsExt

CONSTANTS Axes      \* the axes in use

(* Each axis in weakening order *)
DOMAINS ==
  [size |-> <<"Fixed", "Bounded", "Unbounded">>,
   offset |-> <<"AbsoluteStatic", "FrameStatic", "MessageStatic", "Dynamic",
                "DataPlaced", "Scanned">>,
   access |-> <<"Random", "Sequential">>,
   mutate |-> <<"InPlaceFixed", "InPlaceSlack", "Shifting",
                "RewriteRequired", "Immutable">>,
   address |-> <<"Stable", "FrameStable", "Unstable">>,
   align |-> <<"Aligned", "Unaligned">>,
   repr |-> <<"MemoryIdentical", "ValueConverted", "TextConverted",
              "ConditionallyConverted">>,
   atomic |-> <<"AtomicWord", "NonAtomic">>,
   canonical |-> <<"Canonical", "CanonicalGiven", "NonCanonical">>,
   stage |-> <<"CompileTime", "ParseTime", "TransformTime", "VerifyGated">>,
   auth |-> <<"Uncovered", "Covered">>,
   secrecy |-> <<"Public", "Secret">>,
   effect |-> <<"Pure", "EffectOnRead", "EffectOnWrite", "EffectBoth">>]

ASSUME AxesAssumption == Axes \subseteq DOMAIN DOMAINS

NUMERIC_STRENGTH == {"align"}
SET_VALUED == {"auth"}

(* A value without parameters, and one with them *)
Bare(base) == [base |-> base, params |-> <<>>]
With(base, params) == [base |-> base, params |-> params]
Covered(tags) == [base |-> "Covered", params |-> tags]

TagsOf(v) == IF v.base = "Covered" THEN v.params ELSE {}

rank(axis, v) ==
  CHOOSE i \in DOMAIN DOMAINS[axis] : DOMAINS[axis][i] = v.base

(* Both values carry a parameter that says how strong they are *)
BothNumbered(axis, v, w) ==
  axis \in NUMERIC_STRENGTH /\ v.params # <<>> /\ w.params # <<>>

is_at_least(axis, actual, required) ==
  \/ rank(axis, actual) < rank(axis, required)
  \/ /\ rank(axis, actual) = rank(axis, required)
     /\ BothNumbered(axis, actual, required) => actual.params[1] >= required.params[1]

(* Mutant: the stronger of two ranks *)
MeetStronger(axis, left, right) ==
  IF rank(axis, left) < rank(axis, right) THEN left ELSE right

(* The worst case of two values *)
meet_values(axis, left, right) ==
  IF rank(axis, left) # rank(axis, right)
  THEN IF rank(axis, left) > rank(axis, right) THEN left ELSE right
  ELSE IF BothNumbered(axis, left, right)
  THEN IF left.params[1] <= right.params[1] THEN left ELSE right
  ELSE IF axis \in SET_VALUED /\ left.base = "Covered"
  THEN Covered(TagsOf(left) \cup TagsOf(right))
  ELSE left

strongest == [axis \in Axes |-> Bare(DOMAINS[axis][1])]

meet(v, w) == [axis \in Axes |-> meet_values(axis, v[axis], w[axis])]

(* The meet of the vectors of a set of members *)
meet_all(vectors, members) ==
  FoldSet(LAMBDA m, v : meet(v, vectors[m]), strongest, members)

(* ForceAxes(v, w, axes): v, with the values of w on some axes *)
ForceAxes(v, w, axes) == [axis \in Axes |-> IF axis \in axes THEN w[axis] ELSE v[axis]]

-----------------------------------------------------------------------------
(* What a requirement asks of one axis.  Most ask for at least a value; an *)
(* exact one names the value.                                              *)
AtLeast(axis, v) == [axis |-> axis, required |-> v, exact |-> FALSE]
Exactly(axis, base) == [axis |-> axis, required |-> Bare(base), exact |-> TRUE]

(* The requirements: each is the set of what it asks.  no_alloc asks       *)
(* nothing of an axis.                                                     *)
PREDICATES(n) ==
  [absolute_static |-> {AtLeast("offset", Bare("AbsoluteStatic"))},
   static |-> {AtLeast("offset", Bare("FrameStatic"))},
   frame_static |-> {AtLeast("offset", Bare("FrameStatic"))},
   max_size |-> {AtLeast("size", With("Bounded", <<0, n>>))},
   in_place |-> {AtLeast("mutate", Bare("InPlaceSlack")),
                 Exactly("auth", "Uncovered")},
   in_place_dirty |-> {AtLeast("mutate", Bare("InPlaceSlack"))},
   no_tag_invalidation |-> {Exactly("auth", "Uncovered")},
   verify_gated |-> {Exactly("stage", "VerifyGated")},
   immutable |-> {Exactly("mutate", "Immutable")},
   stable_address |-> {AtLeast("address", Bare("Stable"))},
   random_access |-> {AtLeast("access", Bare("Random"))},
   canonical |-> {AtLeast("canonical", Bare("Canonical"))},
   deterministic_writer |-> {AtLeast("canonical", Bare("CanonicalGiven"))},
   atomic |-> {AtLeast("atomic", Bare("AtomicWord"))},
   memory_identical |-> {Exactly("repr", "MemoryIdentical")},
   uncovered |-> {AtLeast("auth", Bare("Uncovered"))},
   aligned |-> {AtLeast("align", With("Aligned", <<n>>))}]

(* The requirements that ask about the axes in use *)
Requirements(n) ==
  {demands \in {PREDICATES(n)[name] : name \in DOMAIN PREDICATES(n)} :
     \A d \in demands : d.axis \in Axes}

Worst(v) == v.params[Len(v.params)]

(* max_size compares the worst case; an unbounded one has none *)
WithinMaxSize(v, limit) == v.base # "Unbounded" /\ Worst(v) <= limit

Meets(v, demand) ==
  LET actual == v[demand.axis]
  IN IF demand.axis = "size" THEN WithinMaxSize(actual, Worst(demand.required))
     ELSE IF demand.exact THEN actual.base = demand.required.base
     ELSE is_at_least(demand.axis, actual, demand.required)

Discharged(v, demands) == \A d \in demands : Meets(v, d)

-----------------------------------------------------------------------------
(* Mutant: an alignment compared as if its parameter were no strength *)
ParameterChangeMoved(axis, was, now) ==
  IF axis = "size" /\ was.params # <<>> /\ now.params # <<>>
  THEN IF Worst(now) > Worst(was) THEN "weakened"
       ELSE IF Worst(now) < Worst(was) THEN "strengthened" ELSE "moved"
  ELSE "moved"

(* The change of a value whose place in the order stays *)
ParameterChange(axis, was, now) ==
  LET better == is_at_least(axis, now, was)
      worse == is_at_least(axis, was, now)
  IN IF BothNumbered(axis, was, now)
     THEN IF better /\ ~worse THEN "strengthened"
          ELSE IF worse /\ ~better THEN "weakened" ELSE "moved"
     ELSE IF axis = "size" /\ was.params # <<>> /\ now.params # <<>>
     THEN IF Worst(now) > Worst(was) THEN "weakened"
          ELSE IF Worst(now) < Worst(was) THEN "strengthened" ELSE "moved"
     ELSE "moved"

(* What compare says of one path and one axis, "same" where nothing *)
Change(axis, was, now) ==
  IF was = now THEN "same"
  ELSE IF rank(axis, now) > rank(axis, was) THEN "weakened"
  ELSE IF rank(axis, now) < rank(axis, was) THEN "strengthened"
  ELSE ParameterChange(axis, was, now)

=============================================================================
