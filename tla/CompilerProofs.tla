--------------------------- MODULE CompilerProofs ---------------------------
(* Of the compiler's passes: that what a struct is said to meet every      *)
(* member of it meets, that the comparison of two revisions reports what   *)
(* the requirements would refuse, and that the expansion of imports has    *)
(* every declaration once and in order; for every axis, value, number,     *)
(* struct and graph of imports.                                            *)
EXTENDS SchemaGate, Imports, FiniteSetTheorems, SequenceTheorems,
        WellFoundedInduction, TLAPS

(* A vector has a value on every axis *)
IsVector(v) ==
  /\ v = [axis \in Axes |-> v[axis]]
  /\ \A axis \in Axes : IsValue(axis, v[axis])

AreVectors(vs) ==
  /\ vs = [m \in Entries |-> vs[m]]
  /\ \A m \in Entries : IsVector(vs[m])

(* The vectors of a struct and of a field of its type are the meet of the  *)
(* members' vectors, on the axes that are not the struct's own             *)
SpeaksOfMembers ==
  \A axis \in Unforced :
    /\ axis # "auth" => total[axis] = meet_all(vector, Entries)[axis]
    /\ field[axis] = meet_values(axis, own[axis], meet_all(vector, Entries)[axis])

(* The vectors of both revisions are made of values that the layout and    *)
(* the rows give: an alignment in them always says its boundary, without   *)
(* which compare calls a lost alignment "moved".  A resolved struct speaks *)
(* of the members that it has now.                                         *)
GateInv ==
  /\ AreVectors(vector) /\ IsVector(own)
  /\ old # <<>> => AreVectors(old)
  /\ resolved => SpeaksOfMembers

-----------------------------------------------------------------------------
(* A rank is the place of the value's base in the weakening order of its   *)
(* axis (rank in capability.py).                                           *)
LEMMA RankIsPlace ==
  ASSUME NEW axis \in Axes, NEW v, IsValue(axis, v)
  PROVE  /\ rank(axis, v) \in DOMAIN DOMAINS[axis]
         /\ DOMAINS[axis][rank(axis, v)] = v.base
BY DEF rank, IsValue

(* The weakening order of an axis is a finite sequence of at least one     *)
(* value (DOMAINS in capability.py).                                       *)
LEMMA OrdersAreNotEmpty ==
  ASSUME NEW axis \in Axes
  PROVE  DOMAIN DOMAINS[axis] \subseteq Nat \ {0} /\ 1 \in DOMAIN DOMAINS[axis]
<1>1. DOMAIN DOMAINS =
        {"size", "offset", "access", "mutate", "address", "align", "repr",
         "atomic", "canonical", "stage", "auth", "secrecy", "effect"}
  BY DEF DOMAINS
<1>2. DOMAIN DOMAINS["size"] \subseteq Nat \ {0} /\ 1 \in DOMAIN DOMAINS["size"]
  BY DEF DOMAINS
<1>3. DOMAIN DOMAINS["offset"] \subseteq Nat \ {0} /\ 1 \in DOMAIN DOMAINS["offset"]
  BY DEF DOMAINS
<1>4. DOMAIN DOMAINS["access"] \subseteq Nat \ {0} /\ 1 \in DOMAIN DOMAINS["access"]
  BY DEF DOMAINS
<1>5. DOMAIN DOMAINS["mutate"] \subseteq Nat \ {0} /\ 1 \in DOMAIN DOMAINS["mutate"]
  BY DEF DOMAINS
<1>6. DOMAIN DOMAINS["address"] \subseteq Nat \ {0} /\ 1 \in DOMAIN DOMAINS["address"]
  BY DEF DOMAINS
<1>7. DOMAIN DOMAINS["align"] \subseteq Nat \ {0} /\ 1 \in DOMAIN DOMAINS["align"]
  BY DEF DOMAINS
<1>8. DOMAIN DOMAINS["repr"] \subseteq Nat \ {0} /\ 1 \in DOMAIN DOMAINS["repr"]
  BY DEF DOMAINS
<1>9. DOMAIN DOMAINS["atomic"] \subseteq Nat \ {0} /\ 1 \in DOMAIN DOMAINS["atomic"]
  BY DEF DOMAINS
<1>10. DOMAIN DOMAINS["canonical"] \subseteq Nat \ {0} /\ 1 \in DOMAIN DOMAINS["canonical"]
  BY DEF DOMAINS
<1>11. DOMAIN DOMAINS["stage"] \subseteq Nat \ {0} /\ 1 \in DOMAIN DOMAINS["stage"]
  BY DEF DOMAINS
<1>12. DOMAIN DOMAINS["auth"] \subseteq Nat \ {0} /\ 1 \in DOMAIN DOMAINS["auth"]
  BY DEF DOMAINS
<1>13. DOMAIN DOMAINS["secrecy"] \subseteq Nat \ {0} /\ 1 \in DOMAIN DOMAINS["secrecy"]
  BY DEF DOMAINS
<1>14. DOMAIN DOMAINS["effect"] \subseteq Nat \ {0} /\ 1 \in DOMAIN DOMAINS["effect"]
  BY DEF DOMAINS
<1> QED
  BY AxesAssumption, <1>1, <1>2, <1>3, <1>4, <1>5, <1>6, <1>7,
     <1>8, <1>9, <1>10, <1>11, <1>12, <1>13, <1>14

(* Ranks are integers (rank in capability.py). *)
LEMMA RankIsInt ==
  ASSUME NEW axis \in Axes, NEW v, IsValue(axis, v)
  PROVE  rank(axis, v) \in Nat
BY RankIsPlace, OrdersAreNotEmpty

(* Two values of one rank have one base (rank in capability.py). *)
LEMMA OneRankOneBase ==
  ASSUME NEW axis \in Axes, NEW v, NEW w, IsValue(axis, v), IsValue(axis, w),
         rank(axis, v) = rank(axis, w)
  PROVE  v.base = w.base
BY RankIsPlace

(* What a requirement asks of the two axes whose values carry numbers: at  *)
(* most its argument for `max_size`, at least its argument for `aligned`   *)
(* (PREDICATES in requirements.py).                                        *)
LEMMA DemandNumbers ==
  ASSUME NEW d \in AllDemands
  PROVE  /\ d.axis \in Axes
         /\ d.axis = "size" => Worst(d.required) \in Nat
         /\ d.axis = "align" =>
              /\ ~d.exact /\ d.required.base = "Aligned"
              /\ d.required.params \in Seq(Nat) /\ d.required.params # <<>>
<1>1. PICK n \in Numbers : \E demands \in Requirements(n) : d \in demands
  BY DEF AllDemands
<1>2. PICK name \in DOMAIN PREDICATES(n) : d \in PREDICATES(n)[name]
  BY <1>1 DEF Requirements
<1>3. d.axis \in Axes
  BY <1>1 DEF Requirements
<1>4. n \in Nat
  BY NumbersAssumption
<1>5. \/ d \in {AtLeast("size", With("Bounded", <<0, n>>)),
                AtLeast("align", With("Aligned", <<n>>))}
      \/ d.axis \notin {"size", "align"}
  BY <1>2 DEF PREDICATES, AtLeast, Exactly
<1>6. CASE d = AtLeast("size", With("Bounded", <<0, n>>))
  <2>1. d.required.params = <<0, n>> /\ d.axis = "size"
    BY <1>6 DEF AtLeast, With
  <2>2. Worst(d.required) = n
    BY <2>1 DEF Worst
  <2> QED
    BY <1>3, <1>4, <2>1, <2>2
<1>7. CASE d = AtLeast("align", With("Aligned", <<n>>))
  <2>1. d.required.params = <<n>> /\ d.axis = "align"
    BY <1>7 DEF AtLeast, With
  <2>2. ~d.exact /\ d.required.base = "Aligned"
    BY <1>7 DEF AtLeast, With
  <2>3. <<n>> \in Seq(Nat) /\ <<n>> # <<>>
    BY <1>4
  <2> QED
    BY <1>3, <2>1, <2>2, <2>3
<1>8. CASE d.axis \notin {"size", "align"}
  BY <1>3, <1>8
<1> QED
  BY <1>5, <1>6, <1>7, <1>8

-----------------------------------------------------------------------------
(* The first of a sequence of numbers is a number (Value.params in         *)
(* capability.py).                                                         *)
LEMMA FirstIsNat ==
  ASSUME NEW s \in Seq(Nat), s # <<>>
  PROVE  s[1] \in Nat
<1>1. Len(s) \in Nat \ {0} /\ DOMAIN s = 1..Len(s)
  OBVIOUS
<1> QED
  BY <1>1

(* A value that met a demand, and one of its rank that does not, differ in *)
(* their number, and compare calls that a weakening (_parameter_change in  *)
(* revision.py).                                                           *)
LEMMA WeakerNumberIsReported ==
  ASSUME NEW d \in AllDemands, NEW was, NEW now,
         IsVector(was), IsVector(now),
         Meets(was, d), ~Meets(now, d),
         rank(d.axis, now[d.axis]) = rank(d.axis, was[d.axis])
  PROVE  Change(d.axis, was[d.axis], now[d.axis]) = "weakened"
<1> DEFINE w == was[d.axis]
           n == now[d.axis]
<1>1. d.axis \in Axes /\ IsValue(d.axis, w) /\ IsValue(d.axis, n)
  BY DemandNumbers DEF IsVector
<1>2. rank(d.axis, n) = rank(d.axis, w) /\ w.base = n.base
  BY <1>1, OneRankOneBase
<1>3. rank(d.axis, w) \in Nat
  BY <1>1, RankIsInt
<1>4. CASE d.axis = "size"
  <2>1. /\ w.base # "Unbounded" /\ Worst(w) <= Worst(d.required)
        /\ ~(Worst(n) <= Worst(d.required))
    BY <1>2, <1>4 DEF Meets, WithinMaxSize
  <2>a. w.base # "Unaligned"
    <3>1. DOMAINS["size"] = <<"Fixed", "Bounded", "Unbounded">>
      BY DEF DOMAINS
    <3>2. PICK i \in DOMAIN DOMAINS["size"] : w.base = DOMAINS["size"][i]
      BY <1>1, <1>4 DEF IsValue
    <3> QED
      BY <3>1, <3>2
  <2>2. /\ w.params \in Seq(Nat) /\ w.params # <<>>
        /\ n.params \in Seq(Nat) /\ n.params # <<>>
    BY <1>1, <1>2, <1>4, <2>1, <2>a DEF IsValue
  <2>3. Worst(w) \in Nat /\ Worst(n) \in Nat /\ Worst(d.required) \in Nat
    BY <1>4, <2>2, DemandNumbers DEF Worst
  <2>4. Worst(n) > Worst(w) /\ w # n
    BY <2>1, <2>3
  <2>5. ~BothNumbered(d.axis, w, n)
    BY <1>4 DEF BothNumbered, NUMERIC_STRENGTH
  <2> QED
    BY <1>2, <1>3, <1>4, <2>2, <2>4, <2>5 DEF Change, ParameterChange
<1>5. CASE d.axis = "align"
  <2>1. /\ is_at_least(d.axis, w, d.required)
        /\ ~is_at_least(d.axis, n, d.required)
    BY <1>5, DemandNumbers DEF Meets
  <2> DEFINE r == d.required
  <2>2. r.base = "Aligned" /\ r.params \in Seq(Nat) /\ r.params # <<>>
    BY <1>5, DemandNumbers
  <2>3. /\ rank(d.axis, n) = rank(d.axis, r) /\ BothNumbered(d.axis, n, r)
        /\ ~(n.params[1] >= r.params[1])
    BY <1>2, <2>1 DEF is_at_least
  <2>4. n.params # <<>>
    BY <2>3 DEF BothNumbered
  <2>5. /\ w.params \in Seq(Nat) /\ w.params # <<>>
        /\ n.params \in Seq(Nat) /\ n.params # <<>>
    BY <1>1, <1>2, <1>5, <2>4 DEF IsValue
  <2>6. BothNumbered(d.axis, w, n) /\ BothNumbered(d.axis, w, r)
    BY <1>5, <2>2, <2>5 DEF BothNumbered, NUMERIC_STRENGTH
  <2>7. w.params[1] >= r.params[1]
    BY <1>2, <1>3, <2>1, <2>3, <2>6 DEF is_at_least
  <2>8. w.params[1] \in Nat /\ n.params[1] \in Nat /\ r.params[1] \in Nat
    BY <2>2, <2>5, FirstIsNat
  <2>9. n.params[1] < w.params[1] /\ w # n
    BY <2>3, <2>7, <2>8
  <2>10. is_at_least(d.axis, w, n) /\ ~is_at_least(d.axis, n, w)
    BY <1>2, <1>3, <2>6, <2>8, <2>9 DEF is_at_least, BothNumbered
  <2> QED
    BY <1>2, <1>3, <2>6, <2>9, <2>10 DEF Change, ParameterChange
<1>6. CASE d.axis \notin {"size", "align"}
  <2>1. CASE d.exact
    BY <1>2, <1>6, <2>1 DEF Meets
  <2>2. CASE ~d.exact
    <3>1. is_at_least(d.axis, w, d.required) /\ ~is_at_least(d.axis, n, d.required)
      BY <1>6, <2>2 DEF Meets
    <3>2. ~BothNumbered(d.axis, n, d.required)
      BY <1>6 DEF BothNumbered, NUMERIC_STRENGTH
    <3> QED
      BY <1>2, <3>1, <3>2 DEF is_at_least
  <2> QED
    BY <2>1, <2>2
<1> QED
  BY <1>4, <1>5, <1>6

(* What GateInv is needed for: between two revisions made of such values a *)
(* demand that stops being met is a weakening, where its axis's base did   *)
(* not get stronger (compare in revision.py).                              *)
LEMMA InvReports == GateInv => RegressionReported
<1> SUFFICES ASSUME GateInv, old # <<>>,
                    NEW m \in Entries, NEW d \in AllDemands,
                    Meets(old[m], d), ~Meets(vector[m], d),
                    rank(d.axis, vector[m][d.axis]) >= rank(d.axis, old[m][d.axis])
             PROVE  Change(d.axis, old[m][d.axis], vector[m][d.axis]) = "weakened"
  BY DEF RegressionReported
<1>1. IsVector(old[m]) /\ IsVector(vector[m])
  BY DEF GateInv, AreVectors
<1>2. /\ rank(d.axis, vector[m][d.axis]) \in Nat
      /\ rank(d.axis, old[m][d.axis]) \in Nat
  BY <1>1, DemandNumbers, RankIsInt DEF IsVector
<1>3. CASE rank(d.axis, vector[m][d.axis]) = rank(d.axis, old[m][d.axis])
  BY <1>1, <1>3, WeakerNumberIsReported
<1>4. CASE rank(d.axis, vector[m][d.axis]) > rank(d.axis, old[m][d.axis])
  BY <1>2, <1>4 DEF Change
<1> QED
  BY <1>2, <1>3, <1>4

-----------------------------------------------------------------------------
(* A set of numbers has a least one; arguments over the number of members  *)
(* take the least counterexample (meet_all in capability.py).              *)
LEMMA LeastOf ==
  ASSUME NEW D \in SUBSET Nat, D # {}
  PROVE  \E n \in D : \A k \in D : n <= k
<1>1. PICK n \in D : \A k \in D : <<k, n>> \notin OpToRel(<, Nat)
  BY NatLessThanWellFounded, WFMin, Zenon
<1>2. \A k \in D : ~(k < n)
  BY <1>1 DEF OpToRel
<1> QED
  BY <1>2

(* One step of the loop of meet_all: the worst case of a set of members is *)
(* that of one of them and of the worst case of the others.                *)
MeetStep(vectors, sets, of) ==
  [s \in sets |->
     IF s = {} THEN strongest
     ELSE meet(of[s \ {CHOOSE x \in s : TRUE}], vectors[CHOOSE x \in s : TRUE])]

(* A set without one of its members is smaller by one (meet_all in         *)
(* capability.py).                                                         *)
LEMMA OneLess ==
  ASSUME NEW members, IsFiniteSet(members),
         NEW s \in SUBSET members, s # {}
  PROVE  /\ (CHOOSE x \in s : TRUE) \in s
         /\ s \ {CHOOSE x \in s : TRUE} \in SUBSET members
         /\ Cardinality(s) \in Nat
         /\ Cardinality(s \ {CHOOSE x \in s : TRUE}) = Cardinality(s) - 1
         /\ Cardinality(s) > 0
<1> DEFINE x == CHOOSE y \in s : TRUE
<1>1. x \in s
  OBVIOUS
<1>2. IsFiniteSet(s)
  BY FS_Subset, Zenon
<1> HIDE DEF x
<1>3. Cardinality(s) \in Nat
  BY <1>2, FS_CardinalityType
<1>4. Cardinality(s \ {x}) = Cardinality(s) - 1
  BY <1>1, <1>2, FS_RemoveElement
<1>5. Cardinality(s \ {x}) \in Nat
  <2>1. IsFiniteSet(s \ {x})
    BY <1>2, FS_Subset, Zenon
  <2> QED
    BY <2>1, FS_CardinalityType
<1>6. Cardinality(s) > 0
  BY <1>3, <1>4, <1>5
<1>7. s \ {x} \in SUBSET members
  OBVIOUS
<1> QED
  BY <1>1, <1>3, <1>4, <1>6, <1>7 DEF x

(* The steps of the loop make a function of the sets of members: nothing   *)
(* is left to chance in meet_all.                                          *)
LEMMA MeetIsDefined ==
  ASSUME NEW vectors, NEW members, IsFiniteSet(members)
  PROVE  \E of : of = MeetStep(vectors, SUBSET members, of)
<1> DEFINE Upto(n) == {s \in SUBSET members : Cardinality(s) <= n}
           Defined(n) == \E of : of = MeetStep(vectors, Upto(n), of)
           Missing == {n \in Nat : ~Defined(n)}
<1>1. \A s \in SUBSET members : Cardinality(s) \in Nat
  BY FS_Subset, FS_CardinalityType
<1>2. Defined(0)
  <2> DEFINE g == [s \in Upto(0) |-> strongest]
  <2>1. ASSUME NEW s \in Upto(0), s # {}
        PROVE  FALSE
    <3>1. s \in SUBSET members /\ Cardinality(s) <= 0
      OBVIOUS
    <3>2. Cardinality(s) \in Nat /\ Cardinality(s) > 0
      BY <2>1, <3>1, OneLess
    <3> QED
      BY <3>1, <3>2
  <2>2. g = MeetStep(vectors, Upto(0), g)
    BY <2>1 DEF MeetStep
  <2> QED
    BY <2>2
<1>3. ASSUME NEW n \in Nat, Defined(n)
      PROVE  Defined(n + 1)
  <2>1. PICK g : g = MeetStep(vectors, Upto(n), g)
    BY <1>3
  <2> DEFINE h == MeetStep(vectors, Upto(n + 1), g)
  <2>2. \A s \in Upto(n) : s \in Upto(n + 1)
    BY <1>1
  <2>3. \A s \in Upto(n) : h[s] = g[s]
    BY <2>1, <2>2 DEF MeetStep
  <2>4. ASSUME NEW s \in Upto(n + 1), s # {}
        PROVE  s \ {CHOOSE x \in s : TRUE} \in Upto(n)
    BY <2>4, OneLess
  <2> DEFINE Chosen(s) == CHOOSE x \in s : TRUE
  <2>5. ASSUME NEW s \in Upto(n + 1)
        PROVE  h[s] = IF s = {} THEN strongest
                      ELSE meet(h[s \ {Chosen(s)}], vectors[Chosen(s)])
    <3>1. CASE s = {}
      BY <3>1 DEF MeetStep
    <3>2. CASE s # {}
      <4>1. h[s] = meet(g[s \ {Chosen(s)}], vectors[Chosen(s)])
        BY <3>2 DEF MeetStep
      <4>2. h[s \ {Chosen(s)}] = g[s \ {Chosen(s)}]
        <5>1. s \ {Chosen(s)} \in Upto(n)
          BY <2>4, <3>2
        <5> HIDE DEF h, Upto, Chosen
        <5> QED
          BY <2>3, <5>1
      <4> HIDE DEF h
      <4> QED
        BY <3>2, <4>1, <4>2
    <3> QED
      BY <3>1, <3>2
  <2>6. h = [s \in Upto(n + 1) |-> h[s]]
    BY DEF MeetStep
  <2>7. h = [s \in Upto(n + 1) |->
              IF s = {} THEN strongest
              ELSE meet(h[s \ {Chosen(s)}], vectors[Chosen(s)])]
    <3> HIDE DEF h, Upto, Chosen
    <3> QED
      BY <2>5, <2>6
  <2>8. h = MeetStep(vectors, Upto(n + 1), h)
    <3> HIDE DEF h
    <3> QED
      BY <2>7 DEF MeetStep
  <2> HIDE DEF h
  <2> QED
    BY <2>8
<1>4. Missing = {}
  <2> SUFFICES ASSUME Missing # {}
               PROVE  FALSE
    OBVIOUS
  <2>1. PICK n \in Missing : \A k \in Missing : n <= k
    BY LeastOf
  <2> HIDE DEF Defined
  <2>2. n # 0
    BY <1>2
  <2>3. n - 1 \in Nat /\ n - 1 \notin Missing
    BY <2>1, <2>2
  <2>4. Defined(n)
    BY <1>3, <2>3
  <2> QED
    BY <2>4
<1>5. Upto(Cardinality(members)) = SUBSET members
  BY <1>1, FS_Subset
<1> QED
  BY <1>1, <1>4, <1>5

(* What meet_all returns is the last of those steps. *)
LEMMA MeetAllUnfolds ==
  ASSUME NEW vectors, NEW members, IsFiniteSet(members)
  PROVE  \E of : /\ of = MeetStep(vectors, SUBSET members, of)
                 /\ meet_all(vectors, members) = of[members]
<1> DEFINE h == CHOOSE of : of = [s \in SUBSET members |->
                  IF s = {} THEN strongest
                  ELSE meet(of[s \ {CHOOSE x \in s : TRUE}],
                            vectors[CHOOSE x \in s : TRUE])]
<1>1. h = MeetStep(vectors, SUBSET members, h)
  <2>1. \E of : of = [s \in SUBSET members |->
                  IF s = {} THEN strongest
                  ELSE meet(of[s \ {CHOOSE x \in s : TRUE}],
                            vectors[CHOOSE x \in s : TRUE])]
    <3>1. PICK of : of = MeetStep(vectors, SUBSET members, of)
      BY MeetIsDefined
    <3>2. of = [s \in SUBSET members |->
                  IF s = {} THEN strongest
                  ELSE meet(of[s \ {CHOOSE x \in s : TRUE}],
                            vectors[CHOOSE x \in s : TRUE])]
      BY <3>1 DEF MeetStep
    <3> QED
      BY <3>2, Zenon
  <2>2. h = [s \in SUBSET members |->
              IF s = {} THEN strongest
              ELSE meet(h[s \ {CHOOSE x \in s : TRUE}],
                        vectors[CHOOSE x \in s : TRUE])]
    BY <2>1
  <2> HIDE DEF h
  <2> QED
    BY <2>2 DEF MeetStep
<1>2. meet_all(vectors, members) = h[members]
  BY DEF meet_all, FoldSet, MapThenFoldSet
<1> HIDE DEF h
<1> QED
  BY <1>1, <1>2

-----------------------------------------------------------------------------
(* On an axis without numbers the worst case of two values is a value of   *)
(* the axis, as weak as the weaker of them (meet_values in capability.py). *)
LEMMA MeetIsWorst ==
  ASSUME NEW axis \in Unforced, NEW l, NEW r, IsValue(axis, l), IsValue(axis, r)
  PROVE  /\ IsValue(axis, meet_values(axis, l, r))
         /\ rank(axis, l) <= rank(axis, meet_values(axis, l, r))
         /\ rank(axis, r) <= rank(axis, meet_values(axis, l, r))
<1> DEFINE worst == meet_values(axis, l, r)
<1>1. axis \in Axes /\ axis \notin {"size", "align"}
  BY DEF Unforced
<1>2. rank(axis, l) \in Nat /\ rank(axis, r) \in Nat
  BY <1>1, RankIsInt
<1>3. ~BothNumbered(axis, l, r)
  BY <1>1 DEF BothNumbered, NUMERIC_STRENGTH
<1>4. CASE rank(axis, l) # rank(axis, r)
  BY <1>2, <1>4 DEF meet_values
<1>5. CASE rank(axis, l) = rank(axis, r)
  <2>1. worst.base = l.base
    BY <1>3, <1>5 DEF meet_values, Covered
  <2>2. rank(axis, worst) = rank(axis, l)
    BY <2>1 DEF rank
  <2>3. IsValue(axis, worst)
    BY <1>1, <2>1 DEF IsValue
  <2> QED
    BY <1>2, <1>5, <2>2, <2>3
<1> QED
  BY <1>4, <1>5

(* The meet of the vectors of a struct's members is, on such an axis, as   *)
(* weak as the weakest of them (meet_all in capability.py).                *)
LEMMA MeetAllIsWorst ==
  ASSUME NEW vs, AreVectors(vs), NEW axis \in Unforced
  PROVE  /\ IsValue(axis, meet_all(vs, Entries)[axis])
         /\ \A m \in Entries :
              rank(axis, vs[m][axis]) <= rank(axis, meet_all(vs, Entries)[axis])
<1>1. PICK of : /\ of = MeetStep(vs, SUBSET Entries, of)
                /\ meet_all(vs, Entries) = of[Entries]
  BY EntriesAssumption, MeetAllUnfolds
<1> DEFINE Worse(s) == /\ IsValue(axis, of[s][axis])
                       /\ \A m \in s : rank(axis, vs[m][axis]) <= rank(axis, of[s][axis])
           Wrong == {n \in Nat : \E s \in SUBSET Entries : Cardinality(s) = n /\ ~Worse(s)}
<1>2. axis \in Axes /\ axis \notin {"size", "align"}
  BY DEF Unforced
<1>3. \A m \in Entries : IsValue(axis, vs[m][axis])
  BY <1>2 DEF AreVectors, IsVector
<1>4. Worse({})
  <2>1. {} \in SUBSET Entries
    OBVIOUS
  <2>2. of[{}] = strongest
    BY <1>1, <2>1 DEF MeetStep
  <2>3. of[{}][axis] = Bare(DOMAINS[axis][1])
    BY <1>2, <2>2 DEF strongest
  <2> QED
    BY <1>2, <2>3, OrdersAreNotEmpty DEF IsValue, Bare
<1>5. ASSUME NEW s \in SUBSET Entries, s # {}, Worse(s \ {CHOOSE x \in s : TRUE})
      PROVE  Worse(s)
  <2> DEFINE x == CHOOSE y \in s : TRUE
             rest == s \ {x}
  <2>1. x \in s
    BY <1>5
  <2>2. of[s] = meet(of[rest], vs[x])
    BY <1>1, <1>5 DEF MeetStep
  <2> HIDE DEF x
  <2>3. of[s][axis] = meet_values(axis, of[rest][axis], vs[x][axis])
    BY <1>2, <2>2 DEF meet
  <2>4. IsValue(axis, of[rest][axis]) /\ IsValue(axis, vs[x][axis])
    BY <1>3, <1>5, <2>1 DEF x
  <2>5. /\ IsValue(axis, of[s][axis])
        /\ rank(axis, of[rest][axis]) <= rank(axis, of[s][axis])
        /\ rank(axis, vs[x][axis]) <= rank(axis, of[s][axis])
    BY <2>3, <2>4, MeetIsWorst
  <2>6. ASSUME NEW m \in s
        PROVE  rank(axis, vs[m][axis]) <= rank(axis, of[s][axis])
    <3>1. CASE m = x
      BY <2>5, <3>1
    <3>2. CASE m # x
      <4>1. rank(axis, vs[m][axis]) <= rank(axis, of[rest][axis])
        BY <1>5, <3>2 DEF x
      <4>2. /\ rank(axis, vs[m][axis]) \in Nat
            /\ rank(axis, of[rest][axis]) \in Nat
            /\ rank(axis, of[s][axis]) \in Nat
        BY <1>2, <1>3, <2>4, <2>5, RankIsInt
      <4> QED
        BY <2>5, <4>1, <4>2
    <3> QED
      BY <3>1, <3>2
  <2> QED
    BY <2>5, <2>6
<1>6. Wrong = {}
  <2> SUFFICES ASSUME Wrong # {}
               PROVE  FALSE
    OBVIOUS
  <2>1. PICK n \in Wrong : \A k \in Wrong : n <= k
    BY LeastOf
  <2>2. PICK s \in SUBSET Entries : Cardinality(s) = n /\ ~Worse(s)
    BY <2>1
  <2> HIDE DEF Worse
  <2>3. s # {}
    BY <1>4, <2>2
  <2> DEFINE rest == s \ {CHOOSE x \in s : TRUE}
  <2>4. rest \in SUBSET Entries /\ Cardinality(rest) = n - 1 /\ n > 0 /\ n \in Nat
    BY <2>2, <2>3, OneLess, EntriesAssumption
  <2>5. ~Worse(rest)
    BY <1>5, <2>2, <2>3
  <2> HIDE DEF rest
  <2>6. n - 1 \in Wrong
    BY <2>4, <2>5
  <2> QED
    BY <2>1, <2>4, <2>6
<1>7. Worse(Entries)
  <2>1. Cardinality(Entries) \in Nat
    BY EntriesAssumption, FS_CardinalityType
  <2> HIDE DEF Worse
  <2> QED
    BY <1>6, <2>1
<1> QED
  BY <1>1, <1>7

-----------------------------------------------------------------------------
(* What a requirement asks of an axis without numbers is a value of that   *)
(* axis (PREDICATES in requirements.py).                                   *)
LEMMA DemandIsValue ==
  ASSUME NEW d \in AllDemands, d.axis \in Unforced
  PROVE  IsValue(d.axis, d.required)
<1>1. PICK n \in Numbers : \E demands \in Requirements(n) : d \in demands
  BY DEF AllDemands
<1>2. PICK name \in DOMAIN PREDICATES(n) : d \in PREDICATES(n)[name]
  BY <1>1 DEF Requirements
<1>3. d.axis \in Axes /\ d.axis \notin {"size", "align", "offset"}
  BY DEF Unforced
<1>4. \/ d.axis = "mutate" /\ d.required.base \in {"InPlaceSlack", "Immutable"}
      \/ d.axis = "auth" /\ d.required.base = "Uncovered"
      \/ d.axis = "stage" /\ d.required.base = "VerifyGated"
      \/ d.axis = "address" /\ d.required.base = "Stable"
      \/ d.axis = "access" /\ d.required.base = "Random"
      \/ d.axis = "canonical" /\ d.required.base \in {"Canonical", "CanonicalGiven"}
      \/ d.axis = "atomic" /\ d.required.base = "AtomicWord"
      \/ d.axis = "repr" /\ d.required.base = "MemoryIdentical"
  BY <1>2, <1>3 DEF PREDICATES, AtLeast, Exactly, Bare, With
<1>5. \E i \in DOMAIN DOMAINS[d.axis] : d.required.base = DOMAINS[d.axis][i]
  <2>1. /\ DOMAINS["mutate"] = <<"InPlaceFixed", "InPlaceSlack", "Shifting",
                                 "RewriteRequired", "Immutable">>
        /\ DOMAINS["auth"] = <<"Uncovered", "Covered">>
        /\ DOMAINS["stage"] = <<"CompileTime", "ParseTime", "TransformTime",
                                "VerifyGated">>
        /\ DOMAINS["address"] = <<"Stable", "FrameStable", "Unstable">>
        /\ DOMAINS["access"] = <<"Random", "Sequential">>
        /\ DOMAINS["canonical"] = <<"Canonical", "CanonicalGiven", "NonCanonical">>
        /\ DOMAINS["atomic"] = <<"AtomicWord", "NonAtomic">>
        /\ DOMAINS["repr"] = <<"MemoryIdentical", "ValueConverted",
                               "TextConverted", "ConditionallyConverted">>
    BY DEF DOMAINS
  <2> QED
    BY <1>4, <2>1
<1> QED
  BY <1>3, <1>5 DEF IsValue

(* On such an axis a demand for at least a value is met by the values that *)
(* are no weaker, and by those alone (is_at_least in capability.py and     *)
(* evaluate_requirement in requirements.py).                               *)
LEMMA MeetsByRank ==
  ASSUME NEW v, NEW d \in AllDemands, IsBound(d), d.axis \in Unforced,
         IsValue(d.axis, v[d.axis])
  PROVE  Meets(v, d) <=> rank(d.axis, v[d.axis]) <= rank(d.axis, d.required)
<1> DEFINE w == v[d.axis]
           r == d.required
<1>1. d.axis \in Axes /\ d.axis \notin {"size", "align"}
  BY DEF Unforced
<1>2. IsValue(d.axis, r)
  BY DemandIsValue
<1>3. rank(d.axis, w) \in Nat /\ rank(d.axis, r) \in Nat
  BY <1>1, <1>2, RankIsInt
<1>4. CASE ~d.exact
  <2>1. ~BothNumbered(d.axis, w, r)
    BY <1>1 DEF BothNumbered, NUMERIC_STRENGTH
  <2>2. Meets(v, d) <=> is_at_least(d.axis, w, r)
    BY <1>1, <1>4 DEF Meets
  <2> QED
    BY <1>3, <2>1, <2>2 DEF is_at_least
<1>5. CASE d.exact
  <2>1. rank(d.axis, r) = 1
    BY <1>5 DEF IsBound
  <2>2. Meets(v, d) <=> w.base = r.base
    BY <1>1, <1>5 DEF Meets
  <2>3. rank(d.axis, w) >= 1
    <3>1. rank(d.axis, w) \in DOMAIN DOMAINS[d.axis]
      BY <1>1, RankIsPlace
    <3>2. 0 \notin DOMAIN DOMAINS[d.axis]
      BY <1>1, OrdersAreNotEmpty
    <3>3. rank(d.axis, w) # 0
      BY <3>1, <3>2
    <3> QED
      BY <1>3, <3>3
  <2>4. w.base = r.base => rank(d.axis, w) = rank(d.axis, r)
    BY DEF rank
  <2>5. rank(d.axis, w) = rank(d.axis, r) => w.base = r.base
    BY <1>1, <1>2, OneRankOneBase
  <2> QED
    BY <1>3, <2>1, <2>2, <2>3, <2>4, <2>5
<1> QED
  BY <1>4, <1>5

(* What GateInv is needed for: a resolved struct is as weak as the weakest *)
(* of its members, so it meets no demand that one of them does not         *)
(* (_struct_vector and _meet_aggregates in resolve.py).                    *)
LEMMA InvSpeaks == GateInv => StructSpeaks
<1> SUFFICES ASSUME GateInv, resolved,
                    NEW d \in AllDemands, IsBound(d), d.axis \in Unforced,
                    Meets(field, d) \/ (d.axis # "auth" /\ Meets(total, d)),
                    NEW m \in Entries
             PROVE  Meets(vector[m], d)
  BY DEF StructSpeaks
<1> DEFINE axis == d.axis
           worst == meet_all(vector, Entries)[axis]
<1>1. axis \in Axes /\ axis \notin {"size", "align", "offset"}
  BY DEF Unforced
<1>2. /\ IsValue(axis, worst) /\ IsValue(axis, vector[m][axis])
      /\ rank(axis, vector[m][axis]) <= rank(axis, worst)
  BY <1>1, MeetAllIsWorst DEF GateInv, AreVectors, IsVector
<1>3. /\ rank(axis, worst) \in Nat /\ rank(axis, vector[m][axis]) \in Nat
      /\ rank(axis, d.required) \in Nat
  BY <1>1, <1>2, DemandIsValue, RankIsInt
<1>4. CASE Meets(field, d)
  <2>1. field[axis] = meet_values(axis, own[axis], worst)
    BY DEF GateInv, SpeaksOfMembers
  <2>2. IsValue(axis, own[axis])
    BY <1>1 DEF GateInv, IsVector
  <2>3. IsValue(axis, field[axis]) /\ rank(axis, worst) <= rank(axis, field[axis])
    BY <1>2, <2>1, <2>2, MeetIsWorst
  <2>4. rank(axis, field[axis]) <= rank(axis, d.required)
    BY <1>4, <2>3, MeetsByRank
  <2>5. rank(axis, field[axis]) \in Nat
    BY <1>1, <2>3, RankIsInt
  <2>6. rank(axis, vector[m][axis]) <= rank(axis, d.required)
    BY <1>2, <1>3, <2>3, <2>4, <2>5
  <2> QED
    BY <1>2, <2>6, MeetsByRank
<1>5. CASE axis # "auth" /\ Meets(total, d)
  <2>1. total[axis] = worst
    BY <1>5 DEF GateInv, SpeaksOfMembers
  <2>2. rank(axis, worst) <= rank(axis, d.required)
    BY <1>2, <1>5, <2>1, MeetsByRank
  <2>3. rank(axis, vector[m][axis]) <= rank(axis, d.required)
    BY <1>2, <1>3, <2>2
  <2> QED
    BY <1>2, <2>3, MeetsByRank
<1> QED
  BY <1>4, <1>5

-----------------------------------------------------------------------------
(* What the layout says of a placement makes a vector (_base_vector in     *)
(* propagate.py).                                                          *)
LEMMA BasesAreVectors ==
  ASSUME NEW v \in Bases
  PROVE  IsVector(v)
<1>1. PICK given \in Facts : v = ForceAxes(strongest, given, Axes \ Unforced)
  BY DEF Bases
<1>2. v = [axis \in Axes |->
             IF axis \in Axes \ Unforced THEN given[axis] ELSE strongest[axis]]
  BY <1>1 DEF ForceAxes
<1>3. ASSUME NEW axis \in Axes \ Unforced
      PROVE  IsValue(axis, v[axis])
  BY <1>2, <1>3, ValuesAssumption DEF Facts
<1>4. ASSUME NEW axis \in Unforced
      PROVE  IsValue(axis, v[axis])
  <2>1. axis \in Axes /\ axis \notin {"size", "align"}
    BY <1>4 DEF Unforced
  <2>2. v[axis] = Bare(DOMAINS[axis][1])
    BY <1>2, <1>4, <2>1 DEF strongest
  <2>3. 1 \in DOMAIN DOMAINS[axis]
    BY <2>1, OrdersAreNotEmpty
  <2> QED
    BY <2>1, <2>2, <2>3 DEF IsValue, Bare
<1> QED
  BY <1>2, <1>3, <1>4 DEF IsVector

(* A row leaves a vector (apply in propagate.py). *)
LEMMA WeakenKeepsVector ==
  ASSUME NEW v, IsVector(v), NEW axis \in Axes, NEW value \in Values[axis]
  PROVE  IsVector(Weaken(v, axis, value))
<1>1. IsValue(axis, value)
  BY ValuesAssumption
<1> QED
  BY <1>1 DEF IsVector, Weaken

(* Both revisions are made of values that the layout and the rows give     *)
(* (apply in propagate.py).                                                *)
THEOREM GateInvariant == GateSpec => []GateInv
<1>1. GateInit => GateInv
  BY BasesAreVectors DEF GateInit, GateInv, AreVectors
<1>2. GateInv /\ [GateNext]_gateVars => GateInv'
  <2> SUFFICES ASSUME GateInv, [GateNext]_gateVars
               PROVE  GateInv'
    OBVIOUS
  <2>1. ASSUME NEW m \in Entries, Row(m)
        PROVE  GateInv'
    <3>1. PICK axis \in Unforced : \E value \in Values[axis] :
            vector' = [vector EXCEPT ![m] = Weaken(vector[m], axis, value)]
      BY <2>1 DEF Row
    <3>2. PICK value \in Values[axis] :
            vector' = [vector EXCEPT ![m] = Weaken(vector[m], axis, value)]
      BY <3>1
    <3>3. IsVector(Weaken(vector[m], axis, value))
      BY <3>2, WeakenKeepsVector DEF GateInv, AreVectors, Unforced
    <3> QED
      BY <2>1, <3>2, <3>3 DEF Row, GateInv, AreVectors
  <2>2. CASE RowOfField
    <3>1. PICK axis \in Unforced : \E value \in Values[axis] :
            own' = Weaken(own, axis, value)
      BY <2>2 DEF RowOfField
    <3>2. PICK value \in Values[axis] : own' = Weaken(own, axis, value)
      BY <3>1
    <3>3. IsVector(own')
      BY <3>2, WeakenKeepsVector DEF GateInv, Unforced
    <3> QED
      BY <2>2, <3>3 DEF RowOfField, GateInv, AreVectors
  <2>3. CASE Resolve
    <3>1. vector' = vector /\ own' = own /\ old' = old
      BY <2>3 DEF Resolve
    <3>2. ASSUME NEW axis \in Unforced
          PROVE  /\ axis # "auth" =>
                      total'[axis] = meet_all(vector, Entries)[axis]
                 /\ field'[axis] = meet_values(axis, own[axis],
                                               meet_all(vector, Entries)[axis])
      <4>1. axis \in Axes /\ axis \notin {"size", "align", "offset"}
        BY DEF Unforced
      <4> QED
        BY <2>3, <4>1 DEF Resolve, StructVector, FieldVector, ForceAxes, meet
    <3>3. SpeaksOfMembers'
      BY <3>1, <3>2 DEF SpeaksOfMembers
    <3> QED
      BY <3>1, <3>3 DEF GateInv, AreVectors
  <2>4. CASE Revise
    BY <2>4, BasesAreVectors DEF Revise, GateInv, AreVectors
  <2>5. CASE UNCHANGED gateVars
    BY <2>5 DEF gateVars, GateInv, AreVectors, SpeaksOfMembers
  <2> QED
    BY <2>1, <2>2, <2>3, <2>4, <2>5 DEF GateNext
<1> QED
  BY <1>1, <1>2, PTL DEF GateSpec

(* On every axis that is not its own, a demand for at least a value that a *)
(* struct, or a field of its type, is said to meet, every member of it     *)
(* meets: for every set of axes, values, members and numbers               *)
(* (_struct_vector and _meet_aggregates in resolve.py).                    *)
THEOREM StructsSpeak == GateSpec => []StructSpeaks
BY GateInvariant, InvSpeaks, PTL

(* A requirement that an edit of the schema breaks is reported by compare  *)
(* as a regression of the member it asks about, unless the edit moved that *)
(* axis to a stronger base: for every set of axes, values, members and     *)
(* numbers (_parameter_change in revision.py).                             *)
THEOREM RegressionsAreReported == GateSpec => []RegressionReported
BY GateInvariant, InvReports, PTL
-----------------------------------------------------------------------------
(* The calls of expand (imports.py), a frame of the stack each             *)
Call == [file : Files, next : Nat \ {0}, arrived : Seq(Files)]

(* The types, in the words of the state the calls of expand keep *)
ImportsTypes ==
  /\ imports \in [Files -> Seq(Files)]
  /\ seen \in SUBSET Files
  /\ stack \in Seq(Call)
  /\ merged \in Seq(Files)
  /\ outcome \in {"expanding", "done", "refused"}

(* The calls stand on a path of imports from the root: each but the last   *)
(* is at the directive that names the file of the next.                    *)
OnAPath(dirs, calls) ==
  /\ calls # <<>> /\ calls[1].file = Root
  /\ \A k \in DOMAIN calls : calls[k].next <= Len(dirs[calls[k].file]) + 1
  /\ \A k \in 1 .. Len(calls) - 1 :
       /\ calls[k].next <= Len(dirs[calls[k].file])
       /\ dirs[calls[k].file][calls[k].next] = calls[k + 1].file
  /\ \A k, l \in DOMAIN calls :
       k <= l => calls[l].file \in ReachedFrom(dirs, calls[k].file)

(* No file has two calls, or arrived twice, or arrived and has a call *)
EachOnce(calls) ==
  /\ \A k, l \in DOMAIN calls : calls[k].file = calls[l].file => k = l
  /\ \A k, l \in DOMAIN calls :
       \A i \in DOMAIN calls[k].arrived : calls[k].arrived[i] # calls[l].file
  /\ \A k, l \in DOMAIN calls :
       \A i \in DOMAIN calls[k].arrived, j \in DOMAIN calls[l].arrived :
         calls[k].arrived[i] = calls[l].arrived[j] => k = l /\ i = j

(* The files of calls that are open, and of calls that have returned *)
Open(calls) == {calls[k].file : k \in DOMAIN calls}
Returned(calls) == UNION {ToSet(calls[k].arrived) : k \in DOMAIN calls}

(* What has been seen is what is open or has returned, all of it reached   *)
(* from the root; it has the directives that are behind each open call and *)
(* all those of the files that returned.                                   *)
Walked(dirs, calls, known) ==
  /\ known = Open(calls) \cup Returned(calls)
  /\ known \subseteq ReachedFrom(dirs, Root)
  /\ \A k \in DOMAIN calls : \A i \in 1 .. calls[k].next - 1 :
       dirs[calls[k].file][i] \in known
  /\ \A g \in Returned(calls) : ToSet(dirs[g]) \subseteq known

(* A file that returned is behind the files it imports that returned, and  *)
(* can be reached from those that are open, unless it can be reached from  *)
(* the one it imports.                                                     *)
InOrder(dirs, calls) ==
  /\ \A k, l \in DOMAIN calls :
       \A i \in DOMAIN calls[k].arrived, j \in DOMAIN calls[l].arrived :
         calls[k].arrived[i] \in ToSet(dirs[calls[l].arrived[j]]) =>
           \/ k < l \/ (k = l /\ i < j)
           \/ calls[l].arrived[j] \in ReachedFrom(dirs, calls[k].arrived[i])
  /\ \A g \in Returned(calls) : \A k \in DOMAIN calls :
       calls[k].file \in ToSet(dirs[g]) => g \in ReachedFrom(dirs, calls[k].file)

ImportsInv ==
  /\ ImportsTypes
  /\ outcome = "expanding" =>
       /\ OnAPath(imports, stack)
       /\ EachOnce(stack)
       /\ Walked(imports, stack, seen)
       /\ InOrder(imports, stack)
  /\ MergedIsComplete
-----------------------------------------------------------------------------
(* A file is reached from itself (`seen` of expand starts with the file    *)
(* that is compiled).                                                      *)
LEMMA ReachSelf ==
  ASSUME NEW dirs, NEW f \in Files
  PROVE  f \in ReachedFrom(dirs, f)
BY DEF ReachedFrom

(* What a file that is reached imports is reached (expand in imports.py    *)
(* follows every directive).                                               *)
LEMMA ReachOn ==
  ASSUME NEW dirs \in [Files -> Seq(Files)], NEW f \in Files,
         NEW g \in ReachedFrom(dirs, f), NEW h \in ToSet(dirs[g])
  PROVE  h \in ReachedFrom(dirs, f)
<1>1. g \in Files
  BY DEF ReachedFrom
<1>2. h \in Files
  BY <1>1 DEF ToSet
<1> QED
  BY <1>2 DEF ReachedFrom

(* A set that is closed under imports has all that is reached from a file  *)
(* in it (`seen` of expand in imports.py).                                 *)
LEMMA ReachWithin ==
  ASSUME NEW dirs, NEW S \in SUBSET Files, NEW f \in S,
         \A h \in S : ToSet(dirs[h]) \subseteq S
  PROVE  ReachedFrom(dirs, f) \subseteq S
BY DEF ReachedFrom

-----------------------------------------------------------------------------
(* What does not depend on where a call is in its directives (SkipSeen     *)
(* moves one call on, and nothing else).                                   *)
LEMMA MovedOnSame ==
  ASSUME NEW dirs, NEW calls \in Seq(Call), NEW moved \in Seq(Call),
         Len(moved) = Len(calls),
         \A k \in DOMAIN calls : /\ moved[k].file = calls[k].file
                                 /\ moved[k].arrived = calls[k].arrived
  PROVE  /\ EachOnce(calls) => EachOnce(moved)
         /\ Open(moved) = Open(calls) /\ Returned(moved) = Returned(calls)
         /\ InOrder(dirs, calls) => InOrder(dirs, moved)
<1>1. DOMAIN moved = DOMAIN calls
  OBVIOUS
<1>2. EachOnce(calls) => EachOnce(moved)
  BY <1>1 DEF EachOnce
<1>3. Open(moved) = Open(calls)
  BY <1>1 DEF Open
<1>4. Returned(moved) = Returned(calls)
  BY <1>1 DEF Returned
<1>5. InOrder(dirs, calls) => InOrder(dirs, moved)
  BY <1>1, <1>4 DEF InOrder
<1> QED
  BY <1>2, <1>3, <1>4, <1>5

(* What the four actions start from: a call that has directives left names *)
(* a file (the loop of expand).                                            *)
LEMMA Expanding ==
  ASSUME ImportsInv, outcome = "expanding"
  PROVE  /\ Len(stack) \in Nat \ {0} /\ DOMAIN stack = 1 .. Len(stack)
         /\ Top \in Call
         /\ imports[Top.file] \in Seq(Files)
         /\ Left => Top.next \in DOMAIN imports[Top.file] /\ Named \in Files
<1>1. stack \in Seq(Call) /\ stack # <<>> /\ imports \in [Files -> Seq(Files)]
  BY DEF ImportsInv, ImportsTypes, OnAPath
<1>2. Len(stack) \in Nat \ {0} /\ DOMAIN stack = 1 .. Len(stack)
  BY <1>1
<1>3. Top \in Call
  BY <1>1, <1>2 DEF Top
<1>4. Top.file \in Files /\ Top.next \in Nat \ {0}
  BY <1>3 DEF Call
<1>5. imports[Top.file] \in Seq(Files)
  BY <1>1, <1>4
<1>6. ASSUME Left
      PROVE  Top.next \in DOMAIN imports[Top.file] /\ Named \in Files
  <2>1. Top.next \in 1 .. Len(imports[Top.file])
    BY <1>4, <1>5, <1>6 DEF Left
  <2>2. Top.next \in DOMAIN imports[Top.file]
    BY <1>5, <2>1
  <2> QED
    BY <1>5, <2>2 DEF Named
<1> QED
  BY <1>2, <1>3, <1>5, <1>6

(* A call that moves on (the loop over the directives in expand). *)
LEMMA MovesOn ==
  ASSUME NEW call \in Call
  PROVE  LET moved == [call EXCEPT !.next = call.next + 1]
         IN /\ moved \in Call /\ moved.file = call.file
            /\ moved.arrived = call.arrived /\ moved.next = call.next + 1
<1>1. call.next + 1 \in Nat \ {0}
  BY DEF Call
<1> QED
  BY <1>1 DEF Call

(* A call that takes declarations and moves on (the end of that loop). *)
LEMMA TakesAndMovesOn ==
  ASSUME NEW call \in Call, NEW taken \in Seq(Files)
  PROVE  LET moved == [call EXCEPT !.next = call.next + 1, !.arrived = taken]
         IN /\ moved \in Call /\ moved.file = call.file
            /\ moved.arrived = taken /\ moved.next = call.next + 1
<1>1. call.next + 1 \in Nat \ {0}
  BY DEF Call
<1> QED
  BY <1>1 DEF Call

(* A directive whose file is here already moves its call on (`continue` in *)
(* expand).                                                                *)
LEMMA SkipSeenKeeps == ImportsInv /\ SkipSeen => ImportsInv'
<1> SUFFICES ASSUME ImportsInv, SkipSeen
             PROVE  ImportsInv'
  OBVIOUS
<1> DEFINE n == Len(stack)
           moved == [Top EXCEPT !.next = Top.next + 1]
<1>1. /\ outcome = "expanding" /\ Left /\ Named \in seen
      /\ stack' = [stack EXCEPT ![n] = moved]
      /\ UNCHANGED <<imports, seen, merged, outcome>>
  BY DEF SkipSeen, Replaced
<1>2. /\ n \in Nat \ {0} /\ DOMAIN stack = 1 .. n /\ stack \in Seq(Call)
      /\ Top \in Call /\ Top = stack[n] /\ Top.next \in DOMAIN imports[Top.file]
      /\ imports[Top.file] \in Seq(Files)
  BY <1>1, Expanding DEF Top, ImportsInv, ImportsTypes
<1>3. /\ moved \in Call /\ moved.file = Top.file /\ moved.arrived = Top.arrived
      /\ moved.next = Top.next + 1
  BY <1>2, MovesOn
<1> HIDE DEF moved, n
<1>4. /\ stack' \in Seq(Call) /\ Len(stack') = n /\ DOMAIN stack' = 1 .. n
      /\ \A k \in 1 .. n : /\ stack'[k].file = stack[k].file
                           /\ stack'[k].arrived = stack[k].arrived
                           /\ k # n => stack'[k] = stack[k]
      /\ stack'[n].next = Top.next + 1
  <2>1. stack' \in Seq(Call) /\ Len(stack') = n /\ DOMAIN stack' = 1 .. n
    BY <1>1, <1>2, <1>3 DEF n
  <2>2. \A k \in 1 .. n : stack'[k] = IF k = n THEN moved ELSE stack[k]
    BY <1>1, <1>2
  <2> QED
    BY <1>2, <1>3, <2>1, <2>2
<1>5. ImportsTypes'
  BY <1>1, <1>4 DEF ImportsInv, ImportsTypes
<1>6. OnAPath(imports, stack')
  <2> USE <1>1 DEF ImportsInv
  <2>1. stack' # <<>> /\ stack'[1].file = Root
    BY <1>2, <1>4 DEF OnAPath
  <2>2. \A k \in DOMAIN stack' : stack'[k].next <= Len(imports[stack'[k].file]) + 1
    <3>1. Top.next + 1 <= Len(imports[Top.file]) + 1
      BY <1>2
    <3> QED
      BY <1>2, <1>4, <3>1 DEF OnAPath
  <2>3. \A k \in 1 .. Len(stack') - 1 :
          /\ stack'[k].next <= Len(imports[stack'[k].file])
          /\ imports[stack'[k].file][stack'[k].next] = stack'[k + 1].file
    <3> TAKE k \in 1 .. Len(stack') - 1
    <3>1. k \in 1 .. n /\ k # n /\ k + 1 \in 1 .. n /\ k \in 1 .. n - 1
      BY <1>2, <1>4
    <3>2. stack'[k] = stack[k] /\ stack'[k + 1].file = stack[k + 1].file
      BY <1>4, <3>1
    <3>3. /\ stack[k].next <= Len(imports[stack[k].file])
          /\ imports[stack[k].file][stack[k].next] = stack[k + 1].file
      BY <3>1 DEF OnAPath, n
    <3> QED
      BY <3>2, <3>3
  <2>4. \A k, l \in DOMAIN stack' :
          k <= l => stack'[l].file \in ReachedFrom(imports, stack'[k].file)
    BY <1>2, <1>4 DEF OnAPath
  <2> QED
    BY <2>1, <2>2, <2>3, <2>4 DEF OnAPath
<1>7. /\ EachOnce(stack') /\ InOrder(imports, stack')
      /\ Open(stack') = Open(stack) /\ Returned(stack') = Returned(stack)
  BY <1>1, <1>2, <1>4, MovedOnSame DEF ImportsInv, n
<1>8. Walked(imports, stack', seen)
  <2>1. Walked(imports, stack, seen)
    BY <1>1 DEF ImportsInv
  <2>2. ASSUME NEW k \in DOMAIN stack', NEW i \in 1 .. stack'[k].next - 1
        PROVE  imports[stack'[k].file][i] \in seen
    <3>1. CASE k # n
      BY <1>2, <1>4, <2>1, <2>2, <3>1 DEF Walked
    <3>2. CASE k = n /\ i = Top.next
      BY <1>1, <1>2, <1>4, <3>2 DEF Named
    <3>3. CASE k = n /\ i # Top.next
      <4>1. i \in 1 .. Top.next - 1
        BY <1>2, <1>4, <2>2, <3>3 DEF Call
      <4> QED
        BY <1>2, <1>4, <2>1, <3>3, <4>1 DEF Walked
    <3> QED
      BY <3>1, <3>2, <3>3
  <2> QED
    BY <1>7, <2>1, <2>2 DEF Walked
<1>9. outcome' = "expanding" /\ MergedIsComplete'
  BY <1>1 DEF MergedIsComplete
<1> QED
  BY <1>1, <1>5, <1>6, <1>7, <1>8, <1>9 DEF ImportsInv

(* A file that cannot be read ends the compilation (_read in imports.py). *)
LEMMA RefuseKeeps == ImportsInv /\ Refuse => ImportsInv'
<1> SUFFICES ASSUME ImportsInv, Refuse
             PROVE  ImportsInv'
  OBVIOUS
<1>1. /\ outcome' = "refused"
      /\ imports' = imports /\ seen' = seen /\ stack' = stack /\ merged' = merged
  BY DEF Refuse
<1>2. ImportsTypes'
  BY <1>1 DEF ImportsInv, ImportsTypes
<1>3. MergedIsComplete'
  BY <1>1 DEF MergedIsComplete
<1> QED
  BY <1>1, <1>2, <1>3 DEF ImportsInv

(* A file that was not seen gets a call, the last on the path of imports,  *)
(* and no file that returned imports it: those have seen all of theirs     *)
(* (the recursive call in expand).                                         *)
LEMMA EnterKeeps == ImportsInv /\ Enter => ImportsInv'
<1> SUFFICES ASSUME ImportsInv, Enter
             PROVE  ImportsInv'
  OBVIOUS
<1> DEFINE n == Len(stack)
           inner == Frame(Named)
<1>1. /\ outcome = "expanding" /\ Left /\ Named \notin seen
      /\ stack' = Append(stack, inner) /\ seen' = seen \cup {Named}
      /\ UNCHANGED <<imports, merged, outcome>>
  BY DEF Enter
<1>2. /\ n \in Nat \ {0} /\ DOMAIN stack = 1 .. n /\ stack \in Seq(Call)
      /\ Top \in Call /\ Top = stack[n] /\ Top.next \in DOMAIN imports[Top.file]
      /\ imports[Top.file] \in Seq(Files) /\ Named \in Files
  BY <1>1, Expanding DEF Top, ImportsInv, ImportsTypes
<1>3. /\ OnAPath(imports, stack) /\ EachOnce(stack) /\ Walked(imports, stack, seen)
      /\ InOrder(imports, stack) /\ imports \in [Files -> Seq(Files)]
      /\ seen \in SUBSET Files
  BY <1>1 DEF ImportsInv, ImportsTypes
<1>4. /\ inner \in Call /\ inner.file = Named /\ inner.next = 1
      /\ inner.arrived = <<>> /\ DOMAIN inner.arrived = {}
  BY <1>2 DEF Call, Frame
<1> HIDE DEF inner, n
<1>5. /\ stack' \in Seq(Call) /\ Len(stack') = n + 1 /\ DOMAIN stack' = 1 .. n + 1
      /\ \A k \in 1 .. n : stack'[k] = stack[k]
      /\ stack'[n + 1] = inner
  BY <1>1, <1>2, <1>4 DEF n
<1>6. /\ Named \in ToSet(imports[Top.file]) /\ Top.next <= Len(imports[Top.file])
      /\ imports[Top.file][Top.next] = Named
  BY <1>2 DEF Named, ToSet
<1>7. \A k \in 1 .. n : Named \in ReachedFrom(imports, stack[k].file)
  <2> TAKE k \in 1 .. n
  <2>1. stack[n].file \in ReachedFrom(imports, stack[k].file)
    <3>1. n \in DOMAIN stack /\ k \in DOMAIN stack /\ k <= n
      BY <1>2
    <3> QED
      BY <1>3, <3>1 DEF OnAPath
  <2>2. stack[k].file \in Files
    <3>1. stack[k] \in Call
      BY <1>2
    <3> QED
      BY <3>1 DEF Call
  <2> QED
    BY <1>2, <1>3, <1>6, <2>1, <2>2, ReachOn
<1>8. OnAPath(imports, stack')
  <2>1. stack' # <<>> /\ stack'[1].file = Root
    BY <1>2, <1>3, <1>5 DEF OnAPath
  <2>2. \A k \in DOMAIN stack' : stack'[k].next <= Len(imports[stack'[k].file]) + 1
    <3>1. 1 <= Len(imports[Named]) + 1
      BY <1>2, <1>3
    <3>2. \A k \in 1 .. n : stack'[k].next <= Len(imports[stack'[k].file]) + 1
      BY <1>2, <1>3, <1>5 DEF OnAPath
    <3>3. \A k \in DOMAIN stack' : k \in 1 .. n \/ k = n + 1
      BY <1>2, <1>5
    <3> QED
      BY <1>4, <1>5, <3>1, <3>2, <3>3
  <2>3. ASSUME NEW k \in 1 .. Len(stack') - 1
        PROVE  /\ stack'[k].next <= Len(imports[stack'[k].file])
               /\ imports[stack'[k].file][stack'[k].next] = stack'[k + 1].file
    <3>1. CASE k = n
      BY <1>2, <1>4, <1>5, <1>6, <3>1
    <3>2. CASE k # n
      <4>1. k \in 1 .. n - 1 /\ k \in 1 .. n /\ k + 1 \in 1 .. n
        BY <1>2, <1>5, <2>3, <3>2
      <4>2. /\ stack[k].next <= Len(imports[stack[k].file])
            /\ imports[stack[k].file][stack[k].next] = stack[k + 1].file
        BY <1>3, <4>1 DEF OnAPath, n
      <4> QED
        BY <1>5, <4>1, <4>2
    <3> QED
      BY <3>1, <3>2
  <2>4. ASSUME NEW k \in DOMAIN stack', NEW l \in DOMAIN stack', k <= l
        PROVE  stack'[l].file \in ReachedFrom(imports, stack'[k].file)
    <3>1. CASE l \in 1 .. n
      <4>1. k \in 1 .. n
        BY <1>2, <1>5, <2>4, <3>1
      <4> QED
        BY <1>2, <1>3, <1>5, <2>4, <3>1, <4>1 DEF OnAPath
    <3>2. CASE l = n + 1 /\ k \in 1 .. n
      BY <1>4, <1>5, <1>7, <3>2
    <3>3. CASE l = n + 1 /\ k = n + 1
      BY <1>2, <1>4, <1>5, <3>3, ReachSelf
    <3> QED
      BY <1>2, <1>5, <3>1, <3>2, <3>3
  <2> QED
    BY <2>1, <2>2, <2>3, <2>4 DEF OnAPath
<1>9. Open(stack') = Open(stack) \cup {Named}
  <2>1. \A k \in DOMAIN stack' : k \in 1 .. n \/ k = n + 1
    BY <1>2, <1>5
  <2>2. 1 .. n \subseteq DOMAIN stack' /\ n + 1 \in DOMAIN stack'
    BY <1>2, <1>5
  <2> QED
    BY <1>2, <1>4, <1>5, <2>1, <2>2 DEF Open
<1>10. Returned(stack') = Returned(stack)
  <2>1. \A k \in DOMAIN stack' : k \in 1 .. n \/ k = n + 1
    BY <1>2, <1>5
  <2>2. 1 .. n \subseteq DOMAIN stack' /\ n + 1 \in DOMAIN stack'
    BY <1>2, <1>5
  <2>3. ToSet(stack'[n + 1].arrived) = {}
    BY <1>4, <1>5 DEF ToSet
  <2> QED
    BY <1>2, <1>5, <2>1, <2>2, <2>3 DEF Returned
<1>11. Named \notin Open(stack) /\ Named \notin Returned(stack)
  BY <1>1, <1>3 DEF Walked
<1>12. EachOnce(stack')
  <2>1. \A k \in DOMAIN stack' : k \in 1 .. n \/ k = n + 1
    BY <1>2, <1>5
  <2>2. \A k \in 1 .. n : stack[k].file # Named
    BY <1>2, <1>11 DEF Open
  <2>3. \A k \in 1 .. n : \A i \in DOMAIN stack[k].arrived :
          stack[k].arrived[i] # Named
    BY <1>2, <1>11 DEF Returned, ToSet
  <2>4. \A k, l \in DOMAIN stack' : stack'[k].file = stack'[l].file => k = l
    BY <1>2, <1>3, <1>4, <1>5, <2>1, <2>2 DEF EachOnce
  <2>a. \A k \in DOMAIN stack' : \A i \in DOMAIN stack'[k].arrived :
          k \in 1 .. n /\ stack'[k] = stack[k] /\ i \in DOMAIN stack[k].arrived
    BY <1>4, <1>5, <2>1
  <2>5. ASSUME NEW k \in DOMAIN stack', NEW l \in DOMAIN stack',
               NEW i \in DOMAIN stack'[k].arrived
        PROVE  stack'[k].arrived[i] # stack'[l].file
    <3>1. k \in 1 .. n /\ stack'[k] = stack[k] /\ i \in DOMAIN stack[k].arrived
      BY <2>a
    <3>2. CASE l \in 1 .. n
      BY <1>2, <1>3, <1>5, <3>1, <3>2 DEF EachOnce
    <3>3. CASE l = n + 1
      BY <1>4, <1>5, <2>3, <3>1, <3>3
    <3> QED
      BY <2>1, <3>2, <3>3
  <2>6. ASSUME NEW k \in DOMAIN stack', NEW l \in DOMAIN stack',
               NEW i \in DOMAIN stack'[k].arrived, NEW j \in DOMAIN stack'[l].arrived,
               stack'[k].arrived[i] = stack'[l].arrived[j]
        PROVE  k = l /\ i = j
    <3>1. k \in 1 .. n /\ stack'[k] = stack[k] /\ i \in DOMAIN stack[k].arrived
      BY <2>a
    <3>2. l \in 1 .. n /\ stack'[l] = stack[l] /\ j \in DOMAIN stack[l].arrived
      BY <2>a
    <3> QED
      BY <1>2, <1>3, <2>6, <3>1, <3>2 DEF EachOnce
  <2> QED
    BY <2>4, <2>5, <2>6 DEF EachOnce
<1>13. Walked(imports, stack', seen')
  <2>1. seen' = Open(stack') \cup Returned(stack')
    BY <1>1, <1>3, <1>9, <1>10 DEF Walked
  <2>2. seen' \subseteq ReachedFrom(imports, Root)
    <3>1. Named \in ReachedFrom(imports, Root)
      BY <1>2, <1>3, <1>7 DEF OnAPath
    <3> QED
      BY <1>1, <1>3, <3>1 DEF Walked
  <2>3. ASSUME NEW k \in DOMAIN stack', NEW i \in 1 .. stack'[k].next - 1
        PROVE  imports[stack'[k].file][i] \in seen'
    <3>1. k \in 1 .. n
      BY <1>2, <1>4, <1>5, <2>3
    <3> QED
      BY <1>1, <1>2, <1>3, <1>5, <2>3, <3>1 DEF Walked
  <2>4. \A g \in Returned(stack') : ToSet(imports[g]) \subseteq seen'
    BY <1>1, <1>3, <1>10 DEF Walked
  <2> QED
    BY <2>1, <2>2, <2>3, <2>4 DEF Walked
<1>14. InOrder(imports, stack')
  <2>1. \A k \in DOMAIN stack' : k \in 1 .. n \/ k = n + 1
    BY <1>2, <1>5
  <2>2. \A k, l \in DOMAIN stack' :
          \A i \in DOMAIN stack'[k].arrived, j \in DOMAIN stack'[l].arrived :
            stack'[k].arrived[i] \in ToSet(imports[stack'[l].arrived[j]]) =>
              \/ k < l \/ (k = l /\ i < j)
              \/ stack'[l].arrived[j] \in ReachedFrom(imports, stack'[k].arrived[i])
    BY <1>2, <1>3, <1>4, <1>5, <2>1 DEF InOrder
  <2>3. ASSUME NEW g \in Returned(stack'), NEW k \in DOMAIN stack',
               stack'[k].file \in ToSet(imports[g])
        PROVE  g \in ReachedFrom(imports, stack'[k].file)
    <3>1. g \in Returned(stack) /\ ToSet(imports[g]) \subseteq seen
      BY <1>3, <1>10, <2>3 DEF Walked
    <3>2. k \in 1 .. n
      BY <1>1, <1>4, <1>5, <2>1, <2>3, <3>1
    <3> QED
      BY <1>2, <1>3, <1>5, <2>3, <3>1, <3>2 DEF InOrder
  <2> QED
    BY <2>2, <2>3 DEF InOrder
<1>15. ImportsTypes'
  BY <1>1, <1>2, <1>3, <1>5 DEF ImportsInv, ImportsTypes
<1>16. outcome' = "expanding" /\ MergedIsComplete' /\ imports' = imports
  BY <1>1 DEF MergedIsComplete
<1> QED
  BY <1>8, <1>12, <1>13, <1>14, <1>15, <1>16 DEF ImportsInv

-----------------------------------------------------------------------------
(* A call that returns has looked at all of its directives (the loop of    *)
(* expand has ended).                                                      *)
LEMMA AllLookedAt ==
  ASSUME ImportsInv, outcome = "expanding", ~Left
  PROVE  ToSet(imports[Top.file]) \subseteq seen
<1> DEFINE n == Len(stack)
           dirs == imports[Top.file]
<1>1. /\ n \in Nat \ {0} /\ n \in DOMAIN stack /\ Top = stack[n] /\ Top \in Call
      /\ dirs \in Seq(Files)
  BY Expanding DEF Top
<1>2. Top.next <= Len(dirs) + 1 /\ ~(Top.next <= Len(dirs)) /\ Top.next \in Nat
  BY <1>1 DEF ImportsInv, OnAPath, Left, Call
<1>3. Top.next - 1 = Len(dirs)
  BY <1>1, <1>2
<1>4. ASSUME NEW i \in DOMAIN dirs
      PROVE  dirs[i] \in seen
  <2>1. i \in 1 .. Top.next - 1
    BY <1>1, <1>3
  <2> QED
    BY <1>1, <2>1 DEF ImportsInv, Walked
<1> QED
  BY <1>4 DEF ToSet

(* The first call returns: what it leaves is the whole of the schema       *)
(* (`schema.decls[:] =` in expand).                                        *)
LEMMA LastReturnIsComplete ==
  ASSUME ImportsInv, Return, Len(stack) = 1
  PROVE  ImportsInv'
<1> DEFINE a == Top.arrived
           p == Len(a)
<1>1. /\ outcome = "expanding" /\ ~Left /\ stack' = <<>> /\ outcome' = "done"
      /\ merged' = Append(a, Top.file) /\ imports' = imports /\ seen' = seen
  BY DEF Return, Declared
<1>2. /\ DOMAIN stack = {1} /\ Top = stack[1] /\ Top \in Call
      /\ imports \in [Files -> Seq(Files)] /\ seen \in SUBSET Files
      /\ OnAPath(imports, stack) /\ EachOnce(stack)
      /\ Walked(imports, stack, seen) /\ InOrder(imports, stack)
  <2>1. DOMAIN stack = 1 .. 1
    BY <1>1, Expanding
  <2>2. 1 .. 1 = {1}
    OBVIOUS
  <2> QED
    BY <1>1, <2>1, <2>2, Expanding DEF Top, ImportsInv, ImportsTypes
<1>3. Top.file = Root /\ Root \in Files /\ a \in Seq(Files) /\ p \in Nat
  BY <1>2, ImportsAssumption DEF OnAPath, Call
<1> HIDE DEF a, p
<1>4. /\ merged' \in Seq(Files) /\ DOMAIN merged' = 1 .. p + 1
      /\ \A i \in 1 .. p : merged'[i] = a[i]
      /\ merged'[p + 1] = Root
      /\ DOMAIN a = 1 .. p
  BY <1>1, <1>3 DEF p
<1>5. \A i \in DOMAIN merged' : i \in 1 .. p \/ i = p + 1
  BY <1>3, <1>4
<1>6. Open(stack) = {Root} /\ Returned(stack) = ToSet(a)
  BY <1>2, <1>3 DEF Open, Returned, a
<1>7. IsInjective(merged')
  <2>1. \A i \in 1 .. p : a[i] # Root
    BY <1>2, <1>3, <1>4 DEF EachOnce, a
  <2>2. ASSUME NEW i \in 1 .. p, NEW j \in 1 .. p, a[i] = a[j]
        PROVE  i = j
    <3>1. 1 \in DOMAIN stack /\ stack[1].arrived = a
      BY <1>2 DEF a
    <3>2. i \in DOMAIN stack[1].arrived /\ j \in DOMAIN stack[1].arrived
      BY <1>4, <3>1
    <3> QED
      BY <1>2, <2>2, <3>1, <3>2 DEF EachOnce
  <2> QED
    BY <1>4, <1>5, <2>1, <2>2 DEF IsInjective
<1>8. ToSet(merged') = ToSet(a) \cup {Root}
  <2>1. 1 .. p \subseteq DOMAIN merged' /\ p + 1 \in DOMAIN merged'
    BY <1>3, <1>4
  <2> QED
    BY <1>4, <1>5, <2>1 DEF ToSet
<1>9. seen = ToSet(merged')
  BY <1>2, <1>6, <1>8 DEF Walked
<1>10. seen = ReachedFrom(imports, Root)
  <2>1. seen \subseteq ReachedFrom(imports, Root)
    BY <1>2 DEF Walked
  <2>2. Root \in seen
    BY <1>8, <1>9
  <2>3. \A g \in seen : ToSet(imports[g]) \subseteq seen
    <3>1. ToSet(imports[Root]) \subseteq seen
      BY <1>1, <1>3, AllLookedAt
    <3>2. \A g \in Returned(stack) : ToSet(imports[g]) \subseteq seen
      BY <1>2 DEF Walked
    <3> QED
      BY <1>6, <1>8, <1>9, <3>1, <3>2
  <2>4. ReachedFrom(imports, Root) \subseteq seen
    BY <1>2, <2>2, <2>3, ReachWithin
  <2> QED
    BY <2>1, <2>4
<1>11. ASSUME NEW i \in DOMAIN merged', NEW j \in DOMAIN merged',
              merged'[i] \in ToSet(imports[merged'[j]]),
              merged'[j] \notin ReachedFrom(imports, merged'[i])
       PROVE  i < j
  <2>1. CASE i = p + 1
    <3>1. merged'[j] \in ToSet(merged')
      BY DEF ToSet
    <3> QED
      BY <1>4, <1>9, <1>10, <1>11, <2>1, <3>1
  <2>2. CASE i \in 1 .. p /\ j \in 1 .. p
    <3>1. a[i] \in ToSet(imports[a[j]]) /\ a[j] \notin ReachedFrom(imports, a[i])
      BY <1>4, <1>11, <2>2
    <3>2. 1 < 1 \/ (1 = 1 /\ i < j)
      BY <1>2, <1>4, <2>2, <3>1 DEF InOrder, a
    <3> QED
      BY <3>2
  <2>3. CASE i \in 1 .. p /\ j = p + 1
    BY <1>3, <2>3
  <2> QED
    BY <1>5, <2>1, <2>2, <2>3
<1>12. MergedIsComplete'
  BY <1>1, <1>7, <1>9, <1>10, <1>11 DEF MergedIsComplete
<1>13. ImportsTypes'
  BY <1>1, <1>2, <1>4 DEF ImportsTypes
<1> QED
  BY <1>1, <1>12, <1>13 DEF ImportsInv

(* The declarations that arrive in a call when one it made returns: its    *)
(* own so far, those of the other, and that one's file (Declared).         *)
LEMMA ArrivedPlaces ==
  ASSUME NEW s \in Seq(Files), NEW t \in Seq(Files), NEW x \in Files,
         NEW c, c = s \o Append(t, x)
  PROVE  /\ c \in Seq(Files)
         /\ Len(c) = Len(s) + Len(t) + 1 /\ DOMAIN c = 1 .. Len(s) + Len(t) + 1
         /\ \A i \in DOMAIN s : c[i] = s[i]
         /\ \A j \in DOMAIN t : c[Len(s) + j] = t[j]
         /\ c[Len(s) + Len(t) + 1] = x
<1> DEFINE u == Append(t, x)
<1>1. u \in Seq(Files) /\ Len(u) = Len(t) + 1
  OBVIOUS
<1>2. \A j \in DOMAIN t : u[j] = t[j]
  OBVIOUS
<1>3. u[Len(t) + 1] = x /\ c = s \o u
  OBVIOUS
<1> HIDE DEF u
<1>4. c \in Seq(Files) /\ Len(c) = Len(s) + Len(u)
  <2>1. s \o u \in Seq(Files) /\ Len(s \o u) = Len(s) + Len(u)
    BY <1>1
  <2> QED
    BY <1>3, <2>1, Zenon
<1>5. DOMAIN c = 1 .. Len(s) + Len(t) + 1 /\ Len(c) = Len(s) + Len(t) + 1
  BY <1>1, <1>4
<1>6. \A i \in DOMAIN s : c[i] = s[i]
  BY <1>1, <1>3
<1>7. \A j \in 1 .. Len(u) : c[Len(s) + j] = u[j]
  BY <1>1, <1>3
<1>8. \A j \in DOMAIN t : c[Len(s) + j] = t[j]
  BY <1>1, <1>2, <1>7
<1>9. c[Len(s) + Len(t) + 1] = x
  <2>1. c[Len(s) + (Len(t) + 1)] = u[Len(t) + 1]
    BY <1>1, <1>7
  <2>2. Len(s) + (Len(t) + 1) = Len(s) + Len(t) + 1
    OBVIOUS
  <2> QED
    BY <1>3, <2>1, <2>2
<1> QED
  BY <1>4, <1>5, <1>6, <1>8, <1>9 DEF u

(* A call returns to the one that made it, and that goes on.  `Was` is     *)
(* where a file that has arrived was before: in its place, or in the call  *)
(* that returns (`arrived.extend` in expand).                              *)
LEMMA InnerReturnKeeps ==
  ASSUME ImportsInv, Return, Len(stack) # 1
  PROVE  ImportsInv'
<1> DEFINE n == Len(stack)
           b == stack[n - 1]
           t == Top
           nb == [b EXCEPT !.next = b.next + 1,
                           !.arrived = b.arrived \o Append(t.arrived, t.file)]
           p == Len(b.arrived)
           q == Len(t.arrived)
<1>1. /\ outcome = "expanding" /\ ~Left
      /\ stack' = Append(SubSeq(stack, 1, n - 2), nb)
      /\ merged' = Append(t.arrived, t.file)
      /\ UNCHANGED <<imports, seen, outcome>>
  BY DEF Return, Declared
<1>2. /\ imports \in [Files -> Seq(Files)] /\ seen \in SUBSET Files
      /\ stack \in Seq(Call)
      /\ OnAPath(imports, stack) /\ EachOnce(stack)
      /\ Walked(imports, stack, seen) /\ InOrder(imports, stack)
  BY <1>1 DEF ImportsInv, ImportsTypes
<1>3. /\ n \in Nat /\ n > 1 /\ DOMAIN stack = 1 .. n
      /\ n - 1 \in 1 .. n /\ n \in 1 .. n
      /\ b \in Call /\ t \in Call /\ t = stack[n]
  <2>1. n \in Nat \ {0} /\ DOMAIN stack = 1 .. n
    BY <1>1, Expanding
  <2>2. n > 1 /\ n - 1 \in 1 .. n /\ n \in 1 .. n
    BY <2>1
  <2> QED
    BY <1>2, <2>1, <2>2 DEF Top
<1>4. /\ b.file \in Files /\ b.next \in Nat \ {0} /\ b.arrived \in Seq(Files)
      /\ t.file \in Files /\ t.arrived \in Seq(Files) /\ p \in Nat /\ q \in Nat
      /\ DOMAIN b.arrived = 1 .. p /\ DOMAIN t.arrived = 1 .. q
  <2>1. /\ b.file \in Files /\ b.next \in Nat \ {0} /\ b.arrived \in Seq(Files)
        /\ t.file \in Files /\ t.arrived \in Seq(Files)
    BY <1>3 DEF Call
  <2> QED
    BY <2>1
<1> DEFINE taken == b.arrived \o Append(t.arrived, t.file)
<1> HIDE DEF n, b, t, p, q
<1>5. /\ taken \in Seq(Files) /\ DOMAIN taken = 1 .. p + q + 1
      /\ \A i \in 1 .. p : taken[i] = b.arrived[i]
      /\ \A j \in 1 .. q : taken[p + j] = t.arrived[j]
      /\ taken[p + q + 1] = t.file
  <2>1. /\ taken \in Seq(Files)
        /\ DOMAIN taken = 1 .. Len(b.arrived) + Len(t.arrived) + 1
        /\ \A i \in DOMAIN b.arrived : taken[i] = b.arrived[i]
        /\ \A j \in DOMAIN t.arrived : taken[Len(b.arrived) + j] = t.arrived[j]
        /\ taken[Len(b.arrived) + Len(t.arrived) + 1] = t.file
    <3> DEFINE ba == b.arrived
               ta == t.arrived
               tf == t.file
    <3>1. taken = ba \o Append(ta, tf)
      OBVIOUS
    <3>2. ba \in Seq(Files) /\ ta \in Seq(Files) /\ tf \in Files
      BY <1>4
    <3> HIDE DEF taken, ba, ta, tf
    <3>3. /\ taken \in Seq(Files)
          /\ DOMAIN taken = 1 .. Len(ba) + Len(ta) + 1
          /\ \A i \in DOMAIN ba : taken[i] = ba[i]
          /\ \A j \in DOMAIN ta : taken[Len(ba) + j] = ta[j]
          /\ taken[Len(ba) + Len(ta) + 1] = tf
      BY <3>1, <3>2, ArrivedPlaces
    <3> QED
      BY <3>3 DEF ba, ta, tf
  <2>2. DOMAIN b.arrived = 1 .. p /\ DOMAIN t.arrived = 1 .. q
    BY <1>4
  <2> HIDE DEF taken
  <2> QED
    BY <2>1, <2>2 DEF p, q
<1>6. /\ nb \in Call /\ nb.file = b.file /\ nb.next = b.next + 1
      /\ nb.arrived = taken
  <2> HIDE DEF taken
  <2>1. nb = [b EXCEPT !.next = b.next + 1, !.arrived = taken]
    BY DEF taken
  <2> HIDE DEF nb
  <2> QED
    BY <1>3, <1>5, <2>1, TakesAndMovesOn
<1> HIDE DEF nb
<1>7. /\ nb.arrived \in Seq(Files) /\ DOMAIN nb.arrived = 1 .. p + q + 1
      /\ \A i \in 1 .. p : nb.arrived[i] = b.arrived[i]
      /\ \A j \in 1 .. q : nb.arrived[p + j] = t.arrived[j]
      /\ nb.arrived[p + q + 1] = t.file
  BY <1>5, <1>6
<1> HIDE DEF taken
<1>8. /\ stack' \in Seq(Call) /\ Len(stack') = n - 1 /\ DOMAIN stack' = 1 .. n - 1
      /\ \A k \in 1 .. n - 2 : stack'[k] = stack[k]
      /\ stack'[n - 1] = nb
  <2> DEFINE under == SubSeq(stack, 1, n - 2)
  <2>1. /\ under \in Seq(Call) /\ Len(under) = n - 2
        /\ \A k \in 1 .. n - 2 : under[k] = stack[k]
    BY <1>2, <1>3 DEF n
  <2> HIDE DEF under
  <2>2. stack' = Append(under, nb)
    BY <1>1 DEF under
  <2> QED
    BY <1>3, <1>6, <2>1, <2>2
<1>9. \A k \in 1 .. n - 1 : k \in 1 .. n - 2 \/ k = n - 1
  BY <1>3
<1>10. \A k \in 1 .. n - 1 :
         /\ k \in 1 .. n /\ stack'[k].file = stack[k].file
         /\ k # n - 1 => stack'[k] = stack[k]
  BY <1>3, <1>6, <1>8, <1>9 DEF b
<1>11. /\ b.next <= Len(imports[b.file]) /\ imports[b.file][b.next] = t.file
  <2>1. n - 1 \in 1 .. Len(stack) - 1 /\ n - 1 + 1 = n
    BY <1>3 DEF n
  <2> QED
    BY <1>2, <1>3, <2>1 DEF OnAPath, b
<1>12. OnAPath(imports, stack')
  <2>1. stack' # <<>> /\ stack'[1].file = Root
    <3>1. 1 \in 1 .. n - 1
      BY <1>3
    <3> QED
      BY <1>2, <1>8, <1>10, <3>1 DEF OnAPath
  <2>2. ASSUME NEW k \in DOMAIN stack'
        PROVE  stack'[k].next <= Len(imports[stack'[k].file]) + 1
    <3>1. CASE k = n - 1
      <4>1. nb.next <= Len(imports[b.file]) + 1
        <5>1. Len(imports[b.file]) \in Nat
          BY <1>2, <1>4
        <5> QED
          BY <1>4, <1>6, <1>11, <5>1
      <4> QED
        BY <1>6, <1>8, <3>1, <4>1
    <3>2. CASE k # n - 1
      BY <1>2, <1>3, <1>8, <1>10, <3>2 DEF OnAPath
    <3> QED
      BY <3>1, <3>2
  <2>3. ASSUME NEW k \in 1 .. Len(stack') - 1
        PROVE  /\ stack'[k].next <= Len(imports[stack'[k].file])
               /\ imports[stack'[k].file][stack'[k].next] = stack'[k + 1].file
    <3>1. k \in 1 .. n - 2 /\ k \in 1 .. Len(stack) - 1 /\ k + 1 \in 1 .. n - 1
      BY <1>3, <1>8 DEF n
    <3>2. stack'[k] = stack[k] /\ stack'[k + 1].file = stack[k + 1].file
      BY <1>8, <1>10, <3>1
    <3> QED
      BY <1>2, <3>1, <3>2 DEF OnAPath
  <2>4. \A k, l \in DOMAIN stack' :
          k <= l => stack'[l].file \in ReachedFrom(imports, stack'[k].file)
    BY <1>2, <1>3, <1>8, <1>10 DEF OnAPath
  <2> QED
    BY <2>1, <2>2, <2>3, <2>4 DEF OnAPath
<1> DEFINE Was(k, i, k0, i0) ==
             /\ k \in 1 .. n - 1 /\ i \in DOMAIN stack'[k].arrived
             /\ k0 \in 1 .. n /\ i0 \in DOMAIN stack[k0].arrived
             /\ stack'[k].arrived[i] = stack[k0].arrived[i0]
             /\ \/ k0 # n /\ k = k0 /\ i = i0
                \/ k0 = n /\ k = n - 1 /\ i = p + i0
           IsLast(k, i) ==
             k = n - 1 /\ i = p + q + 1 /\ stack'[k].arrived[i] = t.file
<1>13. ASSUME NEW k \in DOMAIN stack', NEW i \in DOMAIN stack'[k].arrived
       PROVE  IsLast(k, i) \/ \E k0, i0 : Was(k, i, k0, i0)
  <2>1. CASE k # n - 1
    <3>1. Was(k, i, k, i)
      BY <1>3, <1>8, <1>10, <2>1
    <3> QED
      BY <3>1
  <2>2. CASE k = n - 1 /\ i \in 1 .. p
    <3>1. Was(k, i, k, i)
      BY <1>3, <1>4, <1>7, <1>8, <2>2 DEF b
    <3> QED
      BY <3>1
  <2>3. CASE k = n - 1 /\ i = p + q + 1
    BY <1>7, <1>8, <2>3
  <2>4. CASE k = n - 1 /\ i \notin 1 .. p /\ i # p + q + 1
    <3>1. i - p \in 1 .. q /\ i = p + (i - p)
      BY <1>4, <1>7, <1>8, <2>4
    <3>2. nb.arrived[i] = t.arrived[i - p]
      BY <1>7, <3>1
    <3>3. Was(k, i, n, i - p)
      BY <1>3, <1>4, <1>8, <2>4, <3>1, <3>2
    <3> QED
      BY <3>3
  <2> QED
    BY <2>1, <2>2, <2>3, <2>4
<1>14. ASSUME NEW k0 \in 1 .. n, NEW i0 \in DOMAIN stack[k0].arrived
       PROVE  \E k \in DOMAIN stack', i \in Nat : Was(k, i, k0, i0)
  <2>1. CASE k0 = n
    <3>1. i0 \in 1 .. q /\ p + i0 \in 1 .. p + q + 1 /\ p + i0 \in Nat
      BY <1>3, <1>4, <1>14, <2>1
    <3>2. stack'[n - 1].arrived[p + i0] = stack[k0].arrived[i0]
      BY <1>3, <1>7, <1>8, <2>1, <3>1
    <3>a. n - 1 \in 1 .. n - 1
      BY <1>3
    <3>b. p + i0 \in DOMAIN stack'[n - 1].arrived
      BY <1>7, <1>8, <3>1
    <3>3. p + i0 \in DOMAIN stack'[n - 1].arrived /\ n - 1 \in 1 .. n - 1
      BY <3>a, <3>b
    <3>4. Was(n - 1, p + i0, k0, i0)
      BY <1>14, <2>1, <3>2, <3>3
    <3> QED
      BY <1>8, <3>1, <3>3, <3>4
  <2>2. CASE k0 = n - 1
    <3>1. i0 \in 1 .. p /\ i0 \in 1 .. p + q + 1 /\ i0 \in Nat
      BY <1>4, <1>14, <2>2 DEF b
    <3>2. stack'[k0].arrived[i0] = stack[k0].arrived[i0]
      BY <1>7, <1>8, <2>2, <3>1 DEF b
    <3>a. k0 \in 1 .. n - 1 /\ k0 # n
      BY <1>3, <2>2
    <3>b. i0 \in DOMAIN stack'[k0].arrived
      BY <1>7, <1>8, <2>2, <3>1
    <3>3. i0 \in DOMAIN stack'[k0].arrived /\ k0 \in 1 .. n - 1 /\ k0 # n
      BY <3>a, <3>b
    <3>4. Was(k0, i0, k0, i0)
      BY <1>14, <3>2, <3>3
    <3> QED
      BY <1>8, <3>1, <3>3, <3>4
  <2>3. CASE k0 # n /\ k0 # n - 1
    <3>1. k0 \in 1 .. n - 2 /\ k0 \in 1 .. n - 1
      BY <1>3, <2>3
    <3>2. stack[k0] \in Call
      BY <1>2, <1>3
    <3>3. i0 \in Nat
      BY <1>14, <3>2 DEF Call
    <3>4. Was(k0, i0, k0, i0)
      BY <1>8, <1>14, <2>3, <3>1
    <3> QED
      BY <1>8, <3>1, <3>3, <3>4
  <2> QED
    BY <2>1, <2>2, <2>3
<1>15. ASSUME NEW k, NEW i, NEW k0, NEW i0, Was(k, i, k0, i0)
       PROVE  /\ k \in DOMAIN stack' /\ i \in DOMAIN stack'[k].arrived /\ i \in Nat
              /\ k0 \in DOMAIN stack /\ i0 \in DOMAIN stack[k0].arrived /\ i0 \in Nat
              /\ stack'[k].arrived[i] = stack[k0].arrived[i0]
              /\ stack'[k].arrived[i] \in Returned(stack)
  <2>1. stack[k0] \in Call /\ stack'[k] \in Call
    BY <1>2, <1>3, <1>8, <1>15
  <2>2. i \in Nat /\ i0 \in Nat
    BY <1>15, <2>1 DEF Call
  <2> QED
    BY <1>3, <1>8, <1>15, <2>2 DEF Returned, ToSet
<1>16. ASSUME NEW k, NEW i, NEW k0, NEW i0, Was(k, i, k0, i0),
              NEW l, NEW j, NEW l0, NEW j0, Was(l, j, l0, j0),
              k0 < l0 \/ (k0 = l0 /\ i0 < j0)
       PROVE  k < l \/ (k = l /\ i < j)
  <2>1. /\ k0 \in 1 .. n /\ l0 \in 1 .. n /\ k \in 1 .. n - 1 /\ l \in 1 .. n - 1
        /\ i0 \in Nat /\ j0 \in Nat /\ i \in Nat /\ j \in Nat
    <3>1. k \in 1 .. n - 1 /\ k0 \in 1 .. n /\ l \in 1 .. n - 1 /\ l0 \in 1 .. n
      BY <1>16
    <3> HIDE DEF Was
    <3>2. i \in Nat /\ i0 \in Nat
      BY <1>15, <1>16
    <3>3. j \in Nat /\ j0 \in Nat
      BY <1>15, <1>16
    <3> QED
      BY <3>1, <3>2, <3>3
  <2>2. CASE k0 # n /\ l0 # n
    BY <1>16, <2>2
  <2>3. CASE k0 # n /\ l0 = n
    <3>1. k = k0 /\ i = i0 /\ l = n - 1 /\ j = p + j0
      BY <1>16, <2>3
    <3>2. CASE k # n - 1
      BY <1>3, <2>1, <3>1, <3>2
    <3>3. CASE k = n - 1
      <4>1. i \in 1 .. p
        BY <1>4, <1>16, <3>1, <3>3 DEF b
      <4>2. j0 \in 1 .. q
        BY <1>3, <1>4, <1>16, <2>3
      <4> QED
        BY <1>4, <3>1, <3>3, <4>1, <4>2
    <3> QED
      BY <3>2, <3>3
  <2>4. CASE k0 = n
    <3>1. l0 = n /\ i0 < j0
      BY <1>3, <1>16, <2>1, <2>4
    <3>2. k = n - 1 /\ l = n - 1 /\ i = p + i0 /\ j = p + j0
      BY <1>16, <2>4, <3>1
    <3> QED
      BY <1>4, <2>1, <3>1, <3>2
  <2> QED
    BY <2>2, <2>3, <2>4
<1>17. ASSUME NEW k, NEW i, NEW l, NEW j, NEW k0, NEW i0,
              Was(k, i, k0, i0), Was(l, j, k0, i0)
       PROVE  k = l /\ i = j
  BY <1>17
<1>18. ASSUME NEW k, NEW i, NEW l, NEW j, NEW k0, NEW i0,
              Was(k, i, k0, i0), IsLast(l, j)
       PROVE  k < l \/ (k = l /\ i < j)
  <2>1. CASE k # n - 1
    BY <1>3, <1>18, <2>1
  <2>2. CASE k = n - 1
    <3>1. i \in 1 .. p + q
      <4>1. CASE k0 = n
        <5>1. i0 \in 1 .. q /\ i = p + i0
          BY <1>3, <1>4, <1>18, <4>1
        <5> QED
          BY <1>4, <5>1
      <4>2. CASE k0 # n
        <5>1. i \in 1 .. p
          BY <1>4, <1>18, <2>2, <4>2 DEF b
        <5> QED
          BY <1>4, <5>1
      <4> QED
        BY <4>1, <4>2
    <3> QED
      BY <1>4, <1>18, <2>2, <3>1
  <2> QED
    BY <2>1, <2>2
<1>19. IsLast(n - 1, p + q + 1) /\ p + q + 1 \in DOMAIN stack'[n - 1].arrived
  BY <1>4, <1>7, <1>8
<1> HIDE DEF Was
<1>20. Returned(stack') = Returned(stack) \cup {t.file}
  <2>1. ASSUME NEW g \in Returned(stack')
        PROVE  g \in Returned(stack) \cup {t.file}
    <3>1. PICK k \in DOMAIN stack' : g \in ToSet(stack'[k].arrived)
      BY DEF Returned
    <3>2. PICK i \in DOMAIN stack'[k].arrived : g = stack'[k].arrived[i]
      BY <3>1 DEF ToSet
    <3>3. CASE IsLast(k, i)
      BY <3>2, <3>3
    <3>4. CASE \E k0, i0 : Was(k, i, k0, i0)
      BY <1>15, <3>2, <3>4
    <3> QED
      BY <1>13, <3>3, <3>4
  <2>2. ASSUME NEW g \in Returned(stack)
        PROVE  g \in Returned(stack')
    <3>1. PICK k0 \in 1 .. n : g \in ToSet(stack[k0].arrived)
      BY <1>3 DEF Returned
    <3>2. PICK i0 \in DOMAIN stack[k0].arrived : g = stack[k0].arrived[i0]
      BY <3>1 DEF ToSet
    <3>3. PICK k \in DOMAIN stack', i \in Nat : Was(k, i, k0, i0)
      BY <1>14
    <3> QED
      BY <1>15, <3>2, <3>3 DEF Returned, ToSet
  <2>3. t.file \in Returned(stack')
    <3>1. n - 1 \in DOMAIN stack'
      BY <1>3, <1>8
    <3>2. t.file \in ToSet(stack'[n - 1].arrived)
      BY <1>19 DEF ToSet
    <3> QED
      BY <3>1, <3>2 DEF Returned
  <2> QED
    BY <2>1, <2>2, <2>3
<1>21. Open(stack') \cup {t.file} = Open(stack)
  <2>1. \A k \in 1 .. n : k \in 1 .. n - 1 \/ k = n
    BY <1>3
  <2> QED
    BY <1>3, <1>8, <1>10, <2>1 DEF Open
<1>22. \A k \in 1 .. n - 1 : stack'[k].file # t.file
  <2> TAKE k \in 1 .. n - 1
  <2>1. k \in DOMAIN stack /\ n \in DOMAIN stack /\ k # n
    BY <1>3, <1>10
  <2>2. stack[k].file # stack[n].file
    BY <1>2, <2>1 DEF EachOnce
  <2> QED
    BY <1>3, <1>10, <2>2
<1>23. t.file \notin Returned(stack)
  <2>1. ASSUME NEW k \in DOMAIN stack, NEW i \in DOMAIN stack[k].arrived
        PROVE  stack[k].arrived[i] # t.file
    BY <1>2, <1>3 DEF EachOnce
  <2> QED
    BY <2>1 DEF Returned, ToSet
<1>24. EachOnce(stack')
  <2>1. \A k, l \in DOMAIN stack' : stack'[k].file = stack'[l].file => k = l
    BY <1>2, <1>3, <1>8, <1>10 DEF EachOnce
  <2>2. ASSUME NEW k \in DOMAIN stack', NEW l \in DOMAIN stack',
               NEW i \in DOMAIN stack'[k].arrived
        PROVE  stack'[k].arrived[i] # stack'[l].file
    <3>1. CASE IsLast(k, i)
      BY <1>8, <1>22, <3>1
    <3>2. CASE \E k0, i0 : Was(k, i, k0, i0)
      <4>1. PICK k0, i0 : Was(k, i, k0, i0)
        BY <3>2
      <4>2. /\ k0 \in DOMAIN stack /\ i0 \in DOMAIN stack[k0].arrived
            /\ stack'[k].arrived[i] = stack[k0].arrived[i0]
        BY <1>15, <4>1
      <4>3. l \in DOMAIN stack /\ stack'[l].file = stack[l].file
        BY <1>3, <1>8, <1>10
      <4> QED
        BY <1>2, <4>2, <4>3 DEF EachOnce
    <3> QED
      BY <1>13, <3>1, <3>2
  <2>3. ASSUME NEW k \in DOMAIN stack', NEW l \in DOMAIN stack',
               NEW i \in DOMAIN stack'[k].arrived, NEW j \in DOMAIN stack'[l].arrived,
               stack'[k].arrived[i] = stack'[l].arrived[j]
        PROVE  k = l /\ i = j
    <3>1. CASE IsLast(k, i) /\ IsLast(l, j)
      BY <3>1
    <3>2. CASE IsLast(k, i) /\ \E l0, j0 : Was(l, j, l0, j0)
      <4>1. PICK l0, j0 : Was(l, j, l0, j0)
        BY <3>2
      <4>2. stack'[l].arrived[j] \in Returned(stack)
        BY <1>15, <4>1
      <4> QED
        BY <1>23, <2>3, <3>2, <4>2
    <3>3. CASE IsLast(l, j) /\ \E k0, i0 : Was(k, i, k0, i0)
      <4>1. PICK k0, i0 : Was(k, i, k0, i0)
        BY <3>3
      <4>2. stack'[k].arrived[i] \in Returned(stack)
        BY <1>15, <4>1
      <4> QED
        BY <1>23, <2>3, <3>3, <4>2
    <3>4. CASE (\E k0, i0 : Was(k, i, k0, i0)) /\ (\E l0, j0 : Was(l, j, l0, j0))
      <4>1. PICK k0, i0 : Was(k, i, k0, i0)
        BY <3>4
      <4>2. PICK l0, j0 : Was(l, j, l0, j0)
        BY <3>4
      <4>3. /\ k0 \in DOMAIN stack /\ i0 \in DOMAIN stack[k0].arrived
            /\ stack'[k].arrived[i] = stack[k0].arrived[i0]
        BY <1>15, <4>1
      <4>4. /\ l0 \in DOMAIN stack /\ j0 \in DOMAIN stack[l0].arrived
            /\ stack'[l].arrived[j] = stack[l0].arrived[j0]
        BY <1>15, <4>2
      <4>5. k0 = l0 /\ i0 = j0
        <5>1. stack[k0].arrived[i0] = stack[l0].arrived[j0]
          BY <2>3, <4>3, <4>4
        <5> QED
          BY <1>2, <4>3, <4>4, <5>1 DEF EachOnce
      <4> QED
        BY <1>17, <4>1, <4>2, <4>5
    <3> QED
      BY <1>13, <3>1, <3>2, <3>3, <3>4
  <2> QED
    BY <2>1, <2>2, <2>3 DEF EachOnce
<1>25. Walked(imports, stack', seen)
  <2>1. seen = Open(stack') \cup Returned(stack')
    BY <1>2, <1>20, <1>21 DEF Walked
  <2>2. seen \subseteq ReachedFrom(imports, Root)
    BY <1>2 DEF Walked
  <2>3. ASSUME NEW k \in DOMAIN stack', NEW i \in 1 .. stack'[k].next - 1
        PROVE  imports[stack'[k].file][i] \in seen
    <3>1. CASE k # n - 1
      BY <1>2, <1>3, <1>8, <1>10, <2>3, <3>1 DEF Walked
    <3>2. CASE k = n - 1 /\ i = b.next
      BY <1>6, <1>8, <1>11, <1>20, <2>1, <3>2
    <3>3. CASE k = n - 1 /\ i # b.next
      <4>1. i \in 1 .. b.next - 1
        BY <1>4, <1>6, <1>8, <2>3, <3>3
      <4>2. imports[b.file][i] \in seen
        BY <1>2, <1>3, <4>1 DEF Walked, b
      <4> QED
        BY <1>6, <1>8, <3>3, <4>2
    <3> QED
      BY <3>1, <3>2, <3>3
  <2>4. ToSet(imports[t.file]) \subseteq seen
    BY <1>1, AllLookedAt DEF t
  <2>5. \A g \in Returned(stack') : ToSet(imports[g]) \subseteq seen
    BY <1>2, <1>20, <2>4 DEF Walked
  <2> QED
    BY <2>1, <2>2, <2>3, <2>5 DEF Walked
<1>26. InOrder(imports, stack')
  <2>1. ASSUME NEW k \in DOMAIN stack', NEW l \in DOMAIN stack',
               NEW i \in DOMAIN stack'[k].arrived, NEW j \in DOMAIN stack'[l].arrived,
               stack'[k].arrived[i] \in ToSet(imports[stack'[l].arrived[j]])
        PROVE  \/ k < l \/ (k = l /\ i < j)
               \/ stack'[l].arrived[j] \in ReachedFrom(imports, stack'[k].arrived[i])
    <3>1. CASE IsLast(k, i) /\ IsLast(l, j)
      BY <1>4, <3>1, ReachSelf
    <3>2. CASE IsLast(k, i) /\ \E l0, j0 : Was(l, j, l0, j0)
      <4>1. PICK l0, j0 : Was(l, j, l0, j0)
        BY <3>2
      <4>2. stack'[l].arrived[j] \in Returned(stack)
        BY <1>15, <4>1
      <4>3. stack'[k].arrived[i] = stack[n].file
        BY <1>3, <3>2
      <4> QED
        BY <1>2, <1>3, <2>1, <4>2, <4>3 DEF InOrder
    <3>3. CASE IsLast(l, j) /\ \E k0, i0 : Was(k, i, k0, i0)
      BY <1>18, <3>3
    <3>4. CASE (\E k0, i0 : Was(k, i, k0, i0)) /\ (\E l0, j0 : Was(l, j, l0, j0))
      <4>1. PICK k0, i0 : Was(k, i, k0, i0)
        BY <3>4
      <4>2. PICK l0, j0 : Was(l, j, l0, j0)
        BY <3>4
      <4>3. /\ k0 \in DOMAIN stack /\ i0 \in DOMAIN stack[k0].arrived
            /\ stack'[k].arrived[i] = stack[k0].arrived[i0]
        BY <1>15, <4>1
      <4>4. /\ l0 \in DOMAIN stack /\ j0 \in DOMAIN stack[l0].arrived
            /\ stack'[l].arrived[j] = stack[l0].arrived[j0]
        BY <1>15, <4>2
      <4>5. stack[k0].arrived[i0] \in ToSet(imports[stack[l0].arrived[j0]])
        BY <2>1, <4>3, <4>4
      <4>6. \/ k0 < l0 \/ (k0 = l0 /\ i0 < j0)
            \/ stack[l0].arrived[j0] \in ReachedFrom(imports, stack[k0].arrived[i0])
        BY <1>2, <4>3, <4>4, <4>5 DEF InOrder
      <4>7. CASE k0 < l0 \/ (k0 = l0 /\ i0 < j0)
        BY <1>16, <4>1, <4>2, <4>7
      <4>8. CASE stack[l0].arrived[j0] \in ReachedFrom(imports, stack[k0].arrived[i0])
        BY <4>3, <4>4, <4>8
      <4> QED
        BY <4>6, <4>7, <4>8
    <3> QED
      BY <1>13, <3>1, <3>2, <3>3, <3>4
  <2>2. ASSUME NEW g \in Returned(stack'), NEW k \in DOMAIN stack',
               stack'[k].file \in ToSet(imports[g])
        PROVE  g \in ReachedFrom(imports, stack'[k].file)
    <3>1. k \in DOMAIN stack /\ k <= n /\ stack'[k].file = stack[k].file
      BY <1>3, <1>8, <1>10
    <3>2. CASE g \in Returned(stack)
      BY <1>2, <2>2, <3>1, <3>2 DEF InOrder
    <3>3. CASE g = t.file
      BY <1>2, <1>3, <3>1, <3>3 DEF OnAPath
    <3> QED
      BY <1>20, <3>2, <3>3
  <2> QED
    BY <2>1, <2>2 DEF InOrder
<1>27. ImportsTypes'
  <2>1. merged' \in Seq(Files)
    BY <1>1, <1>4
  <2> QED
    BY <1>1, <1>2, <1>8, <2>1 DEF ImportsTypes
<1>28. outcome' = "expanding" /\ MergedIsComplete' /\ imports' = imports /\ seen' = seen
  BY <1>1 DEF MergedIsComplete
<1> QED
  BY <1>12, <1>24, <1>25, <1>26, <1>27, <1>28 DEF ImportsInv

-----------------------------------------------------------------------------
(* However files import each other, a compilation that ends has every file *)
(* its root can reach once, each ahead of those that import it unless they *)
(* import each other (expand in imports.py).                               *)
THEOREM ImportsAreComplete == ImportsSpec => []MergedIsComplete
<1>1. ImportsInit => ImportsInv
  <2> SUFFICES ASSUME ImportsInit
               PROVE  ImportsInv
    OBVIOUS
  <2>1. /\ imports \in [Files -> Seq(Files)] /\ seen = {Root} /\ merged = <<>>
        /\ outcome = "expanding" /\ stack = <<Frame(Root)>>
    BY ImportsAssumption DEF ImportsInit
  <2>2. /\ Frame(Root) \in Call /\ Frame(Root).file = Root /\ Frame(Root).next = 1
        /\ Frame(Root).arrived = <<>> /\ DOMAIN Frame(Root).arrived = {}
    BY ImportsAssumption DEF Call, Frame
  <2>3. /\ stack \in Seq(Call) /\ Len(stack) = 1 /\ DOMAIN stack = {1}
        /\ stack[1] = Frame(Root)
    BY <2>1, <2>2
  <2>4. Open(stack) = {Root} /\ Returned(stack) = {}
    BY <2>2, <2>3 DEF Open, Returned, ToSet
  <2>5. Root \in ReachedFrom(imports, Root)
    BY ImportsAssumption, ReachSelf
  <2>6. OnAPath(imports, stack)
    <3>1. 1 <= Len(imports[Root]) + 1
      BY <2>1, ImportsAssumption
    <3> QED
      <4>1. stack # <<>> /\ stack[1].file = Root
        BY <2>2, <2>3
      <4>2. \A k \in DOMAIN stack : stack[k].next <= Len(imports[stack[k].file]) + 1
        BY <2>2, <2>3, <3>1
      <4>3. 1 .. Len(stack) - 1 = {}
        BY <2>3
      <4>4. \A k, l \in DOMAIN stack :
              k <= l => stack[l].file \in ReachedFrom(imports, stack[k].file)
        BY <2>2, <2>3, <2>5
      <4> QED
        BY <4>1, <4>2, <4>3, <4>4 DEF OnAPath
  <2>7. EachOnce(stack)
    BY <2>2, <2>3 DEF EachOnce
  <2>8. Walked(imports, stack, seen)
    BY <2>1, <2>2, <2>3, <2>4, <2>5 DEF Walked
  <2>9. InOrder(imports, stack)
    BY <2>2, <2>3, <2>4 DEF InOrder
  <2>10. ImportsTypes
    BY <2>1, <2>3, ImportsAssumption DEF ImportsTypes
  <2>11. MergedIsComplete
    BY <2>1 DEF MergedIsComplete
  <2> QED
    BY <2>6, <2>7, <2>8, <2>9, <2>10, <2>11 DEF ImportsInv
<1>2. ImportsInv /\ [ImportsNext]_importVars => ImportsInv'
  <2> SUFFICES ASSUME ImportsInv, [ImportsNext]_importVars
               PROVE  ImportsInv'
    OBVIOUS
  <2>1. CASE UNCHANGED importVars
    BY <2>1 DEF importVars, ImportsInv, ImportsTypes, MergedIsComplete
  <2>2. CASE Return
    BY <2>2, LastReturnIsComplete, InnerReturnKeeps
  <2> QED
    BY <2>1, <2>2, SkipSeenKeeps, RefuseKeeps, EnterKeeps DEF ImportsNext
<1>3. ImportsInv => MergedIsComplete
  BY DEF ImportsInv
<1> QED
  BY <1>1, <1>2, <1>3, PTL DEF ImportsSpec
=============================================================================
