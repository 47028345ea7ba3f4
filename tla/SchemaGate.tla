----------------------------- MODULE SchemaGate -----------------------------
(* What the compiler says of a struct and of a field of that struct's type *)
(* (resolve.py): the rows of propagate.py weaken the vectors of its        *)
(* members, and the meet of those is the vector the requirements on the    *)
(* struct are discharged against.  Then the schema is revised, and the two *)
(* revisions are compared.                                                 *)
EXTENDS Capability, FiniteSets

CONSTANTS
  Entries,      \* the members of the struct
  AuthTags,    \* the members, or fields elsewhere, that are tags over it
  Values,       \* the values of each axis
  Numbers       \* the arguments of requirements

(* A value of an axis as the layout and the rows give it: a size has its   *)
(* bounds but for one that has none, and an alignment its boundary.        *)
IsValue(axis, v) ==
  /\ \E i \in DOMAIN DOMAINS[axis] : v.base = DOMAINS[axis][i]
  /\ axis \in {"size", "align"} =>
       IF v.base \in {"Unbounded", "Unaligned"} THEN v.params = <<>>
       ELSE v.params \in Seq(Nat) /\ v.params # <<>>

ASSUME ValuesAssumption ==
  \A axis \in Axes : \A v \in Values[axis] : IsValue(axis, v)

(* A struct has finitely many members (its declaration lists them). *)
ASSUME EntriesAssumption == IsFiniteSet(Entries)

ASSUME NumbersAssumption == Numbers \subseteq Nat

VARIABLES
  vector,       \* the vector of each member
  own,          \* the vector of the field, before what it contains
  resolved,     \* whether the struct has been resolved
  total,        \* the vector of the struct
  field,        \* the vector of the field
  old           \* the members of the revision before, or none

gateVars == <<vector, own, resolved, total, field, old>>

Unforced == Axes \ {"offset", "size", "align"}

(* _base_vector: where a placement is and what it takes are facts of the   *)
(* layout; everything else starts at its strongest.                        *)
Facts ==
  {v \in [Axes \ Unforced -> UNION {Values[axis] : axis \in Axes \ Unforced}] :
     \A axis \in Axes \ Unforced : v[axis] \in Values[axis]}

Bases == {ForceAxes(strongest, v, Axes \ Unforced) : v \in Facts}

GateInit ==
  /\ vector \in [Entries -> Bases]
  /\ own \in Bases
  /\ resolved = FALSE
  /\ total = strongest /\ field = strongest /\ old = <<>>

(* One effect of a row of the table, in `apply`: never a strengthening *)
Weaken(v, axis, value) ==
  IF rank(axis, value) < rank(axis, v[axis]) THEN v
  ELSE [v EXCEPT ![axis] = value]

Row(m) ==
  /\ ~resolved
  /\ \E axis \in Unforced : \E value \in Values[axis] :
       /\ axis = "auth" => m \notin TagsOf(value)    \* a tag is not over itself
       /\ vector' = [vector EXCEPT ![m] = Weaken(@, axis, value)]
  /\ UNCHANGED <<own, resolved, total, field, old>>

RowOfField ==
  /\ ~resolved
  /\ \E axis \in Unforced : \E value \in Values[axis] :
       own' = Weaken(own, axis, value)
  /\ UNCHANGED <<vector, resolved, total, field, old>>

(* The tags that authenticate the whole struct (_whole_struct_auth): a tag *)
(* is not asked to cover itself.                                           *)
WholeStructAuth ==
  LET covers(t, m) == t \in TagsOf(vector[m]["auth"])
      whole == {t \in AuthTags :
                  /\ \E m \in Entries : covers(t, m)
                  /\ \A m \in Entries \ {t} : covers(t, m)}
  IN IF whole = {} THEN Bare("Uncovered") ELSE Covered(whole)

(* The least a member takes: nothing is known of an unbounded one *)
LeastSize(m) ==
  LET size == vector[m]["size"]
  IN IF size.base = "Unbounded" THEN 0 ELSE size.params[1]

(* The values that the struct construct itself imposes (_struct_vector) *)
Imposed ==
  [axis \in Axes |->
     CASE axis = "size" -> With("Fixed", <<MapThenSumSet(LeastSize, Entries)>>)
       [] axis = "auth" -> WholeStructAuth
       [] OTHER -> strongest[axis]]

StructVector ==
  ForceAxes(meet_all(vector, Entries), Imposed,
        Axes \cap {"offset", "align", "size", "auth"})

(* _meet_aggregates: where a field is does not depend on what it contains *)
FieldVector ==
  meet(own, ForceAxes(meet_all(vector, Entries), own, Axes \ Unforced))

Resolve ==
  /\ ~resolved
  /\ resolved' = TRUE
  /\ total' = StructVector
  /\ field' = FieldVector
  /\ UNCHANGED <<vector, own, old>>

(* The schema is edited and compiled again, to be compared with the last *)
Revise ==
  /\ resolved /\ old = <<>>
  /\ old' = vector
  /\ vector' \in [Entries -> Bases]
  /\ resolved' = FALSE
  /\ UNCHANGED <<own, total, field>>

GateNext == (\E m \in Entries : Row(m)) \/ RowOfField \/ Resolve \/ Revise

GateSpec == GateInit /\ [][GateNext]_gateVars

-----------------------------------------------------------------------------
AllDemands == UNION UNION {Requirements(n) : n \in Numbers}

(* A demand for at least a value; naming an axis's strongest is one too *)
IsBound(d) == d.exact => rank(d.axis, d.required) = 1

(* What a struct or a field of its type is said to meet, every member of   *)
(* it meets, on the axes that are not its own: the vector is the worst     *)
(* case of its members (_meet_aggregates and _struct_vector in             *)
(* resolve.py).                                                            *)
StructSpeaks ==
  resolved =>
    \A d \in {d \in AllDemands : IsBound(d) /\ d.axis \in Unforced} :
      \/ Meets(field, d) \/ (d.axis # "auth" /\ Meets(total, d))
      => \A m \in Entries : Meets(vector[m], d)

(* A requirement that holds of a struct holds of the bytes in it: the      *)
(* storage it asks for is enough, and no tag is left stale by a write      *)
(* (requirements.py: "An Unbounded size fails whatever n is").             *)
StructGate ==
  resolved =>
    \A n \in Numbers : \A demands \in Requirements(n) :
      Discharged(total, demands) /\ (\A d \in demands : IsBound(d)) =>
        \A m \in Entries : Discharged(vector[m], demands)

(* A requirement that an edit breaks is reported as a regression of the    *)
(* same member, on an axis it asks about, unless the edit moved the member *)
(* up the order of that axis: the comparison of two revisions catches in   *)
(* review what the build would refuse (_parameter_change in revision.py).  *)
RegressionReported ==
  resolved /\ old # <<>> =>
    \A m \in Entries : \A d \in AllDemands :
      /\ Meets(old[m], d) /\ ~Meets(vector[m], d)
      /\ rank(d.axis, vector[m][d.axis]) >= rank(d.axis, old[m][d.axis])
      => Change(d.axis, old[m][d.axis], vector[m][d.axis]) = "weakened"

=============================================================================
