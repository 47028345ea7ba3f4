--------------------------- MODULE CoveredMessage ---------------------------
(***************************************************************************)
(* A message and its generated C accessors: the dirty word of situ_msg_t,  *)
(* with a bit per obligation, and the generation that tells a view of the  *)
(* present layout from an older one, in a checked build.                   *)
(*                                                                         *)
(* The caller is one that keeps the rules the header states: it computes a *)
(* tag and finalizes it with no write in between and works through what is *)
(* dirty in the listed order.  It writes through a view it has just taken; *)
(* `view` is another one, which it keeps for as long as it likes.          *)
(***************************************************************************)
EXTENDS Coverage

CONSTANTS
  Wrap,     \* the generation counts modulo this (2^32)
  MaxMoves  \* bound on the moves that one view is kept across

ASSUME WrapAssumption == Wrap \in Nat /\ Wrap >= 2 /\ MaxMoves \in Nat

VARIABLES
  stale,       \* the obligations whose stored bytes no longer agree
  dirty,       \* msg->dirty, as the set of obligations whose bit is set
  generation,  \* msg->generation
  view,        \* the kept view: its generation; how often members have moved
               \* since, and whether it is of the present binding (history)
  written      \* the tag whose bytes were the last thing written, if any

msgVars == <<stale, dirty, generation, view, written>>
vars == <<schema, msgVars>>

Untouched == "no tag"

ASSUME UntouchedAssumption == Untouched \notin Tags

NoView == [generation |-> 0, moves |-> 0, present |-> FALSE]  \* zero-initialised

Init ==
  /\ schema \in Structs
  /\ stale = {}
  /\ dirty = {}
  /\ generation = 1
  /\ view = NoView
  /\ written = Untouched

(* situ_msg_init over a message that has arrived: clean, generation 1.  A  *)
(* view taken before stays with the caller.                                *)
Bind ==
  /\ stale' = {}
  /\ dirty' = {}
  /\ generation' = 1
  /\ view' = [generation |-> view.generation, moves |-> 0, present |-> FALSE]
  /\ written' = Untouched
  /\ UNCHANGED schema

Acquire ==
  /\ view' = [generation |-> generation, moves |-> 0, present |-> TRUE]
  /\ UNCHANGED <<schema, stale, dirty, generation, written>>

(* situ_view_check, which a checked accessor calls on entry *)
Live == view.generation = generation

(* Mutant: the last value before the wrap is kept *)
TouchedStops == IF (generation + 1) % Wrap = 0 THEN generation ELSE generation + 1

(* situ_msg_touch: 0 is skipped *)
Touched == IF (generation + 1) % Wrap = 0 THEN 1 ELSE (generation + 1) % Wrap

(* Mutant: a mask of the innermost obligation alone *)
MarkedInnermost(members) ==
  UNION {{o \in CoveredBy(schema, m) :
            \A p \in CoveredBy(schema, m) \ {o} : ~Before(schema, p, o)}
           : m \in members}

Marked(members) == UNION {CoveredBy(schema, m) : m \in members}

(* A write to some members may move others under the kept view *)
Carried(members) ==
  /\ view' = IF view.present /\ \E m \in members : schema.sizes[m] # {}
             THEN [view EXCEPT !.moves = @ + 1] ELSE view
  /\ view'.moves <= MaxMoves

(* The bytes of some members change: not those of an obligation's own *)
Stored(members) ==
  /\ stale' = stale \cup UNION {Staled(schema, m) : m \in members}
  /\ written' = Untouched
  /\ Carried(members)

(* The setter of a member no later one is placed by; a pointer write with  *)
(* the mark its COVERAGE note asks for does the same.  One whose place the *)
(* frame does not hold stores and marks nothing.                           *)
Set(f) ==
  /\ schema.sizes[f] = {}
  /\ Stored({f})
  /\ dirty' = dirty \cup Marked({f})
  /\ UNCHANGED <<schema, generation>>

(* The setter of a member that decides an extent: it bumps the generation  *)
(* and marks what covers the member itself.  A derived field that does has *)
(* one too, and storing any value there leaves that field stale.           *)
SetShifting(m) ==
  /\ schema.sizes[m] # {}
  /\ stale' = stale \cup Staled(schema, m) \cup ({m} \cap Derived)
  /\ written' = Untouched
  /\ Carried({m})
  /\ generation' = Touched
  /\ dirty' = dirty \cup Marked({m})
  /\ UNCHANGED schema

(* A scattered transform with `tag_order = before`, when its codec says    *)
(* ok.  It is emitted over constant offsets, and the generation stays,     *)
(* whatever it runs over.                                                  *)
Transform ==
  /\ \A m \in schema.masked : Static(schema, m)
  /\ Stored(schema.masked)
  /\ dirty' = dirty \cup Marked(schema.masked)
  /\ UNCHANGED <<schema, generation>>

(* The next obligation in the listed order, of those that can be renewed *)
Due(o) ==
  LET open == dirty \cap Renewable(schema)
  IN o \in open /\ \A p \in open : ~Before(schema, p, o)

(* The stored bytes of o now agree with the rest *)
Renewed(o) == (stale \ {o}) \cup Staled(schema, o)

(* <derived>_recompute: one call stores the value and clears the bit.  The *)
(* generation stays, also when the field decides an extent.                *)
Recompute(d) ==
  /\ Due(d)
  /\ stale' = Renewed(d)
  /\ dirty' = dirty \ {d}
  /\ written' = Untouched
  /\ Carried({d})
  /\ UNCHANGED <<schema, generation>>

(* The caller runs the algorithm over the covered span and stores the      *)
(* result through the tag's pointer.                                       *)
WriteTag(t) ==
  /\ Due(t)
  /\ stale' = Renewed(t)
  /\ written' = t
  /\ UNCHANGED <<schema, dirty, generation, view>>

(* <tag>_finalize clears the bit, whatever has been written *)
Finalize(t) ==
  /\ written = t
  /\ dirty' = dirty \ {t}
  /\ UNCHANGED <<schema, stale, generation, view, written>>

Next ==
  \/ Bind
  \/ Acquire
  \/ \E f \in Fields : Set(f)
  \/ \E m \in Fields \cup Derived : SetShifting(m)
  \/ Transform
  \/ \E d \in Derived : Recompute(d)
  \/ \E t \in Tags : WriteTag(t) \/ Finalize(t)

Spec == Init /\ [][Next]_vars

TypeOK ==
  /\ schema \in Structs
  /\ stale \in SUBSET Obligations
  /\ dirty \in SUBSET Obligations
  /\ generation \in 1 .. Wrap - 1
  /\ view \in [generation: 0 .. Wrap - 1, moves: 0 .. MaxMoves, present: BOOLEAN]
  /\ written \in Tags \cup {Untouched}

(* PROPERTY  No obligation is out of date without its bit: whatever the    *)
(* order of writes, transforms, recomputes and finalizes, the dirty word   *)
(* knows (runtime/c/situ.h situ_msg_mark_dirty and the setters' masks).    *)
StaleIsMarked == stale \subseteq dirty

(* PROPERTY  When situ_msg_transmittable says ok, every tag and derived    *)
(* field of the buffer agrees with the bytes (project.md 14.2, 16.1).      *)
TransmittableIsCurrent == dirty = {} => stale = {}

(* PROPERTY  A view of this binding that passes situ_view_check is of the  *)
(* present layout, unless it was kept across as many moves as there are    *)
(* generations (Wrap - 1, since 0 is skipped); and a zero-initialised view *)
(* never passes (runtime/c/situ.c situ_msg_touch).                         *)
StaleViewCaught ==
  Live => /\ view # NoView
          /\ view.present /\ view.moves < Wrap - 1 => view.moves = 0
=============================================================================
