--------------------------- MODULE EditorDocument ---------------------------
(***************************************************************************)
(* editor/document.py: `set` writes one member of an open message and then *)
(* walks the tags of the packed image, in the order they are declared.  A  *)
(* tag whose kernel the image carries is computed over the bytes that are  *)
(* in the buffer at that point of the walk; for another one the user gets  *)
(* a note that it is stale.                                                *)
(***************************************************************************)
EXTENDS Coverage

VARIABLES
  wrong,   \* the obligations whose stored bytes no longer agree
  edited,  \* the field `set` has written and is walking the tags for
  left,    \* the tags the walk has still to come to
  noted    \* the tags the user was told are stale, and not since recomputed

editorVars == <<wrong, edited, left, noted>>

NoField == "no field"

ASSUME NoFieldAssumption == NoField \notin Fields

EditorInit ==
  /\ schema \in Structs
  /\ wrong = {}
  /\ edited = NoField
  /\ left = {}
  /\ noted = {}

(* The image carries a tag's coverage as its first and last covered field, *)
(* by declaration.                                                         *)
CoveredFields(s, t) == {m \in Members \ Tags : Inside(s, m, t)}

Spans(s, t, m) ==
  \E first, last \in CoveredFields(s, t) :
    s.place[first] <= s.place[m] /\ s.place[m] <= s.place[last]

(* What is between the two is summed, the tag's own bytes excepted *)
SumIsCoverage(s, t) ==
  \A m \in Members \ {t} : Spans(s, t, m) <=> Inside(s, m, t)

(* A member that decides a length moves others: `set` tries the write on a *)
(* copy, finds an extent changed and refuses.  Otherwise the bytes are     *)
(* stored, and the tags are walked when the member's `auth` is Covered.    *)
SetField(f) ==
  /\ edited = NoField
  /\ schema.sizes[f] = {}
  /\ wrong' = wrong \cup Staled(schema, f)
  /\ IF CoveredBy(schema, f) = {}
     THEN UNCHANGED <<edited, left>>
     ELSE edited' = f /\ left' = Tags
  /\ UNCHANGED <<schema, noted>>

(* The tag is not over the member: no word of it *)
Skip(t) == UNCHANGED <<wrong, noted>>

(* No codec situ computes, or the codec refuses the bytes or the span is   *)
(* not to be had: reported as stale, left as it is.                        *)
Report(t) ==
  /\ noted' = noted \cup {t}
  /\ UNCHANGED wrong

(* Computed over the span and stored: right if the span is the coverage *)
Compute(t) ==
  /\ wrong' = (IF SumIsCoverage(schema, t) THEN wrong \ {t} ELSE wrong)
                \cup Staled(schema, t)
  /\ noted' = noted \ {t}

Walk(t) ==
  \/ ~Spans(schema, t, edited) /\ Skip(t)
  \/ Spans(schema, t, edited) /\ Report(t)
  \/ Spans(schema, t, edited) /\ t \in schema.computes /\ Compute(t)

(* Mutant: the walk goes from the last declaration to the first *)
WalkTagBackwards(t) ==
  /\ edited # NoField
  /\ t \in left
  /\ \A u \in left : schema.place[u] <= schema.place[t]
  /\ Walk(t)
  /\ left' = left \ {t}
  /\ edited' = IF left = {t} THEN NoField ELSE edited
  /\ UNCHANGED schema

(* The next tag in the order of declaration *)
WalkTag(t) ==
  /\ edited # NoField
  /\ t \in left
  /\ \A u \in left : schema.place[t] <= schema.place[u]
  /\ Walk(t)
  /\ left' = left \ {t}
  /\ edited' = IF left = {t} THEN NoField ELSE edited
  /\ UNCHANGED schema

EditorNext ==
  \/ \E f \in Fields : SetField(f)
  \/ \E t \in Tags : WalkTag(t)

EditorSpec == EditorInit /\ [][EditorNext]_<<schema, editorVars>>

(* The structs an edit keeps right: every tag's sum is its coverage, and a *)
(* computed tag whose bytes are input to another is declared before it and *)
(* only changes with what the outer one covers too.                        *)
EditorSound(s) ==
  \A t \in Tags :
    /\ SumIsCoverage(s, t)
    /\ \A u \in s.computes \cap InputOf(s, t) :
         /\ t \in s.computes => s.place[u] < s.place[t]
         /\ \A f \in Fields : Inside(s, f, u) => Inside(s, f, t)

(* PROPERTY (rest)  When `set` has returned, every tag that no longer      *)
(* matches the bytes is one the user was told of: no note says that a tag  *)
(* was recomputed which a later step of the same walk made stale again     *)
(* (editor/document.py _recompute).                                        *)
NotesTruthful == edited = NoField => wrong \cap Tags \subseteq noted
=============================================================================
