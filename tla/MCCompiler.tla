----------------------------- MODULE MCCompiler -----------------------------
(* Instances of the compiler's passes and of what they promise at run      *)
(* time: coverage, over every struct of two regions, three fields, two     *)
(* tags and a derived field that the parser can lay out and the checks     *)
(* accept, through the generated accessors and in the editor; the          *)
(* expansion of imports; and capabilities with their requirements.         *)
EXTENDS CoveredMessage, EditorDocument, SchemaGate, Imports

VARIABLES
  part,    \* what is run: "accessors", "editor", "imports" or "gate"
  focus    \* the axes that vary, in "gate"

CONSTANTS
  f, g, n, t, u, d, a, b,    \* fields, tags, a derived field and regions
  body, tag,                 \* the members of a struct in "gate"
  root, lib, leaf            \* files

mcVars == <<vars, editorVars, gateVars, importVars, part, focus>>

-----------------------------------------------------------------------------
(* A layout: the members in the order they are declared, and which of them *)
(* are inside region a and inside region b.                                *)
Layout(order, inA, inB) ==
  [place |-> [m \in Members |-> CHOOSE i \in DOMAIN order : order[i] = m],
   regions |-> [m \in Members |-> (IF m \in inA THEN {a} ELSE {})
                                    \cup (IF m \in inB THEN {b} ELSE {})]]

Layouts ==
  {Layout(<<n, d, f, g, t, u>>, {f}, {g}),              \* side by side
   Layout(<<n, d, f, g, t, u>>, {d, f, g}, {g}),        \* b in a
   Layout(<<n, d, f, g, t, u>>, {n, d, f, g}, {g}),     \* and the length too
   Layout(<<n, d, f, u, g, t>>, {f}, {u, g}),           \* a tag in b
   Layout(<<t, n, d, f, u, g>>, {f}, {u, g}),           \* the outer tag first
   Layout(<<d, n, f, g, u, t>>, {d, n, f, g, u}, {n, f, g}),
   Layout(<<t, d, u, n, f, g>>, {d, u, n, f, g}, {u, n, f, g}),
   Layout(<<t, d, u, n, g, f>>, {d, u, n, g, f}, {n, g}),  \* f behind the run
   Layout(<<t, u, d, f, n, g>>, {d, f}, {f}),           \* the run outside
   Layout(<<n, f, t, g, d, u>>, {f, t}, {g, d}),        \* a tag in its region
   Layout(<<f, d, n, g, t, u>>, {f}, {g})}              \* a gap between them

(* A covers clause names some regions, or none and means all of them; an   *)
(* invariant is of the size of a member, of a run and of its length, or of *)
(* the offset of a member, with or without the length that decides it.     *)
Clauses == [Tags -> SUBSET Regions]
Of(named) == [x \in Derived |-> named]
Readings == {<<Of({f}), Of({})>>, <<Of({g}), Of({})>>, <<Of({g, n}), Of({})>>,
             <<Of({}), Of({f})>>, <<Of({n}), Of({f})>>}

MCStructs ==
  {[place |-> l.place, regions |-> l.regions, covers |-> c,
    extents |-> x[1], offsets |-> x[2],
    sizes |-> [y \in Members |-> IF y = n THEN {g} ELSE {}],
    masked |-> {f}, computes |-> k]
     : l \in Layouts, c \in Clauses, x \in Readings, k \in SUBSET Tags}

(* The structs that a writer may hold, and those for which the coverage    *)
(* the compiler computes is enough                                         *)
Accepted ==
  /\ WellFormed(schema)
  /\ \/ part = "accessors" /\ HasAccessors(schema) /\ schema.computes = {}
     \/ part = "editor" /\ schema.extents = Of({f})

Enough ==
  IF part = "accessors" THEN Sound(schema) /\ OnlySettersMove(schema)
  ELSE EditorSound(schema)

-----------------------------------------------------------------------------
(* Three files, each with at most two directives, cycles and all *)
MCDirectives == [Files -> UNION {[1 .. k -> Files] : k \in 0 .. 2}]
NoImports == [x \in Files |-> <<>>]

(* A struct of two members under two tags, one of which is a member.  One  *)
(* axis varies at a time, and the two that a requirement can join.         *)
MCValues ==
  [size |-> {With("Fixed", <<1>>), With("Fixed", <<4>>),
             With("Bounded", <<1, 2>>), With("Bounded", <<1, 3>>),
             Bare("Unbounded")},
   align |-> {With("Aligned", <<2>>), With("Aligned", <<8>>), Bare("Unaligned")},
   mutate |-> {Bare("InPlaceFixed"), Bare("InPlaceSlack"), Bare("Immutable")},
   auth |-> {Covered({tag}), Covered({u})}]

InFocus(v) ==
  /\ "size" \in focus \/ v["size"] = With("Fixed", <<1>>)
  /\ "align" \in focus \/ v["align"] = With("Aligned", <<8>>)
  /\ \A axis \in {"mutate", "auth"} \ focus : v[axis] = strongest[axis]

GateState == InFocus(own) /\ \A x \in Entries : InFocus(vector[x])

-----------------------------------------------------------------------------
(* The components that are not run stay in one state *)
CoverageInit ==
  /\ IF part \in {"accessors", "editor"} THEN TRUE
     ELSE schema = CHOOSE s \in Structs : TRUE
  /\ Init /\ EditorInit
  /\ part \in {"accessors", "editor"} => Accepted

IdleImports ==
  /\ imports = NoImports /\ unreadable = {} /\ seen = {} /\ stack = <<>>
  /\ merged = <<>> /\ outcome = "idle"

IdleGate ==
  /\ focus = {}
  /\ vector = [x \in Entries |-> strongest] /\ own = strongest
  /\ resolved = FALSE /\ total = strongest /\ field = strongest /\ old = <<>>

MCInit ==
  /\ part \in {"accessors", "editor", "imports", "gate"}
  /\ CoverageInit
  /\ IF part = "imports" THEN ImportsInit ELSE IdleImports
  /\ IF part = "gate"
     THEN focus \in {{"size"}, {"align"}, {"mutate", "auth"}} /\ GateInit /\ GateState
     ELSE IdleGate

MCNext ==
  /\ UNCHANGED <<part, focus>>
  /\ CASE part = "accessors" -> Next /\ UNCHANGED <<editorVars, gateVars, importVars>>
       [] part = "editor" ->
            EditorNext /\ UNCHANGED <<msgVars, gateVars, importVars>>
       [] part = "imports" ->
            ImportsNext /\ UNCHANGED <<vars, editorVars, gateVars>>
       [] part = "gate" ->
            /\ GateNext /\ GateState'
            /\ UNCHANGED <<vars, editorVars, importVars>>

(* Where writers and the editor are concerned, a struct whose coverage is *)
(* enough                                                                  *)
SoundInit == MCInit /\ (part \in {"accessors", "editor"} => Enough)

MCSpec == SoundInit /\ [][MCNext]_mcVars

(* One part alone, with any struct that the checks accept *)
AnyInit(p) == MCInit /\ part = p

(* Nothing is hidden from the tags, and the invariant is of the size of a *)
(* run that does not decide its own                                       *)
UnnamedLength ==
  /\ \A x \in Tags : InputsNamed(schema, x)
  /\ schema.extents = Of({g}) /\ schema.offsets = Of({})

AnyStructSpec == AnyInit("accessors") /\ UnnamedLength /\ [][MCNext]_mcVars

AnyGateSpec == AnyInit("gate") /\ [][MCNext]_mcVars
=============================================================================
