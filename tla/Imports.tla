------------------------------ MODULE Imports ------------------------------
(* The expansion of imports (situc/imports.py, expand): each `import` of a *)
(* file is replaced with the declarations of the file it names, which has  *)
(* been expanded first.  `expand` calls itself; a frame of the stack here  *)
(* is one of those calls.  A file stands for the declarations in it.       *)
EXTENDS Naturals, Sequences, SequencesExt

CONSTANTS
  Files,
  Root,        \* the file that is compiled
  Directives   \* the imports of each file, in order

ASSUME ImportsAssumption ==
  Root \in Files /\ \A d \in Directives : d \in [Files -> Seq(Files)]

VARIABLES
  imports,     \* the directives of the files of this compilation
  unreadable,  \* the files that cannot be read
  seen,        \* the files already spliced in
  stack,       \* the calls of expand, the outermost first
  merged,      \* the declarations of the last call that returned
  outcome      \* "expanding", "done" or "refused"

importVars == <<imports, unreadable, seen, stack, merged, outcome>>

Frame(f) == [file |-> f, next |-> 1, arrived |-> <<>>]

ImportsInit ==
  /\ imports \in Directives
  /\ unreadable \in SUBSET (Files \ {Root})
  /\ seen = {Root}
  /\ stack = <<Frame(Root)>>
  /\ merged = <<>>
  /\ outcome = "expanding"

Top == stack[Len(stack)]
Named == imports[Top.file][Top.next]
Left == Top.next <= Len(imports[Top.file])
Replaced(frame) == [stack EXCEPT ![Len(stack)] = frame]

(* A file that is here already contributes nothing a second time *)
SkipSeen ==
  /\ outcome = "expanding" /\ Left /\ Named \in seen
  /\ stack' = Replaced([Top EXCEPT !.next = @ + 1])
  /\ UNCHANGED <<imports, unreadable, seen, merged, outcome>>

(* _read raises: nothing of the compilation is left *)
Refuse ==
  /\ outcome = "expanding" /\ Left /\ Named \notin seen /\ Named \in unreadable
  /\ outcome' = "refused"
  /\ UNCHANGED <<imports, unreadable, seen, stack, merged>>

Enter ==
  /\ outcome = "expanding" /\ Left /\ Named \notin seen /\ Named \notin unreadable
  /\ seen' = seen \cup {Named}
  /\ stack' = Append(stack, Frame(Named))
  /\ UNCHANGED <<imports, unreadable, merged, outcome>>

(* Mutant: the file's own declarations ahead of those that arrived *)
DeclaredOwnFirst(frame) == <<frame.file>> \o frame.arrived

(* The declarations a call leaves in the schema it was given: what arrived *)
(* goes ahead of the file's own.                                           *)
Declared(frame) == Append(frame.arrived, frame.file)

(* A call returns, and its caller takes the declarations of the schema *)
Return ==
  /\ outcome = "expanding" /\ ~Left
  /\ IF Len(stack) = 1
     THEN stack' = <<>> /\ outcome' = "done"
     ELSE LET below == stack[Len(stack) - 1]
          IN /\ stack' = Append(SubSeq(stack, 1, Len(stack) - 2),
                                [below EXCEPT !.next = @ + 1,
                                              !.arrived = @ \o Declared(Top)])
             /\ UNCHANGED outcome
  /\ merged' = Declared(Top)
  /\ UNCHANGED <<imports, unreadable, seen>>

ImportsNext == SkipSeen \/ Refuse \/ Enter \/ Return

ImportsSpec == ImportsInit /\ [][ImportsNext]_importVars

-----------------------------------------------------------------------------
(* The files that can be reached from f: those in every set that has f and *)
(* what its files import.                                                  *)
ReachedFrom(directives, f) ==
  {g \in Files :
     \A S \in SUBSET Files :
       f \in S /\ (\A h \in S : ToSet(directives[h]) \subseteq S) => g \in S}

(* A compilation that ends has every file its root can reach, and no other *)
(* exactly once, ahead of each file that imports it unless the two import  *)
(* each other; the files reported as read are those; and one that cannot   *)
(* be read is never left out in silence (expand in imports.py).            *)
MergedIsComplete ==
  outcome = "done" =>
    /\ IsInjective(merged)
    /\ ToSet(merged) = ReachedFrom(imports, Root)
    /\ seen = ToSet(merged)
    /\ \A i, j \in DOMAIN merged :
         /\ merged[i] \in ToSet(imports[merged[j]])
         /\ merged[j] \notin ReachedFrom(imports, merged[i])
         => i < j

=============================================================================
