--------------------------- MODULE ManagedMemory ---------------------------
(***************************************************************************)
(* What the runtime promises a Rivel program about its memory, with no     *)
(* collector in sight: the program allocates blank objects, moves          *)
(* references between its variables and the pointer cells of objects it    *)
(* can reach, and never frees anything.  The only thing that may happen    *)
(* behind its back is that objects it can no longer reach disappear and    *)
(* their addresses are handed out again ("Object lifetime is               *)
(* unobservable", section 7.2 of the language specification).              *)
(***************************************************************************)
EXTENDS Naturals

CONSTANTS
    Objects,    \* addresses an object can have
    NoObj,      \* the null reference, not an address
    Vars,       \* the program's variables that hold references
    CellIdx     \* cell positions of an object

VARIABLES
    live,       \* the objects that exist
    refs,       \* refs[o][i]: the reference in cell i of object o
    var         \* var[x]: the reference in variable x

mvars == <<live, refs, var>>

Word == Objects \cup {NoObj}

(* References an object, and the program itself, hold.                     *)
Out(o)   == {refs[o][i] : i \in CellIdx} \ {NoObj}
VarRoots == {var[x] : x \in Vars} \ {NoObj}

ClosedUnderRefs(S) == \A o \in S : Out(o) \subseteq S

(* The objects the program can reach: those in every closed set that       *)
(* contains its variables' targets.                                        *)
Reachable ==
    {o \in Objects : \A S \in SUBSET Objects :
                        VarRoots \subseteq S /\ ClosedUnderRefs(S) => o \in S}

Init ==
    /\ live = {}
    /\ refs = [o \in Objects |-> [i \in CellIdx |-> NoObj]]
    /\ var = [x \in Vars |-> NoObj]

(* A new object: it was not there before, all its cells are null.          *)
New(o, x) ==
    /\ o \notin live
    /\ live' = live \cup {o}
    /\ refs' = [refs EXCEPT ![o] = [i \in CellIdx |-> NoObj]]
    /\ var' = [var EXCEPT ![x] = o]

Assign(x, w) ==
    /\ var' = [var EXCEPT ![x] = w]
    /\ UNCHANGED <<live, refs>>

Move(x, y)    == Assign(x, var[y])
Forget(x)     == Assign(x, NoObj)
Load(x, y, i) == var[y] # NoObj /\ Assign(x, refs[var[y]][i])

Store(x, i, w) ==
    /\ var[x] # NoObj
    /\ refs' = [refs EXCEPT ![var[x]][i] = w]
    /\ UNCHANGED <<live, var>>

(* Unreachable objects vanish; nothing the program can see changes.  What  *)
(* the cells of a vanished object hold afterwards does not matter.         *)
Reclaim(S) ==
    /\ S \subseteq live \ Reachable
    /\ live' = live \ S
    /\ refs' \in [Objects -> [CellIdx -> Word]]
    /\ \A o \in live' : refs'[o] = refs[o]
    /\ UNCHANGED var

Next ==
    \/ \E o \in Objects, x \in Vars : New(o, x)
    \/ \E x, y \in Vars : Move(x, y)
    \/ \E x \in Vars : Forget(x)
    \/ \E x, y \in Vars, i \in CellIdx : Load(x, y, i)
    \/ \E x, y \in Vars, i \in CellIdx : Store(x, i, var[y])
    \/ \E x \in Vars, i \in CellIdx : Store(x, i, NoObj)
    \/ \E S \in SUBSET live : Reclaim(S)

Spec == Init /\ [][Next]_mvars
=============================================================================
