----------------------------- MODULE Collector -----------------------------
(***************************************************************************)
(* The mark-sweep collector of runtime/rivel_rt.c together with the        *)
(* program it serves.                                                      *)
(*                                                                         *)
(* An object is named by its address.  A word that points anywhere into an *)
(* object is written as that object: resolving an interior pointer to its  *)
(* object is find_object's work, which module PageHeap models address by   *)
(* address.  NoObj stands for null and for any word that is in no object.  *)
(*                                                                         *)
(* The heap is scanned precisely (PtrCells), the stack conservatively: a   *)
(* collection sees, besides the program's references, any set "junk" of    *)
(* addresses left in dead slots or spelled by integers.                    *)
(*                                                                         *)
(* The program is single-threaded and stops while rv_gc_collect runs; the  *)
(* collection is broken into the iterations of its loops.                  *)
(***************************************************************************)
EXTENDS Naturals, FiniteSets

CONSTANTS
    Objects,      \* addresses the allocator can hand out
    NoObj,        \* null, or a word outside every object
    TypeInfos,    \* type descriptors: [kind, field_kinds], see scan_object
    NoType,       \* the NULL ti of a free slot
    CellIdx,      \* cell positions of an object
    Globals,      \* pointer-typed globals, registered by rv_add_roots
    FrameWords,   \* stack words between scan_stack's frame and stack_bottom
    RegWords,     \* callee-saved registers, spilled by setjmp
    NoRequest     \* no allocation waits for the collection

Locals == FrameWords \cup RegWords
Word   == Objects \cup {NoObj}

(* The kinds of type descriptors (RV_KIND) and of their cells (RV_FK).     *)
Kinds      == {"STRUCT", "STR", "LIST", "BOX", "CELLS_SCALAR", "CELLS_PTR"}
FieldKinds == {"INT", "PTR"}

ASSUME CollectorAssumption ==
    /\ NoObj \notin Objects
    /\ NoType \notin TypeInfos
    /\ TypeInfos \subseteq [kind : Kinds, field_kinds : [CellIdx -> FieldKinds]]
    /\ Globals \cap Locals = {}
    /\ NoRequest \notin [ti : TypeInfos, dst : Locals]
    /\ FrameWords \cap RegWords = {}

VARIABLES
    ti,        \* ti[o]: the type descriptor in o's header, NoType when free
    cells,     \* cells[o][i]: the word in cell i of o
    mark,      \* objects with RV_F_MARK set
    work,      \* the mark stack (the order of its entries does not matter)
    global,    \* the program's globals
    local,     \* the program's (and the runtime's own C) live locals
    junk,      \* addresses in stack words that hold no live reference
    pc,        \* where gc_alloc / rv_gc_collect is
    request    \* the allocation that waits for the collection, if any

heap == <<ti, cells>>
prog == <<global, local>>
vars == <<ti, cells, mark, work, global, local, junk, pc, request>>

Request == [ti : TypeInfos, dst : Locals]

TypeOK ==
    /\ ti \in [Objects -> TypeInfos \cup {NoType}]
    /\ cells \in [Objects -> [CellIdx -> Word]]
    /\ mark \subseteq Objects
    /\ work \subseteq Objects
    /\ global \in [Globals -> Word]
    /\ local \in [Locals -> Word]
    /\ junk \subseteq Objects
    /\ pc \in {"run", "roots", "stack", "drain", "alloc", "panicked"}
    /\ request \in Request \cup {NoRequest}

-----------------------------------------------------------------------------
(* The object graph.                                                       *)

Live == {o \in Objects : ti[o] # NoType}

(* The cells scan_object follows in an object of type t.                   *)
PtrCells(t) ==
    IF t = NoType THEN {}
    ELSE IF t.kind \in {"STRUCT", "BOX", "LIST"}
    THEN {i \in CellIdx : t.field_kinds[i] = "PTR"}
    ELSE IF t.kind = "CELLS_PTR" THEN CellIdx ELSE {}

PtrWords(o) == {cells[o][i] : i \in PtrCells(ti[o])}
GlobalWords == {global[g] : g \in Globals}
LocalWords  == {local[l] : l \in Locals}

Edges(o)    == PtrWords(o) \ {NoObj}
GlobalRoots == GlobalWords \ {NoObj}
LocalRoots  == LocalWords \ {NoObj}
Closed(S)   == \A o \in S \cap Live : Edges(o) \subseteq S

(* What can be reached from a set R of objects: the least closed set.      *)
ReachFrom(R) ==
    {o \in Objects : \A S \in SUBSET Objects : R \subseteq S /\ Closed(S) => o \in S}

-----------------------------------------------------------------------------
Init ==
    /\ ti = [o \in Objects |-> NoType]
    /\ cells = [o \in Objects |-> [i \in CellIdx |-> NoObj]]
    /\ mark = {}
    /\ work = {}
    /\ global = [g \in Globals |-> NoObj]
    /\ local = [l \in Locals |-> NoObj]
    /\ junk = {}
    /\ pc = "run"
    /\ request = NoRequest

-----------------------------------------------------------------------------
(* The program: generated code and the runtime's list, string and box      *)
(* operations.  Each is a sequence of these steps on words it holds in      *)
(* registers or stack slots; a collection may come between any two.         *)

SetLocal(l, w) ==
    /\ pc = "run"
    /\ local' = [local EXCEPT ![l] = w]
    /\ UNCHANGED <<heap, mark, work, global, junk, pc, request>>

CopyLocal(l, k)  == SetLocal(l, local[k])
DropLocal(l)     == SetLocal(l, NoObj)
ReadGlobal(l, g) == SetLocal(l, global[g])

WriteGlobal(g, l) ==
    /\ pc = "run"
    /\ global' = [global EXCEPT ![g] = local[l]]
    /\ UNCHANGED <<heap, mark, work, local, junk, pc, request>>

ReadCell(l, k, i) ==
    /\ local[k] \in Live
    /\ i \in PtrCells(ti[local[k]])
    /\ SetLocal(l, cells[local[k]][i])

SetCell(l, i, w) ==
    /\ pc = "run"
    /\ local[l] \in Live
    /\ cells' = [cells EXCEPT ![local[l]][i] = w]
    /\ UNCHANGED <<ti, mark, work, prog, junk, pc, request>>

ClearCell(l, i) == SetCell(l, i, NoObj)

WritePtr(l, i, k) ==
    /\ local[l] \in Live
    /\ i \in PtrCells(ti[local[l]])
    /\ SetCell(l, i, local[k])

(* A scalar cell takes any bit pattern, an object's address included.      *)
WriteScalar(l, i, w) ==
    /\ local[l] \in Live
    /\ i \notin PtrCells(ti[local[l]])
    /\ SetCell(l, i, w)

-----------------------------------------------------------------------------
(* Fault: gc_alloc without its memset; the object starts with old words.   *)
PlaceUnblanked(o, t, l) ==
    /\ ti[o] = NoType
    /\ ti' = [ti EXCEPT ![o] = t]
    /\ local' = [local EXCEPT ![l] = o]
    /\ UNCHANGED <<cells, mark, work, global, junk>>

(* gc_alloc.  The header gets the type and memset blanks every cell.  The  *)
(* allocator returns some slot whose ti is NULL (module PageHeap).         *)
PlaceObject(o, t, l) ==
    /\ ti[o] = NoType
    /\ ti' = [ti EXCEPT ![o] = t]
    /\ cells' = [cells EXCEPT ![o] = [i \in CellIdx |-> NoObj]]
    /\ local' = [local EXCEPT ![l] = o]
    /\ UNCHANGED <<mark, work, global, junk>>

(* Below the threshold: no collection.  When to collect is a policy of     *)
(* byte counts (module PageHeap); here either may happen at any call.      *)
Alloc(o, t, l) ==
    /\ pc = "run"
    /\ PlaceObject(o, t, l)
    /\ UNCHANGED <<pc, request>>

StartCollect(r) ==
    /\ pc = "run"
    /\ pc' = "roots"
    /\ request' = r
    /\ UNCHANGED <<heap, mark, work, prog, junk>>

(* Fault of mark_word: marking without pushing.                            *)
MarkUnpushed(W, rest) ==
    /\ mark' = mark \cup (W \cap Live)
    /\ work' = rest

(* mark_word for each word of W: those that find_object resolves to an     *)
(* allocated object, if not marked yet, are marked and pushed.             *)
MarkWords(W, rest) ==
    LET new == {o \in W : o \in Live /\ o \notin mark}
    IN  /\ mark' = mark \cup new
        /\ work' = rest \cup new

(* Fault: rv_gc_collect without its loop over the registered globals.      *)
SkipRoots ==
    /\ pc = "roots"
    /\ pc' = "stack"
    /\ UNCHANGED <<heap, mark, work, prog, junk, request>>

MarkRoots ==
    /\ pc = "roots"
    /\ MarkWords(GlobalWords, work)
    /\ pc' = "stack"
    /\ UNCHANGED <<heap, prog, junk, request>>

(* Fault: scan_stack without setjmp; callee-saved registers are not seen.  *)
ScannedWithoutRegs == FrameWords

(* scan_stack reads the jmp_buf and every word up to stack_bottom.         *)
ScannedWords == FrameWords \cup RegWords

ScanStack(dead) ==
    /\ pc = "stack"
    /\ junk' = dead
    /\ MarkWords({local[l] : l \in ScannedWords} \cup dead, work)
    /\ pc' = "drain"
    /\ UNCHANGED <<heap, prog, request>>

(* Fault of the marking loop: the object is not popped.                    *)
ScanUnpopped(o) ==
    /\ pc = "drain"
    /\ o \in work
    /\ MarkWords(PtrWords(o), work)
    /\ UNCHANGED <<heap, prog, junk, pc, request>>

ScanObject(o) ==
    /\ pc = "drain"
    /\ o \in work
    /\ MarkWords(PtrWords(o), work \ {o})
    /\ UNCHANGED <<heap, prog, junk, pc, request>>

(* Fault: a sweep that does not clear the marks of survivors.              *)
SweepKeepingMarks ==
    /\ pc = "drain"
    /\ work = {}
    /\ ti' = [o \in Objects |-> IF o \in mark THEN ti[o] ELSE NoType]
    /\ junk' = {}
    /\ pc' = IF request = NoRequest THEN "run" ELSE "alloc"
    /\ UNCHANGED <<cells, mark, work, prog, request>>

(* sweep_pages and sweep_larges: unmarked objects become free (their cells *)
(* keep what was in them), marks are cleared.                              *)
Sweep ==
    /\ pc = "drain"
    /\ work = {}
    /\ ti' = [o \in Objects |-> IF o \in mark THEN ti[o] ELSE NoType]
    /\ mark' = {}
    /\ junk' = {}
    /\ pc' = IF request = NoRequest THEN "run" ELSE "alloc"
    /\ UNCHANGED <<cells, work, prog, request>>

(* The rest of the gc_alloc call that started the collection.              *)
FinishAlloc(o) ==
    /\ pc = "alloc"
    /\ PlaceObject(o, request.ti, request.dst)
    /\ pc' = "run"
    /\ request' = NoRequest

(* xrealloc or posix_memalign fails: no room for the object, or for the    *)
(* mark stack.  rv_panic_cstr does not return.                             *)
OutOfMemory ==
    /\ \/ pc \in {"run", "alloc"} /\ Live = Objects
       \/ pc \in {"roots", "stack", "drain"} /\ mark # Live
    /\ pc' = "panicked"
    /\ UNCHANGED <<heap, mark, work, prog, junk, request>>

-----------------------------------------------------------------------------
Mutator ==
    \/ \E l, k \in Locals : CopyLocal(l, k)
    \/ \E l \in Locals : DropLocal(l)
    \/ \E l \in Locals, g \in Globals : ReadGlobal(l, g) \/ WriteGlobal(g, l)
    \/ \E l, k \in Locals, i \in CellIdx : ReadCell(l, k, i) \/ WritePtr(l, i, k)
    \/ \E l \in Locals, i \in CellIdx : ClearCell(l, i)
    \/ \E l \in Locals, i \in CellIdx, w \in Word : WriteScalar(l, i, w)
    \/ \E o \in Objects, t \in TypeInfos, l \in Locals : Alloc(o, t, l)
    \/ \E r \in Request \cup {NoRequest} : StartCollect(r)

Collection ==
    \/ MarkRoots
    \/ \E dead \in SUBSET Objects : ScanStack(dead)
    \/ \E o \in Objects : ScanObject(o)
    \/ Sweep
    \/ \E o \in Objects : FinishAlloc(o)

Next == Mutator \/ Collection \/ OutOfMemory

Spec == Init /\ [][Next]_vars

(* The collector's loops run to completion: nothing else runs meanwhile.   *)
FairSpec == Spec /\ WF_vars(Collection \/ OutOfMemory)

-----------------------------------------------------------------------------
(* Properties.                                                             *)

Roots   == GlobalRoots \cup LocalRoots
Scanned == Roots \cup junk    \* the words a collection starts from

(* No reference the program holds, in a variable or in a pointer cell of   *)
(* an object it can reach, leads to a slot that gc_alloc's free lists own. *)
NoDangling == ReachFrom(Roots) \subseteq Live

(* The loop invariant of rv_gc_collect: a marked object that has left the  *)
(* mark stack has all its referents marked, and once the roots and the     *)
(* stack are scanned their targets are marked too, so nothing reachable is *)
(* white when the stack runs empty.                                        *)
TriColour ==
    /\ work \subseteq mark
    /\ mark \subseteq Live
    /\ \A o \in mark \ work : Edges(o) \subseteq mark
    /\ pc \in {"stack", "drain"} => GlobalRoots \subseteq mark
    /\ pc = "drain" => LocalRoots \subseteq mark

(* Between collections no object carries a mark: one left over would make  *)
(* the next collection skip that object and free what only it references.  *)
NoStaleMark == pc \in {"run", "roots", "alloc"} => mark = {} /\ work = {}

(* Only what the roots or a stack word lead to is ever marked: garbage,    *)
(* cycles included, is freed by the next collection.  In particular a      *)
(* scalar cell that spells an address keeps nothing alive.                 *)
MarksAreReachable == mark \subseteq ReachFrom(Scanned)

(* A step that frees an object frees one the program cannot reach, and     *)
(* leaves the cells of every survivor alone.                               *)
FreesOnlyGarbage ==
    [][\A o \in Live : IF o \in Live' THEN pc # "run" => cells'[o] = cells[o]
                                       ELSE o \notin ReachFrom(Roots)]_vars

(* A sweep frees everything that no scanned word leads to.                 *)
SweepIsComplete ==
    [][pc = "drain" /\ pc' \in {"run", "alloc"} => Live' = Live \cap ReachFrom(Scanned)]_vars

(* Every collection comes to an end, and the allocation waiting for it is  *)
(* then served, unless memory runs out.                                    *)
CollectionEnds == (pc \in {"roots", "stack", "drain", "alloc"}) ~> (pc \in {"run", "panicked"})

(* Seen through its references, the collected heap is managed memory.      *)
PtrView == [o \in Objects |->
              [i \in CellIdx |-> IF i \in PtrCells(ti[o]) THEN cells[o][i] ELSE NoObj]]
VarView == [x \in Globals \cup Locals |-> IF x \in Globals THEN global[x] ELSE local[x]]

Managed == INSTANCE ManagedMemory WITH
    Vars <- Globals \cup Locals, live <- Live, refs <- PtrView, var <- VarView

ImplementsManagedMemory == Managed!Spec
=============================================================================
