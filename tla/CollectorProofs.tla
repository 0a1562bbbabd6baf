-------------------------- MODULE CollectorProofs --------------------------
(***************************************************************************)
(* Proofs about the collector for every heap size, object layout, number   *)
(* of variables and schedule of collections.                               *)
(***************************************************************************)
EXTENDS Collector, TLAPS

(* The collector never leaves a live object, or a variable, pointing at a  *)
(* free slot.  Unlike NoDangling, which speaks of what the program can     *)
(* reach, this is kept by each step on its own.                            *)
RefsAreLive ==
    /\ \A o \in Live : Edges(o) \subseteq Live
    /\ Roots \subseteq Live

(* A descriptor is remembered while its collection runs.                   *)
PendingOK == pc = "alloc" => request \in Request

IInv == TypeOK /\ PendingOK /\ RefsAreLive /\ TriColour /\ NoStaleMark

-----------------------------------------------------------------------------
(* Every declared variable keeps its type.                                 *)
THEOREM TypeCorrect == Spec => [](TypeOK /\ PendingOK)
<1>1. Init => TypeOK /\ PendingOK
  BY DEF Init, TypeOK, PendingOK, Word
<1>2. TypeOK /\ PendingOK /\ [Next]_vars => TypeOK' /\ PendingOK'
  <2> SUFFICES ASSUME TypeOK, PendingOK, [Next]_vars
               PROVE  TypeOK' /\ PendingOK'
    OBVIOUS
  <2> USE DEF TypeOK, PendingOK, Word, heap, prog
  <2>1. ASSUME NEW l \in Locals, NEW w \in Word, SetLocal(l, w)
        PROVE  TypeOK' /\ PendingOK'
    BY <2>1 DEF SetLocal
  <2>2. ASSUME NEW l \in Locals, NEW g \in Globals, WriteGlobal(g, l)
        PROVE  TypeOK' /\ PendingOK'
    BY <2>2 DEF WriteGlobal
  <2>3. ASSUME NEW l \in Locals, NEW i \in CellIdx, NEW w \in Word, SetCell(l, i, w)
        PROVE  TypeOK' /\ PendingOK'
    BY <2>3 DEF SetCell
  <2>4. ASSUME NEW o \in Objects, NEW t \in TypeInfos, NEW l \in Locals, Alloc(o, t, l)
        PROVE  TypeOK' /\ PendingOK'
    BY <2>4 DEF Alloc, PlaceObject
  <2>5. ASSUME NEW r \in Request \cup {NoRequest}, StartCollect(r)
        PROVE  TypeOK' /\ PendingOK'
    BY <2>5 DEF StartCollect
  <2>6. CASE MarkRoots
    BY <2>6 DEF MarkRoots, MarkWords, Live
  <2>7. ASSUME NEW dead \in SUBSET Objects, ScanStack(dead)
        PROVE  TypeOK' /\ PendingOK'
    BY <2>7 DEF ScanStack, MarkWords, Live
  <2>8. ASSUME NEW o \in Objects, ScanObject(o)
        PROVE  TypeOK' /\ PendingOK'
    BY <2>8 DEF ScanObject, MarkWords, Live
  <2>9. CASE Sweep
    BY <2>9 DEF Sweep
  <2>10. ASSUME NEW o \in Objects, FinishAlloc(o)
         PROVE  TypeOK' /\ PendingOK'
    BY <2>10 DEF FinishAlloc, PlaceObject, Request
  <2>11. CASE OutOfMemory
    BY <2>11 DEF OutOfMemory
  <2>12. CASE UNCHANGED vars
    BY <2>12 DEF vars
  <2>13. ASSUME NEW l \in Locals, NEW k \in Locals, CopyLocal(l, k)
         PROVE  TypeOK' /\ PendingOK'
    BY <2>1, <2>13 DEF CopyLocal
  <2>14. ASSUME NEW l \in Locals, NEW g \in Globals, ReadGlobal(l, g)
         PROVE  TypeOK' /\ PendingOK'
    BY <2>1, <2>14 DEF ReadGlobal
  <2>15. ASSUME NEW l \in Locals, NEW k \in Locals, NEW i \in CellIdx, ReadCell(l, k, i)
         PROVE  TypeOK' /\ PendingOK'
    BY <2>1, <2>15 DEF ReadCell, Live
  <2>16. QED
    BY <2>1, <2>2, <2>3, <2>4, <2>5, <2>6, <2>7, <2>8, <2>9, <2>10, <2>11, <2>12,
       <2>13, <2>14, <2>15
       DEF Next, Mutator, Collection, DropLocal, WritePtr, ClearCell, WriteScalar
<1>3. QED
  BY <1>1, <1>2, PTL DEF Spec

-----------------------------------------------------------------------------
(* The steps of the program in terms of the two assignments they make.     *)
LEMMA MutatorCases ==
  ASSUME TypeOK, RefsAreLive, Mutator,
         NEW P,
         ASSUME NEW l \in Locals, NEW w \in Live \cup {NoObj}, SetLocal(l, w) PROVE P,
         ASSUME NEW l \in Locals, NEW g \in Globals, WriteGlobal(g, l) PROVE P,
         ASSUME NEW l \in Locals, NEW i \in CellIdx, NEW w \in Word, local[l] \in Live,
                i \in PtrCells(ti[local[l]]) => w \in Live \cup {NoObj},
                SetCell(l, i, w)
         PROVE P,
         ASSUME NEW o \in Objects, NEW t \in TypeInfos, NEW l \in Locals, Alloc(o, t, l)
         PROVE P,
         ASSUME NEW r \in Request \cup {NoRequest}, StartCollect(r) PROVE P
  PROVE  P
<1> USE DEF TypeOK
<1>a. /\ \A l \in Locals : local[l] \in Live \cup {NoObj}
      /\ \A g \in Globals : global[g] \in Live \cup {NoObj}
  BY DEF RefsAreLive, Roots, GlobalRoots, LocalRoots, GlobalWords, LocalWords
<1>b. \A o \in Live : \A i \in PtrCells(ti[o]) : cells[o][i] \in Live \cup {NoObj}
  BY DEF RefsAreLive, Edges, PtrWords
<1>1. ASSUME NEW l \in Locals, NEW k \in Locals, CopyLocal(l, k) PROVE P
  BY <1>1, <1>a DEF CopyLocal
<1>2. ASSUME NEW l \in Locals, DropLocal(l) PROVE P
  BY <1>2 DEF DropLocal
<1>3. ASSUME NEW l \in Locals, NEW g \in Globals, ReadGlobal(l, g) PROVE P
  BY <1>3, <1>a DEF ReadGlobal
<1>4. ASSUME NEW l \in Locals, NEW k \in Locals, NEW i \in CellIdx, ReadCell(l, k, i) PROVE P
  BY <1>4, <1>b DEF ReadCell
<1>5. ASSUME NEW l \in Locals, NEW k \in Locals, NEW i \in CellIdx, WritePtr(l, i, k) PROVE P
  BY <1>5, <1>a DEF WritePtr, Word
<1>6. ASSUME NEW l \in Locals, NEW i \in CellIdx, ClearCell(l, i) PROVE P
  BY <1>6 DEF ClearCell, SetCell, Word
<1>7. ASSUME NEW l \in Locals, NEW i \in CellIdx, NEW w \in Word, WriteScalar(l, i, w) PROVE P
  BY <1>7 DEF WriteScalar
<1>8. QED
  BY <1>1, <1>2, <1>3, <1>4, <1>5, <1>6, <1>7 DEF Mutator

-----------------------------------------------------------------------------
(* A new object is blank, so placing it adds a target but no reference.    *)
LEMMA BlankObjectKeepsRefs ==
  ASSUME CollectorAssumption, TypeOK, RefsAreLive,
         NEW o \in Objects, NEW t \in TypeInfos, NEW l \in Locals, PlaceObject(o, t, l)
  PROVE  RefsAreLive'
<1> USE DEF TypeOK, PlaceObject
<1>1. Live' = Live \cup {o} /\ o \notin Live
  BY DEF Live, CollectorAssumption
<1>2. Edges(o)' = {}
  BY DEF Edges, PtrWords, PtrCells, CollectorAssumption
<1>3. \A x \in Live : Edges(x)' = Edges(x)
  BY <1>1 DEF Edges, PtrWords
<1>4. Roots' \subseteq Roots \cup {o}
  BY DEF Roots, GlobalRoots, LocalRoots, GlobalWords, LocalWords
<1>5. QED
  BY <1>1, <1>2, <1>3, <1>4 DEF RefsAreLive

-----------------------------------------------------------------------------
(* A variable or cell only ever holds null or a live object.               *)
LEMMA MutatorKeepsRefs ==
  ASSUME CollectorAssumption, TypeOK, RefsAreLive, Mutator
  PROVE  RefsAreLive'
<1> USE DEF TypeOK, RefsAreLive, Live, Edges, PtrWords, Roots, GlobalRoots, LocalRoots,
            GlobalWords, LocalWords, heap, prog
<1>1. ASSUME NEW l \in Locals, NEW w \in Live \cup {NoObj}, SetLocal(l, w)
      PROVE  RefsAreLive'
  BY <1>1 DEF SetLocal
<1>2. ASSUME NEW l \in Locals, NEW g \in Globals, WriteGlobal(g, l)
      PROVE  RefsAreLive'
  BY <1>2 DEF WriteGlobal
<1>3. ASSUME NEW l \in Locals, NEW i \in CellIdx, NEW w \in Word, local[l] \in Live,
             i \in PtrCells(ti[local[l]]) => w \in Live \cup {NoObj},
             SetCell(l, i, w)
      PROVE  RefsAreLive'
  BY <1>3 DEF SetCell
<1>4. ASSUME NEW o \in Objects, NEW t \in TypeInfos, NEW l \in Locals, Alloc(o, t, l)
      PROVE  RefsAreLive'
  BY <1>4, BlankObjectKeepsRefs DEF Alloc
<1>5. ASSUME NEW r \in Request \cup {NoRequest}, StartCollect(r)
      PROVE  RefsAreLive'
  BY <1>5 DEF StartCollect
<1>6. QED
  BY <1>1, <1>2, <1>3, <1>4, <1>5, MutatorCases

-----------------------------------------------------------------------------
(* The collection.  Each call of mark_word on a set of words grows the     *)
(* marked set by the live ones among them and pushes what it marks.        *)
LEMMA MarkWordsMarks ==
  ASSUME NEW W, NEW rest \in SUBSET work, work \subseteq mark, mark \subseteq Live,
         W \subseteq Live \cup {NoObj}, MarkWords(W, rest)
  PROVE  /\ mark' = mark \cup (W \cap Live)
         /\ work' \subseteq mark'
         /\ mark' \subseteq Live
         /\ mark' \ work' \subseteq (mark \ work) \cup (work \ rest)
BY DEF MarkWords

(* While the collection marks, the heap and the program stand still.       *)
LEMMA StillHeap ==
  ASSUME UNCHANGED <<heap, prog>>
  PROVE  /\ Live' = Live /\ Roots' = Roots
         /\ GlobalRoots' = GlobalRoots /\ LocalRoots' = LocalRoots
         /\ \A o \in Objects : PtrWords(o)' = PtrWords(o) /\ Edges(o)' = Edges(o)
         /\ RefsAreLive => RefsAreLive'
BY DEF heap, prog, Live, Roots, GlobalRoots, LocalRoots, GlobalWords, LocalWords,
       PtrWords, Edges, RefsAreLive

(* The tri-colour invariant survives every step of the collection.         *)
LEMMA CollectionKeepsTriColour ==
  ASSUME CollectorAssumption, IInv, Collection
  PROVE  TriColour' /\ NoStaleMark'
<1> USE DEF IInv, TypeOK, TriColour, NoStaleMark
<1>1. CASE MarkRoots
  <2>1. UNCHANGED <<heap, prog>> /\ GlobalWords \subseteq Live \cup {NoObj}
    BY <1>1 DEF MarkRoots, RefsAreLive, Roots, GlobalRoots
  <2>2. mark' = mark \cup (GlobalWords \cap Live) /\ work' \subseteq mark' /\ mark' \subseteq Live
        /\ mark' \ work' \subseteq mark \ work
    BY <1>1, <2>1, MarkWordsMarks DEF MarkRoots
  <2>3. GlobalRoots \subseteq mark'
    BY <2>1, <2>2 DEF GlobalRoots
  <2>4. QED
    BY <1>1, <2>1, <2>2, <2>3, StillHeap DEF MarkRoots, Live
<1>2. ASSUME NEW dead \in SUBSET Objects, ScanStack(dead)
      PROVE  TriColour' /\ NoStaleMark'
  <2> DEFINE W == LocalWords \cup (dead \cap Live)
  <2>1. UNCHANGED <<heap, prog>> /\ W \subseteq Live \cup {NoObj}
    BY <1>2 DEF ScanStack, RefsAreLive, Roots, LocalRoots
  <2>2. MarkWords(W, work)
    BY <1>2 DEF ScanStack, MarkWords, ScannedWords, Locals, LocalWords
  <2>3. mark' = mark \cup (W \cap Live) /\ work' \subseteq mark' /\ mark' \subseteq Live
        /\ mark' \ work' \subseteq mark \ work
    BY <2>1, <2>2, MarkWordsMarks
  <2>4. LocalRoots \subseteq mark'
    BY <2>1, <2>3 DEF LocalRoots
  <2>5. QED
    BY <1>2, <2>1, <2>3, <2>4, StillHeap DEF ScanStack, Live
<1>3. ASSUME NEW o \in Objects, ScanObject(o)
      PROVE  TriColour' /\ NoStaleMark'
  <2>1. UNCHANGED <<heap, prog>> /\ PtrWords(o) \subseteq Live \cup {NoObj} /\ o \in Live
    BY <1>3 DEF ScanObject, RefsAreLive, Edges
  <2>2. mark' = mark \cup (PtrWords(o) \cap Live) /\ work' \subseteq mark' /\ mark' \subseteq Live
        /\ mark' \ work' \subseteq (mark \ work) \cup {o}
    BY <1>3, <2>1, MarkWordsMarks DEF ScanObject
  <2>3. Edges(o) \subseteq mark'
    BY <2>1, <2>2 DEF Edges
  <2>4. QED
    BY <1>3, <2>1, <2>2, <2>3, StillHeap DEF ScanObject, Live
<1>4. CASE Sweep
  BY <1>4 DEF Sweep, Live
<1>5. ASSUME NEW o \in Objects, FinishAlloc(o)
      PROVE  TriColour' /\ NoStaleMark'
  BY <1>5 DEF FinishAlloc, PlaceObject
<1>6. QED
  BY <1>1, <1>2, <1>3, <1>4, <1>5 DEF Collection

(* When the mark stack is empty the marked set is closed, so sweeping      *)
(* everything else leaves no reference behind.                             *)
LEMMA CollectionKeepsRefs ==
  ASSUME CollectorAssumption, IInv, Collection
  PROVE  RefsAreLive'
<1> USE DEF IInv
<1>1. CASE MarkRoots
  BY <1>1, StillHeap DEF MarkRoots
<1>2. ASSUME NEW dead \in SUBSET Objects, ScanStack(dead) PROVE RefsAreLive'
  BY <1>2, StillHeap DEF ScanStack
<1>3. ASSUME NEW o \in Objects, ScanObject(o) PROVE RefsAreLive'
  BY <1>3, StillHeap DEF ScanObject
<1>4. CASE Sweep
  <2>1. Live' = mark
    BY <1>4 DEF Sweep, TriColour, Live, TypeOK, CollectorAssumption
  <2>2. \A o \in mark : Edges(o)' = Edges(o) /\ Edges(o) \subseteq mark
    BY <1>4 DEF Sweep, TriColour, Edges, PtrWords, TypeOK
  <2>3. Roots' \subseteq mark
    BY <1>4 DEF Sweep, TriColour, Roots, GlobalRoots, LocalRoots, GlobalWords, LocalWords, prog
  <2>4. QED
    BY <2>1, <2>2, <2>3 DEF RefsAreLive
<1>5. ASSUME NEW o \in Objects, FinishAlloc(o) PROVE RefsAreLive'
  BY <1>5, BlankObjectKeepsRefs DEF FinishAlloc, PendingOK, Request
<1>6. QED
  BY <1>1, <1>2, <1>3, <1>4, <1>5 DEF Collection

(* The inductive invariant.                                                *)
LEMMA InitialState == Init => IInv
BY CollectorAssumption
   DEF Init, IInv, TypeOK, PendingOK, RefsAreLive, TriColour, NoStaleMark, Word, Live,
       Roots, GlobalRoots, LocalRoots, GlobalWords, LocalWords

THEOREM Invariance == Spec => []IInv
<1> USE CollectorAssumption
<1>1. Init => IInv
  BY InitialState
<1>2. IInv /\ (TypeOK /\ PendingOK)' /\ [Next]_vars => IInv'
  <2> SUFFICES ASSUME IInv, TypeOK', PendingOK', [Next]_vars PROVE IInv'
    OBVIOUS
  <2>1. CASE Mutator
    <3>1. RefsAreLive'
      BY <2>1, MutatorKeepsRefs DEF IInv
    <3>2. TriColour' /\ NoStaleMark'
      <4> USE DEF IInv, TriColour, NoStaleMark
      <4>1. ASSUME pc = "run", mark' = mark, work' = work, pc' \in {"run", "roots"}
            PROVE  TriColour' /\ NoStaleMark'
        BY <4>1
      <4>2. QED
        BY <2>1, <4>1, MutatorCases
           DEF SetLocal, WriteGlobal, SetCell, Alloc, PlaceObject, StartCollect
    <3>3. QED
      BY <3>1, <3>2 DEF IInv
  <2>2. CASE Collection
    BY <2>2, CollectionKeepsRefs, CollectionKeepsTriColour DEF IInv
  <2>3. CASE OutOfMemory
    BY <2>3, StillHeap DEF OutOfMemory, IInv, TriColour, NoStaleMark, TypeOK
  <2>4. CASE UNCHANGED vars
    BY <2>4, StillHeap DEF vars, heap, prog, IInv, TriColour, NoStaleMark, TypeOK
  <2>5. QED
    BY <2>1, <2>2, <2>3, <2>4 DEF Next
<1>3. QED
  BY <1>1, <1>2, TypeCorrect, PTL DEF Spec

-----------------------------------------------------------------------------
(* ReachFrom is the least closed set.                                      *)
LEMMA ReachLeast ==
  ASSUME NEW R, NEW S \in SUBSET Objects, R \subseteq S, Closed(S)
  PROVE  ReachFrom(R) \subseteq S
BY DEF ReachFrom

LEMMA ReachClosed ==
  ASSUME CollectorAssumption, TypeOK, NEW R \in SUBSET Objects
  PROVE  /\ R \subseteq ReachFrom(R)
         /\ \A o \in ReachFrom(R) \cap Live : Edges(o) \subseteq ReachFrom(R)
<1>1. \A o \in Live : Edges(o) \subseteq Objects
  BY DEF TypeOK, Live, Edges, PtrWords, PtrCells, Word, CollectorAssumption
<1>2. ASSUME NEW o \in ReachFrom(R) \cap Live, NEW x \in Edges(o)
      PROVE  x \in ReachFrom(R)
  <2>1. ASSUME NEW S \in SUBSET Objects, R \subseteq S, Closed(S) PROVE x \in S
    BY <2>1, <1>2 DEF ReachFrom, Closed
  <2>2. QED
    BY <1>1, <2>1 DEF ReachFrom
<1>3. QED
  BY <1>2 DEF ReachFrom

(* A reference the program can follow never leads to a free slot.          *)
THEOREM ReferencesStayLive == Spec => []NoDangling
<1>1. IInv => NoDangling
  BY ReachLeast DEF IInv, RefsAreLive, NoDangling, Closed, Live
<1>2. QED
  BY <1>1, Invariance, PTL

(* The marking loop's invariant, and the absence of left-over marks.       *)
THEOREM MarkingInvariant == Spec => []TriColour /\ []NoStaleMark
BY Invariance, PTL DEF IInv

-----------------------------------------------------------------------------
(* At the sweep the marked set contains the roots and is closed, so it     *)
(* contains all that is reachable.                                         *)
LEMMA ReachableIsMarked ==
  ASSUME IInv, pc = "drain", work = {}
  PROVE  ReachFrom(Roots) \subseteq mark
BY ReachLeast DEF IInv, TriColour, Closed, TypeOK, Roots

(* No step frees an object the program can reach, and none but the         *)
(* program's own steps changes the cells of an object that stays.          *)
THEOREM ReclaimsOnlyGarbage == Spec => FreesOnlyGarbage
<1> DEFINE FreeStep == \A o \in Live : IF o \in Live' THEN pc # "run" => cells'[o] = cells[o]
                                                     ELSE o \notin ReachFrom(Roots)
<1>1. IInv /\ [Next]_vars => [FreeStep]_vars
  <2> SUFFICES ASSUME IInv, Next PROVE FreeStep
    OBVIOUS
  <2> USE DEF IInv, TypeOK
  <2>1. CASE Mutator
    <3>1. ASSUME pc = "run", ti' = ti PROVE FreeStep
      BY <3>1 DEF Live
    <3>2. ASSUME NEW o \in Objects, NEW t \in TypeInfos, NEW l \in Locals, Alloc(o, t, l)
          PROVE  FreeStep
      BY <3>2, CollectorAssumption DEF Alloc, PlaceObject, Live
    <3>3. QED
      BY <2>1, <3>1, <3>2, MutatorCases DEF SetLocal, WriteGlobal, SetCell, StartCollect, heap
  <2>2. CASE Collection
    <3>1. ASSUME UNCHANGED heap PROVE FreeStep
      BY <3>1 DEF heap, Live
    <3>2. CASE Sweep
      BY <3>2, ReachableIsMarked DEF Sweep, Live
    <3>3. ASSUME NEW o \in Objects, FinishAlloc(o) PROVE FreeStep
      BY <3>3, CollectorAssumption DEF FinishAlloc, PlaceObject, Live, PendingOK, Request
    <3>4. QED
      BY <2>2, <3>1, <3>2, <3>3 DEF Collection, MarkRoots, ScanStack, ScanObject
  <2>3. CASE OutOfMemory
    BY <2>3 DEF OutOfMemory, heap, Live
  <2>4. QED
    BY <2>1, <2>2, <2>3 DEF Next
<1>2. Spec => [][FreeStep]_vars
  BY <1>1, Invariance, PTL DEF Spec
<1>3. QED
  BY <1>2 DEF FreesOnlyGarbage

-----------------------------------------------------------------------------
(* A larger set of starting points reaches no less.                        *)
LEMMA ReachMonotonic ==
  ASSUME NEW R, NEW Q, R \subseteq Q
  PROVE  ReachFrom(R) \subseteq ReachFrom(Q)
BY DEF ReachFrom

(* Addresses in dead stack words play a part only once they are scanned,   *)
(* and are then marked like the others.                                    *)
JunkOK ==
    /\ pc \in {"run", "roots", "stack", "alloc"} => junk = {}
    /\ pc = "drain" => junk \cap Live \subseteq mark

JInv == IInv /\ JunkOK /\ MarksAreReachable

LEMMA JunkIsMarked ==
  ASSUME IInv, JunkOK, [Next]_vars
  PROVE  JunkOK'
<1> USE DEF IInv, TypeOK, TriColour, NoStaleMark, JunkOK
<1>1. CASE Mutator
  <2>1. pc = "run" /\ junk' = junk /\ pc' \in {"run", "roots"}
    BY <1>1, MutatorCases DEF SetLocal, WriteGlobal, SetCell, Alloc, PlaceObject, StartCollect
  <2>2. QED
    BY <2>1
<1>2. CASE MarkRoots
  BY <1>2 DEF MarkRoots
<1>3. ASSUME NEW dead \in SUBSET Objects, ScanStack(dead) PROVE JunkOK'
  BY <1>3, StillHeap DEF ScanStack, MarkWords
<1>4. ASSUME NEW o \in Objects, ScanObject(o) PROVE JunkOK'
  BY <1>4, StillHeap DEF ScanObject, MarkWords
<1>5. CASE Sweep
  BY <1>5 DEF Sweep
<1>6. ASSUME NEW o \in Objects, FinishAlloc(o) PROVE JunkOK'
  BY <1>6 DEF FinishAlloc, PlaceObject
<1>7. CASE OutOfMemory
  BY <1>7 DEF OutOfMemory
<1>8. CASE UNCHANGED vars
  BY <1>8, StillHeap DEF vars, heap, prog
<1>9. QED
  BY <1>1, <1>2, <1>3, <1>4, <1>5, <1>6, <1>7, <1>8 DEF Next, Collection

(* A step that marks only live targets of what is marked or scanned marks  *)
(* only what is reachable.                                                 *)
LEMMA MarkingStep ==
  ASSUME IInv, UNCHANGED <<heap, prog>>, junk \subseteq junk', MarksAreReachable,
         NEW W, mark' \subseteq mark \cup W,
         W \subseteq ReachFrom(Scanned)'
  PROVE  MarksAreReachable'
<1>1. ReachFrom(Scanned) \subseteq ReachFrom(Scanned)'
  BY DEF heap, prog, ReachFrom, Scanned, Closed, Live, Roots, GlobalRoots, LocalRoots,
         GlobalWords, LocalWords, Edges, PtrWords
<1>2. QED
  BY <1>1 DEF MarksAreReachable

LEMMA MarksStepReachable ==
  ASSUME CollectorAssumption, JInv, TypeOK', [Next]_vars
  PROVE  MarksAreReachable'
<1> USE DEF JInv, IInv, TypeOK
<1>a. \A R \in SUBSET Objects : R \subseteq ReachFrom(R)
  BY ReachClosed
<1>b. Scanned \in SUBSET Objects /\ (Scanned \in SUBSET Objects)'
  BY DEF Scanned, Roots, GlobalRoots, LocalRoots, GlobalWords, LocalWords, Word
<1>c. (\A R \in SUBSET Objects : R \subseteq ReachFrom(R))'
  BY DEF ReachFrom
<1>1. ASSUME mark' = {} PROVE MarksAreReachable'
  BY <1>1 DEF MarksAreReachable
<1>2. CASE Mutator
  <2>1. pc = "run" /\ mark' = mark
    BY <1>2, MutatorCases DEF SetLocal, WriteGlobal, SetCell, Alloc, PlaceObject, StartCollect
  <2>2. QED
    BY <1>1, <2>1 DEF NoStaleMark
<1>3. CASE MarkRoots
  <2> DEFINE W == GlobalWords \cap Live
  <2>1. W \subseteq Scanned'
    BY <1>3, StillHeap DEF MarkRoots, Scanned, Roots, GlobalRoots, Live, CollectorAssumption
  <2>2. W \subseteq ReachFrom(Scanned)'
    BY <2>1, <1>b, <1>c
  <2>3. mark' \subseteq mark \cup W
    BY <1>3 DEF MarkRoots, MarkWords
  <2>4. QED
    BY <1>3, <2>2, <2>3, MarkingStep DEF MarkRoots
<1>4. ASSUME NEW dead \in SUBSET Objects, ScanStack(dead) PROVE MarksAreReachable'
  <2> DEFINE W == (LocalWords \cup dead) \cap Live
  <2>1. W \subseteq Scanned'
    BY <1>4, StillHeap
       DEF ScanStack, Scanned, Roots, LocalRoots, Live, CollectorAssumption
  <2>2. W \subseteq ReachFrom(Scanned)'
    BY <2>1, <1>b, <1>c
  <2>3. mark' \subseteq mark \cup W
    BY <1>4 DEF ScanStack, MarkWords, ScannedWords, Locals, LocalWords
  <2>4. junk \subseteq junk'
    BY <1>4 DEF ScanStack, JunkOK
  <2>5. QED
    BY <1>4, <2>2, <2>3, <2>4, MarkingStep DEF ScanStack
<1>5. ASSUME NEW o \in Objects, ScanObject(o) PROVE MarksAreReachable'
  <2> DEFINE W == PtrWords(o) \cap Live
  <2>1. W \subseteq Edges(o) /\ o \in ReachFrom(Scanned) \cap Live
    BY <1>5 DEF ScanObject, Edges, Live, CollectorAssumption, TriColour, MarksAreReachable
  <2>2. W \subseteq ReachFrom(Scanned)
    BY <2>1, <1>b, ReachClosed
  <2>3. ReachFrom(Scanned)' = ReachFrom(Scanned)
    BY <1>5 DEF ScanObject, heap, prog, ReachFrom, Scanned, Closed, Live, Roots, GlobalRoots,
       LocalRoots, GlobalWords, LocalWords, Edges, PtrWords
  <2>4. mark' \subseteq mark \cup W
    BY <1>5 DEF ScanObject, MarkWords
  <2>5. QED
    BY <1>5, <2>2, <2>3, <2>4, MarkingStep DEF ScanObject
<1>6. CASE Sweep
  BY <1>1, <1>6 DEF Sweep
<1>7. ASSUME NEW o \in Objects, FinishAlloc(o) PROVE MarksAreReachable'
  BY <1>1, <1>7 DEF FinishAlloc, PlaceObject, NoStaleMark
<1>8. ASSUME UNCHANGED <<heap, prog, mark, junk>> PROVE MarksAreReachable'
  BY <1>8, MarkingStep
<1>9. QED
  BY <1>2, <1>3, <1>4, <1>5, <1>6, <1>7, <1>8
     DEF Next, Collection, OutOfMemory, vars, heap, prog

THEOREM MarkingIsExact == Spec => []JInv
<1>1. Init => JInv
  BY InitialState DEF Init, JInv, JunkOK, MarksAreReachable
<1>2. JInv /\ IInv' /\ [Next]_vars => JInv'
  BY JunkIsMarked, MarksStepReachable, CollectorAssumption DEF JInv, IInv
<1>3. QED
  BY <1>1, <1>2, Invariance, PTL DEF Spec

(* Only what the program, or a stray word of its stack, leads to is ever   *)
(* marked.                                                                 *)
THEOREM OnlyReachableIsMarked == Spec => []MarksAreReachable
BY MarkingIsExact, PTL DEF JInv

(* A sweep frees everything but what the scanned words lead to.            *)
THEOREM CollectionIsComplete == Spec => SweepIsComplete
<1> DEFINE Complete == pc = "drain" /\ pc' \in {"run", "alloc"}
                         => Live' = Live \cap ReachFrom(Scanned)
<1>1. JInv /\ [Next]_vars => [Complete]_vars
  <2> SUFFICES ASSUME JInv, Next,
                      pc = "drain", pc' \in {"run", "alloc"}
               PROVE  Live' = Live \cap ReachFrom(Scanned)
    OBVIOUS
  <2> USE DEF JInv, IInv, TypeOK, TriColour
  <2>1. Sweep
    <3>1. ~Mutator
      BY MutatorCases DEF SetLocal, WriteGlobal, SetCell, Alloc, StartCollect
    <3>2. QED
      BY <3>1 DEF Next, Collection, MarkRoots, ScanStack, ScanObject, FinishAlloc, OutOfMemory
  <2>2. Live' = mark /\ work = {}
    BY <2>1, CollectorAssumption DEF Sweep, Live
  <2> DEFINE S == mark \cup (Objects \ Live)
  <2>3. Scanned \subseteq S /\ S \in SUBSET Objects
    BY DEF Scanned, JunkOK, Roots
  <2>4. Closed(S)
    BY <2>2 DEF Closed
  <2>5. ReachFrom(Scanned) \subseteq S
    BY <2>3, <2>4, ReachLeast
  <2>6. QED
    BY <2>2, <2>5 DEF MarksAreReachable
<1>2. Spec => [][Complete]_vars
  BY <1>1, MarkingIsExact, PTL DEF Spec
<1>3. QED
  BY <1>2 DEF SweepIsComplete

-----------------------------------------------------------------------------
(* The collected heap implements managed memory: every step of the program *)
(* is the same step there, a sweep reclaims unreachable objects, and the   *)
(* rest of a collection does not show.                                     *)
(* A function of functions is determined by its values.                    *)
LEMMA NestedUpdate ==
  ASSUME NEW A, NEW B, NEW C, NEW f \in [A -> [B -> C]], NEW h \in [A -> [B -> C]],
         NEW a \in A, NEW b \in B, NEW w \in C,
         \A x \in A, y \in B : h[x][y] = IF x = a /\ y = b THEN w ELSE f[x][y]
  PROVE  h = [f EXCEPT ![a][b] = w]
<1> DEFINE k == [f EXCEPT ![a][b] = w]
<1>1. k \in [A -> [B -> C]] /\ \A x \in A, y \in B : k[x][y] = h[x][y]
  OBVIOUS
<1>2. \A x \in A : h[x] \in [B -> C] /\ k[x] \in [B -> C]
  BY <1>1
<1> HIDE DEF k
<1>3. \A x \in A : h[x] = k[x]
  <2> TAKE x \in A
  <2>1. QED
    BY <1>1, <1>2
<1>4. h = k
  BY <1>1, <1>3
<1>5. QED
  BY <1>4 DEF k

LEMMA NewRefines ==
  ASSUME CollectorAssumption, TypeOK,
         NEW o \in Objects, NEW t \in TypeInfos, NEW l \in Locals, PlaceObject(o, t, l)
  PROVE  Managed!New(o, l)
<1> USE DEF TypeOK, PlaceObject
<1>1. o \notin Live /\ Live' = Live \cup {o}
  BY CollectorAssumption DEF Live
<1>2. PtrView' = [PtrView EXCEPT ![o] = [i \in CellIdx |-> NoObj]]
  BY DEF PtrView
<1>3. VarView' = [VarView EXCEPT ![l] = o]
  BY CollectorAssumption DEF VarView
<1>4. QED
  BY <1>1, <1>2, <1>3 DEF Managed!New

LEMMA AssignRefines ==
  ASSUME CollectorAssumption, TypeOK, NEW l \in Locals, NEW w, SetLocal(l, w)
  PROVE  Managed!Assign(l, w)
<1>1. ti' = ti /\ cells' = cells /\ global' = global /\ local' = [local EXCEPT ![l] = w]
  BY DEF SetLocal, heap
<1>2. Live' = Live /\ PtrView' = PtrView
  BY <1>1 DEF Live, PtrView
<1>3. l \notin Globals /\ local \in [Locals -> Word]
  BY DEF TypeOK, CollectorAssumption
<1>4. VarView' = [VarView EXCEPT ![l] = w]
  BY <1>1, <1>3 DEF VarView
<1>5. QED
  BY <1>2, <1>4 DEF Managed!Assign

LEMMA StoreRefines ==
  ASSUME CollectorAssumption, TypeOK, NEW l \in Locals, NEW i \in CellIdx, NEW w \in Word,
         local[l] \in Live, SetCell(l, i, w)
  PROVE  IF i \in PtrCells(ti[local[l]])
         THEN Managed!Store(l, i, w)
         ELSE UNCHANGED <<Live, PtrView, VarView>>
<1> USE DEF SetCell, TypeOK, prog
<1>1. Live' = Live /\ VarView' = VarView
  BY DEF Live, VarView
<1>2. VarView[l] = local[l] /\ local[l] # NoObj
  BY CollectorAssumption DEF VarView, Live
<1>3. CASE i \in PtrCells(ti[local[l]])
  <2>1. PtrView' = [PtrView EXCEPT ![local[l]][i] = w]
    <3>1. PtrView \in [Objects -> [CellIdx -> Word]] /\ PtrView' \in [Objects -> [CellIdx -> Word]]
      BY DEF PtrView, Word
    <3>2. \A o \in Objects, j \in CellIdx :
             PtrView'[o][j] = IF o = local[l] /\ j = i THEN w ELSE PtrView[o][j]
      BY <1>3 DEF PtrView, Live
    <3>3. local[l] \in Objects
      BY DEF Live
    <3> HIDE DEF SetCell, TypeOK, prog
    <3>4. PICK f \in [Objects -> [CellIdx -> Word]], h \in [Objects -> [CellIdx -> Word]],
               a \in Objects : f = PtrView /\ h = PtrView' /\ a = local[l]
      BY ONLY <3>1, <3>3
    <3>5. \A o \in Objects, j \in CellIdx :
             h[o][j] = IF o = a /\ j = i THEN w ELSE f[o][j]
      BY ONLY <3>2, <3>4
    <3>6. h = [f EXCEPT ![a][i] = w]
      BY ONLY <3>5, NestedUpdate
    <3>7. QED
      BY ONLY <3>4, <3>6
  <2>2. QED
    BY <1>1, <1>2, <1>3, <2>1 DEF Managed!Store
<1>4. CASE i \notin PtrCells(ti[local[l]])
  BY <1>1, <1>4 DEF PtrView, Live
<1>5. QED
  BY <1>3, <1>4

LEMMA MutatorRefines ==
  ASSUME CollectorAssumption, IInv, Mutator
  PROVE  Managed!Next \/ UNCHANGED <<Live, PtrView, VarView>>
<1> DEFINE P == Managed!Next \/ UNCHANGED <<Live, PtrView, VarView>>
<1> USE DEF IInv, TypeOK
<1>a. \A l \in Locals : VarView[l] = local[l]
  BY CollectorAssumption DEF VarView
<1>b. \A g \in Globals : VarView[g] = global[g]
  BY DEF VarView
<1>c. \A o \in Live, i \in CellIdx : i \in PtrCells(ti[o]) => PtrView[o][i] = cells[o][i]
  BY DEF PtrView, Live
<1>1. ASSUME NEW l \in Locals, NEW k \in Locals, CopyLocal(l, k) PROVE P
  <2>1. Managed!Assign(l, VarView[k])
    BY <1>1, <1>a, AssignRefines DEF CopyLocal, Managed!Assign
  <2>2. QED
    BY <2>1 DEF Managed!Next, Managed!Move
<1>2. ASSUME NEW l \in Locals, DropLocal(l) PROVE P
  BY <1>2, AssignRefines DEF DropLocal, Managed!Next, Managed!Forget
<1>3. ASSUME NEW l \in Locals, NEW g \in Globals, ReadGlobal(l, g) PROVE P
  <2>1. Managed!Assign(l, VarView[g])
    BY <1>3, <1>b, AssignRefines DEF ReadGlobal, Managed!Assign
  <2>2. QED
    BY <2>1 DEF Managed!Next, Managed!Move
<1>4. ASSUME NEW l \in Locals, NEW g \in Globals, WriteGlobal(g, l) PROVE P
  <2>1. VarView' = [VarView EXCEPT ![g] = local[l]]
    BY <1>4, CollectorAssumption DEF WriteGlobal, VarView
  <2>2. Live' = Live /\ PtrView' = PtrView
    BY <1>4 DEF WriteGlobal, heap, Live, PtrView
  <2>3. Managed!Assign(g, VarView[l])
    BY <2>1, <2>2, <1>a DEF Managed!Assign
  <2>4. QED
    BY <2>3 DEF Managed!Next, Managed!Move
<1>5. ASSUME NEW l \in Locals, NEW k \in Locals, NEW i \in CellIdx, ReadCell(l, k, i) PROVE P
  <2>1. Managed!Assign(l, PtrView[VarView[k]][i]) /\ VarView[k] # NoObj
    BY <1>5, <1>a, <1>c, AssignRefines, CollectorAssumption DEF ReadCell, Live, Managed!Assign
  <2>2. QED
    BY <2>1 DEF Managed!Next, Managed!Load
<1>6. ASSUME NEW l \in Locals, NEW k \in Locals, NEW i \in CellIdx, WritePtr(l, i, k) PROVE P
  <2>1. Managed!Store(l, i, VarView[k])
    BY <1>6, <1>a, StoreRefines DEF WritePtr, Managed!Store
  <2>2. QED
    BY <2>1 DEF Managed!Next
<1>7. ASSUME NEW l \in Locals, NEW i \in CellIdx, ClearCell(l, i) PROVE P
  BY <1>7, StoreRefines DEF ClearCell, SetCell, Word, Managed!Next
<1>8. ASSUME NEW l \in Locals, NEW i \in CellIdx, NEW w \in Word, WriteScalar(l, i, w) PROVE P
  BY <1>8, StoreRefines DEF WriteScalar
<1>9. ASSUME NEW o \in Objects, NEW t \in TypeInfos, NEW l \in Locals, Alloc(o, t, l) PROVE P
  BY <1>9, NewRefines DEF Alloc, Managed!Next
<1>10. ASSUME NEW r \in Request \cup {NoRequest}, StartCollect(r) PROVE P
  BY <1>10 DEF StartCollect, heap, prog, Live, PtrView, VarView
<1>11. QED
  BY <1>1, <1>2, <1>3, <1>4, <1>5, <1>6, <1>7, <1>8, <1>9, <1>10 DEF Mutator

LEMMA SweepRefines ==
  ASSUME CollectorAssumption, IInv, Sweep
  PROVE  Managed!Reclaim(Live \ mark)
<1> USE DEF IInv, TypeOK
<1>1. Live' = mark /\ mark \subseteq Live
  BY CollectorAssumption DEF Sweep, Live, TriColour
<1>2. \A o \in mark : PtrView'[o] = PtrView[o]
  BY DEF Sweep, PtrView
<1>3. PtrView' \in [Objects -> [CellIdx -> Word]]
  BY DEF Sweep, PtrView, Word
<1>4. VarView' = VarView
  BY DEF Sweep, prog, VarView
<1>5. \A x \in Globals \cup Locals : VarView[x] \in mark \cup {NoObj}
  BY DEF Sweep, TriColour, VarView, GlobalRoots, LocalRoots, GlobalWords, LocalWords
<1>6. Managed!VarRoots \subseteq mark
  BY <1>5 DEF Managed!VarRoots
<1>7. Managed!ClosedUnderRefs(mark)
  <2>1. ASSUME NEW o \in mark, NEW i \in CellIdx PROVE PtrView[o][i] \in mark \cup {NoObj}
    BY <2>1 DEF Sweep, TriColour, PtrView, Edges, PtrWords
  <2>2. QED
    BY <2>1 DEF Managed!ClosedUnderRefs, Managed!Out
<1>8. Managed!Reachable \subseteq mark
  BY <1>6, <1>7 DEF Managed!Reachable
<1>9. QED
  BY <1>1, <1>2, <1>3, <1>4, <1>8
     DEF Managed!Reclaim, Managed!Word, Word

(* Every behaviour of the collected heap is a behaviour of managed memory. *)
THEOREM CollectorImplementsManagedMemory == Spec => ImplementsManagedMemory
<1> USE CollectorAssumption
<1>1. Init => Managed!Init
  BY DEF Init, Managed!Init, Live, PtrCells, PtrView, VarView
<1>2. IInv /\ [Next]_vars => [Managed!Next]_(Managed!mvars)
  <2> SUFFICES ASSUME IInv, [Next]_vars
               PROVE  Managed!Next \/ UNCHANGED <<Live, PtrView, VarView>>
    BY DEF Managed!mvars
  <2>1. CASE Mutator
    BY <2>1, MutatorRefines
  <2>2. CASE Sweep
    BY <2>2, SweepRefines DEF Managed!Next
  <2>3. ASSUME NEW o \in Objects, FinishAlloc(o)
        PROVE  Managed!Next
    BY <2>3, NewRefines DEF FinishAlloc, IInv, PendingOK, Request, Managed!Next
  <2>4. ASSUME UNCHANGED <<heap, prog>>
        PROVE  UNCHANGED <<Live, PtrView, VarView>>
    BY <2>4 DEF heap, prog, Live, PtrView, VarView
  <2>5. QED
    BY <2>1, <2>2, <2>3, <2>4
       DEF Next, Collection, MarkRoots, ScanStack, ScanObject, OutOfMemory, vars, heap, prog
<1>3. QED
  BY <1>1, <1>2, Invariance, PTL DEF Spec, Managed!Spec, ImplementsManagedMemory
=============================================================================
