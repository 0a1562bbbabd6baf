-------------------------- MODULE PageTableProofs --------------------------
(***************************************************************************)
(* The page table finds every registered page, for every hash function,    *)
(* number of pages and sequence of insertions and sweeps.                  *)
(***************************************************************************)
EXTENDS PageTable, TLAPS, FiniteSetTheorems, WellFoundedInduction

Indices == 0 .. table_cap - 1
Placed  == pages \ todo     \* the pages that are in the table by now

(* A placed page sits at some distance from its home slot with no gap in   *)
(* between: that is what lets a lookup stop at the first empty entry.      *)
Reached(m) ==
    \E d \in Indices : page_table[Probe(m, d)] = m
                       /\ \A e \in 0 .. d - 1 : page_table[Probe(m, e)] \notin {Empty, m}

TableOK ==
    /\ \A i \in Indices : page_table[i] \in Placed \cup {Empty}
    /\ \A i, j \in Indices : page_table[i] = page_table[j] /\ page_table[i] # Empty => i = j
    /\ \A m \in Placed : Reached(m)
    /\ 2 * npages <= table_cap

CapOK ==
    /\ table_cap <= MinCap + 4 * Cardinality(Mem)
    /\ table_cap = 0 => pages = {} /\ pc = "idle"
    /\ table_cap # 0 => table_cap >= MinCap
    /\ pc # "insert" => todo = {}

PInv == TypeOK /\ CapOK /\ (pc # "grow" => TableOK)

-----------------------------------------------------------------------------
(* Any set of natural numbers with an element has a least one.             *)
LEMMA LeastElement ==
  ASSUME NEW T \in SUBSET Nat, T # {}
  PROVE  \E x \in T : \A y \in T : x <= y
<1> DEFINE R == {p \in Nat \X Nat : p[1] < p[2]}
<1>1. IsWellFoundedOn(R, Nat)
  BY NatLessThanWellFounded DEF OpToRel
<1>2. \A x, y \in Nat : <<y, x>> \notin R => x <= y
  OBVIOUS
<1> HIDE DEF R
<1>3. PICK x \in T : \A y \in T : ~(<<y, x>> \in R)
  BY <1>1, WFMin
<1>4. QED
  BY <1>2, <1>3

(* What the probe loops compute when there is an entry to stop at.         *)
LEMMA FirstStopIsFirst ==
  ASSUME table_cap \in Nat, NEW m, NEW wanted, Stops(m, wanted)
  PROVE  /\ FirstStop(m, wanted) \in Indices
         /\ Found(m, wanted, FirstStop(m, wanted))
         /\ \A e \in 0 .. FirstStop(m, wanted) - 1 : ~Found(m, wanted, e)
<1> DEFINE T == {d \in Indices : Found(m, wanted, d)}
<1>1. T \in SUBSET Nat /\ T # {}
  BY DEF Stops, Indices
<1>2. PICK d \in T : \A e \in T : d <= e
  BY <1>1, LeastElement
<1>3. d \in Indices /\ Found(m, wanted, d) /\ \A e \in 0 .. d - 1 : ~Found(m, wanted, e)
  BY <1>2 DEF Indices
<1>4. QED
  BY <1>3 DEF FirstStop, Indices

(* Probing from any home slot visits every entry.                          *)
LEMMA ProbeCovers ==
  ASSUME PageTableAssumption, TypeOK, CapOK, table_cap > 0, NEW m \in Mem
  PROVE  /\ \A d \in Indices : Probe(m, d) \in Indices
         /\ \A i \in Indices : \E d \in Indices : Probe(m, d) = i
         /\ \A d, e \in Indices : Probe(m, d) = Probe(m, e) => d = e
<1>0. Cardinality(Mem) \in Nat
  BY FS_CardinalityType DEF PageTableAssumption
<1>1. Hash(m, table_cap) \in Indices
  BY <1>0 DEF PageTableAssumption, TypeOK, CapOK, Indices
<1>2. ASSUME NEW i \in Indices
      PROVE  \E d \in Indices : Probe(m, d) = i
  <2> DEFINE h == Hash(m, table_cap)
             d == IF i >= h THEN i - h ELSE i - h + table_cap
  <2>1. d \in Indices /\ Probe(m, d) = i
    BY <1>1 DEF Indices, Probe, TypeOK
  <2>2. QED
    BY <2>1
<1>3. \A d \in Indices : Probe(m, d) \in Indices
  BY <1>1 DEF Indices, Probe, TypeOK
<1>4. ASSUME NEW d \in Indices, NEW e \in Indices, Probe(m, d) = Probe(m, e)
      PROVE  d = e
  BY <1>1, <1>4 DEF Indices, Probe, TypeOK
<1>5. QED
  BY <1>2, <1>3, <1>4

(* A table at most half full has an empty entry.                           *)
LEMMA EmptyEntry ==
  ASSUME PageTableAssumption, TypeOK, CapOK, TableOK, table_cap > 0
  PROVE  \A m \in Mem : Stops(m, {Empty})
<1>1. IsFiniteSet(pages) /\ npages \in Nat
  BY FS_Subset, FS_CardinalityType DEF PageTableAssumption, TypeOK, npages
<1>2. IsFiniteSet(Indices) /\ Cardinality(Indices) = table_cap
  BY FS_Interval DEF Indices, TypeOK
<1>3. npages < table_cap
  BY <1>1 DEF TableOK, TypeOK
<1>4. \E i \in Indices : page_table[i] = Empty
  <2>1. SUFFICES ASSUME \A i \in Indices : page_table[i] # Empty PROVE FALSE
    OBVIOUS
  <2> DEFINE f == [i \in Indices |-> page_table[i]]
  <2>2. f \in [Indices -> pages]
    BY <2>1 DEF TableOK, Placed
  <2>3. \E i, j \in Indices : i # j /\ f[i] = f[j]
    <3> HIDE DEF f
    <3>1. Cardinality(pages) < Cardinality(Indices)
      BY <1>2, <1>3 DEF npages
    <3>2. QED
      BY <1>1, <1>2, <2>2, <3>1, FS_PigeonHole
  <2>4. QED
    BY <2>1, <2>3 DEF TableOK
<1>5. QED
  BY <1>4, ProbeCovers DEF Stops, Found, Indices

-----------------------------------------------------------------------------
(* A lookup between two operations finds exactly the registered pages.     *)
LEMMA LookupIsExact ==
  ASSUME PageTableAssumption, PInv
  PROVE  LookupExact
<1> USE DEF PInv
<1> SUFFICES ASSUME pc = "idle", NEW m \in Mem
             PROVE  page_lookup(m) = IF m \in pages THEN m ELSE Empty
  BY DEF LookupExact
<1>1. CASE table_cap = 0
  BY <1>1 DEF page_lookup, CapOK, PageTableAssumption
<1>2. CASE table_cap > 0
  <2> DEFINE W == {Empty, m}
             d == FirstStop(m, W)
  <2>1. TableOK /\ Placed = pages
    BY DEF CapOK, Placed
  <2>2. Stops(m, W)
    BY <1>2, <2>1, EmptyEntry DEF Stops, Found
  <2>3. d \in Indices /\ Found(m, W, d) /\ \A e \in 0 .. d - 1 : ~Found(m, W, e)
    BY <2>2, FirstStopIsFirst DEF TypeOK
  <2>4. page_lookup(m) = page_table[Probe(m, d)] /\ page_table[Probe(m, d)] \in W
    BY <1>2, <2>3 DEF page_lookup, Found
  <2>5. CASE m \in pages
    <3>1. PICK k \in Indices : page_table[Probe(m, k)] = m
                               /\ \A e \in 0 .. k - 1 : page_table[Probe(m, e)] \notin W
      BY <2>1, <2>5 DEF TableOK, Reached
    <3>2. k = d
      BY <2>3, <3>1 DEF Found, Indices
    <3>3. QED
      BY <2>4, <2>5, <3>1, <3>2
  <2>6. CASE m \notin pages
    BY <1>2, <2>1, <2>3, <2>4, <2>6, ProbeCovers DEF TableOK
  <2>7. QED
    BY <2>5, <2>6
<1>3. QED
  BY <1>1, <1>2 DEF PInv, TypeOK

-----------------------------------------------------------------------------
(* Inserting a page in the first empty entry breaks no probe chain: the    *)
(* entries before it are taken, and a chain that runs over it only had to  *)
(* get there.                                                              *)
LEMMA InsertKeepsChains ==
  ASSUME PageTableAssumption, TypeOK, CapOK, TableOK, table_cap > 0, pc # "grow",
         NEW m \in Mem, m \notin Placed, TableInsert(m),
         table_cap' = table_cap, Placed' = Placed \cup {m}
  PROVE  /\ page_table' \in [Indices -> Mem \cup {Empty}]
         /\ (\A i \in Indices : page_table[i] \in Placed \cup {Empty})'
         /\ (\A i, j \in Indices : page_table[i] = page_table[j] /\ page_table[i] # Empty => i = j)'
         /\ (\A x \in Placed : Reached(x))'
<1> DEFINE d == FirstStop(m, {Empty})
           i == Probe(m, d)
<1>0. Empty \notin Mem /\ pages \subseteq Mem /\ Placed \subseteq Mem
      /\ page_table \in [Indices -> Mem \cup {Empty}]
  BY DEF PageTableAssumption, TypeOK, Placed, Indices
<1>1. d \in Indices /\ page_table[i] = Empty /\ \A e \in 0 .. d - 1 : page_table[Probe(m, e)] # Empty
  BY EmptyEntry, FirstStopIsFirst DEF Found, TypeOK
<1>2. i \in Indices
  BY <1>1, ProbeCovers
<1>3. page_table' = [page_table EXCEPT ![i] = m] /\ Indices' = Indices
  BY DEF TableInsert, Indices
<1> HIDE DEF i, d
<1>4. \A j \in Indices : page_table'[j] = IF j = i THEN m ELSE page_table[j]
  BY <1>0, <1>3
<1>5. \A x, e : Probe(x, e)' = Probe(x, e)
  BY DEF Probe
<1>6. \A x \in Mem, e \in Indices : Probe(x, e) \in Indices
  BY ProbeCovers
<1>7. Reached(m)'
  <2>1. \A e \in 0 .. d - 1 : e \in Indices /\ Probe(m, e) # i
    BY <1>1, ProbeCovers DEF Indices, TypeOK, i
  <2>2. \A e \in 0 .. d - 1 : page_table'[Probe(m, e)] \notin {Empty, m}
    BY <1>1, <1>4, <1>6, <2>1 DEF TableOK
  <2>3. page_table'[Probe(m, d)] = m
    BY <1>2, <1>4 DEF i
  <2>4. QED
    BY <1>1, <1>3, <1>5, <2>2, <2>3 DEF Reached
<1>8. ASSUME NEW x \in Placed PROVE Reached(x)'
  <2>1. PICK k \in Indices : page_table[Probe(x, k)] = x
                             /\ \A e \in 0 .. k - 1 : page_table[Probe(x, e)] \notin {Empty, x}
    BY DEF TableOK, Reached
  <2>2. page_table'[Probe(x, k)] = x
    BY <1>0, <1>1, <1>4, <1>6, <2>1 DEF i
  <2>3. \A e \in 0 .. k - 1 : page_table'[Probe(x, e)] \notin {Empty, x}
    <3>1. \A e \in 0 .. k - 1 : e \in Indices
      BY DEF Indices, TypeOK
    <3>2. x \in Mem /\ x # m /\ m # Empty
      BY <1>0
    <3>3. QED
      BY <1>4, <1>6, <2>1, <3>1, <3>2
  <2>4. QED
    BY <1>3, <1>5, <2>1, <2>2, <2>3 DEF Reached
<1>9. QED
  BY <1>0, <1>2, <1>3, <1>4, <1>7, <1>8 DEF TableOK

-----------------------------------------------------------------------------
(* The inductive invariant.                                                *)
THEOREM TableInvariance == Spec => []PInv
<1> USE PageTableAssumption
<1>1. Init => PInv
  <2> SUFFICES ASSUME Init PROVE PInv
    OBVIOUS
  <2> USE DEF Init
  <2>1. Cardinality(Mem) \in Nat /\ npages = 0
    BY FS_CardinalityType, FS_EmptySet DEF PageTableAssumption, npages
  <2>2. Indices = {}
    BY DEF Indices
  <2>3. TypeOK
    BY <2>2 DEF TypeOK, Indices
  <2>4. CapOK
    BY <2>1 DEF CapOK, PageTableAssumption
  <2>5. TableOK
    BY <2>1, <2>2 DEF TableOK, Placed
  <2>6. QED
    BY <2>3, <2>4, <2>5 DEF PInv
<1>2. PInv /\ [Next]_vars => PInv'
  <2> SUFFICES ASSUME PInv, [Next]_vars PROVE PInv'
    OBVIOUS
  <2> USE DEF PInv
  <2>0. /\ IsFiniteSet(pages) /\ npages \in Nat /\ npages <= Cardinality(Mem)
        /\ Cardinality(Mem) \in Nat /\ MinCap \in Nat \ {0} /\ table_cap \in Nat
    BY FS_Subset, FS_CardinalityType DEF PageTableAssumption, TypeOK, npages
  <2>1. ASSUME NEW m \in Mem, NewPage(m) PROVE PInv'
    <3>1. npages' = npages + 1 /\ pages' \subseteq Mem
      BY <2>0, <2>1, FS_AddElement DEF NewPage, npages, TypeOK
    <3>2. CASE 2 * (npages + 1) > table_cap
      BY <2>0, <2>1, <3>1, <3>2 DEF NewPage, StartRebuild, TypeOK, CapOK
    <3>3. CASE 2 * (npages + 1) <= table_cap
      <4>1. pc = "idle" /\ TableInsert(m) /\ UNCHANGED <<table_cap, pc, todo>> /\ todo = {}
        BY <2>0, <2>1, <3>3 DEF NewPage, CapOK
      <4>2. TableOK /\ m \notin Placed /\ Placed' = Placed \cup {m} /\ table_cap > 0
        BY <2>0, <2>1, <3>3, <4>1 DEF NewPage, Placed
      <4>3. TableOK' /\ page_table' \in [Indices -> Mem \cup {Empty}]
        BY <2>0, <3>1, <3>3, <4>1, <4>2, InsertKeepsChains DEF TableOK
      <4>4. QED
        BY <2>0, <3>1, <3>3, <4>1, <4>3 DEF TypeOK, CapOK, Indices
    <3>4. QED
      BY <2>0, <3>2, <3>3
  <2>2. ASSUME NEW kept \in SUBSET pages, SweepPages(kept) PROVE PInv'
    BY <2>0, <2>2 DEF SweepPages, StartRebuild, TypeOK, CapOK
  <2>3. CASE Grow
    BY <2>0, <2>3 DEF Grow, TypeOK, CapOK, npages
  <2>4. CASE Blank
    <3>1. npages' = npages /\ Indices' = Indices /\ Placed' = {}
      BY <2>4 DEF Blank, npages, Indices, Placed
    <3>2. page_table' = [i \in Indices |-> Empty]
      BY <2>4 DEF Blank, Indices
    <3>3. TableOK'
      BY <2>0, <2>4, <3>1, <3>2 DEF TableOK, Blank
    <3>4. QED
      BY <2>0, <2>4, <3>2, <3>3 DEF Blank, TypeOK, CapOK, Indices
  <2>5. ASSUME NEW m \in Mem, Reinsert(m) PROVE PInv'
    <3>1. /\ pc = "insert" /\ pc' = "insert" /\ TableInsert(m) /\ todo' = todo \ {m}
          /\ UNCHANGED <<pages, table_cap>>
      BY <2>5 DEF Reinsert
    <3>2. TableOK /\ m \notin Placed /\ Placed' = Placed \cup {m} /\ table_cap > 0
      BY <2>0, <2>5, <3>1 DEF Reinsert, Placed, TypeOK, CapOK
    <3>3. TableOK' /\ page_table' \in [Indices -> Mem \cup {Empty}]
      BY <2>0, <3>1, <3>2, InsertKeepsChains DEF TableOK, npages
    <3>4. QED
      BY <2>0, <3>1, <3>3 DEF TypeOK, CapOK, Indices
  <2>6. CASE EndRebuild
    <3>1. TableOK'
      BY <2>6 DEF EndRebuild, TableOK, Indices, Placed, Reached, Probe, npages
    <3>2. QED
      BY <2>6, <3>1 DEF EndRebuild, TypeOK, CapOK
  <2>7. CASE UNCHANGED vars
    <3>1. TableOK => TableOK'
      BY <2>7 DEF vars, TableOK, Indices, Placed, Reached, Probe, npages
    <3>2. QED
      BY <2>7, <3>1 DEF vars, TypeOK, CapOK
  <2>8. QED
    BY <2>1, <2>2, <2>3, <2>4, <2>5, <2>6, <2>7 DEF Next
<1>3. QED
  BY <1>1, <1>2, PTL DEF Spec

(* A lookup answers that an address is a page exactly when it is one, as   *)
(* long as no rebuild is in progress.                                      *)
THEOREM LookupCorrect == Spec => []LookupExact
<1>1. PInv => LookupExact
  BY LookupIsExact, PageTableAssumption
<1>2. QED
  BY <1>1, TableInvariance, PTL

(* The probe loop of a lookup or an insertion always meets an empty entry, *)
(* in the middle of a rebuild too: it cannot go round for ever.            *)
THEOREM ProbesTerminate == Spec => []ProbesEnd
<1>1. PInv => ProbesEnd
  BY EmptyEntry, PageTableAssumption DEF PInv, ProbesEnd
<1>2. QED
  BY <1>1, TableInvariance, PTL
=============================================================================
