--------------------------- MODULE PageHeapProofs ---------------------------
(***************************************************************************)
(* Proofs about PageHeap, for every page size, table of size classes,      *)
(* alignment, threshold, address space and set of sizes.                   *)
(***************************************************************************)
EXTENDS PageHeap, FiniteSetTheorems, SequenceTheorems, WellFoundedInduction, TLAPS

-----------------------------------------------------------------------------
(* Numbers and sequences.                                                  *)

(* Any set of natural numbers with an element has a least one.             *)
LEMMA LeastElement ==
  ASSUME NEW T \in SUBSET Nat, T # {}
  PROVE  \E x \in T : \A y \in T : x <= y
<1> DEFINE R == {p \in Nat \X Nat : p[1] < p[2]}
<1>1. IsWellFoundedOn(R, Nat)
  BY NatLessThanWellFounded DEF OpToRel
<1>2. \A x, y \in Nat : <<y, x>> \notin R => x <= y
  OBVIOUS
<1> HIDE DEF R
<1>3. PICK x \in T : \A y \in T : ~(<<y, x>> \in R)
  BY <1>1, WFMin
<1>4. QED
  BY <1>2, <1>3

(* A function on 1..n is a sequence of length n.                           *)
LEMMA FunctionIsSeq ==
  ASSUME NEW S, NEW n \in Nat, NEW f \in [1..n -> S]
  PROVE  f \in Seq(S) /\ Len(f) = n
<1>1. f \in UNION {[1..m -> S] : m \in Nat}
  OBVIOUS
<1>2. f \in Seq(S)
  BY <1>1, SeqDef, Zenon
<1>3. Len(f) \in Nat /\ 1..Len(f) = 1..n
  BY <1>2, LenProperties
<1>4. QED
  BY <1>2, <1>3

IsAscending(s) == \A i, j \in DOMAIN s : i < j => s[i] < s[j]

(* Every finite set of natural numbers can be listed in ascending order.   *)
LEMMA AscendingExists ==
  ASSUME NEW n \in Nat
  PROVE  \A S \in SUBSET (0 .. n - 1) : \E s \in [1 .. Cardinality(S) -> S] : IsAscending(s)
<1> DEFINE Listed(k) == \A S \in SUBSET (0 .. k - 1) :
                            \E s \in [1 .. Cardinality(S) -> S] : IsAscending(s)
           B == {k \in Nat : ~Listed(k)}
<1>1. Listed(0)
  <2>1. ASSUME NEW S \in SUBSET (0 .. 0 - 1) PROVE \E s \in [1 .. Cardinality(S) -> S] : IsAscending(s)
    <3>1. S = {} /\ Cardinality(S) = 0
      <4>1. 0 .. 0 - 1 = {}
        OBVIOUS
      <4>2. QED
        BY <4>1, FS_EmptySet
    <3>2. [i \in 1 .. 0 |-> i] \in [1 .. Cardinality(S) -> S] /\ IsAscending([i \in 1 .. 0 |-> i])
      BY <3>1 DEF IsAscending
    <3>3. QED
      BY <3>2
  <2>2. QED
    BY <2>1
<1>2. ASSUME NEW k \in Nat, k # 0, Listed(k - 1) PROVE Listed(k)
  <2>1. ASSUME NEW S \in SUBSET (0 .. k - 1) PROVE \E s \in [1 .. Cardinality(S) -> S] : IsAscending(s)
    <3>1. CASE k - 1 \notin S
      <4>1. S \in SUBSET (0 .. (k - 1) - 1)
        BY <3>1
      <4>2. QED
        BY <1>2, <4>1
    <3>2. CASE k - 1 \in S
      <4> DEFINE T == S \ {k - 1}
      <4>1. T \in SUBSET (0 .. (k - 1) - 1)
        OBVIOUS
      <4>2. IsFiniteSet(S) /\ IsFiniteSet(T) /\ Cardinality(T) \in Nat /\ Cardinality(T) = Cardinality(S) - 1
            /\ Cardinality(S) \in Nat
        <5>1. IsFiniteSet(0 .. k - 1)
          BY FS_Interval
        <5>2. IsFiniteSet(S)
          BY <5>1, FS_Subset
        <5>3. QED
          BY <3>2, <5>2, FS_RemoveElement, FS_CardinalityType
      <4>3. PICK t \in [1 .. Cardinality(T) -> T] : IsAscending(t)
        BY <1>2, <4>1
      <4> DEFINE c == Cardinality(S)
                 s == [i \in 1 .. c |-> IF i = c THEN k - 1 ELSE t[i]]
      <4>4. \A i \in 1 .. c : i # c => i \in 1 .. Cardinality(T)
        BY <4>2
      <4>5. \A i \in 1 .. Cardinality(T) : t[i] \in T /\ t[i] \in S /\ t[i] \in Int /\ t[i] < k - 1
        <5>1. \A x \in T : x \in S /\ x \in Int /\ x < k - 1
          BY <4>1
        <5> HIDE DEF T
        <5>2. QED
          BY <4>3, <5>1
      <4>6. s \in [1 .. c -> S]
        BY <3>2, <4>4, <4>5
      <4>7. \A i, j \in 1 .. Cardinality(T) : i < j => t[i] < t[j]
        BY <4>3 DEF IsAscending
      <4>8. c \in Nat /\ DOMAIN s = 1 .. c /\ \A i \in 1 .. c : s[i] = IF i = c THEN k - 1 ELSE t[i]
        BY <4>2
      <4> HIDE DEF s, c, T
      <4>9. \A i, j \in 1 .. c : i < j => s[i] < s[j]
        BY <4>4, <4>5, <4>7, <4>8
      <4>10. IsAscending(s)
        BY <4>8, <4>9 DEF IsAscending
      <4>11. QED
        BY <4>6, <4>10 DEF c
    <3>3. QED
      BY <3>1, <3>2
  <2>2. QED
    BY <2>1
<1> HIDE DEF Listed
<1>3. B = {}
  <2>1. SUFFICES ASSUME B # {} PROVE FALSE
    OBVIOUS
  <2>2. PICK k \in B : \A j \in B : k <= j
    BY <2>1, LeastElement
  <2>3. k # 0 /\ k - 1 \in Nat /\ k - 1 \notin B
    BY <1>1, <2>2
  <2>4. QED
    BY <1>2, <2>2, <2>3
<1>4. Listed(n)
  BY <1>3
<1>5. QED
  BY <1>4 DEF Listed

(* Ascending lists each element of its argument once.                      *)
LEMMA AscendingLists ==
  ASSUME NEW n \in Nat, NEW S \in SUBSET (0 .. n - 1)
  PROVE  /\ Cardinality(S) \in Nat /\ Ascending(S) \in Seq(S)
         /\ Len(Ascending(S)) = Cardinality(S)
         /\ DOMAIN Ascending(S) = 1 .. Cardinality(S)
         /\ IsAscending(Ascending(S))
         /\ IsInjective(Ascending(S))
         /\ ToSet(Ascending(S)) = S
<1> DEFINE s == Ascending(S)
           c == Cardinality(S)
<1>1. IsFiniteSet(S) /\ c \in Nat
  <2>1. IsFiniteSet(0 .. n - 1)
    BY FS_Interval
  <2>2. QED
    BY <2>1, FS_Subset, FS_CardinalityType
<1>2. s \in [1 .. c -> S] /\ IsAscending(s)
  <2>1. \E f \in [1 .. Cardinality(S) -> S] : IsAscending(f)
    BY AscendingExists
  <2>2. QED
    BY <2>1 DEF Ascending, IsAscending
<1> HIDE DEF s
<1>3. IsInjective(s)
  <2>0. \A x \in S : x \in Nat
    OBVIOUS
  <2>1. \A i \in 1 .. c : s[i] \in S
    BY <1>2
  <2>2. DOMAIN s = 1 .. c
    BY <1>2
  <2> HIDE DEF c
  <2>3. ASSUME NEW i \in 1 .. c, NEW j \in 1 .. c, i < j PROVE s[i] # s[j]
    <3>1. s[i] \in Nat /\ s[j] \in Nat /\ s[i] < s[j]
      BY <1>2, <2>0, <2>1, <2>2, <2>3 DEF IsAscending
    <3>2. QED
      BY <3>1
  <2>4. ASSUME NEW i \in 1 .. c, NEW j \in 1 .. c, i # j PROVE s[i] # s[j]
    <3>1. i < j \/ j < i
      BY <1>1, <2>4
    <3>2. QED
      BY <2>3, <3>1
  <2>5. QED
    BY <2>2, <2>4 DEF IsInjective
<1>4. \A x \in S : \E i \in 1 .. c : s[i] = x
  <2>1. SUFFICES ASSUME NEW x \in S, \A i \in 1 .. c : s[i] # x PROVE FALSE
    OBVIOUS
  <2>2. s \in [1 .. c -> S \ {x}]
    BY <1>2, <2>1
  <2>3. IsFiniteSet(S \ {x}) /\ Cardinality(S \ {x}) = c - 1
    BY <1>1, <2>1, FS_RemoveElement
  <2>4. IsFiniteSet(1 .. c) /\ Cardinality(1 .. c) = c
    BY <1>1, FS_Interval
  <2>5. Cardinality(S \ {x}) < Cardinality(1 .. c)
    BY <1>1, <2>3, <2>4
  <2> DEFINE D == 1 .. c
             E == S \ {x}
  <2>6. \E i, j \in D : i # j /\ s[i] = s[j]
    <3>1. s \in [D -> E] /\ IsFiniteSet(D) /\ IsFiniteSet(E) /\ Cardinality(E) < Cardinality(D)
      BY <2>2, <2>3, <2>4, <2>5
    <3> HIDE DEF D, E
    <3>2. QED
      BY <3>1, FS_PigeonHole, Zenon
  <2>7. QED
    BY <1>2, <1>3, <2>6 DEF IsInjective
<1>5. ToSet(s) = S
  BY <1>2, <1>4 DEF ToSet
<1>6. s \in Seq(S) /\ Len(s) = c
  BY <1>1, <1>2, FunctionIsSeq
<1>7. QED
  BY <1>1, <1>2, <1>3, <1>5, <1>6 DEF s

(* Kept keeps what is in S, in its order.                                  *)
LEMMA KeptKeeps ==
  ASSUME NEW T, NEW s \in Seq(T), NEW S, NEW k, k = Kept(s, S)
  PROVE  /\ k \in Seq(T)
         /\ ToSet(k) = ToSet(s) \cap S
         /\ IsInjective(s) => IsInjective(k)
         /\ \A i, j \in DOMAIN k : i < j =>
               \E a, b \in DOMAIN s : a < b /\ k[i] = s[a] /\ k[j] = s[b]
<1> DEFINE P == {i \in DOMAIN s : s[i] \in S}
           at == Ascending(P)
<1>1. Len(s) \in Nat /\ DOMAIN s = 1 .. Len(s) /\ \A i \in DOMAIN s : s[i] \in T
  BY LenProperties, ElementOfSeq
<1>2. P \in SUBSET (0 .. (Len(s) + 1) - 1) /\ Len(s) + 1 \in Nat
  BY <1>1
<1>3. /\ Cardinality(P) \in Nat /\ DOMAIN at = 1 .. Cardinality(P)
      /\ IsAscending(at) /\ IsInjective(at) /\ ToSet(at) = P
  BY <1>2, AscendingLists
<1>4. k = [i \in DOMAIN at |-> s[at[i]]]
  BY DEF Kept
<1> HIDE DEF at, P
<1>5. \A i \in DOMAIN at : at[i] \in P
  BY <1>3 DEF ToSet
<1>6. P = {i \in DOMAIN s : s[i] \in S}
  BY DEF P
<1>7. k \in [1 .. Cardinality(P) -> T]
  BY <1>1, <1>3, <1>4, <1>5, <1>6
<1>8. k \in Seq(T)
  BY <1>3, <1>7, FunctionIsSeq
<1>9. ToSet(k) = ToSet(s) \cap S
  <2>1. ASSUME NEW x \in ToSet(k) PROVE x \in ToSet(s) \cap S
    BY <1>4, <1>5, <1>6 DEF ToSet
  <2>2. ASSUME NEW x \in ToSet(s) \cap S PROVE x \in ToSet(k)
    <3>1. PICK i \in P : s[i] = x
      BY <1>6 DEF ToSet
    <3>2. PICK j \in DOMAIN at : at[j] = i
      BY <1>3 DEF ToSet
    <3>3. QED
      BY <1>4, <3>1, <3>2 DEF ToSet
  <2>3. QED
    BY <2>1, <2>2
<1>10. IsInjective(s) => IsInjective(k)
  BY <1>3, <1>4, <1>5, <1>6 DEF IsInjective
<1>11. ASSUME NEW i \in DOMAIN k, NEW j \in DOMAIN k, i < j
       PROVE  \E a, b \in DOMAIN s : a < b /\ k[i] = s[a] /\ k[j] = s[b]
  <2>1. at[i] \in DOMAIN s /\ at[j] \in DOMAIN s /\ at[i] < at[j]
    BY <1>3, <1>4, <1>5, <1>6, <1>11 DEF IsAscending
  <2>2. QED
    BY <1>4, <1>11, <2>1
<1>12. QED
  BY <1>8, <1>9, <1>10, <1>11

-----------------------------------------------------------------------------
(* Classes, slots and alignment.                                           *)

LEMMA ClassFacts ==
  /\ PageBytes \in Nat \ {0} /\ MemTop \in Nat
  /\ Len(class_sizes) \in Nat \ {0}
  /\ Classes = 1 .. Len(class_sizes)
  /\ \A c \in Classes : class_sizes[c] \in 1 .. PageBytes
  /\ MaxSmall \in 1 .. PageBytes
<1>1. class_sizes \in Seq(1 .. PageBytes) /\ class_sizes # <<>> /\ PageBytes \in Nat \ {0} /\ MemTop \in Nat
  BY PageHeapAssumption
<1>2. Len(class_sizes) \in Nat \ {0} /\ DOMAIN class_sizes = 1 .. Len(class_sizes)
  BY <1>1, LenProperties, EmptySeq
<1>3. \A c \in DOMAIN class_sizes : class_sizes[c] \in 1 .. PageBytes
  BY <1>1, ElementOfSeq
<1>4. QED
  BY <1>1, <1>2, <1>3 DEF Classes, MaxSmall

(* Where slot i of a page of class c begins, within the page.              *)
Off(c, i) == i * class_sizes[c]

LEMMA QuotientFacts ==
  ASSUME NEW a \in Nat, NEW b \in Nat \ {0}
  PROVE  /\ a \div b \in Nat /\ (a \div b) * b <= a /\ a < (a \div b) * b + b
         /\ a % b \in Nat /\ a % b < b /\ a = (a \div b) * b + (a % b)
OBVIOUS

LEMMA ProductIsMonotone ==
  ASSUME NEW i \in Nat, NEW j \in Nat, NEW b \in Nat \ {0}, i < j
  PROVE  i * b \in Nat /\ j * b \in Nat /\ i * b + b <= j * b
<1>1. j = i + 1 + (j - i - 1) /\ j - i - 1 \in Nat
  OBVIOUS
<1>2. j * b = i * b + b + (j - i - 1) * b
  BY <1>1
<1>3. (j - i - 1) * b \in Nat /\ i * b \in Nat /\ j * b \in Nat
  BY <1>1
<1>4. QED
  BY <1>2, <1>3

(* A number lies in one multiple's stretch only.                           *)
LEMMA QuotientIs ==
  ASSUME NEW a \in Nat, NEW b \in Nat \ {0}, NEW i \in Nat, i * b <= a, a < i * b + b
  PROVE  a \div b = i /\ a - (a % b) = i * b
<1> DEFINE q == a \div b
<1>1. q \in Nat /\ q * b <= a /\ a < q * b + b /\ a % b \in Nat /\ a = q * b + (a % b)
  BY QuotientFacts
<1> HIDE DEF q
<1>2. i * b \in Nat /\ q * b \in Nat
  BY <1>1
<1>3. ~(q < i) /\ ~(i < q)
  BY <1>1, <1>2, ProductIsMonotone
<1>4. q = i
  BY <1>1, <1>3
<1>5. QED
  BY <1>1, <1>2, <1>4 DEF q

(* The slots of a page are within it, one behind the other.                *)
LEMMA SlotFacts ==
  ASSUME NEW c \in Classes
  PROVE  /\ NSlots(c) \in 1 .. PageBytes
         /\ Off(c, 0) = 0
         /\ \A i \in 0 .. NSlots(c) - 1 :
               Off(c, i) \in Nat /\ Off(c, i) + class_sizes[c] <= PageBytes
         /\ \A i, j \in 0 .. NSlots(c) - 1 : i < j => Off(c, i) + class_sizes[c] <= Off(c, j)
<1> DEFINE b == class_sizes[c]
           n == NSlots(c)
<1>1. b \in Nat \ {0} /\ b <= PageBytes /\ PageBytes \in Nat \ {0}
  BY ClassFacts
<1>2. n \in Nat /\ n * b <= PageBytes /\ PageBytes < n * b + b
  BY <1>1, QuotientFacts DEF NSlots
<1>3. \A i \in 0 .. n - 1 : Off(c, i) = i * b
  BY DEF Off
<1>4. Off(c, 0) = 0
  BY <1>1 DEF Off
<1> HIDE DEF b, n
<1>5. n # 0
  BY <1>1, <1>2
<1>6. n <= n * b
  <2>1. n * b = n + n * (b - 1) /\ n * (b - 1) \in Nat
    BY <1>1, <1>2
  <2>2. QED
    BY <1>2, <2>1
<1>7. \A i \in 0 .. n - 1 : i * b \in Nat /\ i * b + b <= n * b
  BY <1>1, <1>2, ProductIsMonotone
<1>8. \A i, j \in 0 .. n - 1 : i < j => i * b + b <= j * b
  BY <1>1, <1>2, ProductIsMonotone
<1>9. \A i \in 0 .. n - 1 : Off(c, i) \in Nat /\ Off(c, i) + b <= PageBytes
  <2>1. ASSUME NEW i \in 0 .. n - 1 PROVE Off(c, i) \in Nat /\ Off(c, i) + b <= PageBytes
    <3>1. Off(c, i) = i * b /\ i * b \in Nat /\ i * b + b <= n * b /\ n * b \in Nat
      BY <1>1, <1>2, <1>3, <1>7
    <3>2. QED
      BY <1>1, <1>2, <3>1
  <2>2. QED
    BY <2>1
<1>10. \A i, j \in 0 .. n - 1 : i < j => Off(c, i) + b <= Off(c, j)
  BY <1>3, <1>8
<1>11. n \in 1 .. PageBytes
  <2>1. n * b \in Nat
    BY <1>1, <1>2
  <2>2. QED
    BY <1>1, <1>2, <1>5, <1>6, <2>1
<1>12. QED
  BY <1>4, <1>9, <1>10, <1>11 DEF b, n

(* The division of find_object finds the slot that a word is in.           *)
LEMMA SlotIndex ==
  ASSUME NEW c \in Classes, NEW i \in 0 .. NSlots(c) - 1, NEW d \in Nat,
         Off(c, i) <= d, d < Off(c, i) + class_sizes[c]
  PROVE  d \div class_sizes[c] = i
<1>1. class_sizes[c] \in Nat \ {0} /\ i \in Nat
  BY ClassFacts, SlotFacts
<1>2. QED
  BY <1>1, QuotientIs DEF Off

(* Masking a word gives the aligned address below it.                      *)
LEMMA PageStart ==
  ASSUME NEW p \in Nat, p % PageBytes = 0, NEW w \in Nat, p <= w, w < p + PageBytes
  PROVE  w - (w % PageBytes) = p
<1> DEFINE q == p \div PageBytes
<1>1. PageBytes \in Nat \ {0}
  BY ClassFacts
<1>2. q \in Nat /\ p = q * PageBytes + (p % PageBytes)
  BY <1>1, QuotientFacts
<1>3. p = q * PageBytes
  BY <1>1, <1>2
<1>4. q * PageBytes <= w /\ w < q * PageBytes + PageBytes
  BY <1>3
<1> HIDE DEF q
<1>5. w - (w % PageBytes) = q * PageBytes
  BY <1>1, <1>2, <1>4, QuotientIs
<1>6. QED
  BY <1>3, <1>5

(* alloc_small's loop stops at a class that fits.                          *)
LEMMA ClassFits ==
  ASSUME NEW size \in Nat, size <= MaxSmall
  PROVE  ClassFor(size) \in Classes /\ size <= class_sizes[ClassFor(size)]
<1> DEFINE T == {c \in Classes : class_sizes[c] >= size}
<1>1. T \in SUBSET Nat
  BY ClassFacts
<1>2. Len(class_sizes) \in T
  BY ClassFacts DEF MaxSmall
<1>3. PICK x \in T : \A y \in T : x <= y
  BY <1>1, <1>2, LeastElement
<1>4. ClassFor(size) \in T
  BY <1>3 DEF ClassFor, Min
<1>5. QED
  <2>1. \A c \in T : c \in Classes /\ class_sizes[c] >= size /\ class_sizes[c] \in Nat
    BY ClassFacts
  <2>2. QED
    BY <1>4, <2>1

-----------------------------------------------------------------------------
(* The array of large objects and its binary search.                       *)

LargesOK ==
    /\ larges \in Seq([mem : Addr, size : Nat])
    /\ \A k \in DOMAIN larges :
          MaxSmall < larges[k].size /\ larges[k].mem + larges[k].size <= MemTop
    /\ \A j, k \in DOMAIN larges : j < k => larges[j].mem + larges[j].size <= larges[k].mem

LEMMA LargesFacts ==
  ASSUME LargesOK
  PROVE  /\ Len(larges) \in Nat /\ DOMAIN larges = 1 .. Len(larges)
         /\ \A k \in 1 .. Len(larges) :
               /\ larges[k] \in [mem : Addr, size : Nat]
               /\ larges[k].mem \in Nat /\ larges[k].mem \in Addr
               /\ larges[k].size \in Nat /\ larges[k].size > 0
         /\ \A j, k \in 1 .. Len(larges) : j < k => larges[j].mem < larges[k].mem
<1>1. Len(larges) \in Nat /\ DOMAIN larges = 1 .. Len(larges)
  BY LenProperties DEF LargesOK
<1>2. \A k \in 1 .. Len(larges) : larges[k] \in [mem : Addr, size : Nat]
  BY <1>1, ElementOfSeq DEF LargesOK
<1>3. \A x \in Addr : x \in Nat
  BY ClassFacts DEF Addr
<1>4. ASSUME NEW k \in 1 .. Len(larges)
      PROVE  /\ larges[k].mem \in Nat /\ larges[k].mem \in Addr
             /\ larges[k].size \in Nat /\ larges[k].size > 0
  <2>1. larges[k].mem \in Addr /\ larges[k].size \in Nat /\ MaxSmall < larges[k].size
    BY <1>1, <1>2 DEF LargesOK
  <2>2. QED
    BY <1>3, <2>1, ClassFacts
<1>5. ASSUME NEW j \in 1 .. Len(larges), NEW k \in 1 .. Len(larges), j < k
      PROVE  larges[j].mem < larges[k].mem
  <2>1. larges[j].mem + larges[j].size <= larges[k].mem
    BY <1>1, <1>5 DEF LargesOK
  <2>2. QED
    BY <1>4, <2>1
<1>6. QED
  BY <1>1, <1>2, <1>4, <1>5

(* The objects up to n begin at or before w, the others behind it.         *)
Splits(n, w) ==
    /\ n \in 0 .. Len(larges)
    /\ \A k \in 1 .. Len(larges) : larges[k].mem <= w <=> k <= n

LEMMA SplitExists ==
  ASSUME LargesOK, NEW w \in Nat
  PROVE  \E n \in 0 .. Len(larges) : Splits(n, w)
<1> DEFINE T == {k \in 1 .. Len(larges) + 1 : k = Len(larges) + 1 \/ larges[k].mem > w}
<1>1. Len(larges) \in Nat /\ T \in SUBSET Nat /\ Len(larges) + 1 \in T
  BY LargesFacts
<1>2. PICK x \in T : \A y \in T : x <= y
  BY <1>1, LeastElement
<1>3. x - 1 \in 0 .. Len(larges)
  BY <1>1, <1>2
<1>4. ASSUME NEW k \in 1 .. Len(larges) PROVE larges[k].mem <= w <=> k <= x - 1
  <2>1. larges[k].mem \in Nat /\ k \in Nat /\ x \in Nat
    BY <1>1, <1>2, LargesFacts
  <2>2. CASE k < x
    <3>1. k \notin T
      BY <1>2, <2>1, <2>2
    <3>2. ~(larges[k].mem > w)
      BY <1>1, <3>1
    <3>3. QED
      BY <2>1, <2>2, <3>2
  <2>3. CASE x <= k
    <3>1. x \in 1 .. Len(larges) /\ larges[x].mem > w /\ larges[x].mem \in Nat
      BY <1>1, <1>2, <2>3, LargesFacts
    <3>2. larges[x].mem <= larges[k].mem
      <4>1. \A j, m \in 1 .. Len(larges) : j < m => larges[j].mem < larges[m].mem
        BY LargesFacts
      <4>2. x = k \/ x < k
        BY <2>1, <2>3
      <4>3. QED
        BY <2>1, <3>1, <4>1, <4>2
    <3>3. QED
      BY <2>1, <2>3, <3>1, <3>2
  <2>4. QED
    BY <2>1, <2>2, <2>3
<1>5. QED
  BY <1>3, <1>4 DEF Splits

(* One round of the search, when f is what the later ones return.          *)
Round(f, r, w) ==
    LET lo  == r[1]
        hi  == r[2]
        mid == lo + (hi - lo) \div 2
    IN  IF lo >= hi THEN lo
        ELSE IF larges[mid + 1].mem <= w THEN f[<<mid + 1, hi>>]
        ELSE f[<<lo, mid>>]

Ranges == (0 .. Len(larges)) \X (0 .. Len(larges))

(* What the search returns when n splits the array.                        *)
Clamped(n) ==
    [r \in Ranges |-> IF r[1] >= r[2] \/ n < r[1] THEN r[1] ELSE IF n > r[2] THEN r[2] ELSE n]

LEMMA MidFacts ==
  ASSUME NEW lo \in Nat, NEW hi \in Nat, lo < hi
  PROVE  LET mid == lo + (hi - lo) \div 2
         IN  mid \in Nat /\ lo <= mid /\ mid < hi
OBVIOUS

LEMMA ClampedAt ==
  ASSUME NEW n, NEW i \in 0 .. Len(larges), NEW j \in 0 .. Len(larges)
  PROVE  Clamped(n)[<<i, j>>] = IF i >= j \/ n < i THEN i ELSE IF n > j THEN j ELSE n
<1>1. <<i, j>> \in Ranges
  BY DEF Ranges
<1>2. <<i, j>>[1] = i /\ <<i, j>>[2] = j
  OBVIOUS
<1>3. QED
  BY <1>1, <1>2 DEF Clamped

LEMMA ClampedIsFixed ==
  ASSUME LargesOK, NEW w \in Nat, NEW n, Splits(n, w)
  PROVE  Clamped(n) = [r \in Ranges |-> Round(Clamped(n), r, w)]
<1> SUFFICES ASSUME NEW lo \in 0 .. Len(larges), NEW hi \in 0 .. Len(larges)
             PROVE  Clamped(n)[<<lo, hi>>] = Round(Clamped(n), <<lo, hi>>, w)
  <2>1. ASSUME NEW r \in Ranges PROVE Clamped(n)[r] = Round(Clamped(n), r, w)
    <3>1. PICK i \in 0 .. Len(larges), j \in 0 .. Len(larges) : r = <<i, j>>
      BY DEF Ranges
    <3>2. Clamped(n)[<<i, j>>] = Round(Clamped(n), <<i, j>>, w)
      OBVIOUS
    <3>3. QED
      BY <3>1, <3>2
  <2> DEFINE c == Clamped(n)
  <2>2. c = [r \in Ranges |-> c[r]]
    BY DEF Clamped
  <2> HIDE DEF c
  <2>3. QED
    BY <2>1, <2>2 DEF c
<1> DEFINE c == Clamped(n)
<1>1. Len(larges) \in Nat /\ n \in 0 .. Len(larges) /\ lo \in Nat /\ hi \in Nat
  BY LargesFacts DEF Splits
<1>2. \A i, j \in 0 .. Len(larges) :
         c[<<i, j>>] = IF i >= j \/ n < i THEN i ELSE IF n > j THEN j ELSE n
  BY ClampedAt
<1> HIDE DEF c
<1>3. ASSUME lo >= hi PROVE c[<<lo, hi>>] = Round(c, <<lo, hi>>, w)
  BY <1>1, <1>2, <1>3 DEF Round
<1>4. ASSUME lo < hi PROVE c[<<lo, hi>>] = Round(c, <<lo, hi>>, w)
  <2> DEFINE mid == lo + (hi - lo) \div 2
  <2>1. mid \in Nat /\ lo <= mid /\ mid < hi
    BY <1>1, <1>4, MidFacts
  <2>2. Round(c, <<lo, hi>>, w) =
           IF larges[mid + 1].mem <= w THEN c[<<mid + 1, hi>>] ELSE c[<<lo, mid>>]
    BY <1>1, <1>4 DEF Round
  <2> HIDE DEF mid
  <2>3. larges[mid + 1].mem <= w <=> mid + 1 <= n
    BY <1>1, <2>1 DEF Splits
  <2>4. mid + 1 \in 0 .. Len(larges) /\ mid \in 0 .. Len(larges)
    BY <1>1, <2>1
  <2>5. CASE mid + 1 <= n
    BY <1>1, <1>2, <1>4, <2>1, <2>2, <2>3, <2>4, <2>5
  <2>6. CASE ~(mid + 1 <= n)
    BY <1>1, <1>2, <1>4, <2>1, <2>2, <2>3, <2>4, <2>6
  <2>7. QED
    BY <2>5, <2>6
<1>5. QED
  BY <1>1, <1>3, <1>4 DEF c

(* large_upper_bound returns the number of large objects that start at or  *)
(* before w.                                                               *)
LEMMA UpperBoundSplits ==
  ASSUME LargesOK, NEW w \in Nat
  PROVE  Splits(LargeUpperBound(w), w)
<1>1. PICK n \in 0 .. Len(larges) : Splits(n, w)
  BY SplitExists
<1> DEFINE search == CHOOSE f : f = [r \in Ranges |-> Round(f, r, w)]
           c == Clamped(n)
           B == {d \in Nat : \E lo, hi \in 0 .. Len(larges) :
                                hi - lo = d /\ search[<<lo, hi>>] # c[<<lo, hi>>]}
<1>2. search = [r \in Ranges |-> Round(search, r, w)]
  <2>1. \E f : f = [r \in Ranges |-> Round(f, r, w)]
    BY <1>1, ClampedIsFixed
  <2>2. QED
    BY <2>1
<1>3. LargeUpperBound(w) = search[<<0, Len(larges)>>]
  BY DEF LargeUpperBound, Round, Ranges
<1> HIDE DEF search, c
<1>4. /\ Len(larges) \in Nat /\ n \in 0 .. Len(larges)
      /\ \A i, j \in 0 .. Len(larges) :
            c[<<i, j>>] = IF i >= j \/ n < i THEN i ELSE IF n > j THEN j ELSE n
  BY LargesFacts, ClampedAt DEF c
<1>5. \A i, j \in 0 .. Len(larges) : search[<<i, j>>] = Round(search, <<i, j>>, w)
  BY <1>2 DEF Ranges
<1>6. \A i, j \in 0 .. Len(larges) : c[<<i, j>>] = Round(c, <<i, j>>, w)
  <2>1. c = [r \in Ranges |-> Round(c, r, w)]
    BY <1>1, ClampedIsFixed DEF c
  <2>2. QED
    BY <2>1 DEF Ranges
<1>7. \A i, j \in 0 .. Len(larges) : i >= j => search[<<i, j>>] = c[<<i, j>>]
  <2>1. ASSUME NEW i \in 0 .. Len(larges), NEW j \in 0 .. Len(larges), i >= j
        PROVE  search[<<i, j>>] = c[<<i, j>>]
    <3>1. Round(search, <<i, j>>, w) = i /\ Round(c, <<i, j>>, w) = i
      BY <2>1 DEF Round
    <3>2. QED
      BY <1>5, <1>6, <3>1
  <2>2. QED
    BY <2>1
<1>8. B = {}
  <2>1. SUFFICES ASSUME B # {} PROVE FALSE
    OBVIOUS
  <2>2. PICK d \in B : \A e \in B : d <= e
    BY <2>1, LeastElement
  <2>3. PICK lo \in 0 .. Len(larges), hi \in 0 .. Len(larges) :
           hi - lo = d /\ search[<<lo, hi>>] # c[<<lo, hi>>]
    BY <2>2
  <2>4. lo \in Nat /\ hi \in Nat /\ lo < hi /\ d \in Nat
    BY <1>4, <1>7, <2>2, <2>3
  <2> DEFINE mid == lo + (hi - lo) \div 2
  <2>5. mid \in Nat /\ lo <= mid /\ mid < hi
    BY <2>4, MidFacts
  <2>6. \A f : Round(f, <<lo, hi>>, w) =
           IF larges[mid + 1].mem <= w THEN f[<<mid + 1, hi>>] ELSE f[<<lo, mid>>]
    BY <2>4 DEF Round
  <2> HIDE DEF mid
  <2>7. mid + 1 \in 0 .. Len(larges) /\ mid \in 0 .. Len(larges)
    BY <1>4, <2>5
  <2>8. search[<<mid + 1, hi>>] = c[<<mid + 1, hi>>]
    <3>1. CASE mid + 1 < hi
      <4> DEFINE e == hi - (mid + 1)
      <4>1. e \in Nat /\ e < d
        BY <2>3, <2>4, <2>5, <3>1
      <4>2. e \notin B
        <5> HIDE DEF B, e
        <5>1. QED
          BY <2>2, <2>4, <4>1
      <4>3. QED
        BY <2>7, <4>1, <4>2
    <3>2. CASE mid + 1 >= hi
      BY <1>7, <2>7, <3>2
    <3>3. QED
      BY <2>4, <2>5, <3>1, <3>2
  <2>9. search[<<lo, mid>>] = c[<<lo, mid>>]
    <3> DEFINE e == mid - lo
    <3>1. e \in Nat /\ e < d
      BY <2>3, <2>4, <2>5
    <3>2. e \notin B
      <4> HIDE DEF B, e
      <4>1. QED
        BY <2>2, <2>4, <3>1
    <3>3. QED
      BY <2>7, <3>1, <3>2
  <2>10. search[<<lo, hi>>] = c[<<lo, hi>>]
    BY <1>5, <1>6, <2>6, <2>8, <2>9
  <2>11. QED
    BY <2>3, <2>10
<1>9. search[<<0, Len(larges)>>] = n
  <2>1. search[<<0, Len(larges)>>] = c[<<0, Len(larges)>>]
    <3>1. Len(larges) \notin B /\ Len(larges) - 0 = Len(larges)
      <4> HIDE DEF B
      <4>1. QED
        BY <1>4, <1>8
    <3>2. 0 \in 0 .. Len(larges) /\ Len(larges) \in 0 .. Len(larges) /\ Len(larges) \in Nat
      BY <1>4
    <3>3. QED
      BY <3>1, <3>2
  <2>2. c[<<0, Len(larges)>>] = n
    BY <1>4
  <2>3. QED
    BY <2>1, <2>2
<1>10. QED
  BY <1>1, <1>3, <1>9

-----------------------------------------------------------------------------
(* The inductive invariant.                                                *)

(* Pages are aligned and within memory, and registered once.               *)
PagesOK ==
    /\ pages \in Seq(Addr) /\ IsInjective(pages) /\ DOMAIN page = ToSet(pages)
    /\ \A p \in DOMAIN page :
          page[p] \in PageRecord /\ p % PageBytes = 0 /\ p + PageBytes <= MemTop

(* No large object reaches into a page.                                    *)
Apart ==
    \A p \in DOMAIN page : \A k \in DOMAIN larges :
        \/ p + PageBytes <= larges[k].mem
        \/ larges[k].mem + larges[k].size <= p

(* A free list has no slot twice, and nfree is its length.                 *)
FreeOK ==
    \A p \in DOMAIN page :
        /\ ToSet(page[p].free) \subseteq 0 .. NSlots(page[p].cls) - 1
        /\ IsInjective(page[p].free)
        /\ page[p].nfree = Len(page[p].free)

(* A class's list has its pages with a free slot, each once.               *)
AvailOK ==
    /\ page_avail \in [Classes -> Seq(Addr)]
    /\ \A c \in Classes :
          /\ ToSet(page_avail[c]) = {p \in DOMAIN page : page[p].cls = c /\ page[p].nfree > 0}
          /\ IsInjective(page_avail[c])

Used(p) == {i \in 0 .. NSlots(page[p].cls) - 1 : i \notin ToSet(page[p].free)}

(* The objects are the slots that are not free and the large objects, and  *)
(* fit where they are.                                                     *)
ObjectsOK ==
    /\ \A o \in DOMAIN obj :
          \/ \E p \in DOMAIN page : \E i \in Used(p) : o = SlotAddr(p, i)
          \/ \E k \in DOMAIN larges : o = larges[k].mem
    /\ \A p \in DOMAIN page : \A i \in Used(p) :
          SlotAddr(p, i) \in DOMAIN obj /\ obj[SlotAddr(p, i)] <= class_sizes[page[p].cls]
    /\ \A k \in DOMAIN larges :
          larges[k].mem \in DOMAIN obj /\ obj[larges[k].mem] = larges[k].size
    /\ \A o \in DOMAIN obj : obj[o] \in Sizes

(* The header of a free slot has no ti, that of a used one has.            *)
HeadersOK ==
    /\ ti \subseteq Addr
    /\ \A p \in DOMAIN page : \A i \in 0 .. NSlots(page[p].cls) - 1 :
          SlotAddr(p, i) \in ti <=> i \in Used(p)

(* The bounds enclose all pages and large objects.                         *)
BoundsOK ==
    /\ heap_lo \in 0 .. MemTop /\ heap_hi \in 0 .. MemTop
    /\ \A p \in DOMAIN page : heap_lo <= p /\ p + PageBytes <= heap_hi
    /\ \A k \in DOMAIN larges :
          heap_lo <= larges[k].mem /\ larges[k].mem + larges[k].size <= heap_hi

(* gc_alloc waits with a size that was asked for.                          *)
WantOK ==
    /\ pc \in {"run", "collect", "place", "panicked"}
    /\ want \in Sizes \cup {0}
    /\ pc \in {"place", "panicked"} => want \in Sizes
    /\ stress \in BOOLEAN /\ allocated_since \in Nat

IInv ==
    /\ PagesOK /\ LargesOK /\ Apart /\ FreeOK /\ AvailOK
    /\ ObjectsOK /\ HeadersOK /\ BoundsOK /\ WantOK

(* What the invariant says of one page.                                    *)
LEMMA PageFacts ==
  ASSUME PagesOK, NEW p \in DOMAIN page
  PROVE  /\ p \in Nat /\ p \in Addr /\ p % PageBytes = 0 /\ p + PageBytes <= MemTop
         /\ page[p].cls \in Classes /\ page[p].free \in Seq(0 .. PageBytes)
         /\ page[p].nfree \in Nat
         /\ Len(page[p].free) \in Nat /\ DOMAIN page[p].free = 1 .. Len(page[p].free)
<1>1. p \in Addr
  <2>1. PICK k \in DOMAIN pages : pages[k] = p
    BY DEF PagesOK, ToSet
  <2>2. QED
    BY <2>1, ElementOfSeq, LenProperties DEF PagesOK
<1>2. p \in Nat
  BY <1>1, ClassFacts DEF Addr
<1>3. page[p] \in PageRecord
  BY DEF PagesOK
<1>4. page[p].nfree \in Nat
  BY <1>3, ClassFacts DEF PageRecord
<1>5. QED
  BY <1>1, <1>2, <1>3, <1>4, LenProperties DEF PagesOK, PageRecord

(* ... and of its slots.                                                   *)
LEMMA SlotPlace ==
  ASSUME PagesOK, NEW p \in DOMAIN page, NEW i \in 0 .. NSlots(page[p].cls) - 1
  PROVE  /\ i \in Nat
         /\ SlotAddr(p, i) = p + Off(page[p].cls, i)
         /\ SlotAddr(p, i) \in Nat /\ p <= SlotAddr(p, i)
         /\ class_sizes[page[p].cls] \in Nat /\ class_sizes[page[p].cls] > 0
         /\ SlotAddr(p, i) + class_sizes[page[p].cls] <= p + PageBytes
<1>1. p \in Nat /\ page[p].cls \in Classes /\ PageBytes \in Nat
  BY PageFacts, ClassFacts
<1>2. /\ Off(page[p].cls, i) \in Nat
      /\ Off(page[p].cls, i) + class_sizes[page[p].cls] <= PageBytes
      /\ NSlots(page[p].cls) \in Nat
      /\ class_sizes[page[p].cls] \in Nat /\ class_sizes[page[p].cls] > 0
  BY <1>1, SlotFacts, ClassFacts
<1>3. SlotAddr(p, i) = p + Off(page[p].cls, i)
  BY DEF SlotAddr, Off
<1>4. QED
  BY <1>1, <1>2, <1>3

(* An address is in at most one page.                                      *)
LEMMA PageOf ==
  ASSUME PagesOK, NEW p \in DOMAIN page, NEW w \in Nat, p <= w, w < p + PageBytes
  PROVE  w - (w % PageBytes) = p
BY PageFacts, PageStart

(* Two slots at one address are one slot of one page.                      *)
LEMMA SlotsDiffer ==
  ASSUME PagesOK, NEW p \in DOMAIN page, NEW q \in DOMAIN page,
         NEW i \in 0 .. NSlots(page[p].cls) - 1, NEW j \in 0 .. NSlots(page[q].cls) - 1,
         SlotAddr(p, i) = SlotAddr(q, j)
  PROVE  p = q /\ i = j
<1> DEFINE a == SlotAddr(p, i)
<1>0. p \in Nat /\ q \in Nat /\ PageBytes \in Nat
  BY PageFacts, ClassFacts
<1>1. a \in Nat /\ p <= a /\ a < p + PageBytes /\ q <= a /\ a < q + PageBytes
  <2>1. SlotAddr(p, i) \in Nat /\ p <= SlotAddr(p, i) /\ SlotAddr(p, i) < p + PageBytes
    BY <1>0, SlotPlace
  <2>2. q <= SlotAddr(q, j) /\ SlotAddr(q, j) < q + PageBytes
    BY <1>0, SlotPlace
  <2>3. QED
    BY <2>1, <2>2
<1>2. p = q
  BY <1>1, PageOf
<1>3. /\ Off(page[p].cls, i) = Off(page[p].cls, j)
      /\ Off(page[p].cls, i) \in Nat /\ i \in Nat /\ j \in Nat
      /\ class_sizes[page[p].cls] \in Nat /\ class_sizes[page[p].cls] > 0
  BY <1>2, SlotPlace, PageFacts, SlotFacts
<1>4. ~(i < j) /\ ~(j < i)
  BY <1>2, <1>3, PageFacts, SlotFacts
<1>5. QED
  BY <1>2, <1>3, <1>4

(* A word in a slot resolves to the slot, if that is not free.             *)
LEMMA FindInSlot ==
  ASSUME IInv, NEW p \in DOMAIN page, NEW i \in 0 .. NSlots(page[p].cls) - 1,
         NEW w \in Nat, SlotAddr(p, i) <= w, w < SlotAddr(p, i) + class_sizes[page[p].cls]
  PROVE  FindObject(w) = IF i \in Used(p) THEN SlotAddr(p, i) ELSE NoObj
<1> DEFINE c == page[p].cls
<1>0. PagesOK /\ HeadersOK /\ BoundsOK
  BY DEF IInv
<1>1. /\ p \in Nat /\ c \in Classes /\ PageBytes \in Nat /\ i \in Nat
      /\ SlotAddr(p, i) = p + Off(c, i) /\ Off(c, i) \in Nat
      /\ class_sizes[c] \in Nat /\ class_sizes[c] > 0
      /\ SlotAddr(p, i) + class_sizes[c] <= p + PageBytes
      /\ NSlots(c) \in Nat
  <2>1. p \in Nat /\ c \in Classes
    BY <1>0, PageFacts
  <2>2. /\ PageBytes \in Nat /\ i \in Nat /\ NSlots(c) \in Nat
        /\ class_sizes[c] \in Nat /\ class_sizes[c] > 0
    BY <2>1, ClassFacts, SlotFacts
  <2>3. /\ SlotAddr(p, i) = p + Off(c, i) /\ Off(c, i) \in Nat
        /\ SlotAddr(p, i) + class_sizes[c] <= p + PageBytes
    BY <1>0, <2>1, SlotPlace, SlotFacts
  <2>4. QED
    BY <2>1, <2>2, <2>3
<1>2. p <= w /\ w < p + PageBytes
  BY <1>1
<1>3. w - (w % PageBytes) = p
  BY <1>0, <1>2, PageOf
<1>4. w - p \in Nat /\ Off(c, i) <= w - p /\ w - p < Off(c, i) + class_sizes[c]
  BY <1>1, <1>2
<1>5. (w - p) \div class_sizes[c] = i
  BY <1>1, <1>4, SlotIndex
<1>6. ~(w < heap_lo) /\ ~(w >= heap_hi)
  <2>1. heap_lo \in Nat /\ heap_hi \in Nat /\ heap_lo <= p /\ p + PageBytes <= heap_hi
    BY <1>0, ClassFacts DEF BoundsOK
  <2>2. QED
    BY <1>1, <1>2, <2>1
<1>7. i < NSlots(c)
  BY <1>1
<1>8. SlotAddr(p, i) \in ti <=> i \in Used(p)
  BY <1>0 DEF HeadersOK
<1> HIDE DEF c
<1>9. QED
  BY <1>3, <1>5, <1>6, <1>7, <1>8 DEF FindObject, PageLookup, c

(* The binary search ends at the large object that a word is in.           *)
LEMMA LookupLarge ==
  ASSUME LargesOK, NEW k \in DOMAIN larges, NEW w \in Nat,
         larges[k].mem <= w, w < larges[k].mem + larges[k].size
  PROVE  LargeLookup(w) = larges[k].mem
<1> DEFINE n == LargeUpperBound(w)
<1>1. Splits(n, w)
  BY UpperBoundSplits
<1> HIDE DEF n
<1>2. Len(larges) \in Nat /\ DOMAIN larges = 1 .. Len(larges) /\ n \in 0 .. Len(larges)
  BY <1>1, LargesFacts DEF Splits
<1>3. k <= n /\ k \in Nat
  BY <1>1, <1>2 DEF Splits
<1>4. n \in 1 .. Len(larges) /\ larges[n].mem <= w
  BY <1>1, <1>2, <1>3 DEF Splits
<1>5. ~(k < n)
  <2>1. SUFFICES ASSUME k < n PROVE FALSE
    OBVIOUS
  <2>2. larges[k].mem + larges[k].size <= larges[n].mem
    BY <1>2, <1>4, <2>1 DEF LargesOK
  <2>3. larges[k].mem \in Nat /\ larges[k].size \in Nat /\ larges[n].mem \in Nat
    BY <1>2, <1>4, LargesFacts
  <2>4. QED
    BY <1>4, <2>2, <2>3
<1>6. n = k
  BY <1>2, <1>3, <1>5
<1>7. QED
  BY <1>3, <1>4, <1>6 DEF LargeLookup, n

LEMMA FindInLarge ==
  ASSUME IInv, NEW k \in DOMAIN larges, NEW w \in Nat,
         larges[k].mem <= w, w < larges[k].mem + larges[k].size
  PROVE  FindObject(w) = larges[k].mem
<1>0. PagesOK /\ LargesOK /\ Apart /\ BoundsOK
  BY DEF IInv
<1>1. larges[k].mem \in Nat /\ larges[k].size \in Nat /\ PageBytes \in Nat \ {0}
  BY <1>0, LargesFacts, ClassFacts
<1> DEFINE m == w - (w % PageBytes)
<1>2. m \in Nat /\ m <= w /\ w < m + PageBytes
  <2>1. w % PageBytes \in Nat /\ w % PageBytes < PageBytes /\ w % PageBytes <= w
    <3>1. /\ w \div PageBytes \in Nat /\ (w \div PageBytes) * PageBytes <= w
          /\ w % PageBytes \in Nat /\ w % PageBytes < PageBytes
          /\ w = (w \div PageBytes) * PageBytes + (w % PageBytes)
      BY <1>1, QuotientFacts
    <3>2. (w \div PageBytes) * PageBytes \in Nat
      BY <1>1, <3>1
    <3>3. QED
      BY <3>1, <3>2
  <2>2. QED
    BY <1>1, <2>1
<1> HIDE DEF m
<1>3. m \notin DOMAIN page
  <2>1. SUFFICES ASSUME m \in DOMAIN page PROVE FALSE
    OBVIOUS
  <2>2. m + PageBytes <= larges[k].mem \/ larges[k].mem + larges[k].size <= m
    BY <1>0, <2>1 DEF Apart
  <2>3. QED
    BY <1>1, <1>2, <2>2
<1>4. ~(w < heap_lo) /\ ~(w >= heap_hi)
  <2>1. /\ heap_lo \in Nat /\ heap_hi \in Nat /\ heap_lo <= larges[k].mem
        /\ larges[k].mem + larges[k].size <= heap_hi
    BY <1>0, ClassFacts DEF BoundsOK
  <2>2. QED
    BY <1>1, <2>1
<1>5. LargeLookup(w) = larges[k].mem
  BY <1>0, LookupLarge
<1>6. QED
  BY <1>3, <1>4, <1>5 DEF FindObject, PageLookup, m

(* A word that is in no object resolves to none.                           *)
LEMMA FindsObjects ==
  ASSUME IInv, NEW w \in Addr
  PROVE  FindObject(w) \in DOMAIN obj \cup {NoObj}
<1> DEFINE m == w - (w % PageBytes)
           i == (w - m) \div class_sizes[page[m].cls]
<1>0. PagesOK /\ LargesOK /\ ObjectsOK /\ HeadersOK
  BY DEF IInv
<1>1. w \in Nat /\ PageBytes \in Nat \ {0}
  BY ClassFacts DEF Addr
<1>2. w - m \in Nat
  <2>1. w % PageBytes \in Nat /\ w - (w - (w % PageBytes)) = w % PageBytes
    BY <1>1
  <2>2. QED
    BY <2>1
<1>3. ASSUME m \in DOMAIN page, i < NSlots(page[m].cls), SlotAddr(m, i) \in ti
      PROVE  SlotAddr(m, i) \in DOMAIN obj
  <2>1. class_sizes[page[m].cls] \in Nat \ {0}
    <3>1. page[m].cls \in Classes
      BY <1>0, <1>3, PageFacts
    <3>2. QED
      BY <3>1, ClassFacts
  <2>2. i \in Nat
    BY <1>2, <2>1, QuotientFacts
  <2>3. NSlots(page[m].cls) \in Nat
    BY <1>0, <1>3, PageFacts, SlotFacts
  <2> HIDE DEF i, m
  <2>4. i \in 0 .. NSlots(page[m].cls) - 1
    BY <1>3, <2>2, <2>3
  <2>5. i \in Used(m)
    BY <1>0, <1>3, <2>4 DEF HeadersOK
  <2>6. QED
    BY <1>0, <1>3, <2>5 DEF ObjectsOK
<1>4. LargeLookup(w) \in DOMAIN obj \cup {NoObj}
  <2> DEFINE n == LargeUpperBound(w)
  <2>1. n \in 0 .. Len(larges) /\ Len(larges) \in Nat /\ DOMAIN larges = 1 .. Len(larges)
    BY <1>0, <1>1, UpperBoundSplits, LargesFacts DEF Splits
  <2> HIDE DEF n
  <2>2. n # 0 => larges[n].mem \in DOMAIN obj
    BY <1>0, <2>1 DEF ObjectsOK
  <2>3. QED
    BY <2>2 DEF LargeLookup, n
<1> HIDE DEF i, m
<1>5. \/ FindObject(w) \in {NoObj, LargeLookup(w)}
      \/ /\ m \in DOMAIN page /\ i < NSlots(page[m].cls) /\ SlotAddr(m, i) \in ti
         /\ FindObject(w) = SlotAddr(m, i)
  <2>1. CASE w < heap_lo \/ w >= heap_hi
    BY <2>1 DEF FindObject
  <2>2. CASE ~(w < heap_lo \/ w >= heap_hi) /\ m \in DOMAIN page
    <3>1. FindObject(w) = IF i < NSlots(page[m].cls) /\ SlotAddr(m, i) \in ti
                          THEN SlotAddr(m, i) ELSE NoObj
      BY <2>2 DEF FindObject, PageLookup, m, i
    <3>2. QED
      BY <2>2, <3>1
  <2>3. CASE ~(w < heap_lo \/ w >= heap_hi) /\ m \notin DOMAIN page
    BY <2>3 DEF FindObject, PageLookup, m
  <2>4. QED
    BY <2>1, <2>2, <2>3
<1>6. QED
  BY <1>3, <1>4, <1>5

(* Each object is where malloc put it and resolves from all of its words.  *)
LEMMA FindsAll ==
  ASSUME IInv, NEW o \in DOMAIN obj
  PROVE  /\ o \in Nat /\ obj[o] \in Nat \ {0}
         /\ \A w \in Block(o, obj[o]) : w \in Nat /\ FindObject(w) = o
         /\ Block(o, obj[o]) \subseteq Reserved
<1>0. PagesOK /\ LargesOK /\ ObjectsOK
  BY DEF IInv
<1>1. obj[o] \in Nat \ {0}
  BY <1>0, PageHeapAssumption DEF ObjectsOK
<1>2. ASSUME NEW p \in DOMAIN page, NEW i \in Used(p), o = SlotAddr(p, i)
      PROVE  /\ o \in Nat
             /\ \A w \in Block(o, obj[o]) : w \in Nat /\ FindObject(w) = o
             /\ Block(o, obj[o]) \subseteq Reserved
  <2> DEFINE s == class_sizes[page[p].cls]
  <2>1. i \in 0 .. NSlots(page[p].cls) - 1
    BY DEF Used
  <2>2. /\ o \in Nat /\ p \in Nat /\ PageBytes \in Nat
        /\ p <= o /\ o + s <= p + PageBytes /\ s \in Nat
    BY <1>0, <1>2, <2>1, SlotPlace, PageFacts, ClassFacts
  <2>3. obj[o] <= s
    BY <1>0, <1>2 DEF ObjectsOK
  <2> HIDE DEF s
  <2>4. ASSUME NEW w \in Block(o, obj[o])
        PROVE  w \in Nat /\ o <= w /\ w < o + s /\ w \in Block(p, PageBytes)
    BY <1>1, <2>2, <2>3, <2>4 DEF Block
  <2>5. \A w \in Block(o, obj[o]) : w \in Nat /\ FindObject(w) = o
    BY <1>2, <2>1, <2>4, FindInSlot DEF s
  <2>6. Block(o, obj[o]) \subseteq Reserved
    BY <2>4 DEF Reserved
  <2>7. QED
    BY <2>2, <2>5, <2>6
<1>3. ASSUME NEW k \in DOMAIN larges, o = larges[k].mem
      PROVE  /\ o \in Nat
             /\ \A w \in Block(o, obj[o]) : w \in Nat /\ FindObject(w) = o
             /\ Block(o, obj[o]) \subseteq Reserved
  <2>1. o \in Nat /\ obj[o] = larges[k].size
    BY <1>0, <1>3, LargesFacts DEF ObjectsOK
  <2>2. ASSUME NEW w \in Block(o, obj[o]) PROVE w \in Nat /\ o <= w /\ w < o + obj[o]
    BY <1>1, <2>1, <2>2 DEF Block
  <2>3. \A w \in Block(o, obj[o]) : w \in Nat /\ FindObject(w) = o
    BY <1>3, <2>1, <2>2, FindInLarge
  <2>4. Block(o, obj[o]) \subseteq Reserved
    <3>1. larges[k] \in ToSet(larges)
      BY DEF ToSet
    <3> DEFINE Blocks == {Block(l.mem, l.size) : l \in ToSet(larges)}
    <3>2. Block(o, obj[o]) \in Blocks
      <4>1. Block(o, obj[o]) = Block(larges[k].mem, larges[k].size)
        BY <1>3, <2>1
      <4>2. QED
        BY <3>1, <4>1, Zenon
    <3>3. UNION Blocks \subseteq Reserved
      BY DEF Reserved
    <3> HIDE DEF Blocks
    <3>4. QED
      BY <3>2, <3>3
  <2>5. QED
    BY <2>1, <2>3, <2>4
<1>4. QED
  BY <1>0, <1>1, <1>2, <1>3 DEF ObjectsOK

LEMMA EveryObjectIsFound ==
  ASSUME IInv
  PROVE  FindsEveryObject /\ NoOverlap
<1>1. FindsEveryObject
  BY FindsAll, FindsObjects DEF FindsEveryObject
<1>2. ASSUME NEW o \in DOMAIN obj, NEW q \in DOMAIN obj, o # q
      PROVE  Block(o, obj[o]) \cap Block(q, obj[q]) = {}
  BY <1>2, FindsAll
<1>3. QED
  BY <1>1, <1>2, FindsAll DEF NoOverlap

(* The number of elements of a sequence without repetition is its length.  *)
LEMMA InjectiveCount ==
  ASSUME NEW T, NEW s \in Seq(T), IsInjective(s)
  PROVE  Cardinality(ToSet(s)) = Len(s)
<1> DEFINE D == 1 .. Len(s)
<1>1. IsFiniteSet(D) /\ Cardinality(D) = Len(s)
  <2>1. Len(s) \in Nat
    BY LenProperties
  <2>2. IsFiniteSet(1 .. Len(s)) /\ Cardinality(1 .. Len(s)) = IF 1 > Len(s) THEN 0 ELSE Len(s) - 1 + 1
    BY <2>1, FS_Interval
  <2>3. QED
    BY <2>1, <2>2
<1>2. s \in Surjection(D, ToSet(s)) /\ s \in Injection(D, ToSet(s))
  <2>0. s \in [D -> T]
    BY LenProperties
  <2>1. s \in [D -> ToSet(s)]
    BY <2>0 DEF ToSet
  <2>2. \A y \in ToSet(s) : \E x \in D : s[x] = y
    BY <2>0 DEF ToSet
  <2>3. \A x, y \in D : s[x] = s[y] => x = y
    BY <2>0 DEF IsInjective
  <2>4. QED
    BY <2>1, <2>2, <2>3 DEF Surjection, Injection, IsInjective
<1> HIDE DEF D
<1>3. Cardinality(ToSet(s)) = Cardinality(D)
  BY <1>1, <1>2, FS_Surjection
<1>4. QED
  BY <1>1, <1>3

LEMMA FreeListsAreExact ==
  ASSUME IInv
  PROVE  FreeListsExact
<1>0. PagesOK /\ FreeOK /\ AvailOK /\ ObjectsOK /\ Apart /\ LargesOK
  BY DEF IInv
<1>1. ASSUME NEW p \in DOMAIN page
      PROVE  /\ page[p].nfree = Len(page[p].free)
             /\ page[p].nfree = Cardinality(ToSet(page[p].free))
  <2>1. /\ page[p].nfree = Len(page[p].free) /\ page[p].free \in Seq(0 .. PageBytes)
        /\ IsInjective(page[p].free)
    BY <1>0, PageFacts DEF FreeOK
  <2>2. QED
    BY <2>1, InjectiveCount
<1>2. ASSUME NEW p \in DOMAIN page
      PROVE  {SlotAddr(p, i) : i \in ToSet(page[p].free)} = SlotsOf(p) \ DOMAIN obj
  <2>1. ASSUME NEW i \in ToSet(page[p].free) PROVE SlotAddr(p, i) \in SlotsOf(p) \ DOMAIN obj
    <3>1. i \in 0 .. NSlots(page[p].cls) - 1 /\ i \notin Used(p)
      BY <1>0 DEF FreeOK, Used
    <3>2. ASSUME NEW q \in DOMAIN page, NEW j \in Used(q) PROVE SlotAddr(q, j) # SlotAddr(p, i)
      BY <1>0, <3>1, SlotsDiffer DEF Used
    <3>3. ASSUME NEW k \in DOMAIN larges PROVE larges[k].mem # SlotAddr(p, i)
      <4>1. /\ SlotAddr(p, i) \in Nat /\ p <= SlotAddr(p, i) /\ SlotAddr(p, i) < p + PageBytes
            /\ p \in Nat /\ PageBytes \in Nat
        <5>1. p \in Nat /\ PageBytes \in Nat
          BY <1>0, PageFacts, ClassFacts
        <5>2. QED
          BY <1>0, <3>1, <5>1, SlotPlace
      <4>2. larges[k].mem \in Nat /\ larges[k].size \in Nat /\ larges[k].size > 0
        BY <1>0, LargesFacts
      <4>3. p + PageBytes <= larges[k].mem \/ larges[k].mem + larges[k].size <= p
        BY <1>0 DEF Apart
      <4>4. QED
        BY <4>1, <4>2, <4>3
    <3>4. SlotAddr(p, i) \notin DOMAIN obj
      BY <1>0, <3>2, <3>3 DEF ObjectsOK
    <3>5. QED
      BY <3>1, <3>4 DEF SlotsOf
  <2>2. ASSUME NEW i \in 0 .. NSlots(page[p].cls) - 1, SlotAddr(p, i) \notin DOMAIN obj
        PROVE  i \in ToSet(page[p].free)
    BY <1>0, <2>2 DEF ObjectsOK, Used
  <2>3. QED
    BY <2>1, <2>2 DEF SlotsOf
<1>3. QED
  BY <1>0, <1>1, <1>2 DEF FreeListsExact, AvailOK

-----------------------------------------------------------------------------
(* Operations on sequences and functions that the actions use.             *)

LEMMA TailFacts ==
  ASSUME NEW T, NEW s \in Seq(T), s # <<>>, IsInjective(s)
  PROVE  /\ Head(s) \in ToSet(s) /\ Head(s) \in T
         /\ Tail(s) \in Seq(T) /\ Len(Tail(s)) = Len(s) - 1
         /\ ToSet(Tail(s)) = ToSet(s) \ {Head(s)}
         /\ IsInjective(Tail(s))
<1>1. Len(s) \in Nat \ {0} /\ DOMAIN s = 1 .. Len(s) /\ Head(s) = s[1]
  BY LenProperties, EmptySeq, HeadTailProperties
<1>2. /\ Tail(s) \in Seq(T) /\ Len(Tail(s)) = Len(s) - 1
      /\ \A i \in 1 .. Len(Tail(s)) : Tail(s)[i] = s[i + 1]
  BY HeadTailProperties
<1>3. DOMAIN Tail(s) = 1 .. Len(s) - 1 /\ \A i \in 1 .. Len(s) - 1 : Tail(s)[i] = s[i + 1]
  BY <1>2, LenProperties
<1>4. IsInjective(Tail(s))
  <2>1. ASSUME NEW i \in 1 .. Len(s) - 1, NEW j \in 1 .. Len(s) - 1, Tail(s)[i] = Tail(s)[j]
        PROVE  i = j
    <3>1. i + 1 \in DOMAIN s /\ j + 1 \in DOMAIN s /\ s[i + 1] = s[j + 1]
      BY <1>1, <1>3, <2>1
    <3>2. i + 1 = j + 1
      BY <3>1 DEF IsInjective
    <3>3. QED
      BY <3>2
  <2>2. QED
    BY <1>3, <2>1 DEF IsInjective
<1>5. ToSet(Tail(s)) = ToSet(s) \ {Head(s)}
  <2>1. ASSUME NEW x \in ToSet(Tail(s)) PROVE x \in ToSet(s) \ {Head(s)}
    <3>1. PICK i \in 1 .. Len(s) - 1 : Tail(s)[i] = x
      BY <1>3, <2>1 DEF ToSet
    <3>2. i + 1 \in DOMAIN s /\ 1 \in DOMAIN s /\ i + 1 # 1 /\ s[i + 1] = x
      BY <1>1, <1>3, <3>1
    <3>3. QED
      BY <1>1, <3>2 DEF ToSet, IsInjective
  <2>2. ASSUME NEW x \in ToSet(s), x # Head(s) PROVE x \in ToSet(Tail(s))
    <3>1. PICK i \in DOMAIN s : s[i] = x
      BY DEF ToSet
    <3>2. i - 1 \in 1 .. Len(s) - 1 /\ (i - 1) + 1 = i
      BY <1>1, <2>2, <3>1
    <3>3. Tail(s)[i - 1] = x
      BY <1>3, <3>1, <3>2
    <3>4. QED
      BY <1>3, <3>2, <3>3 DEF ToSet
  <2>3. QED
    BY <2>1, <2>2
<1>6. Head(s) \in ToSet(s) /\ Head(s) \in T
  <2>1. 1 \in DOMAIN s /\ s[1] \in T
    BY <1>1, ElementOfSeq
  <2>2. QED
    BY <1>1, <2>1 DEF ToSet
<1>7. QED
  BY <1>2, <1>4, <1>5, <1>6

LEMMA ReverseFacts ==
  ASSUME NEW T, NEW s \in Seq(T)
  PROVE  /\ Reverse(s) \in Seq(T) /\ ToSet(Reverse(s)) = ToSet(s)
         /\ IsInjective(s) => IsInjective(Reverse(s))
<1> DEFINE n == Len(s)
           r == Reverse(s)
<1>1. n \in Nat /\ DOMAIN s = 1 .. n /\ \A i \in 1 .. n : s[i] \in T
  BY LenProperties, ElementOfSeq
<1>2. r = [i \in 1 .. n |-> s[(n - i) + 1]]
  BY DEF Reverse
<1> HIDE DEF n, r
<1>3. \A i \in 1 .. n : (n - i) + 1 \in 1 .. n /\ (n - ((n - i) + 1)) + 1 = i
  BY <1>1
<1>4. \A i \in 1 .. n : r[i] = s[(n - i) + 1]
  BY <1>2
<1>5. DOMAIN r = 1 .. n /\ r \in [1 .. n -> T]
  BY <1>1, <1>2, <1>3
<1>6. r \in Seq(T)
  BY <1>1, <1>5, FunctionIsSeq
<1>7. ToSet(r) = ToSet(s)
  <2>1. ASSUME NEW x \in ToSet(r) PROVE x \in ToSet(s)
    BY <1>1, <1>3, <1>4, <1>5, <2>1 DEF ToSet
  <2>2. ASSUME NEW x \in ToSet(s) PROVE x \in ToSet(r)
    <3>1. PICK i \in 1 .. n : s[i] = x
      BY <1>1 DEF ToSet
    <3>2. (n - i) + 1 \in 1 .. n /\ r[(n - i) + 1] = x
      BY <1>3, <1>4, <3>1
    <3>3. QED
      BY <1>5, <3>2 DEF ToSet
  <2>3. QED
    BY <2>1, <2>2
<1>8. ASSUME IsInjective(s) PROVE IsInjective(r)
  <2>1. ASSUME NEW i \in 1 .. n, NEW j \in 1 .. n, r[i] = r[j] PROVE i = j
    <3>1. (n - i) + 1 = (n - j) + 1
      BY <1>1, <1>3, <1>4, <1>8, <2>1 DEF IsInjective
    <3>2. QED
      BY <1>1, <3>1
  <2>2. QED
    BY <1>5, <2>1 DEF IsInjective
<1>9. QED
  BY <1>6, <1>7, <1>8 DEF r

LEMMA AppendFacts ==
  ASSUME NEW T, NEW s \in Seq(T), NEW x \in T, x \notin ToSet(s), IsInjective(s)
  PROVE  /\ Append(s, x) \in Seq(T) /\ ToSet(Append(s, x)) = ToSet(s) \cup {x}
         /\ IsInjective(Append(s, x))
<1> DEFINE a == Append(s, x)
           n == Len(s)
<1>1. n \in Nat /\ DOMAIN s = 1 .. n
  BY LenProperties
<1>2. /\ a \in Seq(T) /\ Len(a) = n + 1 /\ a[n + 1] = x
      /\ \A i \in 1 .. n : a[i] = s[i]
  BY AppendProperties
<1>3. DOMAIN a = 1 .. n + 1
  BY <1>2, LenProperties
<1> HIDE DEF a, n
<1>4. \A i \in 1 .. n + 1 : i = n + 1 \/ i \in 1 .. n
  BY <1>1
<1>5. 1 .. n \subseteq 1 .. n + 1 /\ n + 1 \in 1 .. n + 1
  BY <1>1
<1>6. \A i \in 1 .. n : s[i] \in ToSet(s) /\ s[i] # x
  BY <1>1 DEF ToSet
<1>7. ToSet(a) = ToSet(s) \cup {x}
  BY <1>1, <1>2, <1>3, <1>4, <1>5 DEF ToSet
<1>8. IsInjective(a)
  BY <1>1, <1>2, <1>3, <1>4, <1>6 DEF IsInjective
<1>9. QED
  BY <1>2, <1>7, <1>8 DEF a

(* new_large's shift and store.                                            *)
IsInserted(t, T, s, m, x) ==
    /\ t \in Seq(T) /\ Len(t) = Len(s) + 1 /\ DOMAIN t = 1 .. Len(s) + 1
    /\ \A k \in 1 .. Len(s) + 1 :
          t[k] = IF k < m THEN s[k] ELSE IF k = m THEN x ELSE s[k - 1]

LEMMA InsertFacts ==
  ASSUME NEW T, NEW s \in Seq(T), NEW m \in 1 .. Len(s) + 1, NEW x \in T,
         NEW t, t = InsertAt(s, m, x)
  PROVE  IsInserted(t, T, s, m, x)
<1>0. PICK n \in 0 .. Len(s) : m = n + 1
  <2>1. Len(s) \in Nat
    BY LenProperties
  <2>2. m - 1 \in 0 .. Len(s) /\ m = (m - 1) + 1
    BY <2>1
  <2>3. QED
    BY <2>2
<1> DEFINE a == SubSeq(s, 1, (n + 1) - 1)
           b == SubSeq(s, n + 1, Len(s))
<1>1. Len(s) \in Nat /\ n \in Nat /\ n <= Len(s) /\ (n + 1) - 1 = n /\ DOMAIN s = 1 .. Len(s)
  BY LenProperties
<1>2. t = a \o <<x>> \o b
  BY <1>0 DEF InsertAt
<1>3. a \in Seq(T) /\ Len(a) = n /\ \A k \in 1 .. n : a[k] = s[k]
  <2>1. a = SubSeq(s, 1, n) /\ \A k \in 1 .. n : s[k] \in T
    BY <1>1, ElementOfSeq
  <2>2. /\ a \in Seq(T) /\ Len(a) = IF 1 <= n THEN n - 1 + 1 ELSE 0
        /\ \A k \in 1 .. n - 1 + 1 : a[k] = s[1 + k - 1]
    BY <1>1, <2>1, SubSeqProperties
  <2> HIDE DEF a
  <2>3. QED
    BY <1>1, <2>2
<1>4. b \in Seq(T) /\ Len(b) = Len(s) - n /\ \A k \in 1 .. Len(s) - n : b[k] = s[n + k]
  <2>1. \A k \in n + 1 .. Len(s) : s[k] \in T
    BY <1>1, ElementOfSeq
  <2>2. /\ b \in Seq(T) /\ Len(b) = IF n + 1 <= Len(s) THEN Len(s) - (n + 1) + 1 ELSE 0
        /\ \A k \in 1 .. Len(s) - (n + 1) + 1 : b[k] = s[(n + 1) + k - 1]
    <3>1. PICK f, g : f = n + 1 /\ g = Len(s)
      OBVIOUS
    <3>2. b = SubSeq(s, f, g) /\ f \in 1 .. Len(s) + 1 /\ g \in 0 .. Len(s) /\ \A k \in f .. g : s[k] \in T
      BY <1>1, <2>1, <3>1
    <3> HIDE DEF b
    <3>3. /\ b \in Seq(T) /\ Len(b) = IF f <= g THEN g - f + 1 ELSE 0
          /\ \A k \in 1 .. g - f + 1 : b[k] = s[f + k - 1]
      BY <1>1, <3>2, SubSeqProperties
    <3>4. QED
      BY <3>1, <3>3
  <2> HIDE DEF b
  <2>3. \A k \in 1 .. Len(s) - n : k \in 1 .. Len(s) - (n + 1) + 1 /\ (n + 1) + k - 1 = n + k
    BY <1>1
  <2>4. ASSUME NEW k \in 1 .. Len(s) - n PROVE b[k] = s[n + k]
    <3>1. k \in 1 .. Len(s) - (n + 1) + 1 /\ (n + 1) + k - 1 = n + k
      BY <2>3
    <3>2. b[k] = s[(n + 1) + k - 1]
      BY <2>2, <3>1
    <3>3. QED
      BY <3>1, <3>2
  <2>5. Len(b) = Len(s) - n
    <3>1. CASE n + 1 <= Len(s)
      BY <1>1, <2>2, <3>1
    <3>2. CASE ~(n + 1 <= Len(s))
      <4>0. n = Len(s)
        <5>1. \A p, q \in Nat : p <= q /\ ~(p + 1 <= q) => p = q
          OBVIOUS
        <5>2. QED
          BY <1>1, <3>2, <5>1, Zenon
      <4>1. Len(b) = 0
        BY <2>2, <3>2
      <4>2. QED
        BY <1>1, <4>0, <4>1
    <3>3. QED
      BY <3>1, <3>2
  <2>6. QED
    BY <2>2, <2>4, <2>5
<1> HIDE DEF a, b
<1> DEFINE c == a \o <<x>>
<1>5. <<x>> \in Seq(T) /\ Len(<<x>>) = 1 /\ <<x>>[1] = x
  OBVIOUS
<1>6. /\ c \in Seq(T) /\ Len(c) = n + 1
      /\ \A k \in 1 .. n + 1 : c[k] = IF k <= n THEN s[k] ELSE x
  <2>1. /\ c \in Seq(T) /\ Len(c) = Len(a) + Len(<<x>>)
        /\ \A k \in 1 .. Len(a) + Len(<<x>>) : c[k] = IF k <= Len(a) THEN a[k] ELSE <<x>>[k - Len(a)]
    BY <1>3, <1>5, ConcatProperties
  <2> HIDE DEF c
  <2>2. ASSUME NEW k \in 1 .. n + 1 PROVE c[k] = IF k <= n THEN s[k] ELSE x
    <3>1. c[k] = IF k <= n THEN a[k] ELSE <<x>>[k - n]
      BY <1>1, <1>3, <1>5, <2>1
    <3>2. CASE k <= n
      BY <1>1, <1>3, <3>1, <3>2
    <3>3. CASE ~(k <= n)
      <4>1. k - n = 1
        BY <1>1, <3>3
      <4>2. QED
        BY <1>5, <3>1, <3>3, <4>1
    <3>4. QED
      BY <3>2, <3>3
  <2>3. QED
    BY <1>1, <1>3, <1>5, <2>1, <2>2
<1>7. t = c \o b
  BY <1>2
<1> HIDE DEF c
<1>8. /\ t \in Seq(T) /\ Len(t) = (n + 1) + (Len(s) - n)
      /\ \A k \in 1 .. (n + 1) + (Len(s) - n) : t[k] = IF k <= n + 1 THEN c[k] ELSE b[k - (n + 1)]
  <2>1. /\ c \o b \in Seq(T) /\ Len(c \o b) = Len(c) + Len(b)
        /\ \A k \in 1 .. Len(c) + Len(b) : (c \o b)[k] = IF k <= Len(c) THEN c[k] ELSE b[k - Len(c)]
    BY <1>4, <1>6, ConcatProperties
  <2>2. QED
    BY <1>4, <1>6, <1>7, <2>1
<1>9. Len(t) = Len(s) + 1 /\ DOMAIN t = 1 .. Len(s) + 1
  BY <1>1, <1>8, LenProperties
<1>10. ASSUME NEW k \in 1 .. Len(s) + 1
       PROVE  t[k] = IF k <= n THEN s[k] ELSE IF k = n + 1 THEN x ELSE s[k - 1]
  <2>1. t[k] = IF k <= n + 1 THEN c[k] ELSE b[k - (n + 1)]
    BY <1>1, <1>8
  <2>2. CASE k <= n + 1
    BY <1>1, <1>6, <2>1, <2>2
  <2>3. CASE ~(k <= n + 1)
    <3>1. k - (n + 1) \in 1 .. Len(s) - n /\ n + (k - (n + 1)) = k - 1
      BY <1>1, <2>3
    <3>2. QED
      BY <1>1, <1>4, <2>1, <2>3, <3>1
  <2>4. QED
    BY <1>1, <2>2, <2>3
<1>11. ASSUME NEW k \in 1 .. Len(s) + 1
       PROVE  t[k] = IF k < m THEN s[k] ELSE IF k = m THEN x ELSE s[k - 1]
  <2>1. k < m <=> k <= n
    BY <1>0, <1>1
  <2>2. QED
    BY <1>0, <1>10, <2>1
<1>12. QED
  BY <1>8, <1>9, <1>11 DEF IsInserted

(* The free list that new_page or the sweep gives to a page of class c,    *)
(* when the slots in S are free.                                           *)
LEMMA FreeListFacts ==
  ASSUME NEW c \in Classes, NEW S \in SUBSET (0 .. NSlots(c) - 1)
  PROVE  /\ Ascending(S) \in Seq(0 .. PageBytes) /\ Len(Ascending(S)) = Cardinality(S)
         /\ ToSet(Ascending(S)) = S /\ IsInjective(Ascending(S))
         /\ Cardinality(S) \in 0 .. PageBytes
<1>1. NSlots(c) \in 1 .. PageBytes /\ PageBytes \in Nat
  BY SlotFacts, ClassFacts
<1>2. S \in SUBSET (0 .. PageBytes - 1) /\ S \subseteq 0 .. PageBytes
  BY <1>1
<1>3. /\ Cardinality(S) \in Nat /\ Ascending(S) \in Seq(S)
      /\ Len(Ascending(S)) = Cardinality(S) /\ DOMAIN Ascending(S) = 1 .. Cardinality(S)
      /\ ToSet(Ascending(S)) = S /\ IsInjective(Ascending(S))
  BY <1>1, <1>2, AscendingLists
<1>4. Ascending(S) \in Seq(0 .. PageBytes)
  <2>1. Ascending(S) \in [1 .. Cardinality(S) -> S]
    BY <1>3, LenProperties
  <2>2. Ascending(S) \in [1 .. Cardinality(S) -> 0 .. PageBytes]
    BY <1>2, <2>1
  <2>3. QED
    BY <1>3, <2>2, FunctionIsSeq
<1>5. Cardinality(S) <= PageBytes
  <2>1. IsFiniteSet(0 .. PageBytes - 1) /\ Cardinality(0 .. PageBytes - 1) = PageBytes
    <3>1. /\ IsFiniteSet(0 .. PageBytes - 1)
          /\ Cardinality(0 .. PageBytes - 1) = IF 0 > PageBytes - 1 THEN 0 ELSE (PageBytes - 1) - 0 + 1
      BY <1>1, FS_Interval
    <3>2. PageBytes > 0
      BY ClassFacts
    <3>3. QED
      BY <1>1, <3>1, <3>2
  <2>2. PICK I : I = 0 .. PageBytes - 1
    OBVIOUS
  <2>3. IsFiniteSet(I) /\ S \in SUBSET I /\ Cardinality(I) = PageBytes
    BY <1>2, <2>1, <2>2
  <2>4. Cardinality(S) <= Cardinality(I)
    BY <2>3, FS_Subset
  <2>5. QED
    BY <2>3, <2>4
<1>6. QED
  BY <1>1, <1>3, <1>4, <1>5

(* The block that malloc returns is in memory and meets no other block.    *)
LEMMA FreeFacts ==
  ASSUME PagesOK, LargesOK, NEW mem \in Addr, NEW size \in Nat \ {0}, Free(mem, size)
  PROVE  /\ mem \in Nat /\ mem + size <= MemTop
         /\ \A p \in DOMAIN page : p + PageBytes <= mem \/ mem + size <= p
         /\ \A k \in DOMAIN larges :
               larges[k].mem + larges[k].size <= mem \/ mem + size <= larges[k].mem
<1>1. mem \in Nat /\ MemTop \in Nat /\ PageBytes \in Nat \ {0} /\ Addr = 0 .. MemTop - 1
  BY ClassFacts DEF Addr
<1>2. Block(mem, size) = mem .. mem + size - 1
  BY DEF Block
<1>3. mem \in Block(mem, size) /\ mem + size - 1 \in Block(mem, size)
  BY <1>1, <1>2
<1>4. Block(mem, size) \subseteq Addr /\ Block(mem, size) \cap Reserved = {}
  BY DEF Free
<1>5. mem + size <= MemTop
  <2>1. mem + size - 1 \in 0 .. MemTop - 1
    BY <1>1, <1>3, <1>4
  <2>2. QED
    BY <1>1, <2>1
<1>6. ASSUME NEW b \in Nat, NEW n \in Nat \ {0}, Block(b, n) \subseteq Reserved
      PROVE  b + n <= mem \/ mem + size <= b
  <2>1. Block(b, n) = b .. b + n - 1
    BY DEF Block
  <2>2. mem \notin b .. b + n - 1 /\ b \notin mem .. mem + size - 1
    <3>1. b \in Block(b, n)
      BY <1>6, <2>1
    <3>2. QED
      BY <1>2, <1>3, <1>4, <1>6, <2>1, <3>1
  <2>3. QED
    BY <1>1, <1>6, <2>2
<1>7. ASSUME NEW p \in DOMAIN page PROVE p + PageBytes <= mem \/ mem + size <= p
  <2>1. Block(p, PageBytes) \subseteq Reserved
    <3> DEFINE Blocks == {Block(q, PageBytes) : q \in DOMAIN page}
    <3>1. Block(p, PageBytes) \in Blocks /\ UNION Blocks \subseteq Reserved
      BY DEF Reserved
    <3> HIDE DEF Blocks
    <3>2. QED
      BY <3>1
  <2>2. p \in Nat
    BY PageFacts
  <2>3. QED
    BY <1>1, <1>6, <2>1, <2>2
<1>8. ASSUME NEW k \in DOMAIN larges
      PROVE  larges[k].mem + larges[k].size <= mem \/ mem + size <= larges[k].mem
  <2>1. Block(larges[k].mem, larges[k].size) \subseteq Reserved
    <3> DEFINE Blocks == {Block(l.mem, l.size) : l \in ToSet(larges)}
    <3>0. larges[k] \in ToSet(larges)
      BY DEF ToSet
    <3>1. Block(larges[k].mem, larges[k].size) \in Blocks /\ UNION Blocks \subseteq Reserved
      BY <3>0 DEF Reserved
    <3> HIDE DEF Blocks
    <3>2. QED
      BY <3>1
  <2>2. larges[k].mem \in Nat /\ larges[k].size \in Nat \ {0}
    BY LargesFacts
  <2>3. QED
    BY <1>6, <2>1, <2>2
<1>9. QED
  BY <1>1, <1>5, <1>7, <1>8

-----------------------------------------------------------------------------
(* Every step keeps the invariant.                                         *)

HeapOK ==
    /\ PagesOK /\ LargesOK /\ Apart /\ FreeOK /\ AvailOK
    /\ ObjectsOK /\ HeadersOK /\ BoundsOK

LEMMA HeapStays ==
  ASSUME IInv, UNCHANGED <<registry, bounds, ti, obj>>
  PROVE  HeapOK'
<1>1. /\ pages' = pages /\ page' = page /\ page_avail' = page_avail /\ larges' = larges
      /\ heap_lo' = heap_lo /\ heap_hi' = heap_hi /\ ti' = ti /\ obj' = obj
  BY DEF registry, bounds
<1>2. \A p \in DOMAIN page : Used(p)' = Used(p)
  BY <1>1 DEF Used
<1>3. \A p, i : SlotAddr(p, i)' = SlotAddr(p, i)
  BY <1>1 DEF SlotAddr
<1>4. PagesOK' /\ LargesOK' /\ Apart' /\ FreeOK' /\ AvailOK' /\ BoundsOK'
  BY <1>1 DEF IInv, PagesOK, LargesOK, Apart, FreeOK, AvailOK, BoundsOK
<1>5. ObjectsOK'
  BY <1>1, <1>2, <1>3 DEF IInv, ObjectsOK
<1>6. HeadersOK'
  BY <1>1, <1>2, <1>3 DEF IInv, HeadersOK
<1>7. QED
  BY <1>4, <1>5, <1>6 DEF HeapOK

LEMMA AllocSmallKeeps ==
  ASSUME IInv, AllocSmall
  PROVE  IInv'
<1>a. PICK cls : cls = ClassFor(want)
  OBVIOUS
<1>b. PICK p : p = Head(page_avail[cls])
  OBVIOUS
<1>c. PICK i : i = Head(page[p].free)
  OBVIOUS
<1>d. PICK o : o = SlotAddr(p, i)
  OBVIOUS
<1>e. PICK left : left = [page[p] EXCEPT !.free = Tail(page[p].free), !.nfree = page[p].nfree - 1]
  OBVIOUS
<1>0. PagesOK /\ LargesOK /\ Apart /\ FreeOK /\ AvailOK /\ ObjectsOK /\ HeadersOK /\ BoundsOK /\ WantOK
  BY DEF IInv
<1>1. /\ pc = "place" /\ want <= MaxSmall /\ page_avail[cls] # <<>>
      /\ ti' = ti \cup {o} /\ obj' = With(obj, o, want) /\ pc' = "run" /\ want' = 0
      /\ page' = With(page, p, left)
      /\ page_avail' = [page_avail EXCEPT ![cls] = IF page[p].nfree - 1 = 0 THEN Tail(page_avail[cls])
                                                   ELSE page_avail[cls]]
      /\ allocated_since' = allocated_since + class_sizes[cls]
      /\ larges' = larges /\ stress' = stress /\ pages' = pages
      /\ heap_lo' = heap_lo /\ heap_hi' = heap_hi
  BY <1>a, <1>b, <1>c, <1>d, <1>e DEF AllocSmall, Place, AllocFromPage, bounds
<1>2. want \in Nat /\ want \in Sizes /\ cls \in Classes /\ want <= class_sizes[cls]
      /\ class_sizes[cls] \in Nat
  <2>1. want \in Sizes /\ want \in Nat
    BY <1>0, <1>1, PageHeapAssumption DEF WantOK
  <2>2. cls \in Classes /\ want <= class_sizes[cls]
    BY <1>a, <1>1, <2>1, ClassFits
  <2>3. QED
    BY <2>1, <2>2, ClassFacts
<1>3. page_avail[cls] \in Seq(Addr) /\ IsInjective(page_avail[cls])
  BY <1>0, <1>2 DEF AvailOK
<1>4. p \in ToSet(page_avail[cls])
  BY <1>b, <1>1, <1>3, TailFacts
<1>5. p \in DOMAIN page /\ page[p].cls = cls /\ page[p].nfree > 0
  BY <1>0, <1>2, <1>4 DEF AvailOK
<1>6. /\ page[p].free \in Seq(0 .. PageBytes) /\ page[p].nfree = Len(page[p].free)
      /\ IsInjective(page[p].free) /\ page[p].free # <<>> /\ page[p].nfree \in Nat
      /\ ToSet(page[p].free) \subseteq 0 .. NSlots(cls) - 1
  BY <1>0, <1>5, PageFacts, EmptySeq DEF FreeOK
<1>7. /\ i \in ToSet(page[p].free) /\ i \in 0 .. NSlots(cls) - 1
      /\ Tail(page[p].free) \in Seq(0 .. PageBytes)
      /\ Len(Tail(page[p].free)) = page[p].nfree - 1
      /\ ToSet(Tail(page[p].free)) = ToSet(page[p].free) \ {i}
      /\ IsInjective(Tail(page[p].free))
  BY <1>c, <1>6, TailFacts
<1>8. page[p] \in PageRecord
  BY <1>0, <1>5 DEF PagesOK
<1>9. /\ left \in PageRecord /\ left.cls = cls /\ left.free = Tail(page[p].free)
      /\ left.nfree = page[p].nfree - 1
  <2>1. page[p].nfree - 1 \in 0 .. PageBytes
    BY <1>5, <1>6, <1>8, ClassFacts DEF PageRecord
  <2>2. QED
    BY <1>e, <1>5, <1>7, <1>8, <2>1 DEF PageRecord
<1>10. /\ DOMAIN page' = DOMAIN page /\ page'[p] = left
       /\ \A q \in DOMAIN page : q # p => page'[q] = page[q]
  <2>1. /\ DOMAIN page' = DOMAIN page \cup {p} /\ page'[p] = left
        /\ \A q \in DOMAIN page : q # p => page'[q] = page[q]
    <3>1. page' = [y \in DOMAIN page \cup {p} |-> IF y = p THEN left ELSE page[y]]
      BY <1>1 DEF With
    <3>2. QED
      BY <3>1
  <2>2. QED
    BY <1>5, <2>1
<1>11. \A q \in DOMAIN page : page'[q].cls = page[q].cls
  BY <1>5, <1>9, <1>10
<1>12. \A q \in DOMAIN page : \A j : SlotAddr(q, j)' = SlotAddr(q, j)
  BY <1>11 DEF SlotAddr
<1>13. ToSet(page'[p].free) = ToSet(page[p].free) \ {i}
  BY <1>7, <1>9, <1>10
<1>14. \A q \in DOMAIN page : Used(q)' = IF q = p THEN Used(p) \cup {i} ELSE Used(q)
  <2>1. Used(p)' = Used(p) \cup {i}
    <3>1. page'[p].cls = cls /\ page[p].cls = cls
      BY <1>5, <1>11
    <3>2. Used(p)' = {j \in 0 .. NSlots(cls) - 1 : j \notin ToSet(page'[p].free)}
      BY <3>1 DEF Used
    <3>3. Used(p) = {j \in 0 .. NSlots(cls) - 1 : j \notin ToSet(page[p].free)}
      BY <3>1 DEF Used
    <3>4. QED
      BY <1>7, <1>13, <3>2, <3>3
  <2>2. \A q \in DOMAIN page : q # p => Used(q)' = Used(q)
    BY <1>10 DEF Used
  <2>3. QED
    BY <2>1, <2>2
<1>15. PagesOK'
  BY <1>0, <1>1, <1>9, <1>10 DEF PagesOK
<1>16. LargesOK' /\ Apart' /\ BoundsOK'
  BY <1>0, <1>1, <1>10 DEF LargesOK, Apart, BoundsOK
<1>17. FreeOK'
  BY <1>0, <1>6, <1>7, <1>9, <1>10, <1>11 DEF FreeOK
<1>18. AvailOK'
  <2>1. page_avail' \in [Classes -> Seq(Addr)] /\ \A c \in Classes : c # cls => page_avail'[c] = page_avail[c]
    BY <1>0, <1>1, <1>2, <1>3, TailFacts DEF AvailOK
  <2>2. page_avail'[cls] = IF page[p].nfree - 1 = 0 THEN Tail(page_avail[cls]) ELSE page_avail[cls]
    BY <1>0, <1>1, <1>2 DEF AvailOK
  <2>3. ASSUME NEW c \in Classes, c # cls
        PROVE  /\ ToSet(page_avail'[c]) = {q \in DOMAIN page' : page'[q].cls = c /\ page'[q].nfree > 0}
               /\ IsInjective(page_avail'[c])
    BY <1>0, <1>5, <1>9, <1>10, <2>1, <2>3 DEF AvailOK
  <2>4. ToSet(page_avail[cls]) = {q \in DOMAIN page : page[q].cls = cls /\ page[q].nfree > 0}
    BY <1>0, <1>2 DEF AvailOK
  <2>5. CASE page[p].nfree - 1 = 0
    <3>1. page_avail'[cls] = Tail(page_avail[cls])
      BY <2>2, <2>5
    <3>2. ToSet(Tail(page_avail[cls])) = ToSet(page_avail[cls]) \ {p} /\ IsInjective(Tail(page_avail[cls]))
      BY <1>b, <1>1, <1>3, TailFacts
    <3>3. ~(page'[p].nfree > 0)
      BY <1>9, <1>10, <2>5
    <3>4. {q \in DOMAIN page' : page'[q].cls = cls /\ page'[q].nfree > 0}
             = {q \in DOMAIN page : page[q].cls = cls /\ page[q].nfree > 0} \ {p}
      <4>1. \A q \in DOMAIN page : q # p => page'[q] = page[q]
        BY <1>10
      <4>2. QED
        BY <1>10, <3>3, <4>1, Zenon
    <3>5. QED
      BY <2>1, <2>3, <2>4, <3>1, <3>2, <3>4 DEF AvailOK
  <2>6. CASE page[p].nfree - 1 # 0
    <3>1. page_avail'[cls] = page_avail[cls]
      BY <2>2, <2>6
    <3>2. page'[p].nfree > 0 /\ page'[p].cls = cls
      <4>1. page[p].nfree \in Nat /\ page[p].nfree > 0 /\ page[p].nfree - 1 # 0
        BY <1>5, <1>6, <2>6
      <4>2. page[p].nfree - 1 > 0
        BY <4>1
      <4>3. QED
        BY <1>9, <1>10, <4>2
    <3>3. {q \in DOMAIN page' : page'[q].cls = cls /\ page'[q].nfree > 0}
             = {q \in DOMAIN page : page[q].cls = cls /\ page[q].nfree > 0}
      <4>1. \A q \in DOMAIN page : page'[q].cls = cls /\ page'[q].nfree > 0
                                      <=> page[q].cls = cls /\ page[q].nfree > 0
        <5>1. ASSUME NEW q \in DOMAIN page
              PROVE  page'[q].cls = cls /\ page'[q].nfree > 0
                        <=> page[q].cls = cls /\ page[q].nfree > 0
          <6>1. CASE q = p
            BY <1>5, <3>2, <6>1
          <6>2. CASE q # p
            BY <1>10, <6>2
          <6>3. QED
            BY <6>1, <6>2
        <5>2. QED
          BY <5>1
      <4>2. DOMAIN page' = DOMAIN page
        BY <1>10
      <4>3. QED
        BY <4>1, <4>2, Zenon
    <3>4. QED
      BY <1>3, <2>1, <2>3, <2>4, <3>1, <3>3 DEF AvailOK
  <2>7. QED
    BY <2>5, <2>6
<1>19. /\ DOMAIN obj' = DOMAIN obj \cup {o} /\ obj'[o] = want
       /\ \A a \in DOMAIN obj : a # o => obj'[a] = obj[a]
  <2>1. obj' = [y \in DOMAIN obj \cup {o} |-> IF y = o THEN want ELSE obj[y]]
    BY <1>1 DEF With
  <2>2. QED
    BY <2>1
<1>20. \A q \in DOMAIN page : \A j \in 0 .. NSlots(page[q].cls) - 1 :
           SlotAddr(q, j) = o <=> q = p /\ j = i
  <2>1. i \in 0 .. NSlots(page[p].cls) - 1
    BY <1>5, <1>7
  <2>2. ASSUME NEW q \in DOMAIN page, NEW j \in 0 .. NSlots(page[q].cls) - 1,
               SlotAddr(q, j) = SlotAddr(p, i)
        PROVE  q = p /\ j = i
    BY <1>0, <1>5, <2>1, <2>2, SlotsDiffer
  <2>3. QED
    BY <1>d, <2>2
<1>21. \A k \in DOMAIN larges : larges[k].mem # o
  <2>1. ASSUME NEW k \in DOMAIN larges PROVE larges[k].mem # o
    <3>1. /\ o \in Nat /\ p <= o /\ o < p + PageBytes /\ p \in Nat /\ PageBytes \in Nat
      <4>1. p \in Nat /\ PageBytes \in Nat
        BY <1>0, <1>5, PageFacts, ClassFacts
      <4>2. QED
        BY <1>d, <1>0, <1>5, <1>7, <4>1, SlotPlace
    <3>2. larges[k].mem \in Nat /\ larges[k].size \in Nat /\ larges[k].size > 0
      BY <1>0, LargesFacts
    <3>3. p + PageBytes <= larges[k].mem \/ larges[k].mem + larges[k].size <= p
      BY <1>0, <1>5 DEF Apart
    <3>4. QED
      BY <3>1, <3>2, <3>3
  <2>2. QED
    BY <2>1
<1>22. ObjectsOK'
  <2>1. ASSUME NEW a \in DOMAIN obj'
        PROVE  \/ \E q \in DOMAIN page' : \E j \in Used(q)' : a = SlotAddr(q, j)'
               \/ \E k \in DOMAIN larges' : a = larges'[k].mem
    <3>1. CASE a = o
      <4>1. p \in DOMAIN page' /\ i \in Used(p)' /\ a = SlotAddr(p, i)'
        BY <1>d, <1>5, <1>10, <1>12, <1>14, <3>1
      <4>2. QED
        BY <4>1
    <3>2. CASE a # o
      BY <1>0, <1>1, <1>10, <1>12, <1>14, <1>19, <3>2 DEF ObjectsOK
    <3>3. QED
      BY <3>1, <3>2
  <2>2. ASSUME NEW q \in DOMAIN page', NEW j \in Used(q)'
        PROVE  SlotAddr(q, j)' \in DOMAIN obj' /\ obj'[SlotAddr(q, j)'] <= class_sizes[page'[q].cls]
    <3>1. q \in DOMAIN page /\ SlotAddr(q, j)' = SlotAddr(q, j) /\ page'[q].cls = page[q].cls
      BY <1>10, <1>11, <1>12
    <3>2. CASE q = p /\ j = i
      BY <1>d, <1>2, <1>5, <1>19, <3>1, <3>2
    <3>3. CASE ~(q = p /\ j = i)
      <4>1. j \in Used(q)
        BY <1>14, <3>1, <3>3
      <4>2. SlotAddr(q, j) # o
        BY <1>20, <3>1, <3>3, <4>1 DEF Used
      <4>3. QED
        BY <1>0, <1>19, <3>1, <4>1, <4>2 DEF ObjectsOK
    <3>4. QED
      BY <3>2, <3>3
  <2>3. ASSUME NEW k \in DOMAIN larges'
        PROVE  larges'[k].mem \in DOMAIN obj' /\ obj'[larges'[k].mem] = larges'[k].size
    BY <1>0, <1>1, <1>19, <1>21 DEF ObjectsOK
  <2>4. \A a \in DOMAIN obj' : obj'[a] \in Sizes
    BY <1>0, <1>2, <1>19 DEF ObjectsOK
  <2>5. QED
    BY <2>1, <2>2, <2>3, <2>4 DEF ObjectsOK
<1>23. HeadersOK'
  <2>1. o \in Addr
    <3>1. p \in Nat /\ PageBytes \in Nat /\ MemTop \in Nat /\ p + PageBytes <= MemTop
      BY <1>0, <1>5, PageFacts, ClassFacts
    <3>2. o \in Nat /\ o < p + PageBytes
      <4>1. i \in 0 .. NSlots(page[p].cls) - 1
        BY <1>5, <1>7
      <4>2. /\ SlotAddr(p, i) \in Nat
            /\ class_sizes[page[p].cls] \in Nat /\ class_sizes[page[p].cls] > 0
            /\ SlotAddr(p, i) + class_sizes[page[p].cls] <= p + PageBytes
        BY <1>0, <1>5, <4>1, SlotPlace
      <4>3. QED
        BY <1>d, <3>1, <4>2
    <3>3. QED
      BY <3>1, <3>2 DEF Addr
  <2>2. ASSUME NEW q \in DOMAIN page', NEW j \in 0 .. NSlots(page'[q].cls) - 1
        PROVE  SlotAddr(q, j)' \in ti' <=> j \in Used(q)'
    <3>1. /\ q \in DOMAIN page /\ SlotAddr(q, j)' = SlotAddr(q, j)
          /\ j \in 0 .. NSlots(page[q].cls) - 1
      BY <1>10, <1>11, <1>12
    <3>2. SlotAddr(q, j) \in ti <=> j \in Used(q)
      BY <1>0, <3>1 DEF HeadersOK
    <3>3. SlotAddr(q, j) = o <=> q = p /\ j = i
      BY <1>20, <3>1
    <3>4. SlotAddr(q, j)' \in ti' <=> SlotAddr(q, j) \in ti \/ (q = p /\ j = i)
      BY <1>1, <3>1, <3>3
    <3>5. j \in Used(q)' <=> j \in Used(q) \/ (q = p /\ j = i)
      BY <1>14, <3>1
    <3>6. QED
      BY <3>2, <3>4, <3>5
  <2>3. QED
    BY <1>0, <1>1, <2>1, <2>2 DEF HeadersOK
<1>24. WantOK'
  BY <1>0, <1>1, <1>2 DEF WantOK
<1>25. QED
  BY <1>15, <1>16, <1>17, <1>18, <1>22, <1>23, <1>24 DEF IInv

LEMMA AllocNewPageKeeps ==
  ASSUME IInv, NEW mem \in Addr, AllocNewPage(mem)
  PROVE  IInv'
<1>a. PICK cls : cls = ClassFor(want)
  OBVIOUS
<1>b. PICK N : N = NSlots(cls)
  OBVIOUS
<1>c. PICK fresh : fresh = Ascending(0 .. N - 1)
  OBVIOUS
<1>d. PICK new : new = FreshPage(cls)
  OBVIOUS
<1>e. PICK left : left = [new EXCEPT !.free = Tail(new.free), !.nfree = new.nfree - 1]
  OBVIOUS
<1>f. PICK Cleared : Cleared = {mem + i * class_sizes[cls] : i \in 0 .. N - 1}
  OBVIOUS
<1>0. PagesOK /\ LargesOK /\ Apart /\ FreeOK /\ AvailOK /\ ObjectsOK /\ HeadersOK /\ BoundsOK /\ WantOK
  BY DEF IInv
<1>1. /\ pc = "place" /\ want <= MaxSmall /\ page_avail[cls] = <<>>
      /\ mem % PageBytes = 0 /\ Free(mem, PageBytes)
      /\ pages' = Append(pages, mem)
      /\ heap_lo' = (IF mem < heap_lo THEN mem ELSE heap_lo)
      /\ heap_hi' = (IF mem + PageBytes > heap_hi THEN mem + PageBytes ELSE heap_hi)
      /\ ti' = (ti \ Cleared) \cup {mem} /\ pc' = "run" /\ want' = 0
      /\ obj' = [y \in DOMAIN obj \cup {mem} |-> IF y = mem THEN want ELSE obj[y]]
      /\ page' = [y \in DOMAIN page \cup {mem} |-> IF y = mem THEN left ELSE page[y]]
      /\ page_avail' = [page_avail EXCEPT ![cls] = IF N - 1 = 0 THEN Tail(<<mem>>) ELSE <<mem>>]
      /\ allocated_since' = allocated_since + class_sizes[cls]
      /\ larges' = larges /\ stress' = stress
  <2>1. new = [cls |-> cls, free |-> fresh, nfree |-> N]
    BY <1>b, <1>c, <1>d DEF FreshPage
  <2>2. new.nfree = N
    BY <2>1
  <2>3. ClearedSlots(mem, cls) = ti \ Cleared
    BY <1>b, <1>f DEF ClearedSlots
  <2>5. /\ pc = "place" /\ want <= MaxSmall /\ page_avail[cls] = <<>>
        /\ mem % PageBytes = 0 /\ Free(mem, PageBytes)
        /\ pages' = Append(pages, mem)
        /\ NoteRange(mem, mem + PageBytes)
        /\ Place(mem, ti \ Cleared)
        /\ AllocFromPage(cls, mem, new, <<mem>>)
    BY <1>a, <1>d, <2>3 DEF AllocNewPage
  <2>6. /\ page' = With(page, mem, left)
        /\ page_avail' = [page_avail EXCEPT ![cls] = IF N - 1 = 0 THEN Tail(<<mem>>) ELSE <<mem>>]
        /\ allocated_since' = allocated_since + class_sizes[cls]
        /\ larges' = larges /\ stress' = stress
    BY <1>e, <2>2, <2>5 DEF AllocFromPage
  <2>7. QED
    BY <2>5, <2>6 DEF Place, NoteRange, With
<1>2. want \in Nat /\ want \in Sizes /\ cls \in Classes /\ want <= class_sizes[cls]
      /\ class_sizes[cls] \in Nat /\ class_sizes[cls] > 0 /\ PageBytes \in Nat \ {0} /\ MemTop \in Nat
  <2>1. want \in Sizes /\ want \in Nat
    BY <1>0, <1>1, PageHeapAssumption DEF WantOK
  <2>2. cls \in Classes /\ want <= class_sizes[cls]
    BY <1>a, <1>1, <2>1, ClassFits
  <2>3. PageBytes \in Nat \ {0} /\ MemTop \in Nat /\ class_sizes[cls] \in 1 .. PageBytes
    BY <2>2, ClassFacts
  <2>4. QED
    BY <2>1, <2>2, <2>3
<1>3. /\ N \in 1 .. PageBytes
      /\ \A i \in 0 .. N - 1 : Off(cls, i) \in Nat /\ Off(cls, i) + class_sizes[cls] <= PageBytes
      /\ \A i \in 0 .. N - 1 : Off(cls, i) = 0 <=> i = 0
  <2>1. /\ N \in 1 .. PageBytes /\ Off(cls, 0) = 0
        /\ \A i \in 0 .. N - 1 : Off(cls, i) \in Nat /\ Off(cls, i) + class_sizes[cls] <= PageBytes
        /\ \A i, j \in 0 .. N - 1 : i < j => Off(cls, i) + class_sizes[cls] <= Off(cls, j)
    BY <1>b, <1>2, SlotFacts
  <2>2. ASSUME NEW i \in 0 .. N - 1, i # 0 PROVE Off(cls, i) # 0
    <3>1. 0 \in 0 .. N - 1 /\ 0 < i
      BY <2>1, <2>2
    <3>2. Off(cls, 0) + class_sizes[cls] <= Off(cls, i)
      BY <2>1, <3>1
    <3>3. QED
      BY <1>2, <2>1, <3>2
  <2>3. QED
    BY <2>1, <2>2
<1>4. /\ fresh \in Seq(0 .. PageBytes) /\ Len(fresh) = N /\ ToSet(fresh) = 0 .. N - 1
      /\ IsInjective(fresh) /\ fresh # <<>> /\ Head(fresh) = 0
  <2>1. 0 .. N - 1 \in SUBSET (0 .. NSlots(cls) - 1) /\ NSlots(cls) - 1 <= PageBytes - 1
    BY <1>b, <1>2, <1>3
  <2>2. IsFiniteSet(0 .. N - 1) /\ Cardinality(0 .. N - 1) = N
    <3>1. IsFiniteSet(0 .. N - 1) /\ Cardinality(0 .. N - 1) = IF 0 > N - 1 THEN 0 ELSE (N - 1) - 0 + 1
      BY <1>3, FS_Interval
    <3>2. QED
      BY <1>3, <3>1
  <2>3. /\ fresh \in Seq(0 .. PageBytes) /\ Len(fresh) = N /\ ToSet(fresh) = 0 .. N - 1
        /\ IsInjective(fresh)
    BY <1>c, <1>2, <2>1, <2>2, FreeListFacts
  <2>4. IsAscending(fresh) /\ DOMAIN fresh = 1 .. N
    <3>1. N \in Nat /\ 0 .. N - 1 \in SUBSET (0 .. N - 1)
      BY <1>3
    <3>2. IsAscending(Ascending(0 .. N - 1)) /\ DOMAIN Ascending(0 .. N - 1) = 1 .. Cardinality(0 .. N - 1)
      BY <3>1, AscendingLists
    <3>3. QED
      BY <1>c, <2>2, <3>2
  <2>5. fresh # <<>> /\ Head(fresh) = fresh[1] /\ 1 \in 1 .. N
    BY <1>3, <2>3, EmptySeq, HeadTailProperties
  <2>6. PICK j \in 1 .. N : fresh[j] = 0
    <3>1. 0 \in ToSet(fresh)
      BY <1>3, <2>3
    <3>2. QED
      BY <2>4, <3>1 DEF ToSet
  <2>7. fresh[1] \in 0 .. N - 1
    BY <2>3, <2>4, <2>5 DEF ToSet
  <2>8. ~(1 < j)
    <3>1. SUFFICES ASSUME 1 < j PROVE FALSE
      OBVIOUS
    <3>2. fresh[1] < fresh[j]
      BY <2>4, <2>5, <3>1 DEF IsAscending
    <3>3. QED
      BY <1>3, <2>6, <2>7, <3>2
  <2>9. j = 1
    BY <1>3, <2>8
  <2>10. QED
    BY <2>3, <2>5, <2>6, <2>9
<1>5. /\ Tail(fresh) \in Seq(0 .. PageBytes) /\ Len(Tail(fresh)) = N - 1
      /\ ToSet(Tail(fresh)) = (0 .. N - 1) \ {0} /\ IsInjective(Tail(fresh))
  BY <1>4, TailFacts
<1>6. left \in PageRecord /\ left.cls = cls /\ left.free = Tail(fresh) /\ left.nfree = N - 1
  <2>1. N - 1 \in 0 .. PageBytes
    BY <1>2, <1>3
  <2>2. new = [cls |-> cls, free |-> fresh, nfree |-> N]
    BY <1>b, <1>c, <1>d DEF FreshPage
  <2>3. new \in PageRecord /\ new.cls = cls /\ new.free = fresh /\ new.nfree = N
    <3>1. N \in 0 .. PageBytes
      BY <1>2, <1>3
    <3>2. QED
      BY <1>2, <1>4, <2>2, <3>1 DEF PageRecord
  <2>4. QED
    BY <1>e, <1>5, <2>1, <2>3 DEF PageRecord
<1>7. /\ mem \in Nat /\ mem + PageBytes <= MemTop
      /\ \A p \in DOMAIN page : p + PageBytes <= mem \/ mem + PageBytes <= p
      /\ \A k \in DOMAIN larges :
            larges[k].mem + larges[k].size <= mem \/ mem + PageBytes <= larges[k].mem
  BY <1>0, <1>1, <1>2, FreeFacts
<1>8. \A p \in DOMAIN page : p \in Nat /\ p # mem
  <2>1. \A p \in DOMAIN page : p \in Nat
    BY <1>0, PageFacts
  <2>2. QED
    BY <1>2, <1>7, <2>1
<1>9. /\ DOMAIN page' = DOMAIN page \cup {mem} /\ page'[mem] = left
      /\ \A q \in DOMAIN page : page'[q] = page[q]
  <2>1. page' = [y \in DOMAIN page \cup {mem} |-> IF y = mem THEN left ELSE page[y]]
    BY <1>1
  <2>2. QED
    BY <1>8, <2>1
<1>10. \A q \in DOMAIN page : /\ Used(q)' = Used(q)
                              /\ \A j : SlotAddr(q, j)' = SlotAddr(q, j)
  BY <1>9 DEF Used, SlotAddr
<1>11. /\ \A j : SlotAddr(mem, j)' = mem + Off(cls, j)
       /\ Used(mem)' = {0} /\ NSlots(page'[mem].cls) = N
  <2>1. page'[mem].cls = cls /\ NSlots(page'[mem].cls) = N /\ ToSet(page'[mem].free) = (0 .. N - 1) \ {0}
    BY <1>b, <1>5, <1>6, <1>9
  <2>2. \A j : SlotAddr(mem, j)' = mem + Off(cls, j)
    BY <2>1 DEF SlotAddr, Off
  <2>3. Used(mem)' = {i \in 0 .. N - 1 : i \notin (0 .. N - 1) \ {0}}
    BY <2>1 DEF Used
  <2>4. QED
    BY <1>3, <2>1, <2>2, <2>3
<1>12. ASSUME NEW q \in DOMAIN page, NEW j \in 0 .. NSlots(page[q].cls) - 1
       PROVE  ~(mem <= SlotAddr(q, j) /\ SlotAddr(q, j) < mem + PageBytes) /\ SlotAddr(q, j) \in Nat
  <2>1. /\ SlotAddr(q, j) \in Nat /\ q <= SlotAddr(q, j)
        /\ class_sizes[page[q].cls] \in Nat /\ class_sizes[page[q].cls] > 0
        /\ SlotAddr(q, j) + class_sizes[page[q].cls] <= q + PageBytes
    BY <1>0, SlotPlace
  <2>2. q + PageBytes <= mem \/ mem + PageBytes <= q
    BY <1>7
  <2>3. q \in Nat
    BY <1>8
  <2>4. QED
    BY <1>2, <1>7, <2>1, <2>2, <2>3
<1>13. \A k \in DOMAIN larges : larges[k].mem # mem
  <2>1. ASSUME NEW k \in DOMAIN larges PROVE larges[k].mem # mem
    <3>1. larges[k].mem \in Nat /\ larges[k].size \in Nat /\ larges[k].size > 0
      BY <1>0, LargesFacts
    <3>2. larges[k].mem + larges[k].size <= mem \/ mem + PageBytes <= larges[k].mem
      BY <1>7
    <3>3. QED
      BY <1>2, <1>7, <3>1, <3>2
  <2>2. QED
    BY <2>1
<1>14. PagesOK'
  <2>1. /\ pages' \in Seq(Addr) /\ ToSet(pages') = ToSet(pages) \cup {mem} /\ IsInjective(pages')
    <3>1. mem \notin ToSet(pages) /\ pages \in Seq(Addr) /\ IsInjective(pages)
      BY <1>0, <1>8 DEF PagesOK
    <3>2. /\ Append(pages, mem) \in Seq(Addr) /\ ToSet(Append(pages, mem)) = ToSet(pages) \cup {mem}
          /\ IsInjective(Append(pages, mem))
      BY <3>1, AppendFacts
    <3>3. QED
      BY <1>1, <3>2
  <2>2. DOMAIN page' = ToSet(pages')
    BY <1>0, <1>9, <2>1 DEF PagesOK
  <2>3. \A p \in DOMAIN page' : page'[p] \in PageRecord /\ p % PageBytes = 0 /\ p + PageBytes <= MemTop
    BY <1>0, <1>1, <1>6, <1>7, <1>9 DEF PagesOK
  <2>4. QED
    BY <2>1, <2>2, <2>3 DEF PagesOK
<1>15. LargesOK'
  BY <1>0, <1>1 DEF LargesOK
<1>16. Apart'
  <2>1. ASSUME NEW p \in DOMAIN page', NEW k \in DOMAIN larges
        PROVE  p + PageBytes <= larges[k].mem \/ larges[k].mem + larges[k].size <= p
    <3>1. CASE p = mem
      BY <1>7, <3>1
    <3>2. CASE p # mem
      BY <1>0, <1>9, <3>2 DEF Apart
    <3>3. QED
      BY <3>1, <3>2
  <2>2. QED
    BY <1>1, <2>1 DEF Apart
<1>17. FreeOK'
  <2>1. ASSUME NEW p \in DOMAIN page'
        PROVE  /\ ToSet(page'[p].free) \subseteq 0 .. NSlots(page'[p].cls) - 1
               /\ IsInjective(page'[p].free)
               /\ page'[p].nfree = Len(page'[p].free)
    <3>1. CASE p = mem
      <4>1. page'[p].free = Tail(fresh) /\ page'[p].cls = cls /\ page'[p].nfree = N - 1
        BY <1>6, <1>9, <3>1
      <4>2. QED
        BY <1>b, <1>5, <4>1
    <3>2. CASE p # mem
      BY <1>0, <1>9, <3>2 DEF FreeOK
    <3>3. QED
      BY <3>1, <3>2
  <2>2. QED
    BY <2>1 DEF FreeOK
<1>18. AvailOK'
  <2>1. Tail(<<mem>>) = <<>> /\ ToSet(<<mem>>) = {mem} /\ ToSet(<<>>) = {}
        /\ IsInjective(<<mem>>) /\ IsInjective(<<>>) /\ <<mem>> \in Seq(Addr) /\ <<>> \in Seq(Addr)
    BY DEF ToSet, IsInjective
  <2>2. PICK avail : avail = IF N - 1 = 0 THEN <<>> ELSE <<mem>>
    OBVIOUS
  <2>3. avail \in Seq(Addr) /\ IsInjective(avail)
        /\ ToSet(avail) = IF N - 1 = 0 THEN {} ELSE {mem}
    BY <2>1, <2>2
  <2>4. page_avail' = [page_avail EXCEPT ![cls] = avail]
    BY <1>1, <2>1, <2>2
  <2>5. page_avail' \in [Classes -> Seq(Addr)] /\ page_avail'[cls] = avail
        /\ \A c \in Classes : c # cls => page_avail'[c] = page_avail[c]
    BY <1>0, <1>2, <2>3, <2>4 DEF AvailOK
  <2>6. {q \in DOMAIN page : page[q].cls = cls /\ page[q].nfree > 0} = {}
    <3>1. ToSet(page_avail[cls]) = {q \in DOMAIN page : page[q].cls = cls /\ page[q].nfree > 0}
      BY <1>0, <1>2 DEF AvailOK
    <3>2. QED
      BY <1>1, <2>1, <3>1
  <2>7. ToSet(avail) = {q \in DOMAIN page' : page'[q].cls = cls /\ page'[q].nfree > 0}
    <3>1. \A q \in DOMAIN page : ~(page'[q].cls = cls /\ page'[q].nfree > 0)
      BY <1>9, <2>6
    <3>2. page'[mem].cls = cls /\ page'[mem].nfree = N - 1
      BY <1>6, <1>9
    <3>3. N - 1 > 0 <=> N - 1 # 0
      BY <1>3
    <3>4. {q \in DOMAIN page' : page'[q].cls = cls /\ page'[q].nfree > 0} = IF N - 1 = 0 THEN {} ELSE {mem}
      BY <1>9, <3>1, <3>2, <3>3
    <3>5. QED
      BY <2>3, <3>4
  <2>8. ASSUME NEW c \in Classes, c # cls
        PROVE  /\ ToSet(page_avail'[c]) = {q \in DOMAIN page' : page'[q].cls = c /\ page'[q].nfree > 0}
               /\ IsInjective(page_avail'[c])
    <3>1. /\ ToSet(page_avail[c]) = {q \in DOMAIN page : page[q].cls = c /\ page[q].nfree > 0}
          /\ IsInjective(page_avail[c])
      BY <1>0 DEF AvailOK
    <3>2. page'[mem].cls # c
      BY <1>6, <1>9, <2>8
    <3>3. {q \in DOMAIN page' : page'[q].cls = c /\ page'[q].nfree > 0}
             = {q \in DOMAIN page : page[q].cls = c /\ page[q].nfree > 0}
      BY <1>9, <3>2
    <3>4. QED
      BY <2>5, <2>8, <3>1, <3>3
  <2>9. QED
    BY <2>3, <2>5, <2>7, <2>8 DEF AvailOK
<1>19. /\ DOMAIN obj' = DOMAIN obj \cup {mem} /\ obj'[mem] = want
       /\ \A a \in DOMAIN obj : a # mem => obj'[a] = obj[a]
  <2>1. obj' = [y \in DOMAIN obj \cup {mem} |-> IF y = mem THEN want ELSE obj[y]]
    BY <1>1
  <2>2. QED
    BY <2>1
<1>20. ObjectsOK'
  <2>0. SlotAddr(mem, 0)' = mem
    <3>1. Off(cls, 0) = 0
      BY <1>3
    <3>2. QED
      BY <1>7, <1>11, <3>1
  <2>1. ASSUME NEW a \in DOMAIN obj'
        PROVE  \/ \E q \in DOMAIN page' : \E j \in Used(q)' : a = SlotAddr(q, j)'
               \/ \E k \in DOMAIN larges' : a = larges'[k].mem
    <3>1. CASE a = mem
      <4>1. mem \in DOMAIN page' /\ 0 \in Used(mem)' /\ a = SlotAddr(mem, 0)'
        BY <1>9, <1>11, <2>0, <3>1
      <4>2. QED
        BY <4>1
    <3>2. CASE a # mem
      BY <1>0, <1>1, <1>9, <1>10, <1>19, <3>2 DEF ObjectsOK
    <3>3. QED
      BY <3>1, <3>2
  <2>2. ASSUME NEW q \in DOMAIN page', NEW j \in Used(q)'
        PROVE  SlotAddr(q, j)' \in DOMAIN obj' /\ obj'[SlotAddr(q, j)'] <= class_sizes[page'[q].cls]
    <3>1. CASE q = mem
      <4>1. j = 0 /\ SlotAddr(q, j)' = mem /\ page'[q].cls = cls
        BY <1>6, <1>9, <1>11, <2>0, <3>1
      <4>2. QED
        BY <1>2, <1>19, <4>1
    <3>2. CASE q # mem
      <4>1. q \in DOMAIN page /\ j \in Used(q) /\ SlotAddr(q, j)' = SlotAddr(q, j) /\ page'[q].cls = page[q].cls
        BY <1>9, <1>10, <3>2
      <4>2. SlotAddr(q, j) # mem
        <5>1. j \in 0 .. NSlots(page[q].cls) - 1
          BY <4>1 DEF Used
        <5>2. QED
          BY <1>2, <1>7, <1>12, <4>1, <5>1
      <4>3. QED
        BY <1>0, <1>19, <4>1, <4>2 DEF ObjectsOK
    <3>3. QED
      BY <3>1, <3>2
  <2>3. ASSUME NEW k \in DOMAIN larges'
        PROVE  larges'[k].mem \in DOMAIN obj' /\ obj'[larges'[k].mem] = larges'[k].size
    BY <1>0, <1>1, <1>13, <1>19 DEF ObjectsOK
  <2>4. \A a \in DOMAIN obj' : obj'[a] \in Sizes
    BY <1>0, <1>2, <1>19 DEF ObjectsOK
  <2>5. QED
    BY <2>1, <2>2, <2>3, <2>4 DEF ObjectsOK
<1>21. HeadersOK'
  <2>0. Cleared = {mem + Off(cls, i) : i \in 0 .. N - 1}
    BY <1>f DEF Off
  <2>1. \A x \in Cleared : mem <= x /\ x < mem + PageBytes
    <3>1. ASSUME NEW i \in 0 .. N - 1 PROVE mem <= mem + Off(cls, i) /\ mem + Off(cls, i) < mem + PageBytes
      <4>1. Off(cls, i) \in Nat /\ Off(cls, i) + class_sizes[cls] <= PageBytes
        BY <1>3
      <4>2. QED
        BY <1>2, <1>7, <4>1
    <3>2. QED
      BY <2>0, <3>1
  <2>2. ASSUME NEW q \in DOMAIN page', NEW j \in 0 .. NSlots(page'[q].cls) - 1
        PROVE  SlotAddr(q, j)' \in ti' <=> j \in Used(q)'
    <3>1. CASE q = mem
      <4>1. /\ j \in 0 .. N - 1 /\ SlotAddr(q, j)' = mem + Off(cls, j) /\ Used(q)' = {0}
        BY <1>11, <3>1
      <4>2. mem + Off(cls, j) = mem <=> j = 0
        <5>1. Off(cls, j) \in Nat /\ (Off(cls, j) = 0 <=> j = 0)
          BY <1>3, <4>1
        <5>2. QED
          BY <1>7, <5>1
      <4>3. mem + Off(cls, j) \in Cleared
        BY <2>0, <4>1
      <4>4. QED
        BY <1>1, <4>1, <4>2, <4>3
    <3>2. CASE q # mem
      <4>1. /\ q \in DOMAIN page /\ SlotAddr(q, j)' = SlotAddr(q, j) /\ Used(q)' = Used(q)
            /\ j \in 0 .. NSlots(page[q].cls) - 1
        BY <1>9, <1>10, <3>2
      <4>2. SlotAddr(q, j) \notin Cleared /\ SlotAddr(q, j) # mem
        <5>1. ~(mem <= SlotAddr(q, j) /\ SlotAddr(q, j) < mem + PageBytes)
          BY <1>12, <4>1
        <5>2. mem <= mem /\ mem < mem + PageBytes
          BY <1>2, <1>7
        <5>3. QED
          BY <2>1, <5>1, <5>2
      <4>3. SlotAddr(q, j) \in ti <=> j \in Used(q)
        BY <1>0, <4>1 DEF HeadersOK
      <4>4. QED
        BY <1>1, <4>1, <4>2, <4>3
    <3>3. QED
      BY <3>1, <3>2
  <2>3. ti' \subseteq Addr
    BY <1>0, <1>1 DEF HeadersOK
  <2>4. QED
    BY <2>2, <2>3 DEF HeadersOK
<1>22. BoundsOK'
  <2>1. /\ heap_lo \in 0 .. MemTop /\ heap_hi \in 0 .. MemTop
        /\ \A p \in DOMAIN page : heap_lo <= p /\ p + PageBytes <= heap_hi
        /\ \A k \in DOMAIN larges : heap_lo <= larges[k].mem /\ larges[k].mem + larges[k].size <= heap_hi
    BY <1>0 DEF BoundsOK
  <2>2. /\ heap_lo' \in 0 .. MemTop /\ heap_lo' <= heap_lo /\ heap_lo' <= mem
        /\ heap_hi' \in 0 .. MemTop /\ heap_hi <= heap_hi' /\ mem + PageBytes <= heap_hi'
    BY <1>1, <1>2, <1>7, <2>1
  <2>3. ASSUME NEW p \in DOMAIN page' PROVE heap_lo' <= p /\ p + PageBytes <= heap_hi'
    <3>1. CASE p = mem
      BY <2>2, <3>1
    <3>2. CASE p # mem
      <4>1. p \in DOMAIN page /\ p \in Nat
        BY <1>8, <1>9, <3>2
      <4>2. QED
        BY <1>2, <2>1, <2>2, <4>1
    <3>3. QED
      BY <3>1, <3>2
  <2>4. ASSUME NEW k \in DOMAIN larges
        PROVE  heap_lo' <= larges[k].mem /\ larges[k].mem + larges[k].size <= heap_hi'
    <3>1. larges[k].mem \in Nat /\ larges[k].size \in Nat
      BY <1>0, LargesFacts
    <3>2. QED
      BY <1>2, <2>1, <2>2, <3>1
  <2>5. QED
    BY <1>1, <2>2, <2>3, <2>4 DEF BoundsOK
<1>23. WantOK'
  BY <1>0, <1>1, <1>2 DEF WantOK
<1>24. QED
  BY <1>14, <1>15, <1>16, <1>17, <1>18, <1>20, <1>21, <1>22, <1>23 DEF IInv

LEMMA AllocLargeKeeps ==
  ASSUME IInv, NEW mem \in Addr, AllocLarge(mem)
  PROVE  IInv'
<1>a. PICK n : n = LargeUpperBound(mem)
  OBVIOUS
<1>b. PICK new : new = [mem |-> mem, size |-> want]
  OBVIOUS
<1>c. PICK L : L = Len(larges)
  OBVIOUS
<1>0. PagesOK /\ LargesOK /\ Apart /\ FreeOK /\ AvailOK /\ ObjectsOK /\ HeadersOK /\ BoundsOK /\ WantOK
  BY DEF IInv
<1>1. /\ pc = "place" /\ want > MaxSmall /\ Free(mem, want)
      /\ larges' = InsertAt(larges, n + 1, new)
      /\ heap_lo' = (IF mem < heap_lo THEN mem ELSE heap_lo)
      /\ heap_hi' = (IF mem + want > heap_hi THEN mem + want ELSE heap_hi)
      /\ ti' = ti \cup {mem} /\ pc' = "run" /\ want' = 0
      /\ obj' = [y \in DOMAIN obj \cup {mem} |-> IF y = mem THEN want ELSE obj[y]]
      /\ allocated_since' = allocated_since + want
      /\ pages' = pages /\ page' = page /\ page_avail' = page_avail /\ stress' = stress
  BY <1>a, <1>b DEF AllocLarge, Place, NoteRange, With
<1>2. want \in Nat \ {0} /\ want \in Sizes /\ PageBytes \in Nat \ {0} /\ MemTop \in Nat
  <2>1. want \in Sizes /\ want \in Nat \ {0}
    BY <1>0, <1>1, PageHeapAssumption DEF WantOK
  <2>2. QED
    BY <2>1, ClassFacts
<1>3. /\ mem \in Nat /\ mem + want <= MemTop
      /\ \A p \in DOMAIN page : p + PageBytes <= mem \/ mem + want <= p
      /\ \A k \in DOMAIN larges :
            larges[k].mem + larges[k].size <= mem \/ mem + want <= larges[k].mem
  BY <1>0, <1>1, <1>2, FreeFacts
<1>4. new \in [mem : Addr, size : Nat] /\ new.mem = mem /\ new.size = want
  BY <1>b, <1>2
<1>5. /\ L \in Nat /\ DOMAIN larges = 1 .. L
      /\ \A k \in 1 .. L : larges[k].mem \in Nat /\ larges[k].size \in Nat /\ larges[k].size > 0
  BY <1>c, <1>0, LargesFacts
<1>6. n \in 0 .. L /\ \A k \in 1 .. L : larges[k].mem <= mem <=> k <= n
  <2>1. Splits(n, mem)
    BY <1>a, <1>0, <1>3, UpperBoundSplits
  <2>2. QED
    BY <1>c, <2>1 DEF Splits
<1>7. ASSUME NEW k \in 1 .. L
      PROVE  /\ k <= n => larges[k].mem + larges[k].size <= mem
             /\ ~(k <= n) => mem + want <= larges[k].mem
             /\ larges[k].mem # mem
  <2>1. larges[k].mem \in Nat /\ larges[k].size \in Nat /\ larges[k].size > 0
    BY <1>5
  <2>2. larges[k].mem <= mem <=> k <= n
    BY <1>6
  <2>3. larges[k].mem + larges[k].size <= mem \/ mem + want <= larges[k].mem
    BY <1>3, <1>5
  <2>4. QED
    BY <1>2, <1>3, <2>1, <2>2, <2>3
<1>8. /\ larges' \in Seq([mem : Addr, size : Nat]) /\ DOMAIN larges' = 1 .. L + 1
      /\ \A k \in 1 .. L + 1 :
            larges'[k] = IF k <= n THEN larges[k] ELSE IF k = n + 1 THEN new ELSE larges[k - 1]
  <2>1. larges \in Seq([mem : Addr, size : Nat]) /\ n + 1 \in 1 .. Len(larges) + 1
    BY <1>c, <1>0, <1>5, <1>6 DEF LargesOK
  <2>2. PICK t : t = InsertAt(larges, n + 1, new)
    OBVIOUS
  <2>3. /\ t \in Seq([mem : Addr, size : Nat]) /\ DOMAIN t = 1 .. Len(larges) + 1
        /\ \A k \in 1 .. Len(larges) + 1 :
              t[k] = IF k < n + 1 THEN larges[k] ELSE IF k = n + 1 THEN new ELSE larges[k - 1]
    <3>1. PICK T : T = [mem : Addr, size : Nat]
      OBVIOUS
    <3>2. larges \in Seq(T) /\ new \in T
      BY <1>4, <2>1, <3>1
    <3>3. PICK m \in 1 .. Len(larges) + 1 : m = n + 1
      BY <2>1
    <3>4. t = InsertAt(larges, m, new)
      BY <2>2, <3>3
    <3>5. /\ t \in Seq(T) /\ Len(t) = Len(larges) + 1 /\ DOMAIN t = 1 .. Len(larges) + 1
          /\ \A k \in 1 .. Len(larges) + 1 :
                t[k] = IF k < m THEN larges[k] ELSE IF k = m THEN new ELSE larges[k - 1]
      <4>1. IsInserted(t, T, larges, m, new)
        BY <3>2, <3>4, InsertFacts
      <4>2. QED
        BY <4>1 DEF IsInserted
    <3>6. t \in Seq([mem : Addr, size : Nat]) /\ DOMAIN t = 1 .. Len(larges) + 1
      BY <3>1, <3>5
    <3>7. QED
      BY <3>3, <3>5, <3>6
  <2>4. \A k \in 1 .. L + 1 : k < n + 1 <=> k <= n
    BY <1>5, <1>6
  <2>5. QED
    BY <1>1, <1>c, <2>2, <2>3, <2>4
<1>9. ASSUME NEW k \in 1 .. L + 1
      PROVE  \/ k <= n /\ k \in 1 .. L /\ larges'[k] = larges[k]
             \/ k = n + 1 /\ larges'[k] = new
             \/ k > n + 1 /\ k - 1 \in 1 .. L /\ ~(k - 1 <= n) /\ larges'[k] = larges[k - 1]
  <2>1. larges'[k] = IF k <= n THEN larges[k] ELSE IF k = n + 1 THEN new ELSE larges[k - 1]
    BY <1>8
  <2>2. CASE k <= n
    BY <1>5, <1>6, <2>1, <2>2
  <2>3. CASE k = n + 1
    BY <1>5, <1>6, <2>1, <2>3
  <2>4. CASE ~(k <= n) /\ k # n + 1
    <3>1. k > n + 1 /\ k - 1 \in 1 .. L /\ ~(k - 1 <= n)
      BY <1>5, <1>6, <2>4
    <3>2. QED
      BY <2>1, <2>4, <3>1
  <2>5. QED
    BY <2>2, <2>3, <2>4
<1>10. \A k \in DOMAIN larges' : larges'[k] = new \/ \E j \in DOMAIN larges : larges'[k] = larges[j]
  BY <1>5, <1>8, <1>9
<1>11. /\ \A k \in DOMAIN larges : \E j \in DOMAIN larges' : larges'[j] = larges[k]
       /\ \E j \in DOMAIN larges' : larges'[j] = new
  <2>1. ASSUME NEW k \in 1 .. L PROVE \E j \in 1 .. L + 1 : larges'[j] = larges[k]
    <3>1. CASE k <= n
      <4>1. k \in 1 .. L + 1
        BY <1>5
      <4>2. QED
        BY <1>8, <3>1, <4>1
    <3>2. CASE ~(k <= n)
      <4>1. k + 1 \in 1 .. L + 1 /\ ~(k + 1 <= n) /\ k + 1 # n + 1 /\ (k + 1) - 1 = k
        BY <1>5, <1>6, <3>2
      <4>2. larges'[k + 1] = larges[(k + 1) - 1]
        BY <1>8, <4>1
      <4>3. QED
        BY <4>1, <4>2
    <3>3. QED
      BY <3>1, <3>2
  <2>2. n + 1 \in 1 .. L + 1 /\ larges'[n + 1] = new
    <3>1. n + 1 \in 1 .. L + 1 /\ ~(n + 1 <= n)
      BY <1>5, <1>6
    <3>2. QED
      BY <1>8, <3>1
  <2>3. QED
    BY <1>5, <1>8, <2>1, <2>2
<1>12. LargesOK'
  <2>1. ASSUME NEW k \in 1 .. L
        PROVE  MaxSmall < larges[k].size /\ larges[k].mem + larges[k].size <= MemTop
    BY <1>0, <1>5 DEF LargesOK
  <2>2. MaxSmall < new.size /\ new.mem + new.size <= MemTop
    <3>1. MaxSmall \in Nat
      BY ClassFacts
    <3>2. QED
      BY <1>1, <1>2, <1>3, <1>4, <3>1
  <2>3. \A k \in DOMAIN larges' :
           MaxSmall < larges'[k].size /\ larges'[k].mem + larges'[k].size <= MemTop
    BY <1>5, <1>10, <2>1, <2>2
  <2>4. ASSUME NEW j \in 1 .. L + 1, NEW k \in 1 .. L + 1, j < k
        PROVE  larges'[j].mem + larges'[j].size <= larges'[k].mem
    <3>1. \A a, b \in 1 .. L : a < b => larges[a].mem + larges[a].size <= larges[b].mem
      BY <1>0, <1>5 DEF LargesOK
    <3>2. CASE k <= n
      <4>1. /\ j \in 1 .. L /\ k \in 1 .. L
            /\ larges'[j] = larges[j] /\ larges'[k] = larges[k]
        <5>1. j <= n /\ j \in 1 .. L /\ k \in 1 .. L
          BY <1>5, <1>6, <2>4, <3>2
        <5>2. QED
          BY <1>8, <3>2, <5>1
      <4>2. QED
        BY <2>4, <3>1, <4>1
    <3>3. CASE k = n + 1
      <4>1. j <= n /\ j \in 1 .. L
        <5>1. n \in Nat /\ n <= L /\ L \in Nat
          BY <1>5, <1>6
        <5>2. QED
          BY <2>4, <3>3, <5>1
      <4>2. larges'[j] = larges[j] /\ larges'[k] = new
        <5>1. ~(k <= n)
          BY <1>6, <3>3
        <5>2. QED
          BY <1>8, <3>3, <4>1, <5>1
      <4>3. QED
        BY <1>4, <1>7, <4>1, <4>2
    <3>4. CASE k > n + 1
      <4>1. k - 1 \in 1 .. L /\ ~(k - 1 <= n) /\ larges'[k] = larges[k - 1]
        BY <1>5, <1>6, <1>9, <3>4
      <4>2. CASE j <= n
        <5>1. j \in 1 .. L /\ j < k - 1
          BY <1>5, <1>6, <2>4, <3>4, <4>2
        <5>2. larges'[j] = larges[j]
          BY <1>8, <4>2
        <5>3. QED
          BY <3>1, <4>1, <5>1, <5>2
      <4>3. CASE j = n + 1
        <5>1. larges'[j] = new
          BY <1>6, <1>9, <4>3
        <5>2. QED
          BY <1>4, <1>7, <4>1, <5>1
      <4>4. CASE j > n + 1
        <5>1. j - 1 \in 1 .. L /\ larges'[j] = larges[j - 1]
          BY <1>5, <1>6, <1>9, <4>4
        <5>2. j - 1 < k - 1
          BY <1>5, <2>4
        <5>3. QED
          BY <3>1, <4>1, <5>1, <5>2
      <4>5. QED
        BY <1>5, <1>6, <4>2, <4>3, <4>4
    <3>5. QED
      BY <1>5, <1>6, <3>2, <3>3, <3>4
  <2>5. QED
    BY <1>8, <2>3, <2>4 DEF LargesOK
<1>13. PagesOK' /\ FreeOK' /\ AvailOK'
  BY <1>0, <1>1 DEF PagesOK, FreeOK, AvailOK
<1>14. Apart'
  <2>1. ASSUME NEW p \in DOMAIN page, NEW k \in DOMAIN larges'
        PROVE  p + PageBytes <= larges'[k].mem \/ larges'[k].mem + larges'[k].size <= p
    <3>1. CASE larges'[k] = new
      BY <1>3, <1>4, <3>1
    <3>2. ASSUME NEW j \in DOMAIN larges, larges'[k] = larges[j]
          PROVE  p + PageBytes <= larges'[k].mem \/ larges'[k].mem + larges'[k].size <= p
      BY <1>0, <3>2 DEF Apart
    <3>3. QED
      BY <1>10, <3>1, <3>2
  <2>2. QED
    BY <1>1, <2>1 DEF Apart
<1>15. \A q \in DOMAIN page : /\ Used(q)' = Used(q)
                              /\ \A j : SlotAddr(q, j)' = SlotAddr(q, j)
  BY <1>1 DEF Used, SlotAddr
<1>16. ASSUME NEW q \in DOMAIN page, NEW j \in 0 .. NSlots(page[q].cls) - 1
       PROVE  SlotAddr(q, j) # mem
  <2>1. /\ SlotAddr(q, j) \in Nat /\ q <= SlotAddr(q, j)
        /\ class_sizes[page[q].cls] \in Nat /\ class_sizes[page[q].cls] > 0
        /\ SlotAddr(q, j) + class_sizes[page[q].cls] <= q + PageBytes
    BY <1>0, SlotPlace
  <2>2. q + PageBytes <= mem \/ mem + want <= q
    BY <1>3
  <2>3. q \in Nat
    BY <1>0, PageFacts
  <2>4. QED
    BY <1>2, <1>3, <2>1, <2>2, <2>3
<1>17. /\ DOMAIN obj' = DOMAIN obj \cup {mem} /\ obj'[mem] = want
       /\ \A a \in DOMAIN obj : a # mem => obj'[a] = obj[a]
  <2>1. obj' = [y \in DOMAIN obj \cup {mem} |-> IF y = mem THEN want ELSE obj[y]]
    BY <1>1
  <2>2. QED
    BY <2>1
<1>18. ObjectsOK'
  <2>1. ASSUME NEW a \in DOMAIN obj'
        PROVE  \/ \E q \in DOMAIN page' : \E j \in Used(q)' : a = SlotAddr(q, j)'
               \/ \E k \in DOMAIN larges' : a = larges'[k].mem
    <3>1. CASE a = mem
      BY <1>4, <1>11, <3>1
    <3>2. CASE a # mem
      <4>1. a \in DOMAIN obj
        BY <1>17, <3>2
      <4>2. CASE \E q \in DOMAIN page : \E j \in Used(q) : a = SlotAddr(q, j)
        BY <1>1, <1>15, <4>2
      <4>3. CASE \E k \in DOMAIN larges : a = larges[k].mem
        <5>1. PICK k \in DOMAIN larges : a = larges[k].mem
          BY <4>3
        <5>2. PICK j \in DOMAIN larges' : larges'[j] = larges[k]
          BY <1>11
        <5>3. QED
          BY <5>1, <5>2
      <4>4. QED
        BY <1>0, <4>1, <4>2, <4>3 DEF ObjectsOK
    <3>3. QED
      BY <3>1, <3>2
  <2>2. ASSUME NEW q \in DOMAIN page', NEW j \in Used(q)'
        PROVE  SlotAddr(q, j)' \in DOMAIN obj' /\ obj'[SlotAddr(q, j)'] <= class_sizes[page'[q].cls]
    <3>1. /\ q \in DOMAIN page /\ j \in Used(q) /\ SlotAddr(q, j)' = SlotAddr(q, j)
          /\ page'[q].cls = page[q].cls
      BY <1>1, <1>15
    <3>2. SlotAddr(q, j) # mem
      <4>1. j \in 0 .. NSlots(page[q].cls) - 1
        BY <3>1 DEF Used
      <4>2. QED
        BY <1>16, <3>1, <4>1
    <3>3. QED
      BY <1>0, <1>17, <3>1, <3>2 DEF ObjectsOK
  <2>3. ASSUME NEW k \in DOMAIN larges'
        PROVE  larges'[k].mem \in DOMAIN obj' /\ obj'[larges'[k].mem] = larges'[k].size
    <3>1. CASE larges'[k] = new
      BY <1>4, <1>17, <3>1
    <3>2. ASSUME NEW j \in DOMAIN larges, larges'[k] = larges[j]
          PROVE  larges'[k].mem \in DOMAIN obj' /\ obj'[larges'[k].mem] = larges'[k].size
      <4>1. larges[j].mem # mem
        BY <1>5, <1>7
      <4>2. larges[j].mem \in DOMAIN obj /\ obj[larges[j].mem] = larges[j].size
        BY <1>0 DEF ObjectsOK
      <4>3. QED
        BY <1>17, <3>2, <4>1, <4>2
    <3>3. QED
      BY <1>10, <3>1, <3>2
  <2>4. \A a \in DOMAIN obj' : obj'[a] \in Sizes
    BY <1>0, <1>2, <1>17 DEF ObjectsOK
  <2>5. QED
    BY <2>1, <2>2, <2>3, <2>4 DEF ObjectsOK
<1>19. HeadersOK'
  <2>1. ASSUME NEW q \in DOMAIN page', NEW j \in 0 .. NSlots(page'[q].cls) - 1
        PROVE  SlotAddr(q, j)' \in ti' <=> j \in Used(q)'
    <3>1. /\ q \in DOMAIN page /\ SlotAddr(q, j)' = SlotAddr(q, j) /\ Used(q)' = Used(q)
          /\ j \in 0 .. NSlots(page[q].cls) - 1
      BY <1>1, <1>15
    <3>2. SlotAddr(q, j) # mem /\ (SlotAddr(q, j) \in ti <=> j \in Used(q))
      BY <1>0, <1>16, <3>1 DEF HeadersOK
    <3>3. QED
      BY <1>1, <3>1, <3>2
  <2>2. ti' \subseteq Addr
    BY <1>0, <1>1 DEF HeadersOK
  <2>3. QED
    BY <2>1, <2>2 DEF HeadersOK
<1>20. BoundsOK'
  <2>1. /\ heap_lo \in 0 .. MemTop /\ heap_hi \in 0 .. MemTop
        /\ \A p \in DOMAIN page : heap_lo <= p /\ p + PageBytes <= heap_hi
        /\ \A k \in DOMAIN larges : heap_lo <= larges[k].mem /\ larges[k].mem + larges[k].size <= heap_hi
    BY <1>0 DEF BoundsOK
  <2>2. /\ heap_lo' \in 0 .. MemTop /\ heap_lo' <= heap_lo /\ heap_lo' <= mem
        /\ heap_hi' \in 0 .. MemTop /\ heap_hi <= heap_hi' /\ mem + want <= heap_hi'
    BY <1>1, <1>2, <1>3, <2>1
  <2>3. ASSUME NEW p \in DOMAIN page PROVE heap_lo' <= p /\ p + PageBytes <= heap_hi'
    <3>1. p \in Nat
      BY <1>0, PageFacts
    <3>2. QED
      BY <1>2, <2>1, <2>2, <3>1
  <2>4. ASSUME NEW k \in DOMAIN larges'
        PROVE  heap_lo' <= larges'[k].mem /\ larges'[k].mem + larges'[k].size <= heap_hi'
    <3>1. CASE larges'[k] = new
      BY <1>4, <2>2, <3>1
    <3>2. ASSUME NEW j \in DOMAIN larges, larges'[k] = larges[j]
          PROVE  heap_lo' <= larges'[k].mem /\ larges'[k].mem + larges'[k].size <= heap_hi'
      <4>1. larges[j].mem \in Nat /\ larges[j].size \in Nat
        BY <1>5
      <4>2. QED
        BY <1>2, <2>1, <2>2, <3>2, <4>1
    <3>3. QED
      BY <1>10, <3>1, <3>2
  <2>5. QED
    BY <1>1, <2>2, <2>3, <2>4 DEF BoundsOK
<1>21. WantOK'
  BY <1>0, <1>1, <1>2 DEF WantOK
<1>22. QED
  BY <1>12, <1>13, <1>14, <1>18, <1>19, <1>20, <1>21 DEF IInv

LEMMA MinFacts ==
  ASSUME NEW n \in Nat, NEW S \in SUBSET (0 .. n), S # {}
  PROVE  Min(S) \in 0 .. n /\ \A y \in S : Min(S) <= y
<1>1. S \in SUBSET Nat
  OBVIOUS
<1>2. PICK x \in S : \A y \in S : x <= y
  BY <1>1, LeastElement
<1>3. Min(S) \in S /\ \A y \in S : Min(S) <= y
  BY <1>2 DEF Min
<1>4. QED
  BY <1>3

LEMMA MaxFacts ==
  ASSUME NEW n \in Nat, NEW S \in SUBSET (0 .. n), S # {}
  PROVE  Max(S) \in 0 .. n /\ \A y \in S : y <= Max(S)
<1> DEFINE T == {k \in 0 .. n : \A y \in S : y <= k}
<1>1. T \in SUBSET Nat /\ n \in T
  OBVIOUS
<1>2. PICK b \in T : \A k \in T : b <= k
  BY <1>1, LeastElement
<1>3. b \in S
  <2>1. SUFFICES ASSUME b \notin S PROVE FALSE
    OBVIOUS
  <2>2. PICK s : s \in S
    OBVIOUS
  <2>3. b - 1 \in T
    <3>1. b \in 0 .. n /\ \A y \in S : y \in Nat /\ y <= b /\ y # b
      BY <1>2, <2>1
    <3>2. \A y \in S : y <= b - 1
      BY <3>1
    <3>3. b - 1 \in 0 .. n
      BY <2>2, <3>1
    <3>4. QED
      BY <3>2, <3>3
  <2>4. b \in Nat /\ b <= b - 1
    BY <1>2, <2>3
  <2>5. QED
    BY <2>4
<1>4. b \in 0 .. n /\ \A y \in S : y \in Int /\ b >= y
  BY <1>2
<1> HIDE DEF T
<1>5. \E x \in S : \A y \in S : x >= y
  BY <1>3, <1>4
<1>6. Max(S) \in S /\ \A y \in S : Max(S) >= y
  BY <1>5 DEF Max
<1>7. QED
  BY <1>6

(* A slot whose address is an object's is that object.                     *)
LEMMA SlotIsUsed ==
  ASSUME IInv, NEW p \in DOMAIN page, NEW i \in 0 .. NSlots(page[p].cls) - 1,
         SlotAddr(p, i) \in DOMAIN obj
  PROVE  i \in Used(p)
<1>1. {SlotAddr(p, j) : j \in ToSet(page[p].free)} = SlotsOf(p) \ DOMAIN obj
  BY FreeListsAreExact DEF FreeListsExact
<1>2. i \notin ToSet(page[p].free)
  BY <1>1
<1>3. QED
  BY <1>2 DEF Used

LEMMA MarkedAreObjects ==
  ASSUME IInv, NEW M \in SUBSET Resolvable
  PROVE  M \subseteq DOMAIN obj
<1>1. ASSUME NEW o \in M PROVE o \in DOMAIN obj
  <2>1. PICK w \in Addr : o = FindObject(w)
    BY DEF Resolvable
  <2>2. o # NoObj
    BY DEF Resolvable
  <2>3. QED
    BY <2>1, <2>2, FindsObjects
<1>2. QED
  BY <1>1

LEMMA CollectKeeps ==
  ASSUME IInv, NEW M \in SUBSET Resolvable, Collect(M)
  PROVE  IInv'
<1>a. PICK kept : kept = Kept(pages, {p \in DOMAIN page : SlotsOf(p) \cap M # {}})
  OBVIOUS
<1>b. PICK FS : FS = [p \in DOMAIN page |-> FreeSlots(p, M)]
  OBVIOUS
<1>c. PICK Dead : Dead = UNION {SlotsOf(p) \ M : p \in DOMAIN page}
  OBVIOUS
<1>d. PICK Rec : Rec = [mem : Addr, size : Nat]
  OBVIOUS
<1>0. PagesOK /\ LargesOK /\ Apart /\ FreeOK /\ AvailOK /\ ObjectsOK /\ HeadersOK /\ BoundsOK /\ WantOK
  BY DEF IInv
<1>1. M \subseteq DOMAIN obj
  BY MarkedAreObjects
<1>2. /\ kept \in Seq(Addr) /\ IsInjective(kept)
      /\ ToSet(kept) = {p \in DOMAIN page : SlotsOf(p) \cap M # {}}
  <2>1. pages \in Seq(Addr) /\ IsInjective(pages) /\ DOMAIN page = ToSet(pages)
    BY <1>0 DEF PagesOK
  <2>2. PICK S : S = {p \in DOMAIN page : SlotsOf(p) \cap M # {}}
    OBVIOUS
  <2>3. kept \in Seq(Addr) /\ IsInjective(kept) /\ ToSet(kept) = ToSet(pages) \cap S
    BY <1>a, <2>1, <2>2, KeptKeeps
  <2>4. QED
    BY <2>1, <2>2, <2>3
<1>3. \A p \in ToSet(kept) : p \in DOMAIN page /\ FS[p] = FreeSlots(p, M)
  BY <1>b, <1>2
<1>4. /\ pc = "collect" /\ pages' = kept /\ ti' = ti \ Dead
      /\ page' = [p \in ToSet(kept) |->
                    [cls |-> page[p].cls, free |-> Ascending(FS[p]), nfree |-> Cardinality(FS[p])]]
      /\ page_avail' = [c \in Classes |->
            Reverse(Kept(kept, {p \in ToSet(kept) : page'[p].cls = c /\ page'[p].nfree > 0}))]
      /\ larges' = Kept(larges, {l \in ToSet(larges) : l.mem \in M})
      /\ ResetRange /\ allocated_since' = 0 /\ obj' = [o \in M |-> obj[o]]
      /\ pc' = (IF want = 0 THEN "run" ELSE "place") /\ stress' = stress /\ want' = want
  <2>1. /\ pc = "collect" /\ Swept(M, kept, kept) /\ SweepLarges(M) /\ ResetRange
        /\ allocated_since' = 0 /\ obj' = [o \in M |-> obj[o]]
        /\ pc' = (IF want = 0 THEN "run" ELSE "place") /\ stress' = stress /\ want' = want
    BY <1>a DEF Collect, SweepPages, Restrict
  <2>2. page' = [p \in ToSet(kept) |->
                   [cls |-> page[p].cls, free |-> Ascending(FS[p]), nfree |-> Cardinality(FS[p])]]
    BY <1>3, <2>1 DEF Swept
  <2>3. /\ pages' = kept /\ ti' = ti \ Dead
        /\ page_avail' = [c \in Classes |->
              Reverse(Kept(kept, {p \in ToSet(kept) : page'[p].cls = c /\ page'[p].nfree > 0}))]
    BY <1>c, <2>1 DEF Swept
  <2>4. QED
    BY <2>1, <2>2, <2>3 DEF SweepLarges
<1>5. /\ DOMAIN page' = ToSet(kept)
      /\ \A p \in ToSet(kept) :
            /\ page'[p] = [cls |-> page[p].cls, free |-> Ascending(FS[p]), nfree |-> Cardinality(FS[p])]
            /\ page'[p].cls = page[p].cls /\ page'[p].free = Ascending(FS[p])
            /\ page'[p].nfree = Cardinality(FS[p])
  BY <1>4
<1>6. ASSUME NEW p \in ToSet(kept)
      PROVE  /\ page[p].cls \in Classes /\ FS[p] \in SUBSET (0 .. NSlots(page[p].cls) - 1)
             /\ Ascending(FS[p]) \in Seq(0 .. PageBytes) /\ Len(Ascending(FS[p])) = Cardinality(FS[p])
             /\ ToSet(Ascending(FS[p])) = FS[p] /\ IsInjective(Ascending(FS[p]))
             /\ Cardinality(FS[p]) \in 0 .. PageBytes
  <2>1. page[p].cls \in Classes
    BY <1>0, <1>3, PageFacts
  <2>2. FS[p] \in SUBSET (0 .. NSlots(page[p].cls) - 1)
    BY <1>3 DEF FreeSlots
  <2>3. QED
    BY <2>1, <2>2, FreeListFacts
<1>7. ASSUME NEW p \in ToSet(kept)
      PROVE  /\ \A i : SlotAddr(p, i)' = SlotAddr(p, i)
             /\ Used(p)' = {i \in 0 .. NSlots(page[p].cls) - 1 : SlotAddr(p, i) \in M}
             /\ page'[p].cls = page[p].cls
  <2>1. page'[p].cls = page[p].cls /\ ToSet(page'[p].free) = FS[p]
    BY <1>5, <1>6
  <2>2. \A i : SlotAddr(p, i)' = SlotAddr(p, i)
    BY <2>1 DEF SlotAddr
  <2>3. FS[p] = {i \in 0 .. NSlots(page[p].cls) - 1 : SlotAddr(p, i) \notin M}
    BY <1>3 DEF FreeSlots
  <2>4. Used(p)' = {i \in 0 .. NSlots(page[p].cls) - 1 : i \notin FS[p]}
    BY <2>1 DEF Used
  <2>5. QED
    BY <2>1, <2>2, <2>3, <2>4
<1>8. PagesOK'
  <2>1. ASSUME NEW p \in ToSet(kept)
        PROVE  page'[p] \in PageRecord /\ p % PageBytes = 0 /\ p + PageBytes <= MemTop
    <3>1. page'[p] \in PageRecord
      BY <1>5, <1>6 DEF PageRecord
    <3>2. QED
      BY <1>0, <1>3, <3>1 DEF PagesOK
  <2>2. QED
    BY <1>2, <1>4, <1>5, <2>1 DEF PagesOK
<1>9. /\ larges' \in Seq(Rec)
      /\ ToSet(larges') = {l \in ToSet(larges) : l.mem \in M}
      /\ \A i, j \in DOMAIN larges' : i < j =>
            \E a, b \in DOMAIN larges : a < b /\ larges'[i] = larges[a] /\ larges'[j] = larges[b]
  <2>1. larges \in Seq(Rec)
    BY <1>d, <1>0 DEF LargesOK
  <2>2. PICK S : S = {l \in ToSet(larges) : l.mem \in M}
    OBVIOUS
  <2>3. larges' = Kept(larges, S)
    BY <1>4, <2>2
  <2>4. /\ larges' \in Seq(Rec) /\ ToSet(larges') = ToSet(larges) \cap S
        /\ \A i, j \in DOMAIN larges' : i < j =>
              \E a, b \in DOMAIN larges : a < b /\ larges'[i] = larges[a] /\ larges'[j] = larges[b]
    BY <2>1, <2>3, KeptKeeps
  <2>5. QED
    BY <2>2, <2>4
<1>10. \A k \in DOMAIN larges' : larges'[k].mem \in M /\ \E j \in DOMAIN larges : larges'[k] = larges[j]
  BY <1>9 DEF ToSet
<1>11. \A k \in DOMAIN larges : larges[k].mem \in M => \E j \in DOMAIN larges' : larges'[j] = larges[k]
  BY <1>9 DEF ToSet
<1>12. LargesOK'
  <2>1. \A k \in DOMAIN larges' :
           MaxSmall < larges'[k].size /\ larges'[k].mem + larges'[k].size <= MemTop
    BY <1>0, <1>10 DEF LargesOK
  <2>2. \A j, k \in DOMAIN larges' : j < k => larges'[j].mem + larges'[j].size <= larges'[k].mem
    BY <1>0, <1>9 DEF LargesOK
  <2>3. QED
    BY <1>d, <1>9, <2>1, <2>2 DEF LargesOK
<1>13. Apart'
  BY <1>0, <1>3, <1>5, <1>10 DEF Apart
<1>14. FreeOK'
  <2>1. ASSUME NEW p \in ToSet(kept)
        PROVE  /\ ToSet(page'[p].free) \subseteq 0 .. NSlots(page'[p].cls) - 1
               /\ IsInjective(page'[p].free)
               /\ page'[p].nfree = Len(page'[p].free)
    BY <1>5, <1>6
  <2>2. QED
    BY <1>5, <2>1 DEF FreeOK
<1>15. AvailOK'
  <2>1. ASSUME NEW c \in Classes
        PROVE  /\ page_avail'[c] \in Seq(Addr) /\ IsInjective(page_avail'[c])
               /\ ToSet(page_avail'[c]) = {p \in DOMAIN page' : page'[p].cls = c /\ page'[p].nfree > 0}
    <3>1. PICK S : S = {p \in ToSet(kept) : page'[p].cls = c /\ page'[p].nfree > 0}
      OBVIOUS
    <3>2. PICK k : k = Kept(kept, S)
      OBVIOUS
    <3>3. k \in Seq(Addr) /\ IsInjective(k) /\ ToSet(k) = ToSet(kept) \cap S
      BY <1>2, <3>2, KeptKeeps
    <3>4. page_avail'[c] = Reverse(k)
      BY <1>4, <3>1, <3>2
    <3>5. Reverse(k) \in Seq(Addr) /\ ToSet(Reverse(k)) = ToSet(k) /\ IsInjective(Reverse(k))
      BY <3>3, ReverseFacts
    <3>6. QED
      BY <1>5, <3>1, <3>3, <3>4, <3>5
  <2>2. page_avail' = [c \in Classes |-> page_avail'[c]]
    BY <1>4
  <2>3. page_avail' \in [Classes -> Seq(Addr)]
    BY <2>1, <2>2
  <2>4. QED
    BY <2>1, <2>3 DEF AvailOK
<1>16. DOMAIN obj' = M /\ \A o \in M : obj'[o] = obj[o]
  BY <1>4
<1>17. ObjectsOK'
  <2>1. ASSUME NEW o \in M
        PROVE  \/ \E p \in DOMAIN page' : \E i \in Used(p)' : o = SlotAddr(p, i)'
               \/ \E k \in DOMAIN larges' : o = larges'[k].mem
    <3>1. ASSUME NEW p \in DOMAIN page, NEW i \in Used(p), o = SlotAddr(p, i)
          PROVE  \E q \in DOMAIN page' : \E j \in Used(q)' : o = SlotAddr(q, j)'
      <4>1. i \in 0 .. NSlots(page[p].cls) - 1
        BY DEF Used
      <4>2. o \in SlotsOf(p)
        BY <3>1, <4>1 DEF SlotsOf
      <4>3. p \in ToSet(kept)
        BY <1>2, <4>2
      <4>4. i \in Used(p)' /\ o = SlotAddr(p, i)'
        BY <1>7, <3>1, <4>1, <4>3
      <4>5. QED
        BY <1>5, <4>3, <4>4
    <3>2. ASSUME NEW k \in DOMAIN larges, o = larges[k].mem
          PROVE  \E j \in DOMAIN larges' : o = larges'[j].mem
      BY <1>11, <3>2
    <3>3. QED
      BY <1>0, <1>1, <3>1, <3>2 DEF ObjectsOK
  <2>2. ASSUME NEW p \in ToSet(kept), NEW i \in Used(p)'
        PROVE  SlotAddr(p, i)' \in DOMAIN obj' /\ obj'[SlotAddr(p, i)'] <= class_sizes[page'[p].cls]
    <3>1. /\ i \in 0 .. NSlots(page[p].cls) - 1 /\ SlotAddr(p, i) \in M
          /\ SlotAddr(p, i)' = SlotAddr(p, i) /\ page'[p].cls = page[p].cls /\ p \in DOMAIN page
      BY <1>3, <1>7
    <3>2. i \in Used(p)
      BY <1>1, <3>1, SlotIsUsed
    <3>3. QED
      BY <1>0, <1>16, <3>1, <3>2 DEF ObjectsOK
  <2>3. ASSUME NEW k \in DOMAIN larges'
        PROVE  larges'[k].mem \in DOMAIN obj' /\ obj'[larges'[k].mem] = larges'[k].size
    <3>1. PICK j \in DOMAIN larges : larges'[k] = larges[j]
      BY <1>10
    <3>2. larges'[k].mem \in M
      BY <1>10
    <3>3. QED
      BY <1>0, <1>16, <3>1, <3>2 DEF ObjectsOK
  <2>4. \A o \in M : obj'[o] \in Sizes
    BY <1>0, <1>1, <1>16 DEF ObjectsOK
  <2>5. QED
    BY <1>5, <1>16, <2>1, <2>2, <2>3, <2>4 DEF ObjectsOK
<1>18. HeadersOK'
  <2>1. ASSUME NEW p \in ToSet(kept), NEW i \in 0 .. NSlots(page[p].cls) - 1
        PROVE  SlotAddr(p, i) \in ti \ Dead <=> SlotAddr(p, i) \in M
    <3>1. p \in DOMAIN page /\ SlotAddr(p, i) \in SlotsOf(p)
      BY <1>3 DEF SlotsOf
    <3>2. CASE SlotAddr(p, i) \in M
      <4>1. i \in Used(p)
        BY <1>1, <3>1, <3>2, SlotIsUsed
      <4>2. SlotAddr(p, i) \in ti
        BY <1>0, <3>1, <4>1 DEF HeadersOK
      <4>3. SlotAddr(p, i) \notin Dead
        BY <1>c, <3>2
      <4>4. QED
        BY <3>2, <4>2, <4>3
    <3>3. CASE SlotAddr(p, i) \notin M
      <4>1. SlotsOf(p) \ M \in {SlotsOf(q) \ M : q \in DOMAIN page}
        BY <3>1
      <4>2. SlotAddr(p, i) \in Dead
        BY <1>c, <3>1, <3>3, <4>1
      <4>3. QED
        BY <3>3, <4>2
    <3>4. QED
      BY <3>2, <3>3
  <2>2. ASSUME NEW p \in DOMAIN page', NEW i \in 0 .. NSlots(page'[p].cls) - 1
        PROVE  SlotAddr(p, i)' \in ti' <=> i \in Used(p)'
    <3>1. /\ p \in ToSet(kept) /\ i \in 0 .. NSlots(page[p].cls) - 1
          /\ SlotAddr(p, i)' = SlotAddr(p, i)
          /\ Used(p)' = {j \in 0 .. NSlots(page[p].cls) - 1 : SlotAddr(p, j) \in M}
      BY <1>5, <1>7
    <3>2. QED
      BY <1>4, <2>1, <3>1
  <2>3. ti' \subseteq Addr
    BY <1>0, <1>4 DEF HeadersOK
  <2>4. QED
    BY <2>2, <2>3 DEF HeadersOK
<1>19. BoundsOK'
  <2>0. MemTop \in Nat /\ PageBytes \in Nat
    BY ClassFacts
  <2>1. \A p \in DOMAIN page' : p \in 0 .. MemTop /\ p + PageBytes \in 0 .. MemTop
    <3>1. ASSUME NEW p \in DOMAIN page PROVE p \in 0 .. MemTop /\ p + PageBytes \in 0 .. MemTop
      <4>1. p \in Nat /\ p + PageBytes <= MemTop
        BY <1>0, PageFacts
      <4>2. QED
        BY <2>0, <4>1
    <3>2. QED
      BY <1>3, <1>5, <3>1
  <2>2. \A l \in ToSet(larges') : l.mem \in 0 .. MemTop /\ l.mem + l.size \in 0 .. MemTop
    <3>1. ASSUME NEW k \in DOMAIN larges
          PROVE  larges[k].mem \in 0 .. MemTop /\ larges[k].mem + larges[k].size \in 0 .. MemTop
      <4>1. larges[k].mem \in Nat /\ larges[k].size \in Nat /\ larges[k].mem + larges[k].size <= MemTop
        BY <1>0, LargesFacts DEF LargesOK
      <4>2. QED
        BY <2>0, <4>1
    <3>2. QED
      BY <1>9, <3>1 DEF ToSet
  <2>3. PICK Lo : Lo = {MemTop} \cup DOMAIN page' \cup {l.mem : l \in ToSet(larges')}
    OBVIOUS
  <2>4. PICK Hi : Hi = {0} \cup {p + PageBytes : p \in DOMAIN page'}
                          \cup {l.mem + l.size : l \in ToSet(larges')}
    OBVIOUS
  <2>5. heap_lo' = Min(Lo) /\ heap_hi' = Max(Hi)
    BY <1>4, <2>3, <2>4 DEF ResetRange
  <2>6. Lo \in SUBSET (0 .. MemTop) /\ Lo # {} /\ Hi \in SUBSET (0 .. MemTop) /\ Hi # {}
    BY <2>0, <2>1, <2>2, <2>3, <2>4
  <2>7. /\ heap_lo' \in 0 .. MemTop /\ \A y \in Lo : heap_lo' <= y
        /\ heap_hi' \in 0 .. MemTop /\ \A y \in Hi : y <= heap_hi'
    BY <2>0, <2>5, <2>6, MinFacts, MaxFacts
  <2>8. \A p \in DOMAIN page' : p \in Lo /\ p + PageBytes \in Hi
    BY <2>3, <2>4
  <2>9. \A k \in DOMAIN larges' : larges'[k].mem \in Lo /\ larges'[k].mem + larges'[k].size \in Hi
    <3>1. \A k \in DOMAIN larges' : larges'[k] \in ToSet(larges')
      BY DEF ToSet
    <3>2. QED
      BY <2>3, <2>4, <3>1
  <2>10. QED
    BY <2>7, <2>8, <2>9 DEF BoundsOK
<1>20. WantOK'
  BY <1>0, <1>4 DEF WantOK
<1>21. QED
  BY <1>8, <1>12, <1>13, <1>14, <1>15, <1>17, <1>18, <1>19, <1>20 DEF IInv

LEMMA InitKeeps ==
  ASSUME Init
  PROVE  IInv
<1>1. /\ pages = <<>> /\ page = <<>> /\ larges = <<>> /\ obj = <<>> /\ ti = {}
      /\ page_avail = [c \in Classes |-> <<>>]
      /\ heap_lo = MemTop /\ heap_hi = 0 /\ pc = "run" /\ want = 0
      /\ stress = FALSE /\ allocated_since = 0
  BY DEF Init
<1>2. /\ DOMAIN page = {} /\ DOMAIN larges = {} /\ DOMAIN obj = {} /\ ToSet(pages) = {}
      /\ ToSet(<<>>) = {} /\ IsInjective(<<>>)
  BY <1>1 DEF ToSet, IsInjective
<1>3. MemTop \in Nat
  BY ClassFacts
<1>4. PagesOK /\ LargesOK /\ Apart /\ FreeOK
  BY <1>1, <1>2 DEF PagesOK, LargesOK, Apart, FreeOK
<1>5. AvailOK
  <2>1. page_avail \in [Classes -> Seq(Addr)]
    BY <1>1
  <2>2. QED
    BY <1>1, <1>2, <2>1 DEF AvailOK
<1>6. ObjectsOK /\ HeadersOK /\ BoundsOK
  BY <1>1, <1>2, <1>3 DEF ObjectsOK, HeadersOK, BoundsOK
<1>7. WantOK
  BY <1>1 DEF WantOK
<1>8. QED
  BY <1>4, <1>5, <1>6, <1>7 DEF IInv

LEMMA NextKeeps ==
  ASSUME IInv, [Next]_vars
  PROVE  IInv'
<1>0. WantOK
  BY DEF IInv
<1>1. ASSUME UNCHANGED <<registry, bounds, ti, obj>>, WantOK' PROVE IInv'
  BY <1>1, HeapStays DEF HeapOK, IInv
<1>2. ASSUME NEW on \in BOOLEAN, SetStress(on) PROVE IInv'
  BY <1>0, <1>1, <1>2 DEF SetStress, WantOK
<1>3. ASSUME NEW size \in Sizes, GcAlloc(size) PROVE IInv'
  BY <1>0, <1>1, <1>3 DEF GcAlloc, WantOK, policy
<1>4. CASE GcCollect
  BY <1>0, <1>1, <1>4 DEF GcCollect, WantOK, policy
<1>5. CASE OutOfMemory
  BY <1>0, <1>1, <1>5 DEF OutOfMemory, WantOK, policy
<1>6. CASE UNCHANGED vars
  BY <1>0, <1>1, <1>6 DEF vars, WantOK, policy
<1>7. QED
  BY <1>2, <1>3, <1>4, <1>5, <1>6, AllocSmallKeeps, AllocNewPageKeeps, AllocLargeKeeps, CollectKeeps
  DEF Next

-----------------------------------------------------------------------------
(* The theorems.                                                           *)

(* In every reachable state pages, large objects, free lists, class lists, *)
(* headers and the bounds of the heap describe the same set of objects.    *)
THEOREM Invariance == Spec => []IInv
<1>1. Init => IInv
  BY InitKeeps
<1>2. IInv /\ [Next]_vars => IInv'
  BY NextKeeps
<1>3. QED
  BY <1>1, <1>2, PTL DEF Spec

(* gc_alloc never hands out memory that an object still occupies, and      *)
(* never more than malloc gave: whatever the allocations, the addresses    *)
(* malloc chooses and what each collection marks.                          *)
THEOREM ObjectsDoNotOverlap == Spec => []NoOverlap
<1>1. IInv => NoOverlap
  BY EveryObjectIsFound
<1>2. QED
  BY <1>1, Invariance, PTL

(* find_object resolves every word that points at or into an object to     *)
(* that object and every other word to none: the conservative scan misses  *)
(* no reference and invents no object.                                     *)
THEOREM ResolutionIsExact == Spec => []FindsEveryObject
<1>1. IInv => FindsEveryObject
  BY EveryObjectIsFound
<1>2. QED
  BY <1>1, Invariance, PTL

(* alloc_small, new_page and sweep_pages keep free lists, nfree and the    *)
(* lists of pages with room exact: no slot is lost, none is free twice.    *)
THEOREM FreeListsStayExact == Spec => []FreeListsExact
<1>1. IInv => FreeListsExact
  BY FreeListsAreExact
<1>2. QED
  BY <1>1, Invariance, PTL

-----------------------------------------------------------------------------
(* The byte counts, which decide when the heap is collected, are exact: the  *)
(* sums are read as numbers of addresses.                                    *)

-----------------------------------------------------------------------------
(* Sums.                                                                   *)

(* P gives each element of S a set of f[x] cells, no two sharing one.      *)
Counts(P, S, f, A) ==
    /\ IsFiniteSet(S) /\ IsFiniteSet(A) /\ DOMAIN f = S
    /\ \A x \in S : P[x] \subseteq A /\ f[x] = Cardinality(P[x])
    /\ \A x, y \in S : x # y => P[x] \cap P[y] = {}

(* A sum of sizes of disjoint sets is the size of their union.             *)
LEMMA SumCounts ==
  ASSUME NEW P, NEW S, NEW f, NEW A, Counts(P, S, f, A)
  PROVE  /\ SumFunction(f) = Cardinality(UNION {P[x] : x \in S})
         /\ SumFunction(f) \in Nat
<1> DEFINE Cells(s) == UNION {P[x] : x \in s}
           Step(g) == [s \in SUBSET S |->
                         IF s = {} THEN 0
                         ELSE LET x == CHOOSE x \in s : TRUE IN f[x] + g[s \ {x}]]
           iter == CHOOSE g : g = Step(g)
           G == [s \in SUBSET S |-> Cardinality(Cells(s))]
<1>1. SumFunction(f) = iter[S]
  <2>1. DOMAIN f = S
    BY DEF Counts
  <2>2. SumFunction(f) =
          LET sum[s \in SUBSET (DOMAIN f)] ==
                  IF s = {} THEN 0 ELSE LET x == CHOOSE x \in s : TRUE IN f[x] + sum[s \ {x}]
          IN  sum[DOMAIN f]
    BY Zenon DEF SumFunction, SumFunctionOnSet, FoldFunctionOnSet, MapThenFoldSet
  <2>3. QED
    BY <2>1, <2>2, Zenon
<1>2. \A s \in SUBSET S : IsFiniteSet(Cells(s)) /\ Cardinality(Cells(s)) \in Nat /\ IsFiniteSet(s)
  <2>1. ASSUME NEW s \in SUBSET S
        PROVE  IsFiniteSet(Cells(s)) /\ Cardinality(Cells(s)) \in Nat /\ IsFiniteSet(s)
    <3>1. Cells(s) \in SUBSET A
      BY DEF Counts
    <3>2. IsFiniteSet(Cells(s)) /\ IsFiniteSet(s)
      <4> HIDE DEF Cells
      <4>1. QED
        BY <3>1, FS_Subset DEF Counts
    <3>3. QED
      BY <3>2, FS_CardinalityType
  <2>2. QED
    BY <2>1
<1>3. ASSUME NEW s \in SUBSET S, NEW x \in s
      PROVE  Cardinality(Cells(s)) = f[x] + Cardinality(Cells(s \ {x}))
  <2>1. s \ {x} \in SUBSET S /\ x \in S
    OBVIOUS
  <2>2. Cells(s) = P[x] \cup Cells(s \ {x})
    OBVIOUS
  <2>3. P[x] \cap Cells(s \ {x}) = {}
    BY DEF Counts
  <2>4. IsFiniteSet(P[x]) /\ f[x] = Cardinality(P[x]) /\ Cardinality(P[x]) \in Nat
    <3>1. P[x] \in SUBSET A /\ f[x] = Cardinality(P[x])
      BY DEF Counts
    <3>2. IsFiniteSet(P[x])
      BY <3>1, FS_Subset DEF Counts
    <3>3. QED
      BY <3>1, <3>2, FS_CardinalityType
  <2>5. IsFiniteSet(Cells(s \ {x})) /\ Cardinality(Cells(s \ {x})) \in Nat
    <3> HIDE DEF Cells
    <3>1. QED
      BY <1>2, <2>1
  <2> HIDE DEF Cells
  <2>6. Cardinality(Cells(s)) = Cardinality(P[x]) + Cardinality(Cells(s \ {x})) - Cardinality({})
    <3>1. PICK b : b = Cells(s \ {x})
      OBVIOUS
    <3>2. PICK a : a = P[x]
      OBVIOUS
    <3>3. IsFiniteSet(a) /\ IsFiniteSet(b) /\ a \cap b = {} /\ Cells(s) = a \cup b
      BY <2>2, <2>3, <2>4, <2>5, <3>1, <3>2
    <3>4. Cardinality(a \cup b) = Cardinality(a) + Cardinality(b) - Cardinality(a \cap b)
      BY <3>3, FS_Union
    <3>5. QED
      BY <3>1, <3>2, <3>3, <3>4
  <2>7. QED
    BY <2>4, <2>5, <2>6, FS_EmptySet
<1>4. Cardinality(Cells({})) = 0
  <2>1. Cells({}) = {}
    OBVIOUS
  <2>2. QED
    BY <2>1, FS_EmptySet
<1> HIDE DEF Cells
<1>5. G = Step(G)
  <2>1. ASSUME NEW s \in SUBSET S PROVE G[s] = Step(G)[s]
    <3>1. CASE s = {}
      BY <1>4, <3>1
    <3>2. CASE s # {}
      <4>1. PICK x : x = CHOOSE y \in s : TRUE
        OBVIOUS
      <4>2. x \in s /\ s \ {x} \in SUBSET S
        BY <3>2, <4>1
      <4>3. G[s] = f[x] + G[s \ {x}]
        BY <1>3, <4>2
      <4>4. Step(G)[s] = f[x] + G[s \ {x}]
        BY <3>2, <4>1
      <4>5. QED
        BY <4>3, <4>4
    <3>3. QED
      BY <3>1, <3>2
  <2>2. QED
    BY <2>1
<1>6. iter = Step(iter)
  <2> HIDE DEF G, Step
  <2>1. QED
    BY <1>5, Zenon
<1> HIDE DEF iter
<1>7. ASSUME NEW s \in SUBSET S PROVE /\ s = {} => iter[s] = 0
                                      /\ s # {} => \E x \in s : iter[s] = f[x] + iter[s \ {x}]
  <2>1. iter[s] = IF s = {} THEN 0 ELSE LET x == CHOOSE x \in s : TRUE IN f[x] + iter[s \ {x}]
    <3>1. iter[s] = Step(iter)[s]
      BY <1>6
    <3>2. QED
      BY <3>1
  <2>2. ASSUME s # {} PROVE \E x \in s : iter[s] = f[x] + iter[s \ {x}]
    <3>1. PICK x : x = CHOOSE y \in s : TRUE
      OBVIOUS
    <3>2. x \in s /\ iter[s] = f[x] + iter[s \ {x}]
      BY <2>1, <2>2, <3>1
    <3>3. QED
      BY <3>2
  <2>3. QED
    BY <2>1, <2>2
<1> DEFINE Bad == {s \in SUBSET S : iter[s] # Cardinality(Cells(s))}
           Counted == {Cardinality(s) : s \in Bad}
<1>8. Bad = {}
  <2>1. SUFFICES ASSUME Bad # {} PROVE FALSE
    OBVIOUS
  <2>2. Counted \in SUBSET Nat /\ Counted # {}
    BY <1>2, <2>1, FS_CardinalityType
  <2>3. PICK n \in Counted : \A m \in Counted : n <= m
    <3> HIDE DEF Counted
    <3>1. QED
      BY <2>2, LeastElement
  <2>4. PICK s \in Bad : Cardinality(s) = n
    OBVIOUS
  <2>5. s # {}
    BY <1>4, <1>7
  <2>6. PICK x \in s : iter[s] = f[x] + iter[s \ {x}]
    BY <1>7, <2>5
  <2>7. s \ {x} \notin Bad /\ s \ {x} \in SUBSET S
    <3>1. IsFiniteSet(s) /\ Cardinality(s \ {x}) = Cardinality(s) - 1
      BY <1>2, FS_RemoveElement
    <3>2. n \in Nat
      BY <2>2
    <3>3. ~(n <= Cardinality(s \ {x}))
      BY <2>4, <3>1, <3>2
    <3>4. QED
      BY <2>3, <3>3
  <2>8. iter[s \ {x}] = Cardinality(Cells(s \ {x}))
    BY <2>7
  <2>9. iter[s] = Cardinality(Cells(s))
    BY <1>3, <2>6, <2>8
  <2>10. QED
    BY <2>9
<1>9. S \in SUBSET S /\ iter[S] = Cardinality(Cells(S))
  BY <1>8
<1>10. QED
  BY <1>1, <1>2, <1>9 DEF Cells

-----------------------------------------------------------------------------
(* The inductive invariant.                                                *)

(* The bytes that objects take from their pages and from malloc.           *)
Occupied == UNION {Block(o, Footprint(o)) : o \in DOMAIN obj}

(* An object within a page is small and in a page of its size's class.     *)
HomeOK ==
    \A o \in DOMAIN obj : o - (o % PageBytes) \in DOMAIN page =>
        obj[o] <= MaxSmall /\ page[o - (o % PageBytes)].cls = ClassFor(obj[o])

(* The counters count the occupied bytes, and at most one object has been  *)
(* handed out since the threshold was reached.                             *)
CountersOK ==
    /\ live_bytes \in Nat /\ allocated_since \in Nat
    /\ live_bytes + allocated_since = Cardinality(Occupied)
    /\ threshold = NextThreshold(live_bytes)
    /\ pc = "place" => allocated_since < threshold
    /\ \/ allocated_since < threshold
       \/ \E o \in DOMAIN obj : allocated_since < threshold + Footprint(o)

AInv == IInv /\ HomeOK /\ CountersOK

LEMMA ThresholdIsPositive ==
  ASSUME NEW live \in Nat
  PROVE  NextThreshold(live) \in Nat \ {0}
BY PageHeapAssumption DEF NextThreshold

LEMMA BlockFacts ==
  ASSUME NEW m \in Nat, NEW n \in Nat
  PROVE  /\ IsFiniteSet(Block(m, n)) /\ Cardinality(Block(m, n)) = n
         /\ \A w : w \in Block(m, n) <=> w \in Nat /\ m <= w /\ w < m + n
<1>1. Block(m, n) = m .. m + n - 1
  BY DEF Block
<1>2. PICK k \in Int : k = m + n - 1
  OBVIOUS
<1>3. IsFiniteSet(m .. k) /\ Cardinality(m .. k) = IF m > k THEN 0 ELSE k - m + 1
  BY FS_Interval
<1>4. Cardinality(m .. k) = n
  BY <1>2, <1>3
<1>5. \A w : w \in m .. m + n - 1 <=> w \in Nat /\ m <= w /\ w < m + n
  OBVIOUS
<1>6. QED
  BY <1>1, <1>2, <1>3, <1>4, <1>5

(* A small object takes a slot of its page.                                *)
LEMMA FootprintOfSlot ==
  ASSUME IInv, HomeOK, NEW p \in DOMAIN page, NEW i \in Used(p)
  PROVE  Footprint(SlotAddr(p, i)) = class_sizes[page[p].cls]
<1>0. PagesOK /\ ObjectsOK
  BY DEF IInv
<1>1. i \in 0 .. NSlots(page[p].cls) - 1 /\ SlotAddr(p, i) \in DOMAIN obj
  BY <1>0 DEF Used, ObjectsOK
<1>2. PICK o : o = SlotAddr(p, i)
  OBVIOUS
<1>3. o \in Nat /\ p <= o /\ o < p + PageBytes
  <2>1. p \in Nat /\ PageBytes \in Nat
    BY <1>0, PageFacts, ClassFacts
  <2>2. QED
    BY <1>0, <1>1, <1>2, <2>1, SlotPlace
<1>4. o - (o % PageBytes) = p
  BY <1>0, <1>3, PageOf
<1>5. obj[o] <= MaxSmall /\ page[p].cls = ClassFor(obj[o])
  BY <1>1, <1>2, <1>4 DEF HomeOK
<1>6. QED
  BY <1>2, <1>5 DEF Footprint

(* A large object takes what was asked for.                                *)
LEMMA FootprintOfLarge ==
  ASSUME IInv, NEW k \in DOMAIN larges
  PROVE  Footprint(larges[k].mem) = larges[k].size
<1>0. LargesOK /\ ObjectsOK
  BY DEF IInv
<1>1. obj[larges[k].mem] = larges[k].size /\ MaxSmall < larges[k].size
  BY <1>0 DEF LargesOK, ObjectsOK
<1>2. larges[k].size \in Nat /\ MaxSmall \in Nat
  BY <1>0, LargesFacts, ClassFacts
<1>3. ~(larges[k].size <= MaxSmall)
  BY <1>1, <1>2
<1>4. QED
  BY <1>1, <1>3 DEF Footprint

(* The words of a slot or a large object in use are in malloc's memory and *)
(* resolve to the object.                                                  *)
LEMMA SlotWords ==
  ASSUME IInv, NEW p \in DOMAIN page, NEW i \in 0 .. NSlots(page[p].cls) - 1,
         NEW w \in Block(SlotAddr(p, i), class_sizes[page[p].cls])
  PROVE  /\ w \in Addr /\ w \in Reserved /\ p <= w /\ w < p + PageBytes
         /\ FindObject(w) = IF i \in Used(p) THEN SlotAddr(p, i) ELSE NoObj
<1>0. PagesOK
  BY DEF IInv
<1>1. /\ p \in Nat /\ PageBytes \in Nat /\ MemTop \in Nat /\ p + PageBytes <= MemTop
  BY <1>0, PageFacts, ClassFacts
<1>2. PICK o : o = SlotAddr(p, i)
  OBVIOUS
<1>3. PICK s : s = class_sizes[page[p].cls]
  OBVIOUS
<1>4. o \in Nat /\ p <= o /\ s \in Nat /\ o + s <= p + PageBytes
  BY <1>0, <1>2, <1>3, SlotPlace
<1>5. w \in Nat /\ o <= w /\ w < o + s
  BY <1>2, <1>3, <1>4, BlockFacts
<1>6. w \in Addr /\ p <= w /\ w < p + PageBytes
  BY <1>1, <1>4, <1>5 DEF Addr
<1>7. w \in Reserved
  <2> DEFINE Blocks == {Block(q, PageBytes) : q \in DOMAIN page}
  <2>1. w \in Block(p, PageBytes)
    BY <1>1, <1>5, <1>6, BlockFacts
  <2>2. Block(p, PageBytes) \in Blocks /\ UNION Blocks \subseteq Reserved
    BY DEF Reserved
  <2> HIDE DEF Blocks
  <2>3. QED
    BY <2>1, <2>2
<1>8. FindObject(w) = IF i \in Used(p) THEN SlotAddr(p, i) ELSE NoObj
  BY <1>2, <1>3, <1>5, FindInSlot
<1>9. QED
  BY <1>6, <1>7, <1>8

LEMMA LargeWords ==
  ASSUME IInv, NEW k \in DOMAIN larges, NEW w \in Block(larges[k].mem, larges[k].size)
  PROVE  /\ w \in Addr /\ w \in Reserved /\ larges[k].mem <= w
         /\ w < larges[k].mem + larges[k].size
         /\ FindObject(w) = larges[k].mem
<1>0. LargesOK
  BY DEF IInv
<1>1. larges[k].mem \in Nat /\ larges[k].size \in Nat /\ larges[k].mem + larges[k].size <= MemTop
  BY <1>0, LargesFacts DEF LargesOK
<1>2. w \in Nat /\ larges[k].mem <= w /\ w < larges[k].mem + larges[k].size
  BY <1>1, BlockFacts
<1>3. w \in Addr
  BY <1>1, <1>2, ClassFacts DEF Addr
<1>4. w \in Reserved
  <2> DEFINE Blocks == {Block(l.mem, l.size) : l \in ToSet(larges)}
  <2>1. larges[k] \in ToSet(larges)
    BY DEF ToSet
  <2>2. Block(larges[k].mem, larges[k].size) \in Blocks /\ UNION Blocks \subseteq Reserved
    BY <2>1 DEF Reserved
  <2> HIDE DEF Blocks
  <2>3. QED
    BY <2>2
<1>5. FindObject(w) = larges[k].mem
  BY <1>2, FindInLarge
<1>6. QED
  BY <1>2, <1>3, <1>4, <1>5

(* ... and so do all the bytes that an object takes.                       *)
LEMMA FootprintFacts ==
  ASSUME IInv, HomeOK, NEW o \in DOMAIN obj
  PROVE  /\ o \in Nat /\ Footprint(o) \in Nat \ {0}
         /\ \A w \in Block(o, Footprint(o)) : w \in Addr /\ w \in Reserved /\ FindObject(w) = o
<1>0. PagesOK /\ LargesOK /\ ObjectsOK
  BY DEF IInv
<1>1. o \in Nat
  BY FindsAll
<1>2. ASSUME NEW p \in DOMAIN page, NEW i \in Used(p), o = SlotAddr(p, i)
      PROVE  /\ Footprint(o) \in Nat \ {0}
             /\ \A w \in Block(o, Footprint(o)) : w \in Addr /\ w \in Reserved /\ FindObject(w) = o
  <2>1. i \in 0 .. NSlots(page[p].cls) - 1
    BY DEF Used
  <2>2. Footprint(o) = class_sizes[page[p].cls]
    BY <1>2, FootprintOfSlot
  <2>3. class_sizes[page[p].cls] \in Nat \ {0}
    BY <1>0, <2>1, SlotPlace
  <2>4. \A w \in Block(o, Footprint(o)) : w \in Addr /\ w \in Reserved /\ FindObject(w) = o
    BY <1>2, <2>1, <2>2, SlotWords
  <2>5. QED
    BY <2>2, <2>3, <2>4
<1>3. ASSUME NEW k \in DOMAIN larges, o = larges[k].mem
      PROVE  /\ Footprint(o) \in Nat \ {0}
             /\ \A w \in Block(o, Footprint(o)) : w \in Addr /\ w \in Reserved /\ FindObject(w) = o
  <2>1. Footprint(o) = larges[k].size
    BY <1>3, FootprintOfLarge
  <2>2. larges[k].size \in Nat \ {0}
    BY <1>0, LargesFacts
  <2>3. \A w \in Block(o, Footprint(o)) : w \in Addr /\ w \in Reserved /\ FindObject(w) = o
    BY <1>3, <2>1, LargeWords
  <2>4. QED
    BY <2>1, <2>2, <2>3
<1>4. QED
  BY <1>0, <1>1, <1>2, <1>3 DEF ObjectsOK

LEMMA AddrIsFinite == IsFiniteSet(Addr)
<1>1. MemTop - 1 \in Int
  BY ClassFacts
<1>2. QED
  BY <1>1, FS_Interval DEF Addr

(* The sum of all footprints is the number of occupied bytes.              *)
LEMMA FootprintsAdd ==
  ASSUME IInv, HomeOK
  PROVE  /\ Occupied \subseteq Addr /\ Occupied \subseteq Reserved
         /\ \A w \in Occupied : FindObject(w) \in DOMAIN obj
         /\ IsFiniteSet(Occupied) /\ Cardinality(Occupied) \in Nat
         /\ SumFunction([o \in DOMAIN obj |-> Footprint(o)]) = Cardinality(Occupied)
<1>1. /\ Occupied \subseteq Addr /\ Occupied \subseteq Reserved
      /\ \A w \in Occupied : FindObject(w) \in DOMAIN obj
  BY FootprintFacts DEF Occupied
<1>2. IsFiniteSet(Occupied) /\ Cardinality(Occupied) \in Nat
  BY <1>1, AddrIsFinite, FS_Subset, FS_CardinalityType
<1>3. PICK P : P = [o \in DOMAIN obj |-> Block(o, Footprint(o))]
  OBVIOUS
<1>4. PICK f : f = [o \in DOMAIN obj |-> Footprint(o)]
  OBVIOUS
<1>5. IsFiniteSet(DOMAIN obj)
  <2>1. DOMAIN obj \subseteq Addr
    <3>1. ASSUME NEW o \in DOMAIN obj PROVE o \in Addr
      <4>1. o \in Nat /\ Footprint(o) \in Nat \ {0}
        BY FootprintFacts
      <4>2. o \in Block(o, Footprint(o))
        BY <4>1, BlockFacts
      <4>3. QED
        BY <4>2, FootprintFacts
    <3>2. QED
      BY <3>1
  <2>2. QED
    BY <2>1, AddrIsFinite, FS_Subset
<1>6. ASSUME NEW o \in DOMAIN obj
      PROVE  P[o] \subseteq Addr /\ f[o] = Cardinality(P[o]) /\ \A w \in P[o] : FindObject(w) = o
  <2>1. o \in Nat /\ Footprint(o) \in Nat
    BY FootprintFacts
  <2>2. P[o] = Block(o, Footprint(o)) /\ f[o] = Footprint(o)
    BY <1>3, <1>4
  <2>3. QED
    BY <2>1, <2>2, BlockFacts, FootprintFacts
<1>7. \A o, q \in DOMAIN obj : o # q => P[o] \cap P[q] = {}
  BY <1>6
<1>8. DOMAIN f = DOMAIN obj
  BY <1>4
<1>9. Counts(P, DOMAIN obj, f, Addr)
  BY <1>5, <1>6, <1>7, <1>8, AddrIsFinite DEF Counts
<1>10. UNION {P[o] : o \in DOMAIN obj} = Occupied
  BY <1>3 DEF Occupied
<1>11. SumFunction(f) = Cardinality(Occupied)
  BY <1>9, <1>10, SumCounts
<1>12. QED
  BY <1>1, <1>2, <1>4, <1>11

-----------------------------------------------------------------------------
(* Every step keeps the counts.                                            *)

(* An object of n bytes is handed out at o.                                *)
Grows(o, n) ==
    /\ obj' = [y \in DOMAIN obj \cup {o} |-> IF y = o THEN want ELSE obj[y]]
    /\ n = IF want <= MaxSmall THEN class_sizes[ClassFor(want)] ELSE want
    /\ Block(o, n) \subseteq Addr /\ Block(o, n) \cap Occupied = {}
    /\ pc = "place" /\ pc' = "run"
    /\ allocated_since' = allocated_since + n
    /\ live_bytes' = live_bytes /\ threshold' = threshold

LEMMA GrowthIsCounted ==
  ASSUME AInv, NEW o \in Nat, NEW n \in Nat \ {0}, Grows(o, n)
  PROVE  CountersOK'
<1>0. IInv /\ HomeOK /\ CountersOK
  BY DEF AInv
<1>1. o \notin DOMAIN obj
  <2>1. SUFFICES ASSUME o \in DOMAIN obj PROVE FALSE
    OBVIOUS
  <2>2. Footprint(o) \in Nat \ {0}
    BY <1>0, <2>1, FootprintFacts
  <2>3. o \in Block(o, Footprint(o)) /\ o \in Block(o, n)
    BY <2>2, BlockFacts
  <2>4. o \in Occupied
    BY <2>1, <2>3 DEF Occupied
  <2>5. QED
    BY <2>3, <2>4 DEF Grows
<1>2. /\ DOMAIN obj' = DOMAIN obj \cup {o} /\ obj'[o] = want
      /\ \A q \in DOMAIN obj : obj'[q] = obj[q]
  BY <1>1 DEF Grows
<1>3. Footprint(o)' = n /\ \A q \in DOMAIN obj : Footprint(q)' = Footprint(q)
  BY <1>2 DEF Grows, Footprint
<1>4. Occupied' = Occupied \cup Block(o, n)
  <2>1. Occupied' = UNION {Block(q, Footprint(q)') : q \in DOMAIN obj'}
    BY DEF Occupied, Block
  <2>2. \A w : w \in Occupied' <=> \E q \in DOMAIN obj' : w \in Block(q, Footprint(q)')
    BY <2>1
  <2>3. \A w : w \in Occupied <=> \E q \in DOMAIN obj : w \in Block(q, Footprint(q))
    BY DEF Occupied
  <2>4. \A w : w \in Occupied' <=> w \in Occupied \/ w \in Block(o, n)
    BY <1>2, <1>3, <2>2, <2>3
  <2>5. QED
    BY <2>4
<1>5. Cardinality(Occupied') = Cardinality(Occupied) + n /\ Cardinality(Occupied) \in Nat
  <2>1. PICK A : A = Occupied
    OBVIOUS
  <2>2. PICK B : B = Block(o, n)
    OBVIOUS
  <2>3. IsFiniteSet(A) /\ Cardinality(A) \in Nat
    BY <1>0, <2>1, FootprintsAdd
  <2>4. IsFiniteSet(B) /\ Cardinality(B) = n /\ A \cap B = {}
    BY <2>1, <2>2, BlockFacts DEF Grows
  <2>5. Cardinality(A \cup B) = Cardinality(A) + Cardinality(B) - Cardinality(A \cap B)
    BY <2>3, <2>4, FS_Union
  <2>6. QED
    BY <1>4, <2>1, <2>2, <2>3, <2>4, <2>5, FS_EmptySet
<1>6. /\ live_bytes' \in Nat /\ allocated_since' \in Nat
      /\ live_bytes' + allocated_since' = Cardinality(Occupied')
  BY <1>0, <1>5 DEF CountersOK, Grows
<1>7. threshold' = NextThreshold(live_bytes') /\ threshold \in Nat
  BY <1>0, ThresholdIsPositive DEF CountersOK, Grows
<1>8. o \in DOMAIN obj' /\ allocated_since' < threshold' + Footprint(o)'
  <2>1. allocated_since < threshold /\ allocated_since \in Nat
    BY <1>0 DEF CountersOK, Grows
  <2>2. allocated_since' = allocated_since + n /\ threshold' = threshold
    BY DEF Grows
  <2>3. QED
    BY <1>2, <1>3, <1>7, <2>1, <2>2
<1>9. NextThreshold(live_bytes)' = NextThreshold(live_bytes')
  BY DEF NextThreshold
<1>10. pc' # "place"
  BY DEF Grows
<1>11. QED
  BY <1>6, <1>7, <1>8, <1>9, <1>10 DEF CountersOK

LEMMA AllocSmallCounts ==
  ASSUME AInv, AllocSmall
  PROVE  HomeOK' /\ CountersOK'
<1>a. PICK cls : cls = ClassFor(want)
  OBVIOUS
<1>b. PICK p : p = Head(page_avail[cls])
  OBVIOUS
<1>c. PICK i : i = Head(page[p].free)
  OBVIOUS
<1>d. PICK o : o = SlotAddr(p, i)
  OBVIOUS
<1>e. PICK left : left = [page[p] EXCEPT !.free = Tail(page[p].free), !.nfree = page[p].nfree - 1]
  OBVIOUS
<1>0. /\ IInv /\ HomeOK /\ CountersOK
      /\ PagesOK /\ FreeOK /\ AvailOK /\ ObjectsOK /\ WantOK
  BY DEF AInv, IInv
<1>1. /\ pc = "place" /\ want <= MaxSmall /\ page_avail[cls] # <<>>
      /\ obj' = [y \in DOMAIN obj \cup {o} |-> IF y = o THEN want ELSE obj[y]] /\ pc' = "run"
      /\ page' = [y \in DOMAIN page \cup {p} |-> IF y = p THEN left ELSE page[y]]
      /\ allocated_since' = allocated_since + class_sizes[cls]
      /\ live_bytes' = live_bytes /\ threshold' = threshold
  BY <1>a, <1>b, <1>c, <1>d, <1>e DEF AllocSmall, Place, AllocFromPage, With
<1>2. want \in Nat /\ cls \in Classes /\ class_sizes[cls] \in Nat \ {0}
  <2>1. want \in Nat
    BY <1>0, <1>1, PageHeapAssumption DEF WantOK
  <2>2. cls \in Classes
    BY <1>a, <1>1, <2>1, ClassFits
  <2>3. QED
    BY <2>1, <2>2, ClassFacts
<1>3. p \in DOMAIN page /\ page[p].cls = cls /\ page[p].nfree > 0
  <2>1. page_avail[cls] \in Seq(Addr) /\ IsInjective(page_avail[cls])
    BY <1>0, <1>2 DEF AvailOK
  <2>2. p \in ToSet(page_avail[cls])
    BY <1>b, <1>1, <2>1, TailFacts
  <2>3. QED
    BY <1>0, <1>2, <2>2 DEF AvailOK
<1>4. i \in ToSet(page[p].free) /\ i \in 0 .. NSlots(page[p].cls) - 1
  <2>1. /\ page[p].free \in Seq(0 .. PageBytes) /\ page[p].nfree = Len(page[p].free)
        /\ IsInjective(page[p].free) /\ page[p].nfree \in Nat
        /\ ToSet(page[p].free) \subseteq 0 .. NSlots(page[p].cls) - 1
    BY <1>0, <1>3, PageFacts DEF FreeOK
  <2>2. page[p].free # <<>>
    BY <1>3, <2>1, EmptySeq
  <2>3. QED
    BY <1>c, <2>1, <2>2, TailFacts
<1>5. i \notin Used(p)
  BY <1>4 DEF Used
<1>6. \A w \in Block(o, class_sizes[cls]) : w \in Addr /\ FindObject(w) = NoObj
  BY <1>0, <1>d, <1>3, <1>4, <1>5, SlotWords
<1>7. Block(o, class_sizes[cls]) \cap Occupied = {}
  <2>1. ASSUME NEW w \in Block(o, class_sizes[cls]), w \in Occupied PROVE FALSE
    <3>1. FindObject(w) \in DOMAIN obj /\ FindObject(w) = NoObj
      BY <1>0, <1>6, <2>1, FootprintsAdd
    <3>2. NoObj \in Nat
      BY <1>0, <3>1, FindsAll
    <3>3. QED
      BY <3>2, PageHeapAssumption
  <2>2. QED
    BY <2>1
<1>8. o \in Nat /\ p <= o /\ o < p + PageBytes
  <2>1. p \in Nat /\ PageBytes \in Nat
    BY <1>0, <1>3, PageFacts, ClassFacts
  <2>2. QED
    BY <1>0, <1>d, <1>3, <1>4, <2>1, SlotPlace
<1>9. CountersOK'
  <2>1. Grows(o, class_sizes[cls])
    BY <1>a, <1>1, <1>6, <1>7 DEF Grows
  <2>2. QED
    BY <1>2, <1>8, <2>1, GrowthIsCounted
<1>10. HomeOK'
  <2>1. DOMAIN page' = DOMAIN page /\ \A q \in DOMAIN page : page'[q].cls = page[q].cls
    <3>1. DOMAIN page' = DOMAIN page
      BY <1>1, <1>3
    <3>2. left.cls = page[p].cls
      <4>1. page[p] \in PageRecord
        BY <1>0, <1>3 DEF PagesOK
      <4>2. QED
        BY <1>e, <4>1 DEF PageRecord
    <3>3. QED
      BY <1>1, <3>1, <3>2
  <2>2. o - (o % PageBytes) = p
    BY <1>0, <1>3, <1>8, PageOf
  <2>3. ASSUME NEW a \in DOMAIN obj', a - (a % PageBytes) \in DOMAIN page'
        PROVE  obj'[a] <= MaxSmall /\ page'[a - (a % PageBytes)].cls = ClassFor(obj'[a])
    <3>1. CASE a = o
      <4>1. obj'[a] = want /\ page'[p].cls = cls
        BY <1>1, <1>3, <2>1, <3>1
      <4>2. QED
        BY <1>a, <1>1, <2>2, <3>1, <4>1
    <3>2. CASE a # o
      <4>1. a \in DOMAIN obj /\ obj'[a] = obj[a]
        BY <1>1, <3>2
      <4>2. a - (a % PageBytes) \in DOMAIN page
        BY <2>1, <2>3
      <4>3. QED
        BY <1>0, <2>1, <4>1, <4>2 DEF HomeOK
    <3>3. QED
      BY <3>1, <3>2
  <2>4. QED
    BY <2>3 DEF HomeOK
<1>11. QED
  BY <1>9, <1>10

(* An object's address is in the memory that malloc gave.                  *)
LEMMA ObjectsAreReserved ==
  ASSUME IInv, NEW o \in DOMAIN obj
  PROVE  o \in Nat /\ o \in Reserved
<1>1. o \in Nat /\ obj[o] \in Nat \ {0} /\ Block(o, obj[o]) \subseteq Reserved
  BY FindsAll
<1>2. QED
  BY <1>1, BlockFacts

(* A word whose page exists is in the memory that malloc gave.             *)
LEMMA PagesAreReserved ==
  ASSUME IInv, NEW w \in Nat, w - (w % PageBytes) \in DOMAIN page
  PROVE  w \in Reserved
<1>1. PICK p \in DOMAIN page : p = w - (w % PageBytes)
  OBVIOUS
<1>2. w % PageBytes \in Nat /\ w % PageBytes < PageBytes /\ PageBytes \in Nat /\ p \in Nat
  BY ClassFacts, QuotientFacts, PageFacts DEF IInv
<1>3. p <= w /\ w < p + PageBytes
  BY <1>1, <1>2
<1>4. w \in Block(p, PageBytes)
  BY <1>2, <1>3, BlockFacts
<1> DEFINE Blocks == {Block(q, PageBytes) : q \in DOMAIN page}
<1>5. Block(p, PageBytes) \in Blocks /\ UNION Blocks \subseteq Reserved
  BY DEF Reserved
<1> HIDE DEF Blocks
<1>6. QED
  BY <1>4, <1>5

LEMMA AllocNewPageCounts ==
  ASSUME AInv, NEW mem \in Addr, AllocNewPage(mem)
  PROVE  HomeOK' /\ CountersOK'
<1>a. PICK cls : cls = ClassFor(want)
  OBVIOUS
<1>b. PICK left : left = [FreshPage(cls) EXCEPT !.free = Tail(FreshPage(cls).free),
                                                !.nfree = FreshPage(cls).nfree - 1]
  OBVIOUS
<1>0. IInv /\ HomeOK /\ CountersOK /\ PagesOK /\ WantOK
  BY DEF AInv, IInv
<1>1. /\ pc = "place" /\ want <= MaxSmall /\ mem % PageBytes = 0 /\ Free(mem, PageBytes)
      /\ obj' = [y \in DOMAIN obj \cup {mem} |-> IF y = mem THEN want ELSE obj[y]] /\ pc' = "run"
      /\ page' = [y \in DOMAIN page \cup {mem} |-> IF y = mem THEN left ELSE page[y]]
      /\ allocated_since' = allocated_since + class_sizes[cls]
      /\ live_bytes' = live_bytes /\ threshold' = threshold
  BY <1>a, <1>b DEF AllocNewPage, Place, AllocFromPage, With
<1>2. want \in Nat /\ cls \in Classes /\ class_sizes[cls] \in 1 .. PageBytes
      /\ mem \in Nat /\ PageBytes \in Nat \ {0}
  <2>1. want \in Nat
    BY <1>0, <1>1, PageHeapAssumption DEF WantOK
  <2>2. cls \in Classes
    BY <1>a, <1>1, <2>1, ClassFits
  <2>3. QED
    BY <2>1, <2>2, ClassFacts DEF Addr
<1>3. /\ Block(mem, PageBytes) \subseteq Addr /\ Block(mem, PageBytes) \cap Reserved = {}
      /\ Block(mem, class_sizes[cls]) \subseteq Block(mem, PageBytes)
  <2>1. Block(mem, PageBytes) \subseteq Addr /\ Block(mem, PageBytes) \cap Reserved = {}
    BY <1>1 DEF Free
  <2>2. ASSUME NEW w \in Block(mem, class_sizes[cls]) PROVE w \in Block(mem, PageBytes)
    <3>1. class_sizes[cls] \in Nat /\ class_sizes[cls] <= PageBytes
      BY <1>2
    <3>2. w \in Nat /\ mem <= w /\ w < mem + class_sizes[cls]
      BY <1>2, <3>1, BlockFacts
    <3>3. w < mem + PageBytes
      BY <1>2, <3>1, <3>2
    <3>4. QED
      BY <1>2, <3>2, <3>3, BlockFacts
  <2>3. QED
    BY <2>1, <2>2
<1>4. CountersOK'
  <2>1. Block(mem, class_sizes[cls]) \cap Occupied = {}
    BY <1>0, <1>3, FootprintsAdd
  <2>2. Grows(mem, class_sizes[cls])
    BY <1>a, <1>1, <1>3, <2>1 DEF Grows
  <2>3. class_sizes[cls] \in Nat \ {0}
    BY <1>2
  <2>4. QED
    BY <1>2, <2>2, <2>3, GrowthIsCounted
<1>5. HomeOK'
  <2>1. left.cls = cls
    BY <1>b DEF FreshPage
  <2>2. mem \in Block(mem, PageBytes)
    BY <1>2, BlockFacts
  <2>3. mem \notin DOMAIN obj
    BY <1>0, <1>3, <2>2, ObjectsAreReserved
  <2>4. mem - (mem % PageBytes) = mem
    BY <1>1, <1>2
  <2>5. ASSUME NEW a \in DOMAIN obj', a - (a % PageBytes) \in DOMAIN page'
        PROVE  obj'[a] <= MaxSmall /\ page'[a - (a % PageBytes)].cls = ClassFor(obj'[a])
    <3>1. CASE a = mem
      <4>1. obj'[a] = want /\ page'[mem].cls = cls
        BY <1>1, <2>1, <3>1
      <4>2. QED
        BY <1>a, <1>1, <2>4, <3>1, <4>1
    <3>2. CASE a # mem
      <4>1. a \in DOMAIN obj /\ obj'[a] = obj[a]
        BY <1>1, <3>2
      <4>2. a - (a % PageBytes) # mem
        <5>1. SUFFICES ASSUME a - (a % PageBytes) = mem PROVE FALSE
          OBVIOUS
        <5>2. a \in Nat /\ a \in Reserved
          BY <1>0, <4>1, ObjectsAreReserved
        <5>3. a % PageBytes \in Nat /\ a % PageBytes < PageBytes
          BY <1>2, <5>2, QuotientFacts
        <5>4. mem <= a /\ a < mem + PageBytes
          BY <1>2, <5>1, <5>2, <5>3
        <5>5. a \in Block(mem, PageBytes)
          BY <1>2, <5>2, <5>4, BlockFacts
        <5>6. QED
          BY <1>3, <5>2, <5>5
      <4>3. /\ a - (a % PageBytes) \in DOMAIN page
            /\ page'[a - (a % PageBytes)] = page[a - (a % PageBytes)]
        BY <1>1, <2>5, <4>2
      <4>4. QED
        BY <1>0, <4>1, <4>3 DEF HomeOK
    <3>3. QED
      BY <3>1, <3>2
  <2>6. QED
    BY <2>5 DEF HomeOK
<1>6. QED
  BY <1>4, <1>5

LEMMA AllocLargeCounts ==
  ASSUME AInv, NEW mem \in Addr, AllocLarge(mem)
  PROVE  HomeOK' /\ CountersOK'
<1>0. IInv /\ HomeOK /\ CountersOK /\ WantOK
  BY DEF AInv, IInv
<1>1. /\ pc = "place" /\ want > MaxSmall /\ Free(mem, want)
      /\ obj' = [y \in DOMAIN obj \cup {mem} |-> IF y = mem THEN want ELSE obj[y]] /\ pc' = "run"
      /\ page' = page /\ allocated_since' = allocated_since + want
      /\ live_bytes' = live_bytes /\ threshold' = threshold
  BY DEF AllocLarge, Place, With
<1>2. want \in Nat \ {0} /\ mem \in Nat /\ ~(want <= MaxSmall)
  <2>1. want \in Nat \ {0}
    BY <1>0, <1>1, PageHeapAssumption DEF WantOK
  <2>2. QED
    BY <1>1, <2>1, ClassFacts DEF Addr
<1>3. Block(mem, want) \subseteq Addr /\ Block(mem, want) \cap Reserved = {}
  BY <1>1 DEF Free
<1>4. CountersOK'
  <2>1. Block(mem, want) \cap Occupied = {}
    BY <1>0, <1>3, FootprintsAdd
  <2>2. Grows(mem, want)
    BY <1>1, <1>2, <1>3, <2>1 DEF Grows
  <2>3. QED
    BY <1>2, <2>2, GrowthIsCounted
<1>5. HomeOK'
  <2>1. mem \in Block(mem, want)
    BY <1>2, BlockFacts
  <2>2. mem - (mem % PageBytes) \notin DOMAIN page
    BY <1>0, <1>2, <1>3, <2>1, PagesAreReserved
  <2>3. ASSUME NEW a \in DOMAIN obj', a - (a % PageBytes) \in DOMAIN page'
        PROVE  obj'[a] <= MaxSmall /\ page'[a - (a % PageBytes)].cls = ClassFor(obj'[a])
    <3>1. a # mem
      BY <1>1, <2>2, <2>3
    <3>2. a \in DOMAIN obj /\ obj'[a] = obj[a]
      BY <1>1, <3>1
    <3>3. QED
      BY <1>0, <1>1, <2>3, <3>2 DEF HomeOK
  <2>4. QED
    BY <2>3 DEF HomeOK
<1>6. QED
  BY <1>4, <1>5

(* The sweep's sum over the marked slots is the number of their bytes.     *)
SlotBytes(M) ==
    UNION {Block(SlotAddr(r[1], r[2]), class_sizes[page[r[1]].cls]) : r \in MarkedSlots(M)}

LEMMA MarkedSlotFacts ==
  ASSUME IInv, NEW M, M \subseteq DOMAIN obj, NEW r \in MarkedSlots(M)
  PROVE  /\ r = <<r[1], r[2]>> /\ r[1] \in DOMAIN page /\ r[2] \in Used(r[1])
         /\ r[2] \in 0 .. NSlots(page[r[1]].cls) - 1
         /\ SlotAddr(r[1], r[2]) \in M
<1>1. PICK p \in DOMAIN page :
          r \in {p} \X {i \in 0 .. NSlots(page[p].cls) - 1 : SlotAddr(p, i) \in M}
  BY DEF MarkedSlots
<1>2. /\ r = <<r[1], r[2]>> /\ r[1] = p /\ r[2] \in 0 .. NSlots(page[p].cls) - 1
      /\ SlotAddr(p, r[2]) \in M
  BY <1>1
<1>3. r[2] \in Used(p)
  BY <1>2, SlotIsUsed
<1>4. QED
  BY <1>2, <1>3

LEMMA SlotsAdd ==
  ASSUME AInv, NEW M, M \subseteq DOMAIN obj
  PROVE  /\ SumFunction([r \in MarkedSlots(M) |-> class_sizes[page[r[1]].cls]]) = Cardinality(SlotBytes(M))
         /\ SlotBytes(M) \subseteq Addr
<1>0. IInv /\ PagesOK
  BY DEF AInv, IInv
<1>1. PICK S : S = MarkedSlots(M)
  OBVIOUS
<1>2. PICK P : P = [r \in S |-> Block(SlotAddr(r[1], r[2]), class_sizes[page[r[1]].cls])]
  OBVIOUS
<1>3. PICK f : f = [r \in S |-> class_sizes[page[r[1]].cls]]
  OBVIOUS
<1>4. ASSUME NEW r \in S
      PROVE  /\ r = <<r[1], r[2]>> /\ r[1] \in DOMAIN page
             /\ r[2] \in 0 .. NSlots(page[r[1]].cls) - 1
             /\ P[r] \subseteq Addr /\ f[r] = Cardinality(P[r])
             /\ \A w \in P[r] : FindObject(w) = SlotAddr(r[1], r[2])
  <2>1. PICK p \in DOMAIN page : p = r[1]
    BY <1>0, <1>1, MarkedSlotFacts
  <2>2. PICK i \in Used(p) : i = r[2]
    BY <1>0, <1>1, <2>1, MarkedSlotFacts
  <2>3. r = <<r[1], r[2]>> /\ i \in 0 .. NSlots(page[p].cls) - 1
    BY <1>0, <1>1, <2>2, MarkedSlotFacts DEF Used
  <2>4. P[r] = Block(SlotAddr(p, i), class_sizes[page[p].cls]) /\ f[r] = class_sizes[page[p].cls]
    BY <1>2, <1>3, <2>1, <2>2
  <2>5. SlotAddr(p, i) \in Nat /\ class_sizes[page[p].cls] \in Nat
    BY <1>0, <2>3, SlotPlace
  <2>6. f[r] = Cardinality(P[r])
    BY <2>4, <2>5, BlockFacts
  <2>7. \A w \in P[r] : w \in Addr /\ FindObject(w) = SlotAddr(p, i)
    BY <1>0, <2>2, <2>3, <2>4, SlotWords
  <2>8. QED
    BY <2>1, <2>2, <2>3, <2>6, <2>7
<1>5. ASSUME NEW r \in S, NEW q \in S, NEW w \in P[r], w \in P[q] PROVE r = q
  <2>1. SlotAddr(r[1], r[2]) = SlotAddr(q[1], q[2])
    BY <1>4, <1>5
  <2>2. r[1] = q[1] /\ r[2] = q[2]
    BY <1>0, <1>4, <2>1, SlotsDiffer
  <2>3. QED
    BY <1>4, <2>2
<1>6. IsFiniteSet(S)
  <2>1. PICK T : T = Addr \X (0 .. PageBytes)
    OBVIOUS
  <2>2. IsFiniteSet(T)
    <3>1. IsFiniteSet(0 .. PageBytes)
      BY ClassFacts, FS_Interval
    <3>2. QED
      BY <2>1, <3>1, AddrIsFinite, FS_Product
  <2>3. ASSUME NEW r \in S PROVE r \in T
    <3>1. r[1] \in Addr /\ page[r[1]].cls \in Classes
      BY <1>0, <1>4, PageFacts
    <3>2. NSlots(page[r[1]].cls) \in 1 .. PageBytes
      BY <3>1, SlotFacts
    <3>3. r[2] \in 0 .. PageBytes
      BY <1>4, <3>2, ClassFacts
    <3>4. QED
      BY <1>4, <2>1, <3>1, <3>3
  <2>4. QED
    BY <2>2, <2>3, FS_Subset
<1>7. Counts(P, S, f, Addr)
  <2>1. DOMAIN f = S
    BY <1>3
  <2>2. QED
    BY <1>4, <1>5, <1>6, <2>1, AddrIsFinite DEF Counts
<1>8. UNION {P[r] : r \in S} = SlotBytes(M)
  BY <1>1, <1>2 DEF SlotBytes
<1>9. SumFunction(f) = Cardinality(SlotBytes(M))
  BY <1>7, <1>8, SumCounts
<1>10. SlotBytes(M) \subseteq Addr
  BY <1>4, <1>8
<1>11. QED
  BY <1>1, <1>3, <1>9, <1>10

(* ... and its sum over the marked large objects that of theirs.           *)
MarkedLarges(M) == {l \in ToSet(larges) : l.mem \in M}
LargeBytes(M)   == UNION {Block(l.mem, l.size) : l \in MarkedLarges(M)}

LEMMA LargesAdd ==
  ASSUME AInv, NEW M
  PROVE  /\ SumFunction([l \in MarkedLarges(M) |-> l.size]) = Cardinality(LargeBytes(M))
         /\ LargeBytes(M) \subseteq Addr
<1>0. IInv /\ LargesOK
  BY DEF AInv, IInv
<1>1. PICK S : S = MarkedLarges(M)
  OBVIOUS
<1>2. PICK P : P = [l \in S |-> Block(l.mem, l.size)]
  OBVIOUS
<1>3. PICK f : f = [l \in S |-> l.size]
  OBVIOUS
<1>4. \A l \in S : \E k \in DOMAIN larges : l = larges[k]
  BY <1>1 DEF MarkedLarges, ToSet
<1>5. ASSUME NEW l \in S
      PROVE  /\ P[l] \subseteq Addr /\ f[l] = Cardinality(P[l])
             /\ \A w \in P[l] : FindObject(w) = l.mem
  <2>1. PICK k \in DOMAIN larges : l = larges[k]
    BY <1>4
  <2>2. P[l] = Block(larges[k].mem, larges[k].size) /\ f[l] = larges[k].size
    BY <1>2, <1>3, <2>1
  <2>3. larges[k].mem \in Nat /\ larges[k].size \in Nat
    BY <1>0, LargesFacts
  <2>4. f[l] = Cardinality(P[l])
    BY <2>2, <2>3, BlockFacts
  <2>5. \A w \in P[l] : w \in Addr /\ FindObject(w) = larges[k].mem
    BY <1>0, <2>2, LargeWords
  <2>6. QED
    BY <2>1, <2>4, <2>5
<1>6. ASSUME NEW l \in S, NEW m \in S, NEW w \in P[l], w \in P[m] PROVE l = m
  <2>1. l.mem = m.mem
    BY <1>5, <1>6
  <2>2. PICK j \in DOMAIN larges : l = larges[j]
    BY <1>4
  <2>3. PICK k \in DOMAIN larges : m = larges[k]
    BY <1>4
  <2>4. /\ j \in Nat /\ k \in Nat /\ larges[j].mem \in Nat /\ larges[k].mem \in Nat
        /\ j < k => larges[j].mem < larges[k].mem
        /\ k < j => larges[k].mem < larges[j].mem
    BY <1>0, LargesFacts
  <2>5. j = k
    BY <2>1, <2>2, <2>3, <2>4
  <2>6. QED
    BY <2>2, <2>3, <2>5
<1>7. IsFiniteSet(S)
  <2>1. PICK D : D = DOMAIN larges
    OBVIOUS
  <2>2. IsFiniteSet(D)
    BY <1>0, <2>1, LargesFacts, FS_Interval
  <2>3. larges \in Surjection(D, ToSet(larges))
    <3>1. larges \in [D -> ToSet(larges)]
      BY <1>0, <2>1, LargesFacts DEF ToSet, LargesOK
    <3>2. \A l \in ToSet(larges) : \E k \in D : larges[k] = l
      BY <2>1 DEF ToSet
    <3>3. QED
      BY <3>1, <3>2 DEF Surjection
  <2>4. IsFiniteSet(ToSet(larges))
    BY <2>2, <2>3, FS_Surjection
  <2>5. S \in SUBSET ToSet(larges)
    BY <1>1 DEF MarkedLarges
  <2>6. QED
    BY <2>4, <2>5, FS_Subset
<1>8. Counts(P, S, f, Addr)
  <2>1. DOMAIN f = S
    BY <1>3
  <2>2. QED
    BY <1>5, <1>6, <1>7, <2>1, AddrIsFinite DEF Counts
<1>9. UNION {P[l] : l \in S} = LargeBytes(M)
  BY <1>1, <1>2 DEF LargeBytes
<1>10. SumFunction(f) = Cardinality(LargeBytes(M))
  BY <1>8, <1>9, SumCounts
<1>11. LargeBytes(M) \subseteq Addr
  BY <1>5, <1>9
<1>12. QED
  BY <1>1, <1>3, <1>10, <1>11

(* Together they are the bytes that the marked objects take.               *)
LEMMA SurvivorsAreCounted ==
  ASSUME AInv, NEW M, M \subseteq DOMAIN obj
  PROVE  /\ Survivors(M) = Cardinality(UNION {Block(o, Footprint(o)) : o \in M})
         /\ Survivors(M) \in Nat
<1>0. IInv /\ HomeOK /\ PagesOK /\ LargesOK /\ Apart /\ ObjectsOK
  BY DEF AInv, IInv
<1>1. PICK A : A = SlotBytes(M)
  OBVIOUS
<1>2. PICK B : B = LargeBytes(M)
  OBVIOUS
<1>3. PICK C : C = UNION {Block(o, Footprint(o)) : o \in M}
  OBVIOUS
<1>4. ASSUME NEW w \in A
      PROVE  \E p \in DOMAIN page : \E i \in Used(p) :
                SlotAddr(p, i) \in M /\ w \in Block(SlotAddr(p, i), class_sizes[page[p].cls])
  <2>1. PICK r \in MarkedSlots(M) : w \in Block(SlotAddr(r[1], r[2]), class_sizes[page[r[1]].cls])
    BY <1>1, <1>4 DEF SlotBytes
  <2>2. r[1] \in DOMAIN page /\ r[2] \in Used(r[1]) /\ SlotAddr(r[1], r[2]) \in M
    BY <1>0, MarkedSlotFacts
  <2>3. QED
    BY <2>1, <2>2
<1>5. ASSUME NEW w \in B
      PROVE  \E k \in DOMAIN larges : larges[k].mem \in M /\ w \in Block(larges[k].mem, larges[k].size)
  BY <1>2, <1>5 DEF LargeBytes, MarkedLarges, ToSet
<1>6. A \cap B = {}
  <2>1. SUFFICES ASSUME NEW w \in A, w \in B PROVE FALSE
    OBVIOUS
  <2>2. PICK p \in DOMAIN page :
            \E i \in Used(p) : w \in Block(SlotAddr(p, i), class_sizes[page[p].cls])
    BY <1>4
  <2>3. PICK i \in Used(p) : w \in Block(SlotAddr(p, i), class_sizes[page[p].cls])
    BY <2>2
  <2>4. PICK k \in DOMAIN larges : w \in Block(larges[k].mem, larges[k].size)
    BY <1>5, <2>1
  <2>5. i \in 0 .. NSlots(page[p].cls) - 1
    BY DEF Used
  <2>6. p <= w /\ w < p + PageBytes /\ w \in Addr
    BY <1>0, <2>3, <2>5, SlotWords
  <2>7. larges[k].mem <= w /\ w < larges[k].mem + larges[k].size
    BY <1>0, <2>4, LargeWords
  <2>8. p + PageBytes <= larges[k].mem \/ larges[k].mem + larges[k].size <= p
    BY <1>0 DEF Apart
  <2>9. /\ p \in Nat /\ PageBytes \in Nat /\ w \in Nat
        /\ larges[k].mem \in Nat /\ larges[k].size \in Nat
    BY <1>0, <2>6, PageFacts, LargesFacts, ClassFacts DEF Addr
  <2>10. QED
    BY <2>6, <2>7, <2>8, <2>9
<1>7. A \cup B \subseteq C
  <2>1. ASSUME NEW w \in A PROVE w \in C
    <3>1. PICK p \in DOMAIN page : \E i \in Used(p) :
              SlotAddr(p, i) \in M /\ w \in Block(SlotAddr(p, i), class_sizes[page[p].cls])
      BY <1>4
    <3>2. PICK i \in Used(p) :
              SlotAddr(p, i) \in M /\ w \in Block(SlotAddr(p, i), class_sizes[page[p].cls])
      BY <3>1
    <3>3. w \in Block(SlotAddr(p, i), Footprint(SlotAddr(p, i)))
      BY <1>0, <3>2, FootprintOfSlot
    <3>4. QED
      BY <1>3, <3>2, <3>3
  <2>2. ASSUME NEW w \in B PROVE w \in C
    <3>1. PICK k \in DOMAIN larges :
              larges[k].mem \in M /\ w \in Block(larges[k].mem, larges[k].size)
      BY <1>5
    <3>2. w \in Block(larges[k].mem, Footprint(larges[k].mem))
      BY <1>0, <3>1, FootprintOfLarge
    <3>3. QED
      BY <1>3, <3>1, <3>2
  <2>3. QED
    BY <2>1, <2>2
<1>8. C \subseteq A \cup B
  <2>1. SUFFICES ASSUME NEW o \in M, NEW w \in Block(o, Footprint(o)) PROVE w \in A \cup B
    BY <1>3
  <2>2. ASSUME NEW p \in DOMAIN page, NEW i \in Used(p), o = SlotAddr(p, i) PROVE w \in A
    <3>1. i \in 0 .. NSlots(page[p].cls) - 1
      BY DEF Used
    <3>2. PICK r : r = <<p, i>>
      OBVIOUS
    <3>3. r \in MarkedSlots(M)
      <4> DEFINE Of(q) == {q} \X {j \in 0 .. NSlots(page[q].cls) - 1 : SlotAddr(q, j) \in M}
      <4>1. r \in Of(p)
        BY <2>2, <3>1, <3>2
      <4>2. MarkedSlots(M) = UNION {Of(q) : q \in DOMAIN page}
        BY DEF MarkedSlots
      <4> HIDE DEF Of
      <4>3. QED
        BY <4>1, <4>2
    <3>4. w \in Block(SlotAddr(r[1], r[2]), class_sizes[page[r[1]].cls])
      <4>1. Footprint(o) = class_sizes[page[p].cls]
        BY <1>0, <2>2, FootprintOfSlot
      <4>2. r[1] = p /\ r[2] = i
        BY <3>2
      <4>3. QED
        BY <2>1, <2>2, <4>1, <4>2
    <3>5. QED
      BY <1>1, <3>3, <3>4 DEF SlotBytes
  <2>3. ASSUME NEW k \in DOMAIN larges, o = larges[k].mem PROVE w \in B
    <3>1. larges[k] \in MarkedLarges(M)
      BY <2>3 DEF MarkedLarges, ToSet
    <3>2. w \in Block(larges[k].mem, larges[k].size)
      BY <1>0, <2>3, FootprintOfLarge
    <3>3. QED
      BY <1>2, <3>1, <3>2 DEF LargeBytes
  <2>4. QED
    BY <1>0, <2>2, <2>3 DEF ObjectsOK
<1>9. /\ IsFiniteSet(A) /\ IsFiniteSet(B) /\ Cardinality(A) \in Nat /\ Cardinality(B) \in Nat
  <2>1. A \in SUBSET Addr /\ B \in SUBSET Addr
    BY <1>1, <1>2, SlotsAdd, LargesAdd
  <2>2. QED
    BY <2>1, AddrIsFinite, FS_Subset, FS_CardinalityType
<1>10. Cardinality(A \cup B) = Cardinality(A) + Cardinality(B) - Cardinality(A \cap B)
  BY <1>9, FS_Union
<1>11. Cardinality(C) = Cardinality(A) + Cardinality(B)
  <2>1. C = A \cup B
    BY <1>7, <1>8
  <2>2. Cardinality(A \cap B) = 0
    BY <1>6, FS_EmptySet
  <2>3. QED
    BY <1>9, <1>10, <2>1, <2>2
<1>12. Survivors(M) = Cardinality(A) + Cardinality(B)
  <2>1. SumFunction([r \in MarkedSlots(M) |-> class_sizes[page[r[1]].cls]]) = Cardinality(A)
    BY <1>1, SlotsAdd
  <2>2. SumFunction([l \in MarkedLarges(M) |-> l.size]) = Cardinality(B)
    BY <1>2, LargesAdd
  <2>3. QED
    BY <2>1, <2>2 DEF Survivors, MarkedLarges
<1>13. QED
  BY <1>3, <1>9, <1>11, <1>12

LEMMA CollectCounts ==
  ASSUME AInv, NEW M \in SUBSET Resolvable, Collect(M)
  PROVE  HomeOK' /\ CountersOK'
<1>0. IInv /\ HomeOK /\ CountersOK /\ PagesOK
  BY DEF AInv, IInv
<1>1. M \subseteq DOMAIN obj
  BY <1>0, MarkedAreObjects
<1>2. PICK S : S = {p \in DOMAIN page : SlotsOf(p) \cap M # {}}
  OBVIOUS
<1>3. PICK kept : kept = Kept(pages, S)
  OBVIOUS
<1>4. ToSet(kept) \subseteq DOMAIN page
  <2>1. pages \in Seq(Addr) /\ DOMAIN page = ToSet(pages)
    BY <1>0 DEF PagesOK
  <2>2. ToSet(kept) = ToSet(pages) \cap S
    BY <1>3, <2>1, KeptKeeps
  <2>3. QED
    BY <2>1, <2>2
<1>5. /\ DOMAIN page' = ToSet(kept) /\ \A p \in ToSet(kept) : page'[p].cls = page[p].cls
      /\ obj' = [o \in M |-> obj[o]]
      /\ live_bytes' = Survivors(M) /\ allocated_since' = 0 /\ threshold' = NextThreshold(live_bytes')
  BY <1>2, <1>3 DEF Collect, SweepPages, Swept, Restrict
<1>6. DOMAIN obj' = M /\ \A o \in M : obj'[o] = obj[o] /\ Footprint(o)' = Footprint(o)
  BY <1>5 DEF Footprint
<1>7. HomeOK'
  <2>1. ASSUME NEW a \in DOMAIN obj', a - (a % PageBytes) \in DOMAIN page'
        PROVE  obj'[a] <= MaxSmall /\ page'[a - (a % PageBytes)].cls = ClassFor(obj'[a])
    <3>1. a \in DOMAIN obj /\ obj'[a] = obj[a]
      BY <1>1, <1>6
    <3>2. /\ a - (a % PageBytes) \in DOMAIN page
          /\ page'[a - (a % PageBytes)].cls = page[a - (a % PageBytes)].cls
      BY <1>4, <1>5, <2>1
    <3>3. QED
      BY <1>0, <3>1, <3>2 DEF HomeOK
  <2>2. QED
    BY <2>1 DEF HomeOK
<1>8. Occupied' = UNION {Block(o, Footprint(o)) : o \in M}
  <2>1. Occupied' = UNION {Block(o, Footprint(o)') : o \in DOMAIN obj'}
    BY DEF Occupied, Block
  <2>2. QED
    BY <1>6, <2>1
<1>9. live_bytes' \in Nat /\ live_bytes' = Cardinality(Occupied')
  BY <1>1, <1>5, <1>8, SurvivorsAreCounted
<1>10. threshold' \in Nat \ {0}
  BY <1>5, <1>9, ThresholdIsPositive
<1>11. NextThreshold(live_bytes)' = NextThreshold(live_bytes')
  BY DEF NextThreshold
<1>12. CountersOK'
  BY <1>5, <1>9, <1>10, <1>11 DEF CountersOK
<1>13. QED
  BY <1>7, <1>12

LEMMA InitCounts ==
  ASSUME Init
  PROVE  HomeOK /\ CountersOK
<1>1. /\ obj = <<>> /\ DOMAIN obj = {} /\ live_bytes = 0 /\ allocated_since = 0 /\ pc = "run"
      /\ threshold = GcMinThreshold
  BY DEF Init
<1>2. Occupied = {}
  BY <1>1 DEF Occupied
<1>3. Cardinality(Occupied) = 0
  BY <1>2, FS_EmptySet
<1>4. GcMinThreshold \in Nat \ {0} /\ NextThreshold(0) = GcMinThreshold
  BY PageHeapAssumption DEF NextThreshold
<1>5. HomeOK
  BY <1>1 DEF HomeOK
<1>6. CountersOK
  BY <1>1, <1>3, <1>4 DEF CountersOK
<1>7. QED
  BY <1>5, <1>6

(* Steps that only decide whether to collect.                              *)
LEMMA HeapStaysCounted ==
  ASSUME HomeOK, CountersOK, page' = page, obj' = obj,
         live_bytes' = live_bytes, allocated_since' = allocated_since, threshold' = threshold,
         pc' = "place" => allocated_since < threshold
  PROVE  HomeOK' /\ CountersOK'
<1>1. HomeOK'
  BY DEF HomeOK
<1>2. Occupied' = Occupied /\ \A o : Footprint(o)' = Footprint(o)
  BY DEF Occupied, Footprint, Block
<1>3. NextThreshold(live_bytes)' = NextThreshold(live_bytes)
  BY DEF NextThreshold
<1>4. CountersOK'
  BY <1>2, <1>3 DEF CountersOK
<1>5. QED
  BY <1>1, <1>4

LEMMA NextCounts ==
  ASSUME AInv, [Next]_vars
  PROVE  AInv'
<1>0. IInv /\ HomeOK /\ CountersOK
  BY DEF AInv
<1>1. IInv'
  BY <1>0, NextKeeps
<1>2. ASSUME NEW on \in BOOLEAN, SetStress(on) PROVE HomeOK' /\ CountersOK'
  BY <1>0, <1>2, HeapStaysCounted DEF SetStress, registry
<1>3. ASSUME NEW size \in Sizes, GcAlloc(size) PROVE HomeOK' /\ CountersOK'
  <2>1. /\ page' = page /\ obj' = obj /\ live_bytes' = live_bytes
        /\ allocated_since' = allocated_since /\ threshold' = threshold
        /\ pc' = IF stress \/ allocated_since >= threshold THEN "collect" ELSE "place"
    BY <1>3 DEF GcAlloc, registry, policy
  <2>2. allocated_since \in Nat /\ threshold \in Nat
    BY <1>0, ThresholdIsPositive DEF CountersOK
  <2>3. pc' = "place" => allocated_since < threshold
    BY <2>1, <2>2
  <2>4. QED
    BY <1>0, <2>1, <2>3, HeapStaysCounted
<1>4. CASE GcCollect
  <2>1. /\ page' = page /\ obj' = obj /\ live_bytes' = live_bytes
        /\ allocated_since' = allocated_since /\ threshold' = threshold /\ pc' = "collect"
    BY <1>4 DEF GcCollect, registry, policy
  <2>2. pc' = "place" => allocated_since < threshold
    BY <2>1
  <2>3. QED
    BY <1>0, <1>1, <2>1, <2>2, HeapStaysCounted DEF AInv
<1>5. CASE OutOfMemory
  <2>1. /\ page' = page /\ obj' = obj /\ live_bytes' = live_bytes
        /\ allocated_since' = allocated_since /\ threshold' = threshold /\ pc' = "panicked"
    BY <1>5 DEF OutOfMemory, registry, policy
  <2>2. pc' = "place" => allocated_since < threshold
    BY <2>1
  <2>3. QED
    BY <1>0, <1>1, <2>1, <2>2, HeapStaysCounted DEF AInv
<1>6. CASE UNCHANGED vars
  <2>1. /\ page' = page /\ obj' = obj /\ live_bytes' = live_bytes
        /\ allocated_since' = allocated_since /\ threshold' = threshold /\ pc' = pc
    BY <1>6 DEF vars, registry, policy
  <2>2. pc' = "place" => allocated_since < threshold
    BY <1>0, <2>1 DEF CountersOK
  <2>3. QED
    BY <1>0, <1>1, <2>1, <2>2, HeapStaysCounted DEF AInv
<1>7. QED
  <2>1. CASE AllocSmall
    BY <1>1, <2>1, AllocSmallCounts DEF AInv
  <2>2. ASSUME NEW mem \in Addr, AllocNewPage(mem) PROVE HomeOK' /\ CountersOK'
    BY <2>2, AllocNewPageCounts
  <2>3. ASSUME NEW mem \in Addr, AllocLarge(mem) PROVE HomeOK' /\ CountersOK'
    BY <2>3, AllocLargeCounts
  <2>4. ASSUME NEW M \in SUBSET Resolvable, Collect(M) PROVE HomeOK' /\ CountersOK'
    BY <2>4, CollectCounts
  <2>5. QED
    BY <1>1, <1>2, <1>3, <1>4, <1>5, <1>6, <2>1, <2>2, <2>3, <2>4 DEF Next, AInv

LEMMA CountersAreExact ==
  ASSUME AInv
  PROVE  AccountingExact
<1>0. IInv /\ HomeOK /\ CountersOK
  BY DEF AInv
<1>1. live_bytes + allocated_since = SumFunction([o \in DOMAIN obj |-> Footprint(o)])
  BY <1>0, FootprintsAdd DEF CountersOK
<1>2. PICK F : F = {Footprint(o) : o \in DOMAIN obj} \cup {1}
  OBVIOUS
<1>3. MemTop \in Nat /\ MemTop + 1 \in Nat
  BY ClassFacts
<1>4. \A o \in DOMAIN obj : Footprint(o) \in 0 .. MemTop
  <2>1. ASSUME NEW o \in DOMAIN obj PROVE Footprint(o) \in 0 .. MemTop
    <3>1. PICK n \in Nat \ {0} : n = Footprint(o)
      BY <1>0, FootprintFacts
    <3>2. o \in Nat
      BY <1>0, FootprintFacts
    <3>3. o + n - 1 \in Block(o, n)
      BY <3>2, BlockFacts
    <3>4. o + n - 1 \in Addr
      BY <1>0, <3>1, <3>3, FootprintFacts
    <3>5. QED
      BY <1>3, <3>1, <3>2, <3>4 DEF Addr
  <2>2. QED
    BY <2>1
<1>5. F \in SUBSET (0 .. MemTop + 1) /\ F # {}
  BY <1>2, <1>3, <1>4
<1>6. Max(F) \in 0 .. MemTop + 1 /\ \A y \in F : y <= Max(F)
  BY <1>3, <1>5, MaxFacts
<1>7. 1 <= Max(F) /\ \A o \in DOMAIN obj : Footprint(o) <= Max(F)
  BY <1>2, <1>6
<1>8. allocated_since \in Nat /\ threshold \in Nat
  BY <1>0, ThresholdIsPositive DEF CountersOK
<1>9. allocated_since < threshold + Max(F)
  <2>1. CASE allocated_since < threshold
    BY <1>3, <1>6, <1>7, <1>8, <2>1
  <2>2. CASE \E o \in DOMAIN obj : allocated_since < threshold + Footprint(o)
    <3>1. PICK o \in DOMAIN obj : allocated_since < threshold + Footprint(o)
      BY <2>2
    <3>2. Footprint(o) \in Nat /\ Footprint(o) <= Max(F) /\ Max(F) \in Nat
      BY <1>3, <1>4, <1>6, <1>7
    <3>3. QED
      BY <1>8, <3>1, <3>2
  <2>3. QED
    BY <1>0, <2>1, <2>2 DEF CountersOK
<1>10. QED
  BY <1>0, <1>1, <1>2, <1>9 DEF AccountingExact, CountersOK

-----------------------------------------------------------------------------
(* The theorems.                                                           *)

(* live_bytes and allocated_since together are the bytes that objects      *)
(* take, in every reachable state.                                         *)
THEOREM CountInvariance == Spec => []AInv
<1>1. Init => AInv
  BY InitKeeps, InitCounts DEF AInv
<1>2. AInv /\ [Next]_vars => AInv'
  BY NextCounts
<1>3. QED
  BY <1>1, <1>2, PTL DEF Spec

(* rv_gc_live_bytes reports exactly the footprint of all objects, whatever *)
(* was allocated, swept or collected on the way, the threshold is the one  *)
(* that follows from what the last collection left, and gc_alloc never     *)
(* lets the heap grow past it by more than one object.                     *)
THEOREM AccountingStaysExact == Spec => []AccountingExact
<1>1. AInv => AccountingExact
  BY CountersAreExact
<1>2. QED
  BY <1>1, CountInvariance, PTL

(* Every variable of the allocator keeps its type.                         *)
THEOREM TypeCorrect == Spec => []TypeOK
<1>1. AInv => TypeOK
  <2>1. SUFFICES ASSUME AInv PROVE TypeOK
    OBVIOUS
  <2>2. IInv /\ PagesOK /\ LargesOK /\ AvailOK /\ ObjectsOK /\ HeadersOK /\ BoundsOK /\ WantOK /\ CountersOK
    BY <2>1 DEF AInv, IInv
  <2>3. DOMAIN obj \subseteq Addr
    <3>1. ASSUME NEW o \in DOMAIN obj PROVE o \in Addr
      <4>1. /\ IInv /\ HomeOK /\ o \in Nat /\ Footprint(o) \in Nat \ {0}
        BY <2>1, FootprintFacts DEF AInv
      <4>2. o \in Block(o, Footprint(o))
        BY <4>1, BlockFacts
      <4>3. QED
        BY <4>1, <4>2, FootprintFacts
    <3>2. QED
      BY <3>1
  <2>4. live_bytes \in Nat /\ allocated_since \in Nat /\ threshold \in Nat
    BY <2>2, ThresholdIsPositive DEF CountersOK
  <2>5. want \in Nat
    BY <2>2, PageHeapAssumption DEF WantOK
  <2>6. QED
    BY <2>2, <2>3, <2>4, <2>5 DEF TypeOK, PagesOK, LargesOK, AvailOK, ObjectsOK, HeadersOK, BoundsOK, WantOK
<1>2. QED
  BY <1>1, CountInvariance, PTL
=============================================================================
