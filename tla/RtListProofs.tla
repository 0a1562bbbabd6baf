---------------------------- MODULE RtListProofs ----------------------------
(***************************************************************************)
(* Proofs about the lists of the runtime, for any number of lists, values   *)
(* and storage objects, and any capacity: their storage stays sound, and    *)
(* they behave as the sequences of module Lists.                            *)
(***************************************************************************)
EXTENDS RtList, SequenceTheorems, TLAPS

(* What a program reads from a list, it has put there: no element is a cell  *)
(* that was only zeroed.                                                    *)
ElementsAreValues == \A r \in Live : \A i \in 0..(obj[r].len - 1) : CellsOf(r)[i] \in Values

IInv == TypeOK /\ StorageIsSound /\ ElementsAreValues

-----------------------------------------------------------------------------
(* What storage a list may come to have.                                    *)

Arrays == UNION {[0..(n - 1) -> Cell] : n \in 0..MaxCap}

(* data is storage of n cells, the first len of them in use.                *)
Holds(data, len, n) ==
    /\ data \in [0..(n - 1) -> Cell]
    /\ \A i \in 0..(len - 1) : data[i] \in Values
    /\ \A i \in 0..(n - 1) : i >= len => data[i] = Zero

LEMMA LiveList ==
  ASSUME ListAssumption, IInv, NEW r \in Live
  PROVE  /\ obj[r] \in [len : 0..MaxCap, cap : 0..MaxCap, cells : Stores]
         /\ obj[r].len <= obj[r].cap /\ ListMinCap <= obj[r].cap
         /\ CellsOf(r) \in [0..(obj[r].cap - 1) -> Cell]
         /\ Holds(CellsOf(r), obj[r].len, obj[r].cap)
<1>1. /\ obj[r] \in [len : 0..MaxCap, cap : 0..MaxCap, cells : Stores]
      /\ obj[r].len <= obj[r].cap /\ ListMinCap <= obj[r].cap
      /\ DOMAIN CellsOf(r) = 0..(obj[r].cap - 1)
  BY DEF IInv, TypeOK, StorageIsSound, Fits, Live
<1>2. PICK n \in 0..MaxCap : CellsOf(r) \in [0..(n - 1) -> Cell]
  BY <1>1 DEF IInv, TypeOK, CellsOf
<1>3. CellsOf(r) \in [0..(obj[r].cap - 1) -> Cell]
  BY <1>1, <1>2
<1>4. QED
  BY <1>1, <1>3 DEF IInv, ElementsAreValues, StorageIsSound, VacatedCellsAreZero, Holds

ListObject == [len : 0..MaxCap, cap : 0..MaxCap, cells : Stores]

(* One list changes and has storage that no other list has.                 *)
Settles(t, new, data) ==
    /\ new \in ListObject /\ new.len <= new.cap /\ ListMinCap <= new.cap
    /\ \A q \in Live \ {t} : obj[q].cells # new.cells
    /\ Holds(data, new.len, new.cap)
    /\ obj' = [obj EXCEPT ![t] = new]
    /\ store' = [store EXCEPT ![new.cells] = data]

LEMMA StorageKept ==
  ASSUME ListAssumption, IInv, NEW t \in Refs, NEW new, NEW data, Settles(t, new, data)
  PROVE  /\ obj' \in [Refs -> ListObject \cup {NoList}]
         /\ store' \in [Stores -> Arrays]
         /\ Live' = Live \cup {t}
         /\ StorageIsSound' /\ ElementsAreValues'
<1> USE DEF Settles
<1>1. obj \in [Refs -> ListObject \cup {NoList}] /\ store \in [Stores -> Arrays]
  BY DEF IInv, TypeOK, ListObject, Arrays
<1>2. obj' \in [Refs -> ListObject \cup {NoList}]
  BY <1>1
<1>3. store' \in [Stores -> Arrays]
  <2>1. new.cap \in 0..MaxCap /\ data \in [0..(new.cap - 1) -> Cell]
    BY DEF Holds, ListObject
  <2>2. data \in Arrays
    BY <2>1 DEF Arrays
  <2>3. QED
    BY <1>1, <2>2
<1>4. Live' = Live \cup {t}
  BY <1>1, ListAssumption DEF Live, ListObject
<1>5. CellsOf(t)' = data /\ obj'[t] = new
  BY <1>1 DEF CellsOf, ListObject
<1>6. \A q \in Live \ {t} : obj'[q] = obj[q] /\ CellsOf(q)' = CellsOf(q)
  BY <1>1 DEF CellsOf, Live, ListObject
<1>7. Fits'
  BY <1>4, <1>5, <1>6 DEF IInv, StorageIsSound, Fits, Holds
<1>8. Unshared'
  BY <1>4, <1>5, <1>6 DEF IInv, StorageIsSound, Unshared
<1>9. VacatedCellsAreZero'
  <2>1. \A i \in DOMAIN data : i >= new.len => data[i] = Zero
    BY DEF Holds
  <2>2. \A q \in Live \ {t} : \A i \in DOMAIN CellsOf(q)' : i >= obj'[q].len => CellsOf(q)'[i] = Zero
    BY <1>6 DEF IInv, StorageIsSound, VacatedCellsAreZero
  <2>3. QED
    BY <1>4, <1>5, <2>1, <2>2 DEF VacatedCellsAreZero
<1>10. ElementsAreValues'
  <2>1. \A i \in 0..(new.len - 1) : data[i] \in Values
    BY DEF Holds
  <2>2. \A q \in Live \ {t} : \A i \in 0..(obj'[q].len - 1) : CellsOf(q)'[i] \in Values
    BY <1>6 DEF IInv, ElementsAreValues
  <2>3. QED
    BY <1>4, <1>5, <2>1, <2>2 DEF ElementsAreValues
<1>11. QED
  BY <1>2, <1>3, <1>4, <1>7, <1>8, <1>9, <1>10 DEF StorageIsSound

(* What list_reserve leaves list_append and list_insert with.               *)
LEMMA Reserved ==
  ASSUME ListAssumption, IInv, NEW r \in Live, MayGrow(r), NEW c \in Reserve(r, obj[r].len + 1)
  PROVE  /\ c.cells \in Stores /\ c.cap \in 0..MaxCap
         /\ obj[r].len + 1 <= c.cap /\ ListMinCap <= c.cap
         /\ \A q \in Live \ {r} : obj[q].cells # c.cells
         /\ Holds(c.data, obj[r].len, c.cap)
         /\ \A i \in 0..(obj[r].len - 1) : c.data[i] = CellsOf(r)[i]
<1>1. /\ obj[r] \in ListObject
      /\ obj[r].len <= obj[r].cap /\ ListMinCap <= obj[r].cap /\ ListMinCap \in Nat \ {0} /\ MaxCap \in Nat
      /\ Holds(CellsOf(r), obj[r].len, obj[r].cap)
  BY LiveList, ListAssumption DEF ListObject
<1>2. CASE obj[r].len + 1 <= obj[r].cap
  <2>1. c = [cells |-> obj[r].cells, cap |-> obj[r].cap, data |-> CellsOf(r)]
    BY <1>2 DEF Reserve
  <2>2. \A q \in Live \ {r} : obj[q].cells # obj[r].cells
    BY DEF IInv, StorageIsSound, Unshared
  <2>3. QED
    BY <1>1, <1>2, <2>1, <2>2 DEF ListObject
<1>3. CASE ~(obj[r].len + 1 <= obj[r].cap)
  <2>1. PICK s \in FreeStores :
             c = [cells |-> s, cap |-> 2 * obj[r].cap,
                  data |-> [i \in 0..(2 * obj[r].cap - 1) |->
                              IF i < obj[r].len THEN CellsOf(r)[i] ELSE Zero]]
    BY <1>3 DEF Reserve
  <2>2. 2 * obj[r].cap \in 0..MaxCap /\ obj[r].len + 1 <= 2 * obj[r].cap
    BY <1>1, <1>3 DEF MayGrow, ListObject
  <2>3. s \in Stores /\ \A q \in Live : obj[q].cells # s
    BY DEF FreeStores, Referenced
  <2>a. PICK len, m : len = obj[r].len /\ m = 2 * obj[r].cap
    OBVIOUS
  <2>b. len \in Nat /\ m \in Nat /\ len <= m /\ \A i \in 0..(len - 1) : i \in 0..(m - 1)
    BY <1>1, <2>2, <2>a DEF ListObject
  <2>c. c.data = [i \in 0..(m - 1) |-> IF i < len THEN CellsOf(r)[i] ELSE Zero]
    BY <2>1, <2>a
  <2>d. \A i \in 0..(len - 1) : CellsOf(r)[i] \in Values
    BY <1>1, <2>a DEF Holds
  <2>4. Holds(c.data, obj[r].len, 2 * obj[r].cap)
    <3>1. \A i \in 0..(m - 1) : IF i < len THEN c.data[i] \in Values ELSE c.data[i] = Zero
      BY <2>b, <2>c, <2>d
    <3>2. Holds(c.data, len, m)
      BY <2>b, <2>c, <3>1 DEF Holds, Cell
    <3>3. QED
      BY <2>a, <3>2
  <2>5. \A i \in 0..(obj[r].len - 1) : c.data[i] = CellsOf(r)[i]
    BY <2>a, <2>b, <2>c
  <2>6. QED
    BY <1>1, <2>1, <2>2, <2>3, <2>4, <2>5 DEF ListObject
<1>4. QED
  BY <1>2, <1>3

-----------------------------------------------------------------------------
(* The sequence a list stands for.                                          *)

LEMMA ElementsAre ==
  ASSUME ListAssumption, IInv, NEW r \in Live
  PROVE  /\ Elements(r) \in Seq(Values) /\ Len(Elements(r)) = obj[r].len
         /\ \A i \in 1..obj[r].len : Elements(r)[i] = CellsOf(r)[i - 1]
         /\ \A i \in 0..(obj[r].len - 1) : CellsOf(r)[i] \in Values
         /\ obj[r].len \in Nat /\ obj[r].cap \in Nat
<1>1. obj[r].len \in Nat /\ obj[r].cap \in Nat
  BY LiveList, ListAssumption
<1>2. \A i \in 0..(obj[r].len - 1) : CellsOf(r)[i] \in Values
  BY DEF IInv, ElementsAreValues
<1>3. \A i \in 1..obj[r].len : CellsOf(r)[i - 1] \in Values
  BY <1>1, <1>2
<1>4. Elements(r) \in [1..obj[r].len -> Values]
  BY <1>3 DEF Elements
<1>5. QED
  BY <1>1, <1>2, <1>4 DEF Elements

(* A step that leaves the list t with the elements of the sequence s.       *)
Stored(t, s) ==
    /\ s \in Seq(Values)
    /\ \E new, data : /\ Settles(t, new, data)
                      /\ new.len = Len(s)
                      /\ \A i \in 1..Len(s) : data[i - 1] = s[i]

LEMMA StoredBy ==
  ASSUME NEW t, NEW new, NEW data, NEW s, Settles(t, new, data), s \in Seq(Values),
         new.len = Len(s), \A i \in 1..Len(s) : data[i - 1] = s[i]
  PROVE  Stored(t, s)
  BY DEF Stored

LEMMA StoredView ==
  ASSUME ListAssumption, IInv, NEW t \in Refs, NEW s, Stored(t, s)
  PROVE  ListView' = [ListView EXCEPT ![t] = s]
<1>1. PICK new, data : /\ Settles(t, new, data) /\ new.len = Len(s)
                       /\ \A i \in 1..Len(s) : data[i - 1] = s[i]
  BY DEF Stored
<1>2. s \in Seq(Values) /\ Len(s) \in Nat /\ s \in [1..Len(s) -> Values]
  BY LenProperties DEF Stored
<1>3. obj \in [Refs -> ListObject \cup {NoList}] /\ store \in [Stores -> Arrays]
  BY DEF IInv, TypeOK, ListObject, Arrays
<1>4. new \in ListObject /\ new # NoList
  BY <1>1, ListAssumption DEF Settles, ListObject
<1>5. CellsOf(t)' = data /\ obj'[t] = new
  BY <1>1, <1>3, <1>4 DEF Settles, CellsOf, ListObject
<1>6. Elements(t)' = s
  <2>1. Elements(t)' = [i \in 1..Len(s) |-> data[i - 1]]
    BY <1>1, <1>5 DEF Elements
  <2>2. QED
    BY <1>1, <1>2, <2>1
<1>7. \A q \in Refs \ {t} : obj'[q] = obj[q]
  BY <1>1, <1>3 DEF Settles
<1>8. \A q \in Live \ {t} : CellsOf(q)' = CellsOf(q)
  BY <1>1, <1>3 DEF Settles, CellsOf, Live, ListObject
<1>9. \A q \in Live \ {t} : Elements(q)' = Elements(q)
  BY <1>7, <1>8 DEF Elements, Live
<1>10. \A q \in Refs : ListView'[q] = [ListView EXCEPT ![t] = s][q]
  BY <1>4, <1>5, <1>6, <1>7, <1>9 DEF ListView, Live
<1>11. QED
  BY <1>10 DEF ListView

-----------------------------------------------------------------------------
(* What the operations do to the cells they are handed.                     *)

LEMMA HoldsAppended ==
  ASSUME NEW n \in Nat, NEW data, NEW len \in 0..(n - 1), NEW v \in Values, Holds(data, len, n)
  PROVE  /\ Holds([data EXCEPT ![len] = v], len + 1, n)
         /\ \A j \in 0..(n - 1) : [data EXCEPT ![len] = v][j] = IF j = len THEN v ELSE data[j]
<1>1. [data EXCEPT ![len] = v] \in [0..(n - 1) -> Cell]
  BY DEF Holds, Cell
<1>2. \A j \in 0..(n - 1) : [data EXCEPT ![len] = v][j] = IF j = len THEN v ELSE data[j]
  BY DEF Holds
<1>3. \A j \in 0..len : j \in 0..(n - 1) /\ (j # len => j \in 0..(len - 1))
  OBVIOUS
<1>4. \A j \in 0..len : [data EXCEPT ![len] = v][j] \in Values
  BY <1>2, <1>3 DEF Holds
<1>5. \A j \in 0..(n - 1) : j >= len + 1 => [data EXCEPT ![len] = v][j] = Zero
  BY <1>2 DEF Holds
<1>6. len + 1 - 1 = len
  OBVIOUS
<1>7. QED
  BY <1>1, <1>2, <1>4, <1>5, <1>6 DEF Holds

LEMMA HoldsSet ==
  ASSUME NEW n \in Nat, NEW data, NEW len \in 0..n, NEW i \in 0..(len - 1), NEW v \in Values,
         Holds(data, len, n)
  PROVE  /\ Holds([data EXCEPT ![i] = v], len, n)
         /\ \A j \in 0..(n - 1) : [data EXCEPT ![i] = v][j] = IF j = i THEN v ELSE data[j]
<1>1. [data EXCEPT ![i] = v] \in [0..(n - 1) -> Cell]
  BY DEF Holds, Cell
<1>2. \A j \in 0..(n - 1) : [data EXCEPT ![i] = v][j] = IF j = i THEN v ELSE data[j]
  BY DEF Holds
<1>3. \A j \in 0..(len - 1) : [data EXCEPT ![i] = v][j] \in Values
  BY <1>2 DEF Holds
<1>4. QED
  BY <1>1, <1>2, <1>3 DEF Holds

LEMMA HoldsPopped ==
  ASSUME NEW n \in Nat, NEW data, NEW len \in 1..n, Holds(data, len, n)
  PROVE  /\ Holds([data EXCEPT ![len - 1] = Zero], len - 1, n)
         /\ \A j \in 0..(len - 2) : [data EXCEPT ![len - 1] = Zero][j] = data[j]
<1>1. [data EXCEPT ![len - 1] = Zero] \in [0..(n - 1) -> Cell]
  BY DEF Holds, Cell
<1>2. \A j \in 0..(n - 1) : [data EXCEPT ![len - 1] = Zero][j] = IF j = len - 1 THEN Zero ELSE data[j]
  BY DEF Holds
<1>3. \A j \in 0..(len - 2) : j \in 0..(n - 1) /\ j # len - 1 /\ j \in 0..(len - 1)
  OBVIOUS
<1>4. \A j \in 0..(len - 2) : [data EXCEPT ![len - 1] = Zero][j] = data[j] /\ data[j] \in Values
  BY <1>2, <1>3 DEF Holds
<1>5. \A j \in 0..(n - 1) : j >= len - 1 => [data EXCEPT ![len - 1] = Zero][j] = Zero
  BY <1>2 DEF Holds
<1>6. len - 1 - 1 = len - 2
  OBVIOUS
<1>7. QED
  BY <1>1, <1>4, <1>5, <1>6 DEF Holds

LEMMA HoldsOpened ==
  ASSUME NEW n \in Nat, NEW data, NEW len \in 0..(n - 1), NEW i \in 0..len, NEW v \in Values,
         Holds(data, len, n)
  PROVE  /\ Holds(Opened(data, i, len, v), len + 1, n)
         /\ \A j \in 0..len : Opened(data, i, len, v)[j] =
               IF j < i THEN data[j] ELSE IF j = i THEN v ELSE data[j - 1]
<1> DEFINE open == Opened(data, i, len, v)
<1>1. \A j \in 0..(n - 1) : open[j] = IF j = i THEN v ELSE IF i < j /\ j <= len THEN data[j - 1] ELSE data[j]
  BY DEF Opened, Holds
<1>2. DOMAIN open = 0..(n - 1) /\ open = [j \in 0..(n - 1) |-> open[j]]
  BY DEF Opened, Holds
<1>3. \A j \in 0..len : open[j] = IF j < i THEN data[j] ELSE IF j = i THEN v ELSE data[j - 1]
  BY <1>1
<1>4. \A j \in 0..len : open[j] \in Values
  <2>1. \A j \in 0..len : (j < i => j \in 0..(len - 1)) /\ (j > i => j - 1 \in 0..(len - 1))
    OBVIOUS
  <2>2. QED
    BY <1>3, <2>1 DEF Holds
<1>5. \A j \in 0..(n - 1) : j >= len + 1 => open[j] = Zero
  BY <1>1 DEF Holds
<1>6. \A j \in 0..(n - 1) : open[j] \in Cell
  BY <1>4, <1>5 DEF Cell
<1>7. open \in [0..(n - 1) -> Cell]
  <2> HIDE DEF open
  <2>1. QED
    BY <1>2, <1>6
<1>8. len + 1 - 1 = len
  OBVIOUS
<1>9. QED
  <2> HIDE DEF open
  <2>1. Holds(open, len + 1, n)
    BY <1>4, <1>5, <1>7, <1>8 DEF Holds
  <2>2. QED
    BY <1>3, <2>1 DEF open

LEMMA HoldsClosed ==
  ASSUME NEW n \in Nat, NEW data, NEW len \in 1..n, NEW i \in 0..(len - 1), Holds(data, len, n)
  PROVE  /\ Holds(Closed(data, i, len), len - 1, n)
         /\ \A j \in 0..(len - 2) : Closed(data, i, len)[j] = IF j < i THEN data[j] ELSE data[j + 1]
<1> DEFINE shut == Closed(data, i, len)
<1>1. \A j \in 0..(n - 1) :
         shut[j] = IF j = len - 1 THEN Zero ELSE IF i <= j /\ j < len - 1 THEN data[j + 1] ELSE data[j]
  BY DEF Closed, Holds
<1>2. DOMAIN shut = 0..(n - 1) /\ shut = [j \in 0..(n - 1) |-> shut[j]]
  BY DEF Closed, Holds
<1>3. \A j \in 0..(len - 2) : shut[j] = IF j < i THEN data[j] ELSE data[j + 1]
  BY <1>1
<1>4. \A j \in 0..(len - 2) : shut[j] \in Values
  <2>1. \A j \in 0..(len - 2) : j \in 0..(len - 1) /\ j + 1 \in 0..(len - 1)
    OBVIOUS
  <2>2. QED
    BY <1>3, <2>1 DEF Holds
<1>5. \A j \in 0..(n - 1) : j >= len - 1 => shut[j] = Zero
  BY <1>1 DEF Holds
<1>6. \A j \in 0..(n - 1) : shut[j] \in Cell
  BY <1>4, <1>5 DEF Cell
<1>7. shut \in [0..(n - 1) -> Cell]
  <2> HIDE DEF shut
  <2>1. QED
    BY <1>2, <1>6
<1>8. len - 1 - 1 = len - 2
  OBVIOUS
<1>9. QED
  <2> HIDE DEF shut
  <2>1. Holds(shut, len - 1, n)
    BY <1>4, <1>5, <1>7, <1>8 DEF Holds
  <2>2. QED
    BY <1>3, <2>1 DEF shut

-----------------------------------------------------------------------------
(* Every operation that changes a list stores in it what Lists says.        *)

LEMMA NewStores ==
  ASSUME ListAssumption, IInv, NEW r \in Refs, NEW n \in Nat, RvListNew(r, n)
  PROVE  Stored(r, <<>>)
<1> DEFINE cap == InitialCap(n)
<1>1. cap \in 0..MaxCap /\ ListMinCap <= cap
  BY ListAssumption DEF RvListNew, InitialCap
<1>2. PICK s \in FreeStores : /\ obj' = [obj EXCEPT ![r] = [len |-> 0, cap |-> cap, cells |-> s]]
                              /\ store' = [store EXCEPT ![s] = NewCells(cap)]
  BY DEF RvListNew
<1>3. Settles(r, [len |-> 0, cap |-> cap, cells |-> s], NewCells(cap))
  BY <1>1, <1>2, ListAssumption
     DEF Settles, Holds, NewCells, Cell, ListObject, FreeStores, Referenced
<1>4. <<>> \in Seq(Values) /\ [len |-> 0, cap |-> cap, cells |-> s].len = Len(<<>>)
  BY EmptySeq
<1>5. \A i \in 1..Len(<<>>) : NewCells(cap)[i - 1] = <<>>[i]
  OBVIOUS
<1>6. QED
  BY <1>3, <1>4, <1>5, StoredBy, Zenon

LEMMA AppendStores ==
  ASSUME ListAssumption, IInv, NEW r \in Live, NEW v \in Values, ListAppend(r, v)
  PROVE  Stored(r, Append(Elements(r), v))
<1> DEFINE n == obj[r].len
<1>1. PICK c \in Reserve(r, n + 1) :
           /\ obj' = [obj EXCEPT ![r] = [len |-> @.len + 1, cap |-> c.cap, cells |-> c.cells]]
           /\ store' = [store EXCEPT ![c.cells] = [c.data EXCEPT ![n] = v]]
  BY DEF ListAppend
<1>2. /\ c.cells \in Stores /\ c.cap \in 0..MaxCap
      /\ n + 1 <= c.cap /\ ListMinCap <= c.cap
      /\ \A q \in Live \ {r} : obj[q].cells # c.cells
      /\ Holds(c.data, n, c.cap)
      /\ \A i \in 0..(n - 1) : c.data[i] = CellsOf(r)[i]
  BY Reserved DEF ListAppend
<1>3. n \in 0..MaxCap /\ MaxCap \in Nat /\ obj \in [Refs -> ListObject \cup {NoList}]
  BY LiveList, ListAssumption DEF IInv, TypeOK, ListObject
<1>4. c.cap \in Nat /\ n \in 0..(c.cap - 1)
  BY <1>2, <1>3
<1>5. /\ Holds([c.data EXCEPT ![n] = v], n + 1, c.cap)
      /\ \A j \in 0..(c.cap - 1) : [c.data EXCEPT ![n] = v][j] = IF j = n THEN v ELSE c.data[j]
  BY <1>2, <1>4, HoldsAppended
<1>6. obj' = [obj EXCEPT ![r] = [len |-> n + 1, cap |-> c.cap, cells |-> c.cells]]
  BY <1>1, <1>3
<1>7. Settles(r, [len |-> n + 1, cap |-> c.cap, cells |-> c.cells], [c.data EXCEPT ![n] = v])
  BY <1>1, <1>2, <1>3, <1>4, <1>5, <1>6 DEF Settles, ListObject
<1>8. /\ Append(Elements(r), v) \in Seq(Values) /\ Len(Append(Elements(r), v)) = n + 1
      /\ \A i \in 1..n : Append(Elements(r), v)[i] = CellsOf(r)[i - 1]
      /\ Append(Elements(r), v)[n + 1] = v
  BY ElementsAre, AppendProperties
<1>9. \A i \in 1..Len(Append(Elements(r), v)) :
           [c.data EXCEPT ![n] = v][i - 1] = Append(Elements(r), v)[i]
  <2> DEFINE data == [c.data EXCEPT ![n] = v]
             s == Append(Elements(r), v)
  <2>1. \A i \in 1..(n + 1) : /\ i - 1 \in 0..(c.cap - 1)
                              /\ i - 1 = n <=> i = n + 1
                              /\ i # n + 1 => i \in 1..n /\ i - 1 \in 0..(n - 1)
    BY <1>2, <1>3, <1>4
  <2>2. \A j \in 0..(c.cap - 1) : data[j] = IF j = n THEN v ELSE c.data[j]
    BY <1>5
  <2>3. Len(s) = n + 1 /\ s[n + 1] = v /\ \A i \in 1..n : s[i] = CellsOf(r)[i - 1]
    BY <1>8
  <2> HIDE DEF data, s
  <2>4. \A i \in 1..(n + 1) : data[i - 1] = s[i]
    BY <1>2, <2>1, <2>2, <2>3
  <2>5. QED
    BY <2>3, <2>4 DEF data, s
<1>10. [len |-> n + 1, cap |-> c.cap, cells |-> c.cells].len = Len(Append(Elements(r), v))
  BY <1>8
<1>11. QED
  BY <1>7, <1>8, <1>9, <1>10, StoredBy, Zenon

(* Operations that keep the storage a list has.                             *)
InPlace(r, n, data) ==
    /\ Holds(data, n, obj[r].cap)
    /\ obj' = [obj EXCEPT ![r].len = n]
    /\ store' = [store EXCEPT ![obj[r].cells] = data]

LEMMA SettlesInPlace ==
  ASSUME ListAssumption, IInv, NEW r \in Live, NEW n \in 0..obj[r].cap, NEW data,
         InPlace(r, n, data)
  PROVE  \E new : Settles(r, new, data) /\ new.len = n
<1> USE DEF InPlace
<1> DEFINE new == [obj[r] EXCEPT !.len = n]
<1>1. /\ obj[r] \in ListObject /\ ListMinCap <= obj[r].cap
      /\ MaxCap \in Nat /\ ListMinCap \in Nat
      /\ obj \in [Refs -> ListObject \cup {NoList}]
  BY LiveList, ListAssumption DEF ListObject, IInv, TypeOK
<1>2. /\ new \in ListObject /\ new.len = n /\ new.cap = obj[r].cap /\ new.cells = obj[r].cells
  BY <1>1 DEF ListObject
<1>3. \A q \in Live \ {r} : obj[q].cells # obj[r].cells
  BY DEF IInv, StorageIsSound, Unshared
<1>4. obj' = [obj EXCEPT ![r] = new]
  BY <1>1
<1>5. Settles(r, new, data)
  BY <1>1, <1>2, <1>3, <1>4 DEF Settles, ListObject
<1>6. QED
  BY <1>2, <1>5

LEMMA PopStores ==
  ASSUME ListAssumption, IInv, NEW r \in Live, ListPop(r), obj[r].len # 0
  PROVE  /\ Stored(r, SubSeq(Elements(r), 1, Len(Elements(r)) - 1))
         /\ result' = Elements(r)[Len(Elements(r))]
<1> DEFINE n == obj[r].len
           data == [CellsOf(r) EXCEPT ![n - 1] = Zero]
           s == SubSeq(Elements(r), 1, Len(Elements(r)) - 1)
<1>1. /\ n \in 1..obj[r].cap /\ obj[r].cap \in Nat /\ Holds(CellsOf(r), n, obj[r].cap)
  BY LiveList, ElementsAre
<1>2. Holds(data, n - 1, obj[r].cap) /\ \A j \in 0..(n - 2) : data[j] = CellsOf(r)[j]
  BY <1>1, HoldsPopped
<1>3. obj' = [obj EXCEPT ![r].len = n - 1] /\ store' = [store EXCEPT ![obj[r].cells] = data]
  BY DEF ListPop, CellsOf
<1>4. PICK new : Settles(r, new, data) /\ new.len = n - 1
  <2>1. PICK m \in 0..obj[r].cap : m = n - 1
    BY <1>1
  <2> HIDE DEF data
  <2>2. InPlace(r, m, data)
    BY <1>2, <1>3, <2>1 DEF InPlace
  <2>3. QED
    BY <2>1, <2>2, SettlesInPlace
<1>5. s \in Seq(Values) /\ Len(s) = n - 1 /\ \A i \in 1..(n - 1) : s[i] = CellsOf(r)[i - 1]
  BY <1>1, ElementsAre, SubSeqProperties
<1>6. \A i \in 1..Len(s) : data[i - 1] = s[i]
  BY <1>1, <1>2, <1>5
<1>7. Stored(r, s)
  <2>1. new.len = Len(s)
    BY <1>4, <1>5
  <2> HIDE DEF s, data
  <2>2. QED
    BY <1>4, <1>5, <1>6, <2>1, StoredBy, Zenon
<1>8. result' = Elements(r)[n]
  BY <1>1, ElementsAre DEF ListPop, Return
<1>9. QED
  BY <1>7, <1>8, ElementsAre

(* Lists!Insert and Lists!RemoveAt, element by element.                     *)
Inserted(s, i, v) == SubSeq(s, 1, i) \o <<v>> \o SubSeq(s, i + 1, Len(s))

Removed(s, i) == SubSeq(s, 1, i) \o SubSeq(s, i + 2, Len(s))

LEMMA InsertedSeq ==
  ASSUME NEW S, NEW s \in Seq(S), NEW i \in 0..Len(s), NEW v \in S
  PROVE  /\ Inserted(s, i, v) \in Seq(S) /\ Len(Inserted(s, i, v)) = Len(s) + 1
         /\ \A j \in 1..(Len(s) + 1) :
               Inserted(s, i, v)[j] = IF j <= i THEN s[j] ELSE IF j = i + 1 THEN v ELSE s[j - 1]
<1> DEFINE a == SubSeq(s, 1, i)
           b == a \o <<v>>
           c == SubSeq(s, i + 1, Len(s))
           n == Len(s)
<1>1. n \in Nat /\ i \in Nat /\ i <= n /\ \A j \in 1..n : s[j] \in S
  BY LenProperties
<1>2. a \in Seq(S) /\ Len(a) = i /\ \A j \in 1..i : a[j] = s[j]
  BY <1>1, SubSeqProperties
<1>3. c \in Seq(S) /\ Len(c) = n - i /\ \A j \in 1..(n - i) : c[j] = s[i + j]
  BY <1>1, SubSeqProperties
<1>4. <<v>> \in Seq(S) /\ Len(<<v>>) = 1 /\ <<v>>[1] = v
  OBVIOUS
<1>5. b \in Seq(S) /\ Len(b) = i + 1 /\ \A j \in 1..(i + 1) : b[j] = IF j <= i THEN s[j] ELSE v
  <2> HIDE DEF a
  <2>1. /\ b \in Seq(S) /\ Len(b) = i + 1
        /\ \A j \in 1..(i + 1) : b[j] = IF j <= i THEN a[j] ELSE <<v>>[j - i]
    BY <1>2, <1>4, ConcatProperties
  <2>2. QED
    BY <1>1, <1>2, <1>4, <2>1
<1>6. /\ b \o c \in Seq(S) /\ Len(b \o c) = n + 1
      /\ \A j \in 1..(n + 1) : (b \o c)[j] = IF j <= i + 1 THEN b[j] ELSE c[j - (i + 1)]
  <2> HIDE DEF b, c
  <2>1. QED
    BY <1>1, <1>3, <1>5, ConcatProperties
<1>7. \A j \in 1..(n + 1) : (b \o c)[j] = IF j <= i THEN s[j] ELSE IF j = i + 1 THEN v ELSE s[j - 1]
  <2> SUFFICES ASSUME NEW j \in 1..(n + 1)
               PROVE  (b \o c)[j] = IF j <= i THEN s[j] ELSE IF j = i + 1 THEN v ELSE s[j - 1]
    OBVIOUS
  <2> HIDE DEF b, c
  <2>1. CASE j \in 1..(i + 1)
    BY <1>1, <1>5, <1>6, <2>1
  <2>2. CASE j \notin 1..(i + 1)
    <3>1. j - (i + 1) \in 1..(n - i) /\ i + (j - (i + 1)) = j - 1 /\ ~(j <= i + 1)
      BY <1>1, <2>2
    <3>2. (b \o c)[j] = s[j - 1]
      BY <1>3, <1>6, <3>1
    <3>3. QED
      BY <1>1, <3>1, <3>2
  <2>3. QED
    BY <2>1, <2>2
<1>8. QED
  BY <1>6, <1>7 DEF Inserted

LEMMA RemovedSeq ==
  ASSUME NEW S, NEW s \in Seq(S), NEW i \in 0..(Len(s) - 1)
  PROVE  /\ Removed(s, i) \in Seq(S) /\ Len(Removed(s, i)) = Len(s) - 1
         /\ \A j \in 1..(Len(s) - 1) : Removed(s, i)[j] = IF j <= i THEN s[j] ELSE s[j + 1]
<1> DEFINE a == SubSeq(s, 1, i)
           c == SubSeq(s, i + 2, Len(s))
           n == Len(s)
<1>1. n \in Nat /\ i \in Nat /\ i + 1 <= n /\ \A j \in 1..n : s[j] \in S
  BY LenProperties
<1>2. a \in Seq(S) /\ Len(a) = i /\ \A j \in 1..i : a[j] = s[j]
  BY <1>1, SubSeqProperties
<1>3. c \in Seq(S) /\ Len(c) = n - i - 1 /\ \A j \in 1..(n - i - 1) : c[j] = s[i + 1 + j]
  BY <1>1, SubSeqProperties
<1>4. /\ a \o c \in Seq(S) /\ Len(a \o c) = n - 1
      /\ \A j \in 1..(n - 1) : (a \o c)[j] = IF j <= i THEN a[j] ELSE c[j - i]
  <2> HIDE DEF a, c
  <2>1. /\ a \o c \in Seq(S) /\ Len(a \o c) = Len(a) + Len(c)
        /\ \A j \in 1..(Len(a) + Len(c)) : (a \o c)[j] = IF j <= Len(a) THEN a[j] ELSE c[j - Len(a)]
    BY <1>2, <1>3, ConcatProperties
  <2>2. Len(a) + Len(c) = n - 1
    BY <1>1, <1>2, <1>3
  <2>3. QED
    BY <1>2, <2>1, <2>2
<1>5. \A j \in 1..(n - 1) : (a \o c)[j] = IF j <= i THEN s[j] ELSE s[j + 1]
  <2> HIDE DEF a, c
  <2>1. QED
    BY <1>1, <1>2, <1>3, <1>4
<1>6. QED
  BY <1>4, <1>5 DEF Removed

LEMMA InsertStores ==
  ASSUME ListAssumption, IInv, NEW r \in Live, NEW i \in 0..obj[r].len, NEW v \in Values,
         ListInsert(r, i, v)
  PROVE  Stored(r, Inserted(Elements(r), i, v))
<1> DEFINE n == obj[r].len
           s == Inserted(Elements(r), i, v)
<1>1. PICK c \in Reserve(r, n + 1) :
           /\ obj' = [obj EXCEPT ![r] = [len |-> @.len + 1, cap |-> c.cap, cells |-> c.cells]]
           /\ store' = [store EXCEPT ![c.cells] = Opened(c.data, i, n, v)]
  BY DEF ListInsert
<1>2. /\ c.cells \in Stores /\ c.cap \in 0..MaxCap
      /\ n + 1 <= c.cap /\ ListMinCap <= c.cap
      /\ \A q \in Live \ {r} : obj[q].cells # c.cells
      /\ Holds(c.data, n, c.cap)
      /\ \A j \in 0..(n - 1) : c.data[j] = CellsOf(r)[j]
  BY Reserved DEF ListInsert
<1>3. n \in 0..MaxCap /\ MaxCap \in Nat /\ obj \in [Refs -> ListObject \cup {NoList}]
  BY LiveList, ListAssumption DEF IInv, TypeOK, ListObject
<1>4. c.cap \in Nat /\ n \in 0..(c.cap - 1)
  BY <1>2, <1>3
<1> DEFINE data == Opened(c.data, i, n, v)
           new == [len |-> n + 1, cap |-> c.cap, cells |-> c.cells]
<1>5. /\ Holds(data, n + 1, c.cap)
      /\ \A j \in 0..n : data[j] = IF j < i THEN c.data[j] ELSE IF j = i THEN v ELSE c.data[j - 1]
  <2>1. PICK d, cap : d = c.data /\ cap = c.cap
    OBVIOUS
  <2>2. cap \in Nat /\ n \in 0..(cap - 1) /\ Holds(d, n, cap)
    BY <1>2, <1>4, <2>1
  <2>3. /\ Holds(Opened(d, i, n, v), n + 1, cap)
        /\ \A j \in 0..n : Opened(d, i, n, v)[j] = IF j < i THEN d[j] ELSE IF j = i THEN v ELSE d[j - 1]
    BY <2>2, HoldsOpened
  <2>4. QED
    BY <2>1, <2>3
<1>6. obj' = [obj EXCEPT ![r] = new]
  BY <1>1, <1>3
<1>7. Settles(r, new, data)
  <2> HIDE DEF data
  <2>1. store' = [store EXCEPT ![c.cells] = data]
    BY <1>1 DEF data
  <2>2. QED
    BY <1>2, <1>3, <1>4, <1>5, <1>6, <2>1 DEF Settles, ListObject
<1>8. /\ Elements(r) \in Seq(Values) /\ Len(Elements(r)) = n
      /\ \A j \in 1..n : Elements(r)[j] = CellsOf(r)[j - 1]
  BY ElementsAre
<1>9. /\ s \in Seq(Values) /\ Len(s) = n + 1
      /\ \A j \in 1..(n + 1) :
            s[j] = IF j <= i THEN Elements(r)[j] ELSE IF j = i + 1 THEN v ELSE Elements(r)[j - 1]
  <2>1. i \in 0..Len(Elements(r))
    BY <1>8
  <2>2. /\ s \in Seq(Values) /\ Len(s) = Len(Elements(r)) + 1
        /\ \A j \in 1..(Len(Elements(r)) + 1) :
              s[j] = IF j <= i THEN Elements(r)[j] ELSE IF j = i + 1 THEN v ELSE Elements(r)[j - 1]
    <3> HIDE DEF data, new
    <3>1. \A e \in Seq(Values) : \A k \in 0..Len(e) :
             /\ Inserted(e, k, v) \in Seq(Values) /\ Len(Inserted(e, k, v)) = Len(e) + 1
             /\ \A j \in 1..(Len(e) + 1) :
                   Inserted(e, k, v)[j] = IF j <= k THEN e[j] ELSE IF j = k + 1 THEN v ELSE e[j - 1]
      BY InsertedSeq
    <3>2. QED
      BY <1>8, <2>1, <3>1
  <2>3. QED
    BY <1>8, <2>2
<1>10. \A j \in 1..Len(s) : data[j - 1] = s[j]
  <2> HIDE DEF s, data
  <2>1. \A j \in 1..(n + 1) : /\ j - 1 \in 0..n
                              /\ j <= i => j \in 1..n /\ j - 1 < i /\ j - 1 \in 0..(n - 1)
                              /\ j > i + 1 => /\ j - 1 \in 1..n /\ j - 1 > i
                                             /\ j - 1 - 1 \in 0..(n - 1)
    BY <1>3
  <2>2. \A j \in 1..(n + 1) : j <= i => data[j - 1] = s[j]
    BY <1>2, <1>3, <1>5, <1>8, <1>9, <2>1
  <2>3. \A j \in 1..(n + 1) : j = i + 1 => data[j - 1] = s[j]
    BY <1>3, <1>5, <1>9, <2>1
  <2>4. \A j \in 1..(n + 1) : j > i + 1 => data[j - 1] = s[j]
    BY <1>2, <1>3, <1>5, <1>8, <1>9, <2>1
  <2>5. QED
    BY <1>3, <1>9, <2>2, <2>3, <2>4
<1>11. new.len = Len(s)
  BY <1>9
<1>12. QED
  <2> HIDE DEF s, data, new
  <2>1. Stored(r, s)
    BY <1>7, <1>9, <1>10, <1>11, StoredBy, Zenon
  <2>2. QED
    BY <2>1 DEF s

LEMMA RemoveAtStores ==
  ASSUME ListAssumption, IInv, NEW r \in Live, NEW i \in 0..(obj[r].len - 1), ListRemoveAt(r, i)
  PROVE  /\ Stored(r, Removed(Elements(r), i))
         /\ result' = Elements(r)[i + 1]
<1> DEFINE n == obj[r].len
           data == Closed(CellsOf(r), i, n)
           s == Removed(Elements(r), i)
<1>1. /\ n \in 1..obj[r].cap /\ obj[r].cap \in Nat /\ Holds(CellsOf(r), n, obj[r].cap)
  BY LiveList, ElementsAre
<1>2. /\ Holds(data, n - 1, obj[r].cap)
      /\ \A j \in 0..(n - 2) : data[j] = IF j < i THEN CellsOf(r)[j] ELSE CellsOf(r)[j + 1]
  BY <1>1, HoldsClosed
<1>3. obj' = [obj EXCEPT ![r].len = n - 1] /\ store' = [store EXCEPT ![obj[r].cells] = data]
  BY DEF ListRemoveAt, CellsOf, InRange
<1>4. PICK new : Settles(r, new, data) /\ new.len = n - 1
  <2>1. PICK m \in 0..obj[r].cap : m = n - 1
    BY <1>1
  <2> HIDE DEF data
  <2>2. InPlace(r, m, data)
    BY <1>2, <1>3, <2>1 DEF InPlace
  <2>3. QED
    BY <2>1, <2>2, SettlesInPlace
<1>5. /\ Elements(r) \in Seq(Values) /\ Len(Elements(r)) = n
      /\ \A j \in 1..n : Elements(r)[j] = CellsOf(r)[j - 1]
  BY ElementsAre
<1>6. /\ s \in Seq(Values) /\ Len(s) = n - 1
      /\ \A j \in 1..(n - 1) : s[j] = IF j <= i THEN Elements(r)[j] ELSE Elements(r)[j + 1]
  BY <1>5, RemovedSeq
<1>7. \A j \in 1..Len(s) : data[j - 1] = s[j]
  <2> HIDE DEF s, data
  <2> SUFFICES ASSUME NEW j \in 1..(n - 1) PROVE data[j - 1] = s[j]
    BY <1>6
  <2>1. PICK h \in 0..(n - 2), k \in 1..n : h = j - 1 /\ k = j + 1
    BY <1>1
  <2>2. j \in 1..n /\ k - 1 = h + 1 /\ (j <= i <=> h < i)
    BY <1>1, <2>1
  <2>3. s[j] = IF j <= i THEN Elements(r)[j] ELSE Elements(r)[k]
    BY <1>6, <2>1
  <2>4. Elements(r)[j] = CellsOf(r)[h]
    BY <1>5, <2>1, <2>2
  <2>5. Elements(r)[k] = CellsOf(r)[h + 1]
    BY <1>5, <2>2
  <2>6. data[h] = IF h < i THEN CellsOf(r)[h] ELSE CellsOf(r)[h + 1]
    BY <1>2
  <2>7. QED
    BY <2>1, <2>2, <2>3, <2>4, <2>5, <2>6
<1>8. Stored(r, s)
  <2>1. new.len = Len(s)
    BY <1>4, <1>6
  <2> HIDE DEF s, data
  <2>2. QED
    BY <1>4, <1>6, <1>7, <2>1, StoredBy, Zenon
<1>9. result' = Elements(r)[i + 1]
  <2>1. result' = CellsOf(r)[i]
    BY DEF ListRemoveAt, InRange, Return
  <2>2. i + 1 \in 1..n /\ i + 1 - 1 = i
    BY <1>1
  <2>3. QED
    BY <1>5, <2>1, <2>2
<1>10. QED
  BY <1>8, <1>9

LEMMA SetStores ==
  ASSUME ListAssumption, IInv, NEW r \in Live, NEW i \in 0..(obj[r].len - 1), NEW v \in Values,
         RvListSet(r, i, v)
  PROVE  Stored(r, [Elements(r) EXCEPT ![i + 1] = v])
<1> DEFINE n == obj[r].len
           data == [CellsOf(r) EXCEPT ![i] = v]
           s == [Elements(r) EXCEPT ![i + 1] = v]
<1>1. /\ n \in 0..obj[r].cap /\ obj[r].cap \in Nat /\ Holds(CellsOf(r), n, obj[r].cap)
      /\ obj[r] \in ListObject /\ obj \in [Refs -> ListObject \cup {NoList}]
  BY LiveList, ElementsAre DEF ListObject, IInv, TypeOK
<1>2. Holds(data, n, obj[r].cap) /\ \A j \in 0..(n - 1) : data[j] = IF j = i THEN v ELSE CellsOf(r)[j]
  BY <1>1, HoldsSet
<1>3. obj' = [obj EXCEPT ![r].len = n]
  BY <1>1 DEF RvListSet, InRange, ListObject
<1>4. store' = [store EXCEPT ![obj[r].cells] = data]
  BY DEF RvListSet, InRange, CellsOf
<1>5. PICK new : Settles(r, new, data) /\ new.len = n
  <2>1. PICK m \in 0..obj[r].cap : m = n
    BY <1>1
  <2> HIDE DEF data, n
  <2>2. InPlace(r, m, data)
    BY <1>2, <1>3, <1>4, <2>1 DEF InPlace
  <2>3. QED
    BY <2>1, <2>2, SettlesInPlace
<1>6. /\ Elements(r) \in Seq(Values) /\ Len(Elements(r)) = n
      /\ \A j \in 1..n : Elements(r)[j] = CellsOf(r)[j - 1]
  BY ElementsAre
<1>7. s \in Seq(Values) /\ Len(s) = n /\ \A j \in 1..n : s[j] = IF j = i + 1 THEN v ELSE Elements(r)[j]
  <2>1. i + 1 \in 1..Len(Elements(r))
    BY <1>1, <1>6
  <2>2. QED
    BY <1>6, <2>1, ExceptSeq
<1>8. \A j \in 1..Len(s) : data[j - 1] = s[j]
  BY <1>1, <1>2, <1>6, <1>7
<1>9. new.len = Len(s)
  BY <1>5, <1>7
<1>10. QED
  <2> HIDE DEF s, data
  <2>1. Stored(r, s)
    BY <1>5, <1>7, <1>8, <1>9, StoredBy, Zenon
  <2>2. QED
    BY <2>1 DEF s

LEMMA ClearStores ==
  ASSUME ListAssumption, IInv, NEW r \in Live, RvListClear(r)
  PROVE  Stored(r, <<>>)
<1> DEFINE data == [j \in DOMAIN CellsOf(r) |-> IF j < obj[r].len THEN Zero ELSE CellsOf(r)[j]]
<1>1. /\ obj[r].len \in Nat /\ obj[r].cap \in Nat /\ Holds(CellsOf(r), obj[r].len, obj[r].cap)
  BY LiveList, ElementsAre
<1>2. data = [j \in 0..(obj[r].cap - 1) |-> Zero]
  BY <1>1 DEF Holds
<1>3. Holds(data, 0, obj[r].cap)
  BY <1>1, <1>2 DEF Holds, Cell
<1>4. obj' = [obj EXCEPT ![r].len = 0] /\ store' = [store EXCEPT ![obj[r].cells] = data]
  BY DEF RvListClear, CellsOf
<1>5. PICK new : Settles(r, new, data) /\ new.len = 0
  <2>1. PICK m \in 0..obj[r].cap : m = 0
    BY <1>1
  <2> HIDE DEF data
  <2>2. InPlace(r, m, data)
    BY <1>3, <1>4, <2>1 DEF InPlace
  <2>3. QED
    BY <2>1, <2>2, SettlesInPlace
<1>6. /\ <<>> \in Seq(Values) /\ new.len = Len(<<>>)
      /\ \A i \in 1..Len(<<>>) : data[i - 1] = <<>>[i]
  BY <1>5, EmptySeq
<1>7. QED
  BY <1>5, <1>6, StoredBy, Zenon

LEMMA SliceStores ==
  ASSUME ListAssumption, IInv, NEW r \in Live, NEW q \in Refs, NEW lo \in Int, NEW hi \in Int,
         0 <= lo, lo <= hi, hi <= obj[r].len, RvListSlice(r, lo, hi, q)
  PROVE  Stored(q, SubSeq(Elements(r), lo + 1, hi)) /\ result' = q /\ q \notin Live
<1> DEFINE cap == InitialCap(hi - lo)
           data == [i \in 0..(cap - 1) |-> IF i < hi - lo THEN CellsOf(r)[lo + i] ELSE Zero]
           s == SubSeq(Elements(r), lo + 1, hi)
<1>1. /\ obj[r].len \in Nat /\ obj[r].cap \in Nat
      /\ \A i \in 0..(obj[r].len - 1) : CellsOf(r)[i] \in Values
      /\ Elements(r) \in Seq(Values) /\ Len(Elements(r)) = obj[r].len
      /\ \A i \in 1..obj[r].len : Elements(r)[i] = CellsOf(r)[i - 1]
  BY ElementsAre
<1>2. cap \in 0..MaxCap /\ ListMinCap <= cap /\ hi - lo <= cap /\ MaxCap \in Nat
  BY <1>1, LiveList, ListAssumption DEF InitialCap
<1>3. ~(lo < 0 \/ lo > hi \/ hi > obj[r].len)
  BY <1>1
<1>4. PICK t \in FreeStores :
           /\ obj' = [obj EXCEPT ![q] = [len |-> hi - lo, cap |-> cap, cells |-> t]]
           /\ store' = [store EXCEPT ![t] = data]
  BY <1>3 DEF RvListSlice
<1>5. \A i \in 0..(hi - lo - 1) : data[i] = CellsOf(r)[lo + i] /\ CellsOf(r)[lo + i] \in Values
  <2>1. \A i \in 0..(hi - lo - 1) : i \in 0..(cap - 1) /\ i < hi - lo /\ lo + i \in 0..(obj[r].len - 1)
    <3> HIDE DEF cap
    <3>1. QED
      BY <1>1, <1>2
  <2>2. \A i \in 0..(hi - lo - 1) : data[i] = CellsOf(r)[lo + i]
    BY <2>1
  <2>3. QED
    BY <1>1, <2>1, <2>2
<1>6. Holds(data, hi - lo, cap)
  <2>1. \A i \in 0..(cap - 1) : i >= hi - lo => data[i] = Zero
    OBVIOUS
  <2>2. DOMAIN data = 0..(cap - 1) /\ \A i \in 0..(cap - 1) : data[i] = IF i < hi - lo THEN CellsOf(r)[lo + i] ELSE Zero
    OBVIOUS
  <2>3. \A i \in 0..(cap - 1) : data[i] \in Cell
    <3> HIDE DEF cap, data
    <3>1. \A i \in 0..(cap - 1) : i < hi - lo => i \in 0..(hi - lo - 1)
      BY <1>2
    <3>2. QED
      BY <1>5, <2>2, <3>1 DEF Cell
  <2>4. data \in [0..(cap - 1) -> Cell]
    BY <2>2, <2>3
  <2> HIDE DEF cap, data
  <2>5. QED
    BY <1>5, <2>1, <2>4 DEF Holds
<1> DEFINE new == [len |-> hi - lo, cap |-> cap, cells |-> t]
<1>7. Settles(q, new, data)
  <2>1. t \in Stores /\ \A p \in Live : obj[p].cells # t
    BY DEF FreeStores, Referenced
  <2>2. new \in ListObject /\ new.len = hi - lo /\ new.cap = cap /\ new.cells = t
    BY <1>2, <2>1 DEF ListObject
  <2> HIDE DEF data, cap, new
  <2>3. obj' = [obj EXCEPT ![q] = new] /\ store' = [store EXCEPT ![new.cells] = data]
    BY <1>4, <2>2 DEF new
  <2>4. QED
    BY <1>2, <1>6, <2>1, <2>2, <2>3 DEF Settles
<1>8. \A i \in (lo + 1)..hi : Elements(r)[i] \in Values /\ Elements(r)[i] = CellsOf(r)[i - 1]
  BY <1>1
<1>9. /\ s \in Seq(Values) /\ Len(s) = hi - lo
      /\ \A i \in 1..(hi - lo) : s[i] = Elements(r)[lo + i]
  <2>1. /\ s \in Seq(Values)
        /\ Len(s) = IF lo + 1 <= hi THEN hi - (lo + 1) + 1 ELSE 0
        /\ \A i \in 1..(hi - (lo + 1) + 1) : s[i] = Elements(r)[lo + 1 + i - 1]
    BY <1>8, SubSeqProperties
  <2>2. \A i \in 1..(hi - lo) : i \in 1..(hi - (lo + 1) + 1) /\ lo + 1 + i - 1 = lo + i
    OBVIOUS
  <2> HIDE DEF s
  <2>3. QED
    BY <2>1, <2>2
<1>10. \A i \in 1..Len(s) : data[i - 1] = s[i]
  <2>1. \A i \in 1..(hi - lo) : /\ i - 1 \in 0..(hi - lo - 1) /\ lo + i \in (lo + 1)..hi
                                /\ lo + i - 1 = lo + (i - 1)
    OBVIOUS
  <2> HIDE DEF s, data
  <2>2. QED
    BY <1>5, <1>8, <1>9, <2>1
<1>11. new.len = Len(s)
  BY <1>9
<1>12. Stored(q, s)
  <2> HIDE DEF s, data, new
  <2>1. QED
    BY <1>7, <1>9, <1>10, <1>11, StoredBy, Zenon
<1>13. QED
  BY <1>3, <1>12 DEF RvListSlice, Return

-----------------------------------------------------------------------------
(* The invariant.                                                           *)

Results == {Done, Panic} \cup Refs \cup Values

Loops == [ref : Live, len : 0..MaxCap, idx : 0..MaxCap] \cup {NoLoop}

LEMMA StoredKeeps ==
  ASSUME ListAssumption, IInv, NEW t \in Refs, NEW s, Stored(t, s), loop' = loop, result' \in Results
  PROVE  IInv'
<1>1. PICK new, data : Settles(t, new, data)
  BY DEF Stored
<1>2. /\ obj' \in [Refs -> ListObject \cup {NoList}] /\ store' \in [Stores -> Arrays]
      /\ Live' = Live \cup {t} /\ StorageIsSound' /\ ElementsAreValues'
  BY <1>1, StorageKept
<1>3. loop' \in Loops'
  BY <1>2 DEF IInv, TypeOK, Loops
<1>4. loop' # NoLoop => loop'.idx <= loop'.len
  BY DEF IInv, TypeOK
<1>5. QED
  BY <1>2, <1>3, <1>4 DEF IInv, TypeOK, Loops, Results, ListObject, Arrays

LEMMA ReadKeeps ==
  ASSUME IInv, UNCHANGED <<obj, store>>, loop' \in Loops, loop' # NoLoop => loop'.idx <= loop'.len,
         result' \in Results
  PROVE  IInv'
<1>1. Live' = Live /\ \A r \in Live : CellsOf(r)' = CellsOf(r)
  BY DEF Live, CellsOf
<1>2. StorageIsSound' /\ ElementsAreValues'
  BY <1>1 DEF IInv, StorageIsSound, Fits, Unshared, VacatedCellsAreZero, ElementsAreValues
<1>3. QED
  BY <1>1, <1>2 DEF IInv, TypeOK, Loops, Results

LEMMA VanishKeeps ==
  ASSUME ListAssumption, IInv, NEW r \in Refs, Vanish(r)
  PROVE  IInv' /\ ListView' = [ListView EXCEPT ![r] = NoList]
<1>1. /\ obj \in [Refs -> ListObject \cup {NoList}]
      /\ obj' = [obj EXCEPT ![r] = NoList] /\ UNCHANGED <<store, loop>> /\ result' = Done
      /\ loop # NoLoop => loop.ref # r
  BY DEF Vanish, Return, IInv, TypeOK, ListObject
<1>2. /\ obj' \in [Refs -> ListObject \cup {NoList}] /\ Live' = Live \ {r}
      /\ \A q \in Live' : obj'[q] = obj[q] /\ CellsOf(q)' = CellsOf(q)
      /\ obj'[r] = NoList /\ \A q \in Refs \ {r} : obj'[q] = obj[q]
  BY <1>1 DEF Live, CellsOf
<1>3. StorageIsSound' /\ ElementsAreValues'
  BY <1>2 DEF IInv, StorageIsSound, Fits, Unshared, VacatedCellsAreZero, ElementsAreValues
<1>4. loop' \in Loops'
  BY <1>1, <1>2 DEF IInv, TypeOK, Loops
<1>5. IInv'
  BY <1>1, <1>2, <1>3, <1>4 DEF IInv, TypeOK, Loops, Results, ListObject
<1>6. \A q \in Live' : Elements(q)' = Elements(q)
  BY <1>2 DEF Elements
<1>7. \A q \in Refs : ListView'[q] = [ListView EXCEPT ![r] = NoList][q]
  BY <1>2, <1>6 DEF ListView, Live
<1>8. QED
  BY <1>5, <1>7 DEF ListView

(* A step changes one list, frees one, or changes none.                     *)
LEMMA StepKeeps ==
  ASSUME ListAssumption, IInv, [Next]_vars
  PROVE  IInv'
<1> USE DEF Live
<1>1. loop \in Loops /\ result \in Results /\ (loop # NoLoop => loop.idx <= loop.len)
  BY DEF IInv, TypeOK, Loops, Results
<1>2. \A r \in Live : \A i \in 0..(obj[r].len - 1) : CellsOf(r)[i] \in Results
  BY DEF IInv, ElementsAreValues, Results
<1>3. Done \in Results /\ Panic \in Results /\ Refs \subseteq Results
  BY DEF Results
<1>4. RvPanic => IInv'
  BY <1>1, <1>3, ReadKeeps DEF RvPanic
<1>5. ASSUME NEW r \in Refs, NEW n \in Indexes \cap Nat, RvListNew(r, n)  PROVE IInv'
  BY <1>3, <1>5, NewStores, StoredKeeps DEF RvListNew, Return
<1>6. ASSUME NEW r \in Refs, Vanish(r)  PROVE IInv'
  BY <1>6, VanishKeeps
<1>7. ASSUME NEW r \in Live, NEW v \in Values, ListAppend(r, v)  PROVE IInv'
  BY <1>3, <1>7, AppendStores, StoredKeeps DEF ListAppend, Return
<1>8. ASSUME NEW r \in Live, ListPop(r)  PROVE IInv'
  <2>1. CASE obj[r].len = 0
    BY <1>4, <1>8, <2>1 DEF ListPop
  <2>2. CASE obj[r].len # 0
    <3>1. obj[r].len - 1 \in 0..(obj[r].len - 1)
      BY <2>2, ElementsAre
    <3>2. result' \in Results /\ loop' = loop
      BY <1>2, <1>8, <2>2, <3>1 DEF ListPop, Return
    <3>3. QED
      BY <1>8, <2>2, <3>2, PopStores, StoredKeeps
  <2>3. QED
    BY <2>1, <2>2
<1>9. ASSUME NEW r \in Live, RvListClear(r)  PROVE IInv'
  BY <1>3, <1>9, ClearStores, StoredKeeps DEF RvListClear, Return
<1>10. ASSUME NEW r \in Live, NEW i \in Indexes, NEW v \in Values, ListInsert(r, i, v)  PROVE IInv'
  BY <1>3, <1>4, <1>10, InsertStores, StoredKeeps DEF ListInsert, Return
<1>11. ASSUME NEW r \in Live, NEW i \in Indexes, NEW v \in Values, RvListSet(r, i, v)  PROVE IInv'
  BY <1>3, <1>4, <1>11, SetStores, StoredKeeps DEF RvListSet, InRange, Return
<1>12. ASSUME NEW r \in Live, NEW i \in Indexes, ListRemoveAt(r, i)  PROVE IInv'
  BY <1>2, <1>4, <1>12, RemoveAtStores, StoredKeeps DEF ListRemoveAt, InRange, Return
<1>13. ASSUME NEW r \in Live, NEW i \in Indexes, RvListGet(r, i)  PROVE IInv'
  BY <1>1, <1>2, <1>4, <1>13, ReadKeeps DEF RvListGet, InRange, Return
<1>14. ASSUME NEW r \in Live, NEW lo \in Indexes, NEW hi \in Indexes, NEW q \in Refs,
              RvListSlice(r, lo, hi, q)
       PROVE  IInv'
  <2>1. lo \in Int /\ hi \in Int /\ obj[r].len \in Nat
    BY ListAssumption, ElementsAre
  <2>2. CASE lo < 0 \/ lo > hi \/ hi > obj[r].len
    BY <1>4, <1>14, <2>2 DEF RvListSlice
  <2>3. CASE ~(lo < 0 \/ lo > hi \/ hi > obj[r].len)
    <3>1. 0 <= lo /\ lo <= hi /\ hi <= obj[r].len
      BY <2>1, <2>3
    <3>2. result' \in Results /\ loop' = loop
      BY <1>3, <1>14, <2>3 DEF RvListSlice, Return
    <3>3. QED
      BY <1>14, <2>1, <3>1, <3>2, SliceStores, StoredKeeps
  <2>4. QED
    BY <2>2, <2>3
<1>15. ASSUME NEW r \in Live, ForStart(r)  PROVE IInv'
  <2>1. obj[r].len \in 0..MaxCap /\ obj[r].len \in Nat
    BY LiveList, ElementsAre
  <2>2. loop' \in Loops /\ loop'.idx <= loop'.len /\ result' \in Results
    BY <1>1, <1>15, <2>1, ListAssumption DEF ForStart, Loops
  <2>3. QED
    BY <1>15, <2>2, ReadKeeps DEF ForStart
<1>16. ASSUME ForNext  PROVE IInv'
  <2>1. loop # NoLoop /\ loop \in [ref : Live, len : 0..MaxCap, idx : 0..MaxCap]
    BY <1>1, <1>16 DEF ForNext, Loops
  <2>2. CASE loop.idx >= loop.len
    BY <1>1, <1>16, <2>2, ReadKeeps DEF ForNext, Loops
  <2>3. CASE loop.idx < loop.len /\ ~ InRange(loop.ref, loop.idx)
    BY <1>4, <1>16, <2>1, <2>3, ListAssumption DEF ForNext
  <2>4. CASE loop.idx < loop.len /\ InRange(loop.ref, loop.idx)
    <3>1. /\ loop' = [loop EXCEPT !.idx = @ + 1] /\ UNCHANGED <<obj, store>>
          /\ result' = CellsOf(loop.ref)[loop.idx]
      BY <1>16, <2>1, <2>4, ListAssumption DEF ForNext
    <3>2. result' \in Results
      BY <1>2, <2>1, <2>4, <3>1 DEF InRange
    <3>3. loop' \in Loops /\ loop'.idx <= loop'.len
      BY <2>1, <2>4, <3>1, ListAssumption DEF Loops
    <3>4. QED
      BY <3>1, <3>2, <3>3, ReadKeeps
  <2>5. QED
    BY <2>1, <2>2, <2>3, <2>4, ListAssumption
<1>17. ASSUME ForLeave  PROVE IInv'
  BY <1>1, <1>17, ReadKeeps DEF ForLeave, Loops
<1>18. ASSUME UNCHANGED vars  PROVE IInv'
  BY <1>1, <1>18, ReadKeeps DEF vars
<1>19. QED
  BY <1>5, <1>6, <1>7, <1>8, <1>9, <1>10, <1>11, <1>12, <1>13, <1>14, <1>15, <1>16, <1>17, <1>18
     DEF Next

LEMMA InitKeeps == ASSUME ListAssumption, Init PROVE IInv
<1>1. Live = {}
  BY DEF Init, Live
<1>2. \A s \in Stores : store[s] \in [0..(0 - 1) -> Cell]
  BY DEF Init, NewCells
<1>3. 0 \in 0..MaxCap
  BY ListAssumption
<1>4. store \in [Stores -> UNION {[0..(n - 1) -> Cell] : n \in 0..MaxCap}]
  BY <1>2, <1>3 DEF Init
<1>5. QED
  BY <1>1, <1>4
     DEF Init, IInv, TypeOK, StorageIsSound, Fits, Unshared, VacatedCellsAreZero, ElementsAreValues

(* The variables stay in their types, storage stays sound and elements stay *)
(* values: list_new, list_append, list_pop, list_insert, list_remove_at,    *)
(* list_set, list_clear, list_slice and the for loop of rivel_rt.c.         *)
THEOREM Invariance == Spec => []IInv
<1>1. Init => IInv
  BY InitKeeps, ListAssumption
<1>2. IInv /\ [Next]_vars => IInv'
  BY StepKeeps, ListAssumption
<1>3. QED
  BY <1>1, <1>2, PTL DEF Spec

(* Whatever sequence of calls a program makes: a list's elements fit its    *)
(* storage, no two lists share storage, and vacated cells are zero.         *)
THEOREM StorageStaysSound == Spec => []StorageIsSound
<1>1. IInv => StorageIsSound
  BY DEF IInv
<1>2. QED
  BY <1>1, Invariance, PTL

-----------------------------------------------------------------------------
(* The lists are the sequences of module Lists.                             *)

LEMMA ViewOf ==
  ASSUME ListAssumption, IInv
  PROVE  /\ ListsOf!Live = Live
         /\ \A r \in Live : ListView[r] = Elements(r)
         /\ \A r \in Refs \ Live : ListView[r] = NoList
<1>1. \A r \in Live : Elements(r) # NoList
  BY ElementsAre, ListAssumption
<1>2. /\ \A r \in Live : ListView[r] = Elements(r)
      /\ \A r \in Refs \ Live : ListView[r] = NoList
  BY DEF ListView, Live
<1>3. QED
  BY <1>1, <1>2 DEF ListsOf!Live, Live

LEMMA ViewKept == UNCHANGED <<obj, store>> => ListView' = ListView
  BY DEF ListView, Elements, CellsOf

LEMMA StepRefines ==
  ASSUME ListAssumption, IInv, [Next]_vars
  PROVE  [ListsOf!Next]_(ListsOf!lvars)
<1> USE DEF Live
<1>1. ListsOf!Live = Live /\ \A r \in Live : ListView[r] = Elements(r)
  BY ViewOf
<1>2. \A r \in Live : /\ Elements(r) \in Seq(Values) /\ Len(Elements(r)) = obj[r].len
                      /\ \A i \in 1..obj[r].len : Elements(r)[i] = CellsOf(r)[i - 1]
                      /\ obj[r].len \in Nat
  BY ElementsAre
<1>3. \A r \in Live, i \in Int : InRange(r, i) <=> i \in 0..(Len(ListView[r]) - 1)
  BY <1>1, <1>2 DEF InRange
<1>4. Indexes \subseteq Int
  BY ListAssumption
<1>5. RvPanic => ListsOf!Fails
  BY ViewKept DEF RvPanic, ListsOf!Fails
<1>6. ASSUME NEW t \in Refs, NEW s, NEW v, Stored(t, s), result' = v, loop' = loop
      PROVE  ListsOf!Becomes(t, s, v)
  BY <1>6, StoredView DEF ListsOf!Becomes
<1>7. ASSUME NEW r \in Refs, NEW n \in Indexes \cap Nat, RvListNew(r, n)  PROVE ListsOf!New(r)
  BY <1>1, <1>6, <1>7, NewStores DEF RvListNew, Return, ListsOf!New
<1>8. ASSUME NEW r \in Refs, Vanish(r)  PROVE ListsOf!Vanish(r)
  BY <1>1, <1>8, VanishKeeps DEF Vanish, Return, ListsOf!Vanish, ListsOf!Becomes
<1>9. ASSUME NEW r \in Live, NEW v \in Values, ListAppend(r, v)  PROVE ListsOf!Append1(r, v)
  BY <1>1, <1>6, <1>9, AppendStores DEF ListAppend, Return, ListsOf!Append1
<1>10. ASSUME NEW r \in Live, ListPop(r)  PROVE ListsOf!Pop(r)
  <2>1. CASE obj[r].len = 0
    <3>1. ListView[r] = <<>>
      BY <1>1, <1>2, <2>1
    <3>2. ListsOf!Fails
      BY <1>5, <1>10, <2>1 DEF ListPop
    <3>3. QED
      BY <3>1, <3>2 DEF ListsOf!Pop
  <2>2. CASE obj[r].len # 0
    <3>1. ListView[r] # <<>>
      BY <1>1, <1>2, <2>2
    <3>2. /\ Stored(r, SubSeq(ListView[r], 1, Len(ListView[r]) - 1))
          /\ result' = ListView[r][Len(ListView[r])]
      BY <1>1, <1>10, <2>2, PopStores
    <3>3. loop' = loop
      BY <1>10, <2>2 DEF ListPop, Return
    <3>4. ListsOf!Becomes(r, SubSeq(ListView[r], 1, Len(ListView[r]) - 1), ListView[r][Len(ListView[r])])
      BY <1>6, <3>2, <3>3
    <3>5. QED
      BY <3>1, <3>4 DEF ListsOf!Pop
  <2>3. QED
    BY <2>1, <2>2
<1>11. ASSUME NEW r \in Live, RvListClear(r)  PROVE ListsOf!Clear(r)
  BY <1>6, <1>11, ClearStores DEF RvListClear, Return, ListsOf!Clear
<1>12. ASSUME NEW r \in Live, NEW i \in Indexes, NEW v \in Values, ListInsert(r, i, v)
       PROVE  ListsOf!Insert(r, i, v)
  <2>1. Len(ListView[r]) = obj[r].len
    BY <1>1, <1>2
  <2>2. CASE i \notin 0..obj[r].len
    BY <1>5, <1>12, <2>1, <2>2 DEF ListInsert, ListsOf!Insert
  <2>3. CASE i \in 0..obj[r].len
    <3>1. Stored(r, Inserted(ListView[r], i, v))
      BY <1>1, <1>12, <2>3, InsertStores
    <3>2. result' = Done /\ loop' = loop
      BY <1>12, <2>3 DEF ListInsert, Return
    <3>3. ListsOf!Becomes(r, Inserted(ListView[r], i, v), Done)
      BY <1>6, <3>1, <3>2
    <3>4. QED
      BY <2>1, <2>3, <3>3 DEF ListsOf!Insert, Inserted
  <2>4. QED
    BY <2>2, <2>3
<1>13. ASSUME NEW r \in Live, NEW i \in Indexes, NEW v \in Values, RvListSet(r, i, v)
       PROVE  ListsOf!Set(r, i, v)
  <2>1. i \in Int /\ (InRange(r, i) <=> i \in 0..(Len(ListView[r]) - 1))
    BY <1>3, <1>4
  <2>2. CASE ~ InRange(r, i)
    BY <1>5, <1>13, <2>1, <2>2 DEF RvListSet, ListsOf!Set
  <2>3. CASE InRange(r, i)
    <3>1. Stored(r, [ListView[r] EXCEPT ![i + 1] = v])
      BY <1>1, <1>13, <2>3, SetStores DEF InRange
    <3>2. result' = Done /\ loop' = loop
      BY <1>13, <2>3 DEF RvListSet, Return
    <3>3. QED
      BY <1>6, <2>1, <2>3, <3>1, <3>2 DEF ListsOf!Set
  <2>4. QED
    BY <2>2, <2>3
<1>14. ASSUME NEW r \in Live, NEW i \in Indexes, ListRemoveAt(r, i)  PROVE ListsOf!RemoveAt(r, i)
  <2>1. i \in Int /\ (InRange(r, i) <=> i \in 0..(Len(ListView[r]) - 1))
    BY <1>3, <1>4
  <2>2. CASE ~ InRange(r, i)
    BY <1>5, <1>14, <2>1, <2>2 DEF ListRemoveAt, ListsOf!RemoveAt
  <2>3. CASE InRange(r, i)
    <3>1. Stored(r, Removed(ListView[r], i)) /\ result' = ListView[r][i + 1]
      BY <1>1, <1>14, <2>3, RemoveAtStores DEF InRange
    <3>2. loop' = loop
      BY <1>14, <2>3 DEF ListRemoveAt, Return
    <3>3. ListsOf!Becomes(r, Removed(ListView[r], i), ListView[r][i + 1])
      BY <1>6, <3>1, <3>2
    <3>4. QED
      BY <2>1, <2>3, <3>3 DEF ListsOf!RemoveAt, Removed
  <2>4. QED
    BY <2>2, <2>3
<1>15. ASSUME NEW r \in Live, NEW i \in Indexes, RvListGet(r, i)  PROVE ListsOf!Get(r, i)
  <2>1. i \in Int /\ (InRange(r, i) <=> i \in 0..(Len(ListView[r]) - 1))
    BY <1>3, <1>4
  <2>2. CASE ~ InRange(r, i)
    BY <1>5, <1>15, <2>1, <2>2 DEF RvListGet, ListsOf!Get
  <2>3. CASE InRange(r, i)
    <3>1. result' = CellsOf(r)[i] /\ UNCHANGED <<obj, store, loop>>
      BY <1>15, <2>3 DEF RvListGet, Return
    <3>2. CellsOf(r)[i] = ListView[r][i + 1]
      <4>1. i + 1 \in 1..obj[r].len /\ i + 1 - 1 = i
        BY <1>2, <1>4, <2>3 DEF InRange
      <4>2. QED
        BY <1>1, <1>2, <4>1
    <3>3. QED
      BY <2>1, <2>3, <3>1, <3>2, ViewKept DEF ListsOf!Get
  <2>4. QED
    BY <2>2, <2>3
<1>16. ASSUME NEW r \in Live, NEW lo \in Indexes, NEW hi \in Indexes, NEW q \in Refs,
              RvListSlice(r, lo, hi, q)
       PROVE  ListsOf!Slice(r, lo, hi, q)
  <2>1. lo \in Int /\ hi \in Int /\ obj[r].len \in Nat /\ Len(ListView[r]) = obj[r].len
    BY <1>1, <1>2, <1>4
  <2>2. CASE lo < 0 \/ lo > hi \/ hi > obj[r].len
    BY <1>5, <1>16, <2>1, <2>2 DEF RvListSlice, ListsOf!Slice
  <2>3. CASE ~(lo < 0 \/ lo > hi \/ hi > obj[r].len)
    <3>1. 0 <= lo /\ lo <= hi /\ hi <= obj[r].len
      BY <2>1, <2>3
    <3>2. Stored(q, SubSeq(ListView[r], lo + 1, hi)) /\ result' = q /\ q \notin Live
      BY <1>1, <1>16, <2>1, <3>1, SliceStores
    <3>3. loop' = loop
      BY <1>16, <2>3 DEF RvListSlice, Return
    <3>4. ListsOf!Becomes(q, SubSeq(ListView[r], lo + 1, hi), q)
      BY <1>6, <3>2, <3>3
    <3>5. QED
      BY <1>1, <2>1, <2>3, <3>2, <3>4 DEF ListsOf!Slice
  <2>4. QED
    BY <2>2, <2>3
<1>17. ASSUME NEW r \in Live, ForStart(r)  PROVE ListsOf!ForStart(r)
  BY <1>1, <1>2, <1>17, ViewKept DEF ForStart, ListsOf!ForStart
<1>18. ASSUME ForNext  PROVE ListsOf!ForNext
  <2>1. loop # NoLoop /\ loop \in [ref : Live, len : 0..MaxCap, idx : 0..MaxCap]
    BY <1>18 DEF ForNext, IInv, TypeOK
  <2>2. /\ loop.ref \in Live /\ loop.idx \in Nat /\ loop.len \in Nat
        /\ obj[loop.ref].len \in Nat /\ Len(ListView[loop.ref]) = obj[loop.ref].len
    BY <1>1, <1>2, <2>1, ListAssumption
  <2>3. CASE loop.idx >= loop.len
    BY <1>18, <2>3, ViewKept DEF ForNext, ListsOf!ForNext
  <2>4. CASE loop.idx < loop.len /\ ~ InRange(loop.ref, loop.idx)
    <3>1. ~(loop.idx >= loop.len) /\ loop.idx >= Len(ListView[loop.ref])
      BY <2>2, <2>4 DEF InRange
    <3>2. ListsOf!Fails
      BY <1>5, <1>18, <2>4, <3>1 DEF ForNext
    <3>3. QED
      BY <2>1, <3>1, <3>2 DEF ListsOf!ForNext
  <2>5. CASE loop.idx < loop.len /\ InRange(loop.ref, loop.idx)
    <3>1. /\ ~(loop.idx >= loop.len) /\ ~(loop.idx >= Len(ListView[loop.ref]))
          /\ loop.idx + 1 \in 1..obj[loop.ref].len /\ loop.idx + 1 - 1 = loop.idx
      BY <2>2, <2>5 DEF InRange
    <3>2. /\ loop' = [loop EXCEPT !.idx = @ + 1] /\ UNCHANGED <<obj, store>>
          /\ result' = CellsOf(loop.ref)[loop.idx]
      BY <1>18, <2>5, <3>1 DEF ForNext
    <3>3. CellsOf(loop.ref)[loop.idx] = ListView[loop.ref][loop.idx + 1]
      BY <1>1, <1>2, <2>2, <3>1
    <3>4. QED
      BY <2>1, <3>1, <3>2, <3>3, ViewKept DEF ListsOf!ForNext
  <2>6. QED
    BY <2>2, <2>3, <2>4, <2>5
<1>19. ASSUME ForLeave  PROVE ListsOf!ForLeave
  BY <1>19, ViewKept DEF ForLeave, ListsOf!ForLeave
<1>20. ASSUME UNCHANGED vars  PROVE UNCHANGED ListsOf!lvars
  BY <1>20, ViewKept DEF vars, ListsOf!lvars
<1>21. CASE Next
  <2>1. ListsOf!Running
    BY <1>21 DEF Next, Running, ListsOf!Running
  <2>2. ListsOf!Next
    BY <1>1, <1>7, <1>8, <1>9, <1>10, <1>11, <1>12, <1>13, <1>14, <1>15, <1>16, <1>17, <1>18, <1>19,
       <1>21, <2>1 DEF Next, ListsOf!Next
  <2>3. QED
    BY <2>2
<1>22. QED
  BY <1>20, <1>21

LEMMA InitRefines == ASSUME ListAssumption, Init PROVE ListsOf!Init
  BY DEF Init, ListsOf!Init, ListView

(* The runtime's lists implement the sequences the language promises: every *)
(* call of rivel_rt.c:945-1116 and every step of a for loop over a list     *)
(* does to the elements what module Lists says, and nothing to other lists. *)
THEOREM Refinement == Spec => ImplementsLists
<1>1. Init => ListsOf!Init
  BY InitRefines, ListAssumption
<1>2. IInv /\ [Next]_vars => [ListsOf!Next]_(ListsOf!lvars)
  BY StepRefines, ListAssumption
<1>3. QED
  BY <1>1, <1>2, Invariance, PTL DEF Spec, ListsOf!Spec, ImplementsLists
=============================================================================
