------------------------------- MODULE RtList -------------------------------
(***************************************************************************)
(* The lists of runtime/rivel_rt.c and the for loop lowering builds over    *)
(* them (src/src/lower/lower.c).  A list object is a length, a capacity and *)
(* a pointer to a separate cells object, which list_reserve replaces when   *)
(* the list outgrows it.  A cells object that no list points to any more is *)
(* garbage: the collector may hand its memory out again, zeroed, while its  *)
(* old contents stay readable through a stale pointer until then.           *)
(***************************************************************************)
EXTENDS Integers, Sequences, FiniteSets

CONSTANTS
    Refs, Values, Indexes, NoList, NoLoop, Done, Panic,    \* as in Lists
    Stores,        \* the addresses cells objects can have
    Zero,          \* the zero cell
    ListMinCap,    \* LIST_MIN_CAP
    MaxCap         \* bound: the largest capacity a list may reach

ASSUME ListAssumption ==
    /\ Indexes \subseteq Int
    /\ ListMinCap \in Nat \ {0}
    /\ MaxCap \in Nat
    /\ NoList \notin [len : Nat, cap : Nat, cells : Stores] \cup Seq(Values)
    /\ NoLoop \notin [ref : Refs, len : Nat, idx : Nat]
    /\ Panic \notin {Done} \cup Refs \cup Values \cup {Zero}
    /\ Zero \notin Values

VARIABLES
    obj,       \* obj[r]: the list object r, [len, cap, cells]
    store,     \* store[s]: the cells of the cells object s, indexed from 0
    loop,      \* the for loop over a list: [ref, len, idx], in stack slots
    result     \* what the last call returned

vars == <<obj, store, loop, result>>

Cell == Values \cup {Zero}

Live == {r \in Refs : obj[r] # NoList}

Referenced == {obj[r].cells : r \in Live}

CellsOf(r) == store[obj[r].cells]

Running == result # Panic

\* rv_panic_cstr does not return.
RvPanic == result' = Panic /\ UNCHANGED <<obj, store, loop>>

Return(v) == result' = v /\ UNCHANGED loop

----------------------------------------------------------------------------
(* Storage.  Every caller of list_reserve needs one cell more than the list
   has elements, so one doubling of a positive capacity is enough.            *)

NewCells(n) == [i \in 0..(n - 1) |-> Zero]

InitialCap(n) == IF n < ListMinCap THEN ListMinCap ELSE n

FreeStores == Stores \ Referenced

\* The storage r has after list_reserve: its own, or a fresh copy twice as large.
Reserve(r, need) ==
    IF need <= obj[r].cap
    THEN {[cells |-> obj[r].cells, cap |-> obj[r].cap, data |-> CellsOf(r)]}
    ELSE {[cells |-> s, cap |-> 2 * obj[r].cap,
           data |-> [i \in 0..(2 * obj[r].cap - 1) |->
                       IF i < obj[r].len THEN CellsOf(r)[i] ELSE Zero]] : s \in FreeStores}

\* Bound: a list does not outgrow MaxCap.
MayGrow(r) == obj[r].len < obj[r].cap \/ 2 * obj[r].cap <= MaxCap

Init ==
    /\ obj = [r \in Refs |-> NoList]
    /\ store = [s \in Stores |-> NewCells(0)]
    /\ loop = NoLoop
    /\ result = Done

----------------------------------------------------------------------------
(* The operations.                                                            *)

RvListNew(r, n) ==
    /\ r \notin Live /\ InitialCap(n) <= MaxCap
    /\ \E s \in FreeStores :
          /\ obj' = [obj EXCEPT ![r] = [len |-> 0, cap |-> InitialCap(n), cells |-> s]]
          /\ store' = [store EXCEPT ![s] = NewCells(InitialCap(n))]
    /\ Return(r)

\* The program holds no reference to r any more and the collector frees it.
Vanish(r) ==
    /\ r \in Live /\ (loop # NoLoop => loop.ref # r)
    /\ obj' = [obj EXCEPT ![r] = NoList]
    /\ Return(Done) /\ UNCHANGED store

ListAppend(r, v) ==
    /\ MayGrow(r)
    /\ \E c \in Reserve(r, obj[r].len + 1) :
          /\ obj' = [obj EXCEPT ![r] = [len |-> @.len + 1, cap |-> c.cap, cells |-> c.cells]]
          /\ store' = [store EXCEPT ![c.cells] = [c.data EXCEPT ![obj[r].len] = v]]
    /\ Return(Done)

\* Fault: the popped cell keeps its word.
PopKeepsCell(r) ==
    IF obj[r].len = 0 THEN RvPanic
    ELSE /\ obj' = [obj EXCEPT ![r].len = @ - 1]
         /\ Return(CellsOf(r)[obj[r].len - 1]) /\ UNCHANGED store

ListPop(r) ==
    IF obj[r].len = 0 THEN RvPanic
    ELSE /\ obj' = [obj EXCEPT ![r].len = @ - 1]
         /\ store' = [store EXCEPT ![obj[r].cells][obj[r].len - 1] = Zero]
         /\ Return(CellsOf(r)[obj[r].len - 1])

\* memmove up by one from i, then v at i.
Opened(data, i, len, v) ==
    [j \in DOMAIN data |->
        CASE j = i -> v [] i < j /\ j <= len -> data[j - 1] [] OTHER -> data[j]]

\* Fault: the cells pointer is read before list_reserve replaces the cells.
InsertIntoOldCells(r, i, v) ==
    IF i \notin 0..obj[r].len THEN RvPanic
    ELSE /\ MayGrow(r)
         /\ \E c \in Reserve(r, obj[r].len + 1) :
               /\ obj' = [obj EXCEPT ![r] = [len |-> @.len + 1, cap |-> c.cap, cells |-> c.cells]]
               /\ store' = [[store EXCEPT ![c.cells] = c.data]
                             EXCEPT ![obj[r].cells] = Opened(CellsOf(r), i, obj[r].len, v)]
         /\ Return(Done)

ListInsert(r, i, v) ==
    IF i \notin 0..obj[r].len THEN RvPanic
    ELSE /\ MayGrow(r)
         /\ \E c \in Reserve(r, obj[r].len + 1) :
               /\ obj' = [obj EXCEPT ![r] = [len |-> @.len + 1, cap |-> c.cap, cells |-> c.cells]]
               /\ store' = [store EXCEPT ![c.cells] = Opened(c.data, i, obj[r].len, v)]
         /\ Return(Done)

InRange(r, i) == i \in 0..(obj[r].len - 1)

\* memmove down by one onto i, then the vacated last cell zeroed.
Closed(data, i, len) ==
    [j \in DOMAIN data |->
        CASE j = len - 1 -> Zero [] i <= j /\ j < len - 1 -> data[j + 1] [] OTHER -> data[j]]

ListRemoveAt(r, i) ==
    IF ~ InRange(r, i) THEN RvPanic
    ELSE /\ obj' = [obj EXCEPT ![r].len = @ - 1]
         /\ store' = [store EXCEPT ![obj[r].cells] = Closed(@, i, obj[r].len)]
         /\ Return(CellsOf(r)[i])

RvListGet(r, i) ==
    IF ~ InRange(r, i) THEN RvPanic
    ELSE Return(CellsOf(r)[i]) /\ UNCHANGED <<obj, store>>

RvListSet(r, i, v) ==
    IF ~ InRange(r, i) THEN RvPanic
    ELSE store' = [store EXCEPT ![obj[r].cells][i] = v] /\ Return(Done) /\ UNCHANGED obj

RvListClear(r) ==
    /\ obj' = [obj EXCEPT ![r].len = 0]
    /\ store' = [store EXCEPT ![obj[r].cells] =
                    [j \in DOMAIN @ |-> IF j < obj[r].len THEN Zero ELSE @[j]]]
    /\ Return(Done)

RvListSlice(r, lo, hi, q) ==
    IF lo < 0 \/ lo > hi \/ hi > obj[r].len THEN RvPanic
    ELSE /\ q \notin Live
         /\ \E s \in FreeStores :
               /\ obj' = [obj EXCEPT ![q] = [len |-> hi - lo, cap |-> InitialCap(hi - lo), cells |-> s]]
               /\ store' = [store EXCEPT ![s] =
                              [i \in 0..(InitialCap(hi - lo) - 1) |->
                                  IF i < hi - lo THEN CellsOf(r)[lo + i] ELSE Zero]]
         /\ Return(q)

----------------------------------------------------------------------------
(* for x in list: the list and its length are read once, into stack slots.     *)

ForStart(r) ==
    /\ loop = NoLoop
    /\ loop' = [ref |-> r, len |-> obj[r].len, idx |-> 0]
    /\ UNCHANGED <<obj, store, result>>

ForNext ==
    /\ loop # NoLoop
    /\ IF loop.idx >= loop.len
         THEN loop' = NoLoop /\ UNCHANGED <<obj, store, result>>
       ELSE IF ~ InRange(loop.ref, loop.idx) THEN RvPanic
       ELSE /\ result' = CellsOf(loop.ref)[loop.idx]
            /\ loop' = [loop EXCEPT !.idx = @ + 1]
            /\ UNCHANGED <<obj, store>>

ForLeave ==
    /\ loop # NoLoop
    /\ loop' = NoLoop /\ UNCHANGED <<obj, store, result>>

Next ==
    /\ Running
    /\ \/ \E r \in Refs, n \in Indexes \cap Nat : RvListNew(r, n)
       \/ \E r \in Refs : Vanish(r)
       \/ \E r \in Live, v \in Values : ListAppend(r, v)
       \/ \E r \in Live : ListPop(r)
       \/ \E r \in Live : RvListClear(r)
       \/ \E r \in Live, i \in Indexes, v \in Values : ListInsert(r, i, v)
       \/ \E r \in Live, i \in Indexes, v \in Values : RvListSet(r, i, v)
       \/ \E r \in Live, i \in Indexes : ListRemoveAt(r, i)
       \/ \E r \in Live, i \in Indexes : RvListGet(r, i)
       \/ \E r \in Live, lo, hi \in Indexes, q \in Refs : RvListSlice(r, lo, hi, q)
       \/ \E r \in Live : ForStart(r)
       \/ ForNext \/ ForLeave

Spec == Init /\ [][Next]_vars

----------------------------------------------------------------------------
(* Properties.                                                                *)

TypeOK ==
    /\ obj \in [Refs -> [len : 0..MaxCap, cap : 0..MaxCap, cells : Stores] \cup {NoList}]
    /\ store \in [Stores -> UNION {[0..(n - 1) -> Cell] : n \in 0..MaxCap}]
    /\ loop \in [ref : Live, len : 0..MaxCap, idx : 0..MaxCap] \cup {NoLoop}
    /\ loop # NoLoop => loop.idx <= loop.len
    /\ result \in {Done, Panic} \cup Refs \cup Values

\* The elements fit, the capacity is the storage's, and doubling it makes room:
\* the cells list_append and list_insert write exist.
Fits ==
    \A r \in Live :
        /\ obj[r].len <= obj[r].cap /\ obj[r].cap >= ListMinCap
        /\ DOMAIN CellsOf(r) = 0..(obj[r].cap - 1)

\* No two lists have the same storage: growing, slicing and the collector's
\* reuse of cells never make one list's elements another's.
Unshared == \A q, r \in Live : q # r => obj[q].cells # obj[r].cells

\* "Vacated cells are zeroed so that dead pointers do not keep objects alive":
\* the collector scans every cell of the storage, used or not.
VacatedCellsAreZero ==
    \A r \in Live : \A i \in DOMAIN CellsOf(r) : i >= obj[r].len => CellsOf(r)[i] = Zero

\* What every operation of rivel_rt.c:945-1116 finds and leaves, whatever came before
\* it and whichever freed storage it was handed.
StorageIsSound == Fits /\ Unshared /\ VacatedCellsAreZero

\* Every operation behaves as docs/spec.md says of sequences shared by reference.
Elements(r) == [i \in 1..obj[r].len |-> CellsOf(r)[i - 1]]

ListView == [r \in Refs |-> IF obj[r] = NoList THEN NoList ELSE Elements(r)]

ListsOf == INSTANCE Lists WITH list <- ListView

ImplementsLists == ListsOf!Spec
=============================================================================
