------------------------------ MODULE PageHeap ------------------------------
(***************************************************************************)
(* The allocator of runtime/rivel_rt.c, address by address: pages of one   *)
(* size class with a free list each, individually malloc'd large objects   *)
(* in an address-sorted array, the resolution of arbitrary words to        *)
(* objects (find_object), the sweep and the policy that decides when to    *)
(* collect.  What a collection marks is any set of resolvable objects      *)
(* (module Collector says which); where malloc places a block is any free  *)
(* place.  page_lookup is a set lookup here: module PageTable models the   *)
(* hash table behind it.                                                   *)
(***************************************************************************)
EXTENDS Integers, SequencesExt

CONSTANTS
    PageBytes,     \* PAGE_BYTES
    class_sizes,   \* slot sizes, ascending
    MallocAlign,   \* alignment of what malloc returns
    GcMinThreshold,\* GC_MIN_THRESHOLD
    MemTop,        \* the address space is 0..MemTop-1; also UINTPTR_MAX
    Sizes,         \* object sizes the program asks for
    NoObj          \* the NULL that find_object returns

Classes  == DOMAIN class_sizes
MaxSmall == class_sizes[Len(class_sizes)]
Addr     == 0 .. MemTop - 1

ASSUME PageHeapAssumption ==
    /\ {PageBytes, MallocAlign, GcMinThreshold} \subseteq Nat \ {0}
    /\ MemTop \in Nat
    /\ class_sizes \in Seq(1 .. PageBytes) /\ class_sizes # <<>>
    /\ \A c \in 2 .. Len(class_sizes) : class_sizes[c - 1] < class_sizes[c]
    /\ Sizes \subseteq Nat \ {0}
    /\ NoObj \notin Int

VARIABLES
    pages,        \* the addresses of every page, in registry order
    page,         \* per page: class, free list (slot indices) and nfree
    page_avail,   \* per class: the pages with a free slot, as a list
    larges,       \* large objects, sorted by address
    heap_lo, heap_hi,
    ti,           \* addresses whose word, read as a header's ti, is not NULL
    live_bytes, allocated_since, threshold, stress,
    pc,           \* where gc_alloc is
    want,         \* the size it was called with
    obj           \* what gc_alloc handed out and no sweep took back: size by address

registry == <<pages, page, page_avail, larges>>
bounds   == <<heap_lo, heap_hi>>
policy   == <<live_bytes, allocated_since, threshold, stress>>
vars     == <<registry, bounds, ti, policy, pc, want, obj>>

-----------------------------------------------------------------------------
NSlots(cls)     == PageBytes \div class_sizes[cls]
SlotAddr(p, i)  == p + i * class_sizes[page[p].cls]
SlotsOf(p)      == {SlotAddr(p, i) : i \in 0 .. NSlots(page[p].cls) - 1}
Block(mem, size) == mem .. mem + size - 1

(* Memory malloc has handed out and not got back.                          *)
Reserved ==
    (UNION {Block(p, PageBytes) : p \in DOMAIN page})
        \cup (UNION {Block(l.mem, l.size) : l \in ToSet(larges)})

Free(mem, size) == Block(mem, size) \subseteq Addr \ Reserved

(* S in ascending order: the free list that the loops                      *)
(* "for (i = nslots; i-- > 0;)" of new_page and sweep_pages thread through *)
(* the slots in S.                                                         *)
Ascending(S) ==
    CHOOSE s \in [1 .. Cardinality(S) -> S] : \A i, j \in DOMAIN s : i < j => s[i] < s[j]

(* The elements of s that are in S, in their order: what the loops         *)
(* "xs[kept++] = x" of the sweep leave of an array.                        *)
Kept(s, S) ==
    LET at == Ascending({i \in DOMAIN s : s[i] \in S})
    IN  [k \in DOMAIN at |-> s[at[k]]]

(* f, once v is stored at x.                                               *)
With(f, x, v) == [y \in DOMAIN f \cup {x} |-> IF y = x THEN v ELSE f[y]]

(* Fault: a class one unit too small is taken to fit.                      *)
ClassForShort(size) == Min({c \in Classes : class_sizes[c] + 1 >= size})

(* The smallest class that fits.                                           *)
ClassFor(size) == Min({c \in Classes : class_sizes[c] >= size})

-----------------------------------------------------------------------------
(* Resolving a word.                                                       *)

PageLookup(m) == m \in DOMAIN page

(* The binary search of large_upper_bound between lo and hi.               *)
LargeUpperBound(w) ==
    LET search[r \in (0 .. Len(larges)) \X (0 .. Len(larges))] ==
            LET lo  == r[1]
                hi  == r[2]
                mid == lo + (hi - lo) \div 2
            IN  IF lo >= hi THEN lo
                ELSE IF larges[mid + 1].mem <= w THEN search[<<mid + 1, hi>>]
                ELSE search[<<lo, mid>>]
    IN  search[<<0, Len(larges)>>]

LargeLookup(w) ==
    LET n == LargeUpperBound(w)
    IN  IF n = 0 THEN NoObj
        ELSE IF w < larges[n].mem + larges[n].size THEN larges[n].mem ELSE NoObj

FindObject(w) ==
    LET m == w - (w % PageBytes)
        i == (w - m) \div class_sizes[page[m].cls]
        h == SlotAddr(m, i)
    IN  IF w < heap_lo \/ w >= heap_hi THEN NoObj
        ELSE IF PageLookup(m)
        THEN IF i < NSlots(page[m].cls) /\ h \in ti THEN h ELSE NoObj
        ELSE LargeLookup(w)

(* What a collection can mark: mark_word only marks what find_object       *)
(* returns.                                                                *)
Resolvable == {FindObject(w) : w \in Addr} \ {NoObj}

-----------------------------------------------------------------------------
Init ==
    /\ pages = <<>> /\ page = <<>> /\ larges = <<>>
    /\ page_avail = [c \in Classes |-> <<>>]
    /\ heap_lo = MemTop /\ heap_hi = 0
    /\ ti = {}
    /\ live_bytes = 0 /\ allocated_since = 0
    /\ threshold = GcMinThreshold
    /\ stress = FALSE
    /\ pc = "run" /\ want = 0
    /\ obj = <<>>

SetStress(on) ==
    /\ pc = "run"
    /\ stress' = on
    /\ UNCHANGED <<registry, bounds, ti, live_bytes, allocated_since, threshold, pc, want, obj>>

(* gc_alloc is called, and collects first if it is time to.                *)
GcAlloc(size) ==
    /\ pc = "run"
    /\ want' = size
    /\ pc' = IF stress \/ allocated_since >= threshold THEN "collect" ELSE "place"
    /\ UNCHANGED <<registry, bounds, ti, policy, obj>>

(* The program calls rv_gc_collect itself.                                 *)
GcCollect ==
    /\ pc = "run"
    /\ want' = 0
    /\ pc' = "collect"
    /\ UNCHANGED <<registry, bounds, ti, policy, obj>>

NoteRange(lo, hi) ==
    /\ heap_lo' = IF lo < heap_lo THEN lo ELSE heap_lo
    /\ heap_hi' = IF hi > heap_hi THEN hi ELSE heap_hi

(* The header of the object at o is written: gc_alloc's last lines.        *)
Place(o, words) ==
    /\ ti' = words \cup {o}
    /\ obj' = With(obj, o, want)
    /\ pc' = "run"
    /\ want' = 0

(* Faults: a full page stays on its class's list; the size asked for is    *)
(* charged instead of the slot's.                                          *)
AllocKeepsFullPage(cls, p, pg, avail) ==
    /\ page' = With(page, p, [pg EXCEPT !.free = Tail(@), !.nfree = @ - 1])
    /\ page_avail' = [page_avail EXCEPT ![cls] = avail]
    /\ allocated_since' = allocated_since + class_sizes[cls]
    /\ UNCHANGED <<larges, live_bytes, threshold, stress>>

AllocChargesRequest(cls, p, pg, avail) ==
    LET nfree == pg.nfree - 1
    IN  /\ page' = With(page, p, [pg EXCEPT !.free = Tail(@), !.nfree = nfree])
        /\ page_avail' = [page_avail EXCEPT ![cls] = IF nfree = 0 THEN Tail(avail) ELSE avail]
        /\ allocated_since' = allocated_since + want
        /\ UNCHANGED <<larges, live_bytes, threshold, stress>>

(* A slot is taken from the first page of the class's list, which leaves   *)
(* the list when its last slot goes.                                       *)
AllocFromPage(cls, p, pg, avail) ==
    LET nfree == pg.nfree - 1
    IN  /\ page' = With(page, p, [pg EXCEPT !.free = Tail(@), !.nfree = nfree])
        /\ page_avail' = [page_avail EXCEPT ![cls] = IF nfree = 0 THEN Tail(avail) ELSE avail]
        /\ allocated_since' = allocated_since + class_sizes[cls]
        /\ UNCHANGED <<larges, live_bytes, threshold, stress>>

AllocSmall ==
    LET cls == ClassFor(want)
        p   == Head(page_avail[cls])
    IN  /\ pc = "place" /\ want <= MaxSmall
        /\ page_avail[cls] # <<>>
        /\ Place(SlotAddr(p, Head(page[p].free)), ti)
        /\ AllocFromPage(cls, p, page[p], page_avail[cls])
        /\ UNCHANGED <<pages, bounds>>

(* posix_memalign returns aligned memory with anything in it; new_page     *)
(* blanks the ti of each slot.                                             *)
FreshPage(cls) ==
    [cls |-> cls, free |-> Ascending(0 .. NSlots(cls) - 1), nfree |-> NSlots(cls)]

(* Fault: the memory's old words are taken for headers.                    *)
UnclearedSlots(mem, cls) == ti

ClearedSlots(mem, cls) == ti \ {mem + i * class_sizes[cls] : i \in 0 .. NSlots(cls) - 1}

AllocNewPage(mem) ==
    LET cls == ClassFor(want)
    IN  /\ pc = "place" /\ want <= MaxSmall
        /\ page_avail[cls] = <<>>
        /\ mem % PageBytes = 0 /\ Free(mem, PageBytes)
        /\ pages' = Append(pages, mem)
        /\ NoteRange(mem, mem + PageBytes)
        /\ Place(mem, ClearedSlots(mem, cls))
        /\ AllocFromPage(cls, mem, FreshPage(cls), <<mem>>)

AllocLarge(mem) ==
    /\ pc = "place" /\ want > MaxSmall
    /\ mem % MallocAlign = 0 /\ Free(mem, want)
    /\ larges' = InsertAt(larges, LargeUpperBound(mem) + 1, [mem |-> mem, size |-> want])
    /\ NoteRange(mem, mem + want)
    /\ Place(mem, ti)
    /\ allocated_since' = allocated_since + want
    /\ UNCHANGED <<pages, page, page_avail, live_bytes, threshold, stress>>

(* No memory for a page or a large object: rv_panic_cstr does not return.  *)
OutOfMemory ==
    /\ pc = "place"
    /\ IF want <= MaxSmall
       THEN /\ page_avail[ClassFor(want)] = <<>>
            /\ \A mem \in Addr : mem % PageBytes = 0 => ~Free(mem, PageBytes)
       ELSE \A mem \in Addr : mem % MallocAlign = 0 => ~Free(mem, want)
    /\ pc' = "panicked"
    /\ UNCHANGED <<registry, bounds, ti, policy, want, obj>>

(* The end of rv_gc_collect, after the marked set M is found: sweep_pages, *)
(* sweep_larges and the new threshold.                                     *)
FreeSlots(p, M) == {i \in 0 .. NSlots(page[p].cls) - 1 : SlotAddr(p, i) \notin M}

(* Rebuilds the free list of each page in kept, the lists of pages with a  *)
(* free slot, and the registry.                                            *)
Swept(M, listed, kept) ==
    /\ pages' = listed
    /\ page' = [p \in ToSet(kept) |->
                  [cls |-> page[p].cls, free |-> Ascending(FreeSlots(p, M)),
                   nfree |-> Cardinality(FreeSlots(p, M))]]
    /\ page_avail' = [c \in Classes |->
                        Reverse(Kept(kept, {p \in ToSet(kept) : page'[p].cls = c /\ page'[p].nfree > 0}))]
    /\ ti' = ti \ UNION {SlotsOf(p) \ M : p \in DOMAIN page}

SweepPages(M) ==
    LET kept == Kept(pages, {p \in DOMAIN page : SlotsOf(p) \cap M # {}})
    IN  Swept(M, kept, kept)

SweepLarges(M) == larges' = Kept(larges, {l \in ToSet(larges) : l.mem \in M})

(* The bytes of what the sweep keeps, slot by slot and large by large.     *)
MarkedSlots(M) ==
    UNION {{p} \X {i \in 0 .. NSlots(page[p].cls) - 1 : SlotAddr(p, i) \in M} : p \in DOMAIN page}

Survivors(M) ==
    SumFunction([r \in MarkedSlots(M) |-> class_sizes[page[r[1]].cls]])
        + SumFunction([l \in {l \in ToSet(larges) : l.mem \in M} |-> l.size])

(* note_range for each surviving page and large object, from scratch.      *)
ResetRange ==
    /\ heap_lo' = Min({MemTop} \cup DOMAIN page' \cup {l.mem : l \in ToSet(larges')})
    /\ heap_hi' = Max({0} \cup {p + PageBytes : p \in DOMAIN page'}
                          \cup {l.mem + l.size : l \in ToSet(larges')})

NextThreshold(live) == IF 2 * live > GcMinThreshold THEN 2 * live ELSE GcMinThreshold

Collect(M) ==
    /\ pc = "collect"
    /\ SweepPages(M)
    /\ SweepLarges(M)
    /\ ResetRange
    /\ live_bytes' = Survivors(M)
    /\ allocated_since' = 0
    /\ threshold' = NextThreshold(live_bytes')
    /\ obj' = Restrict(obj, M)
    /\ pc' = IF want = 0 THEN "run" ELSE "place"
    /\ UNCHANGED <<stress, want>>

Next ==
    \/ \E on \in BOOLEAN : SetStress(on)
    \/ \E size \in Sizes : GcAlloc(size)
    \/ GcCollect
    \/ \E M \in SUBSET Resolvable : Collect(M)
    \/ AllocSmall
    \/ \E mem \in Addr : AllocNewPage(mem) \/ AllocLarge(mem)
    \/ OutOfMemory

Spec == Init /\ [][Next]_vars

-----------------------------------------------------------------------------
(* Properties.                                                             *)

PageRecord == [cls : Classes, free : Seq(0 .. PageBytes), nfree : 0 .. PageBytes]

TypeOK ==
    /\ pages \in Seq(Addr)
    /\ DOMAIN page = ToSet(pages) /\ \A p \in DOMAIN page : page[p] \in PageRecord
    /\ page_avail \in [Classes -> Seq(Addr)]
    /\ larges \in Seq([mem : Addr, size : Nat])
    /\ heap_lo \in 0 .. MemTop /\ heap_hi \in 0 .. MemTop
    /\ ti \subseteq Addr
    /\ live_bytes \in Nat /\ allocated_since \in Nat /\ threshold \in Nat
    /\ stress \in BOOLEAN
    /\ pc \in {"run", "collect", "place", "panicked"} /\ want \in Nat
    /\ DOMAIN obj \subseteq Addr /\ \A o \in DOMAIN obj : obj[o] \in Sizes

(* No two objects share a byte, and none reaches out of the memory malloc  *)
(* gave.                                                                   *)
NoOverlap ==
    /\ \A o, q \in DOMAIN obj : o # q => Block(o, obj[o]) \cap Block(q, obj[q]) = {}
    /\ \A o \in DOMAIN obj : Block(o, obj[o]) \subseteq Reserved

(* Every word that points into an object, at its header or anywhere inside,*)
(* resolves to that object, and no word resolves to anything else: free    *)
(* slots, the tail of a page and memory that went back to malloc are no    *)
(* objects.                                                                *)
FindsEveryObject ==
    /\ \A o \in DOMAIN obj : \A w \in Block(o, obj[o]) : FindObject(w) = o
    /\ \A w \in Addr : FindObject(w) \in DOMAIN obj \cup {NoObj}

(* The free list of a page holds each slot that has no object, once, and   *)
(* nfree counts it; a page is on its class's list iff it has such a slot,  *)
(* and only once.                                                          *)
FreeListsExact ==
    /\ \A p \in DOMAIN page :
          /\ {SlotAddr(p, i) : i \in ToSet(page[p].free)} = SlotsOf(p) \ DOMAIN obj
          /\ page[p].nfree = Len(page[p].free)
          /\ page[p].nfree = Cardinality(ToSet(page[p].free))
    /\ \A c \in Classes :
          /\ ToSet(page_avail[c]) = {p \in DOMAIN page : page[p].cls = c /\ page[p].nfree > 0}
          /\ IsInjective(page_avail[c])

(* What rv_gc_live_bytes reports is exactly the footprint of all objects,  *)
(* and the program never allocates more than one object past the threshold *)
(* between two collections: the heap stays within a constant factor of     *)
(* what survived the last one.                                             *)
Footprint(o) == IF obj[o] <= MaxSmall THEN class_sizes[ClassFor(obj[o])] ELSE obj[o]
AccountingExact ==
    /\ live_bytes + allocated_since = SumFunction([o \in DOMAIN obj |-> Footprint(o)])
    /\ threshold = NextThreshold(live_bytes)
    /\ allocated_since < threshold + Max({Footprint(o) : o \in DOMAIN obj} \cup {1})
=============================================================================
