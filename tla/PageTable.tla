----------------------------- MODULE PageTable -----------------------------
(***************************************************************************)
(* The hash table behind page_lookup in runtime/rivel_rt.c: a set of page  *)
(* addresses with open addressing and linear probing, at most half full,   *)
(* rebuilt when it would get fuller and after every sweep.  Nothing is     *)
(* deleted from it one by one.  A rebuild inserts page by page; module     *)
(* PageHeap uses the table as the set it should be.                        *)
(***************************************************************************)
EXTENDS Integers, FiniteSets

CONSTANTS
    Mem,            \* page-aligned addresses
    Empty,          \* a NULL table entry, or a failed lookup
    Hash(_, _),     \* table_slot: Hash(mem, table_cap); table_bits is log2 table_cap
    MinCap          \* 64

ASSUME PageTableAssumption ==
    /\ IsFiniteSet(Mem) /\ Empty \notin Mem
    /\ MinCap \in Nat \ {0}
    /\ \A m \in Mem, cap \in MinCap .. MinCap + 4 * Cardinality(Mem) :
          Hash(m, cap) \in 0 .. cap - 1

VARIABLES
    pages,        \* the registered pages; its size is npages
    table_cap,
    page_table,   \* from 0 .. table_cap - 1 to pages or Empty
    pc,           \* where table_rebuild is, if it runs
    todo          \* pages it has yet to insert

vars == <<pages, table_cap, page_table, pc, todo>>

npages == Cardinality(pages)

-----------------------------------------------------------------------------
(* The entry d steps after an address's home slot, wrapping around.        *)
Probe(m, d) ==
    LET i == Hash(m, table_cap) + d
    IN  IF i < table_cap THEN i ELSE i - table_cap

(* The loops of table_insert and page_lookup go on to the first distance   *)
(* whose entry is one they look for.  They have no bound of their own:     *)
(* without such an entry they go round for ever.                           *)
Found(m, wanted, d) == page_table[Probe(m, d)] \in wanted
Stops(m, wanted)    == \E d \in 0 .. table_cap - 1 : Found(m, wanted, d)

FirstStop(m, wanted) ==
    CHOOSE d \in 0 .. table_cap - 1 :
        Found(m, wanted, d) /\ \A e \in 0 .. d - 1 : ~Found(m, wanted, e)

page_lookup(m) ==
    IF table_cap = 0 THEN Empty ELSE page_table[Probe(m, FirstStop(m, {Empty, m}))]

-----------------------------------------------------------------------------
Init ==
    /\ pages = {}
    /\ table_cap = 0 /\ page_table = <<>>
    /\ pc = "idle" /\ todo = {}

(* table_insert: the first empty entry from the home slot on.              *)
TableInsert(m) ==
    page_table' = [page_table EXCEPT ![Probe(m, FirstStop(m, {Empty}))] = m]

StartRebuild ==
    /\ pc' = "grow"
    /\ table_cap' = MinCap
    /\ UNCHANGED <<page_table, todo>>

(* Fault: the table may fill up before it grows.                           *)
NewPageUntilFull(m) ==
    /\ pc = "idle"
    /\ m \notin pages
    /\ pages' = pages \cup {m}
    /\ IF npages + 1 > table_cap
       THEN StartRebuild
       ELSE TableInsert(m) /\ UNCHANGED <<table_cap, pc, todo>>

(* new_page's part in the registry.                                        *)
NewPage(m) ==
    /\ pc = "idle"
    /\ m \notin pages
    /\ pages' = pages \cup {m}
    /\ IF 2 * (npages + 1) > table_cap
       THEN StartRebuild
       ELSE TableInsert(m) /\ UNCHANGED <<table_cap, pc, todo>>

(* Fault: a sweep that leaves the table as it is.                          *)
SweepWithoutRebuild(kept) ==
    /\ pc = "idle"
    /\ pages' = kept
    /\ UNCHANGED <<table_cap, page_table, pc, todo>>

(* sweep_pages keeps some of the pages and always rebuilds.                *)
SweepPages(kept) ==
    /\ pc = "idle"
    /\ pages' = kept
    /\ StartRebuild

(* table_rebuild: the capacity doubles until half of it is enough, ...     *)
Grow ==
    /\ pc = "grow"
    /\ table_cap < 2 * npages
    /\ table_cap' = 2 * table_cap
    /\ UNCHANGED <<pages, page_table, pc, todo>>

(* ... the table is blanked, ...                                           *)
Blank ==
    /\ pc = "grow"
    /\ table_cap >= 2 * npages
    /\ page_table' = [i \in 0 .. table_cap - 1 |-> Empty]
    /\ pc' = "insert" /\ todo' = pages
    /\ UNCHANGED <<pages, table_cap>>

(* ... and every page inserted; in which order is of no account.           *)
Reinsert(m) ==
    /\ pc = "insert"
    /\ m \in todo
    /\ TableInsert(m)
    /\ todo' = todo \ {m}
    /\ UNCHANGED <<pages, table_cap, pc>>

EndRebuild ==
    /\ pc = "insert"
    /\ todo = {}
    /\ pc' = "idle"
    /\ UNCHANGED <<pages, table_cap, page_table, todo>>

Next ==
    \/ \E m \in Mem : NewPage(m) \/ Reinsert(m)
    \/ \E kept \in SUBSET pages : SweepPages(kept)
    \/ Grow \/ Blank \/ EndRebuild

Spec == Init /\ [][Next]_vars

-----------------------------------------------------------------------------
(* Properties.                                                             *)

TypeOK ==
    /\ pages \subseteq Mem /\ todo \subseteq pages
    /\ table_cap \in Nat
    /\ pc \in {"idle", "grow", "insert"}
    /\ pc # "grow" => page_table \in [0 .. table_cap - 1 -> Mem \cup {Empty}]

(* A lookup between two operations finds exactly the registered pages,     *)
(* wherever collisions, wrap-around and rebuilds have put them.            *)
LookupExact ==
    pc = "idle" => \A m \in Mem : page_lookup(m) = IF m \in pages THEN m ELSE Empty

(* No probe loop runs for ever: there is an empty entry for it to stop at  *)
(* whenever one starts.                                                    *)
ProbesEnd ==
    pc # "grow" /\ table_cap > 0 => \A m \in Mem : Stops(m, {Empty})
=============================================================================
