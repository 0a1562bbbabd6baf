----------------------------- MODULE MCPageHeap -----------------------------
(* A small address space for PageHeap: three page-aligned blocks of four   *)
(* units.  Class 1 has two slots to a page; class 2 one slot and a tail    *)
(* of one unit that belongs to no slot.  A large object spans a page       *)
(* boundary wherever it is put.                                            *)
EXTENDS PageHeap

SlotSizes == <<2, 3>>
=============================================================================
