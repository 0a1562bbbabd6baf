---------------------------- MODULE MCCollector ----------------------------
(* Two objects of two cells: a struct with a pointer and a scalar field, and *)
(* pointer storage.  Self references, cycles and garbage that points at live *)
(* objects all occur.                                                        *)
EXTENDS Collector

TwoCells == 1..2

Pair == [kind |-> "STRUCT", field_kinds |-> <<"PTR", "INT">>]
Ptrs == [kind |-> "CELLS_PTR", field_kinds |-> <<"INT", "INT">>]

PairTypes == {Pair, Ptrs}
=============================================================================
