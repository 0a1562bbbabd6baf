----------------------------- MODULE MCRtList -----------------------------
(* Two lists of up to two elements, which grow once, and one storage object  *)
(* more than there are lists, so that freed storage is reused soon.          *)
EXTENDS RtList, TLC

CONSTANTS q, r, a, b, s1, s2, s3

TwoRefs     == {q, r}
TwoValues   == {a, b}
ThreeStores == {s1, s2, s3}
ShortIndexes == -1..2

ListSymmetry == Permutations(Stores) \cup Permutations(Values)
=============================================================================
