---------------------------- MODULE MCPageTable ----------------------------
(* PageTable with six pages and tables of 2 to 16 entries.  Three pages are  *)
(* hashed as the code does it, at a word of 8 bits; three have the last      *)
(* entry as their home slot, so that their probes collide and wrap around.   *)
EXTENDS PageTable

Blocks == 1 .. 6

Multiplicative(m, cap) == (((m * 157) % 256) * cap) \div 256
Crowded(m, cap) == IF m <= 3 THEN Multiplicative(m, cap) ELSE cap - 1
=============================================================================
