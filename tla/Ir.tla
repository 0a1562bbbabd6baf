--------------------------------- MODULE Ir ---------------------------------
(* The intermediate representation of ir/ir.h and the emitters of ir/ir.c.   *)
(* A function under construction is a record of its name, the classes of its *)
(* parameters, the class of its result ("void" for none), its blocks and how *)
(* many temporaries and slots it has; a block is a sequence of instructions. *)
(* Blocks are numbered from 1, temporaries and slots from 0. The lowerer L   *)
(* holds the function, L.f, and the current block, L.b. Emitters return the  *)
(* lowerer and the value they define. Panic locations are left out.          *)
EXTENDS Integers, Sequences, TLC

\* What a cell holds, as the runtime knows it.
RV_FK == [int |-> 0, float |-> 1, bool |-> 2, ptr |-> 3]

NoValue == [k |-> "none", type |-> "w", n |-> 0]
ir_tmp(t, n) == [k |-> "tmp", type |-> t, n |-> n]
ir_int(t, n) == [k |-> "int", type |-> t, n |-> n]
ir_float(bits) == [k |-> "float", type |-> "d", n |-> bits]
ir_sym(name) == [k |-> "sym", type |-> "l", sym |-> name]

Instr(op, t) ==
  [op |-> op, type |-> t, dst |-> -1, a |-> NoValue, b |-> NoValue, offset |-> 0, slot |-> 0,
   callee |-> "", args |-> <<>>, target |-> 0, target2 |-> 0]

Comparing == {"ceq", "cne", "clt", "cle", "cgt", "cge"}
Terminators == {"jmp", "br", "ret", "hlt"}

ir_func_new(name, params, ret, nslots) ==
  [name |-> name, params |-> params, ret |-> ret, blocks |-> <<>>, ntemps |-> 0, nslots |-> nslots]

\* The new block is the last one.
ir_block_new(L) == [L EXCEPT !.f.blocks = Append(@, <<>>)]
LastBlock(L) == Len(L.f.blocks)
ir_slot(L) == [L EXCEPT !.f.nslots = @ + 1]
LastSlot(L) == L.f.nslots - 1

\* One symbol for each different string.
ir_string_literal(strings, bytes) ==
  IF \E i \in DOMAIN strings : strings[i].bytes = bytes THEN strings
  ELSE Append(strings, [sym |-> "rv_s" \o ToString(Len(strings)), bytes |-> bytes])
SymbolOf(strings, bytes) == (CHOOSE s \in {strings[i] : i \in DOMAIN strings} : s.bytes = bytes).sym

push(L, in) == [L EXCEPT !.f.blocks[L.b] = Append(@, in)]
with_dst(L, in, t) ==
  [l |-> push([L EXCEPT !.f.ntemps = @ + 1], [in EXCEPT !.dst = L.f.ntemps]), v |-> ir_tmp(t, L.f.ntemps)]

ir_emit_binary(L, op, t, a, c) == with_dst(L, [Instr(op, t) EXCEPT !.a = a, !.b = c], t)
ir_emit_cmp(L, op, t, a, c) == with_dst(L, [Instr(op, t) EXCEPT !.a = a, !.b = c], "w")
ir_emit_unary(L, op, t, a) == with_dst(L, [Instr(op, t) EXCEPT !.a = a], t)
ir_emit_load(L, t, addr, offset) == with_dst(L, [Instr("load", t) EXCEPT !.a = addr, !.offset = offset], t)
ir_emit_store(L, t, v, addr, offset) == push(L, [Instr("store", t) EXCEPT !.a = v, !.b = addr, !.offset = offset])
ir_emit_load_slot(L, t, slot) == with_dst(L, [Instr("load_slot", t) EXCEPT !.slot = slot], t)
ir_emit_store_slot(L, t, v, slot) == push(L, [Instr("store_slot", t) EXCEPT !.a = v, !.slot = slot])
ir_emit_call(L, callee, ret, args) ==
  LET in == [Instr("call", IF ret = "void" THEN "w" ELSE ret) EXCEPT !.callee = callee, !.args = args]
  IN IF ret = "void" THEN [l |-> push(L, in), v |-> NoValue] ELSE with_dst(L, in, ret)
ir_emit_jmp(L, target) == push(L, [Instr("jmp", "w") EXCEPT !.target = target])
ir_emit_br(L, cond, then, else) == push(L, [Instr("br", "w") EXCEPT !.a = cond, !.target = then, !.target2 = else])
ir_emit_ret(L, v) == push(L, [Instr("ret", v.type) EXCEPT !.a = v])
ir_emit_hlt(L) == push(L, Instr("hlt", "w"))

ir_block_terminated(block) == block # <<>> /\ block[Len(block)].op \in Terminators
=============================================================================
