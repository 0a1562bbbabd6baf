------------------------------- MODULE Lower -------------------------------
(* Lowering of the typed tree to the intermediate representation,            *)
(* lower/lower.c. The lowerer L is a record: syms, the checker's symbols; f  *)
(* and b, the function and block under construction; ret, what the function  *)
(* returns; loops, the targets of continue and break, innermost last; and    *)
(* strings, the literals of the module.                                      *)
(*                                                                           *)
(* The C compiler may evaluate the arguments of a call in either order. Two  *)
(* arguments that both emit code, or one that emits code next to one that    *)
(* reads the current block, come out differently: ArgOrder says which way.   *)
EXTENDS Ir, Types, SequencesExt

CONSTANT ArgOrder   \* "right" to left (gcc) or "left" to right (clang)

HEADER_SIZE == 16
CELL_SIZE == 8
Offset(field) == HEADER_SIZE + CELL_SIZE * (field - 1)

cls(t) == CASE t.k = "bool" -> "w" [] t.k = "float" -> "d" [] OTHER -> "l"
cell_cls(t) == IF t.k = "float" THEN "d" ELSE "l"
field_kind(t) == IF t.k \in {"int", "float", "bool"} THEN t.k ELSE "ptr"

Value(L, v) == [l |-> L, v |-> v]
new_block(L) == ir_block_new(L)
RECURSIVE NewBlocks(_, _)
NewBlocks(L, n) == IF n = 0 THEN L ELSE NewBlocks(new_block(L), n - 1)
use_block(L, b) == [L EXCEPT !.b = b]
terminated(L) == ir_block_terminated(L.f.blocks[L.b])
JumpUnlessTerminated(L, b) == IF terminated(L) THEN L ELSE ir_emit_jmp(L, b)
temp_slot(L) == ir_slot(L)

call(L, name, ret, args) == ir_emit_call(L, name, ret, args)
call_with(r, name, ret) == call(r.l, name, ret, <<r.v>>)
null_ptr == ir_int("l", 0)
w_const(n) == ir_int("w", n)

---------------------------------------------------------------------------
(* Values and their 8-byte cells                                             *)

to_cell(L, v, t) == IF t.k = "bool" THEN ir_emit_unary(L, "extuw", "l", v) ELSE Value(L, v)
from_cell(r, t) == IF t.k = "bool" THEN ir_emit_unary(r.l, "copy", "w", r.v) ELSE r
load_cell(L, addr, offset, t) == from_cell(ir_emit_load(L, cell_cls(t), addr, offset), t)
store_cell(r, addr, offset, t) ==
  LET c == to_cell(r.l, r.v, t) IN ir_emit_store(c.l, cell_cls(t), c.v, addr, offset)

IsValueType(t) == t.k \in {"int", "float", "bool"}
unbox(L, p, elem) == IF IsValueType(elem) THEN load_cell(L, p, HEADER_SIZE, elem) ELSE Value(L, p)
box(r, elem) == IF IsValueType(elem) THEN call_with(r, "rv_box_" \o elem.k, "l") ELSE r

Widen(r, from, to) == IF from.k = "int" /\ to.k = "float" THEN ir_emit_unary(r.l, "sltof", "d", r.v) ELSE r

\* The conversions the checker allows: r holds a value of type from.
convert(r, from, to) ==
  CASE from = to \/ IsError(from) \/ IsError(to) -> r
    [] from.k = "null" -> Value(r.l, null_ptr)
    [] to.k = "optional" -> IF from.k = "optional" THEN r ELSE box(Widen(r, from, to.elem), to.elem)
    [] OTHER -> Widen(r, from, to)

to_str(r, t) == IF IsValueType(t) THEN call_with(r, "rv_str_from_" \o t.k, "l") ELSE r

---------------------------------------------------------------------------
(* Expressions                                                               *)

\* Expressions and statements are nodes of one tree; lower, at the end of
\* them, goes by what a node is.
RECURSIVE lower(_, _)
lower_expr(L, e) == lower(L, e)
lower_stmt(L, s) == lower(L, s)
lower_expr_to(L, e, target) == convert(lower_expr(L, e), e.ty, target)

lower_name(L, e) ==
  LET sym == L.syms[e.sym]
      r == ir_emit_load_slot(L, cls(sym.type), sym.slot)
  IN IF sym.kind = "global" THEN load_cell(L, ir_sym(sym.mangled), 0, sym.type)
     ELSE IF e.ty # sym.type /\ sym.type.k = "optional" THEN unbox(r.l, r.v, sym.type.elem) ELSE r

RECURSIVE lower_parts(_, _)
lower_parts(acc, parts) ==
  IF parts = <<>> THEN acc
  ELSE LET part == to_str(lower_expr(acc.l, Head(parts)), Head(parts).ty)
       IN lower_parts(call(part.l, "rv_str_concat", "l", <<acc.v, part.v>>), Tail(parts))
lower_fstring(L, e) ==
  IF e.parts = <<>> THEN call(L, "rv_str_empty", "l", <<>>)
  ELSE lower_parts(to_str(lower_expr(L, e.parts[1]), e.parts[1].ty), Tail(e.parts))

list_fn(elem, name) == name \o (IF elem.k = "float" THEN "_d" ELSE "_l")

\* A value converted and widened to a cell.
cell_of(r, t) == to_cell(r.l, r.v, t)
lower_cell(L, e, t) == cell_of(lower_expr_to(L, e, t), t)

RECURSIVE lower_items(_, _, _)
lower_items(list, items, elem) ==
  IF items = <<>> THEN list
  ELSE LET c == lower_cell(list.l, Head(items), elem)
           added == call(c.l, list_fn(elem, "rv_list_append"), "void", <<list.v, c.v>>)
       IN lower_items(Value(added.l, list.v), Tail(items), elem)
lower_list_literal(L, e) ==
  lower_items(call(L, "rv_list_new", "l", <<ir_int("l", RV_FK[field_kind(e.ty.elem)]), ir_int("l", Len(e.items))>>),
              e.items, e.ty.elem)

lower_unary(L, e) ==
  LET r == lower_expr(L, e.operand)
  IN CASE e.op = "-" /\ e.operand.ty.k = "float" -> ir_emit_unary(r.l, "neg", "d", r.v)
       [] e.op = "-" -> call_with(r, "rv_neg", "l")
       [] e.op = "!" -> ir_emit_binary(r.l, "xor", "w", r.v, w_const(1))
       [] e.op = "~" -> ir_emit_binary(r.l, "xor", "l", r.v, ir_int("l", -1))

cmp_op == ("==" :> "ceq") @@ ("!=" :> "cne") @@ ("<" :> "clt") @@ ("<=" :> "cle") @@ (">" :> "cgt") @@ (">=" :> "cge")
Arith_fn == ("+" :> "rv_add") @@ ("-" :> "rv_sub") @@ ("*" :> "rv_mul") @@ ("/" :> "rv_div") @@ ("%" :> "rv_mod")
            @@ ("<<" :> "rv_shl") @@ (">>" :> "rv_shr")
Float_op == ("+" :> "add") @@ ("-" :> "sub") @@ ("*" :> "mul") @@ ("/" :> "div")
Bit_op == ("&" :> "and") @@ ("|" :> "or") @@ ("^" :> "xor")

\* Two operands, x.a and x.b, that have been evaluated; x.l is the lowerer.
Operands(a, r) == [l |-> r.l, a |-> a, b |-> r.v]
SecondTo(r, b, bt, t) == Operands(r.v, convert(Value(r.l, b), bt, t))
BothTo(x, at, bt, t) == SecondTo(convert(Value(x.l, x.a), at, t), x.b, bt, t)
emit_both(x, op, t) == ir_emit_binary(x.l, op, t, x.a, x.b)
cmp_both(x, op, t) == ir_emit_cmp(x.l, cmp_op[op], t, x.a, x.b)
call_both(x, name, ret) == call(x.l, name, ret, <<x.a, x.b>>)

NegateUnless(r, positive) == IF positive THEN r ELSE ir_emit_binary(r.l, "xor", "w", r.v, w_const(1))
CompareToZero(r, op) == ir_emit_cmp(r.l, cmp_op[op], "l", r.v, ir_int("l", 0))

lower_compare(x, op, at, bt) ==
  CASE at.k = "int" /\ bt.k = "int" -> cmp_both(x, op, "l")
    [] IsNumeric(at) /\ IsNumeric(bt) -> cmp_both(BothTo(x, at, bt, TFloat), op, "d")
    [] at.k = "bool" /\ bt.k = "bool" -> cmp_both(x, op, "w")
    [] at.k = "str" /\ bt.k = "str" /\ op \in {"==", "!="} -> NegateUnless(call_both(x, "rv_str_eq", "w"), op = "==")
    [] at.k = "str" /\ bt.k = "str" -> CompareToZero(call_both(x, "rv_str_cmp", "l"), op)
    [] "null" \in {at.k, bt.k} -> ir_emit_cmp(x.l, cmp_op[op], "l", IF at.k = "null" THEN x.b ELSE x.a, null_ptr)
    [] OTHER -> LET common == IF at.k = "optional" \/ bt.k # "optional" THEN at ELSE bt
                IN NegateUnless(call_both(BothTo(x, at, bt, common), "rv_eq", "w"), op = "==")

float_binop(x, op) == IF op = "%" THEN call_both(x, "fmod", "d") ELSE emit_both(x, Float_op[op], "d")

\* x.a op x.b.
lower_binop(x, op, at, bt, result) ==
  CASE op \in DOMAIN cmp_op -> lower_compare(x, op, at, bt)
    [] at.k = "str" -> call_both(x, "rv_str_concat", "l")
    [] result.k = "float" -> float_binop(BothTo(x, at, bt, TFloat), op)
    [] op \in DOMAIN Bit_op -> emit_both(x, Bit_op[op], "l")
    [] OTHER -> call_both(x, Arith_fn[op], "l")

\* The left side decides whether the right side runs; the result is in a slot.
lower_short_circuit(L, e) ==
  LET opened == NewBlocks(temp_slot(L), 2)
      slot == LastSlot(opened)
      join == LastBlock(opened)
      rhs == join - 1
      l == lower_expr(opened, e.lhs)
      stored == ir_emit_store_slot(l.l, "w", l.v, slot)
      branched == IF e.op = "&&" THEN ir_emit_br(stored, l.v, rhs, join) ELSE ir_emit_br(stored, l.v, join, rhs)
      r == lower_expr(use_block(branched, rhs), e.rhs)
      joined == ir_emit_jmp(ir_emit_store_slot(r.l, "w", r.v, slot), join)
  IN ir_emit_load_slot(use_block(joined, join), "w", slot)

lower_coalesce(L, e) ==
  LET t == cls(e.ty)
      opened == NewBlocks(temp_slot(L), 3)
      slot == LastSlot(opened)
      join == LastBlock(opened)
      none == join - 1
      some == join - 2
      p == lower_expr(opened, e.lhs)
      test == ir_emit_cmp(p.l, "ceq", "l", p.v, null_ptr)
      u == unbox(use_block(ir_emit_br(test.l, test.v, none, some), some), p.v, e.ty)
      kept == ir_emit_jmp(ir_emit_store_slot(u.l, t, u.v, slot), join)
      d == lower_expr_to(use_block(kept, none), e.rhs, e.ty)
      joined == ir_emit_jmp(ir_emit_store_slot(d.l, t, d.v, slot), join)
  IN ir_emit_load_slot(use_block(joined, join), t, slot)

lower_binary(L, e) ==
  LET a == lower_expr(L, e.lhs)
  IN CASE e.op \in {"&&", "||"} -> lower_short_circuit(L, e)
       [] e.op = "??" -> lower_coalesce(L, e)
       [] OTHER -> lower_binop(Operands(a.v, lower_expr(a.l, e.rhs)), e.op, e.lhs.ty, e.rhs.ty, e.ty)

lower_field(L, e) == LET b == lower_expr(L, e.base) IN load_cell(b.l, b.v, Offset(e.field), e.ty)

list_get(L, list, i, elem) == from_cell(call(L, list_fn(elem, "rv_list_get"), cell_cls(elem), <<list, i>>), elem)

lower_index(L, e) ==
  LET b == lower_expr(L, e.base)
      i == lower_expr_to(b.l, e.index, TInt)
  IN IF e.base.ty.k = "str" THEN call(i.l, "rv_str_index", "l", <<b.v, i.v>>) ELSE list_get(i.l, b.v, i.v, e.ty)

lower_slice(L, e) ==
  LET b == lower_expr(L, e.base)
      lo == lower_expr_to(b.l, e.lo, TInt)
      hi == lower_expr_to(lo.l, e.hi, TInt)
  IN call(hi.l, IF e.base.ty.k = "str" THEN "rv_str_slice" ELSE "rv_list_slice", "l", <<b.v, lo.v, hi.v>>)

---------------------------------------------------------------------------
(* Calls                                                                     *)

lower_min_max(L, e) ==
  LET c == cls(e.ty)
      opened == NewBlocks(temp_slot(L), 3)
      slot == LastSlot(opened)
      join == LastBlock(opened)
      a == lower_expr_to(opened, e.args[1].value, e.ty)
      b == lower_expr_to(a.l, e.args[2].value, e.ty)
      wins == ir_emit_cmp(b.l, IF e.builtin = "min" THEN "cle" ELSE "cge", c, a.v, b.v)
      chosen == use_block(ir_emit_br(wins.l, wins.v, join - 2, join - 1), join - 2)
      first == use_block(ir_emit_jmp(ir_emit_store_slot(chosen, c, a.v, slot), join), join - 1)
      second == ir_emit_jmp(ir_emit_store_slot(first, c, b.v, slot), join)
  IN ir_emit_load_slot(use_block(second, join), c, slot)

\* Two arguments of one C call that both emit code.
Swapped(x) == [x EXCEPT !.a = x.b, !.b = x.a]
BothInOrder(L, x, y) == LET a == lower_expr(L, x) IN Operands(a.v, lower_expr(a.l, y))
InArgOrder(L, x, y) == IF ArgOrder = "left" THEN BothInOrder(L, x, y) ELSE Swapped(BothInOrder(L, y, x))

\* What follows a call that does not return is in a block nothing jumps to.
NoReturn(r) == LET stopped == new_block(ir_emit_hlt(r.l)) IN Value(use_block(stopped, LastBlock(stopped)), NoValue)

\* Builtins that are one call with their arguments: the class of the result.
Wrapping == [wrapping_add |-> "add", wrapping_sub |-> "sub", wrapping_mul |-> "mul"]

print_fn == [print |-> "rv_print", println |-> "rv_println", eprintln |-> "rv_eprintln"]
lower_builtin(L, e) ==
  LET a0 == e.args[1].value
      v == lower_expr(L, a0)
      t == a0.ty.k
      two == InArgOrder(L, a0, e.args[2].value)
  IN CASE e.builtin \in DOMAIN print_fn -> call_with(to_str(v, a0.ty), print_fn[e.builtin], "void")
       [] e.builtin = "len" -> ir_emit_load(v.l, "l", v.v, HEADER_SIZE)
       [] e.builtin = "str" -> to_str(v, a0.ty)
       [] e.builtin = "int" -> IF t = "str" THEN call_with(v, "rv_str_parse_int", "l")
                               ELSE IF t = "float" THEN call_with(v, "rv_float_to_int", "l") ELSE v
       [] e.builtin = "float" -> IF t = "str" THEN call_with(v, "rv_str_parse_float", "l") ELSE convert(v, a0.ty, TFloat)
       [] e.builtin = "ord" -> call_with(v, "rv_ord", "l")
       [] e.builtin = "chr" -> call_with(convert(v, a0.ty, TInt), "rv_chr", "l")
       [] e.builtin = "panic" -> NoReturn(call_with(v, "rv_panic", "void"))
       [] e.builtin = "assert" -> call_with(v, "rv_assert", "void")
       [] e.builtin = "exit" -> NoReturn(call_with(convert(v, a0.ty, TInt), "rv_exit", "void"))
       [] e.builtin \in {"args", "read_line"} -> call(L, "rv_" \o e.builtin, "l", <<>>)
       [] e.builtin = "read_file" -> call_with(v, "rv_read_file", "l")
       [] e.builtin = "write_file" -> call_both(two, "rv_write_file", "w")
       [] e.builtin = "sqrt" -> call_with(convert(v, a0.ty, TFloat), "rv_sqrt", "d")
       [] e.builtin = "abs" -> IF t = "float" THEN call_with(v, "fabs", "d") ELSE call_with(v, "rv_abs", "l")
       [] e.builtin \in {"min", "max"} -> lower_min_max(L, e)
       [] e.builtin \in DOMAIN Wrapping -> emit_both(two, Wrapping[e.builtin], "l")

\* Arguments as they are, in order: [l, vs].
RECURSIVE lower_args(_, _, _, _)
lower_args(L, args, params, vs) ==
  IF args = <<>> THEN [l |-> L, vs |-> vs]
  ELSE LET a == Head(args).value
           r == lower_expr_to(L, a, IF params = <<>> THEN a.ty ELSE Head(params))
       IN lower_args(r.l, Tail(args), IF params = <<>> THEN <<>> ELSE Tail(params), Append(vs, r.v))

lower_str_method(L, e) ==
  LET self == lower_expr(L, e.callee.base)
      args == lower_args(self.l, e.args, <<>>, <<self.v>>)
      class == IF e.builtin \in {"contains", "starts_with", "ends_with"} THEN "w" ELSE "l"
  IN call(args.l, "rv_str_" \o e.builtin, class, args.vs)

lower_list_method(L, e) ==
  LET elem == e.callee.base.ty.elem
      self == lower_expr(L, e.callee.base)
      fn == list_fn(elem, "rv_list_" \o e.builtin)
      v == lower_cell(self.l, e.args[1].value, elem)
      i == lower_expr_to(self.l, e.args[1].value, TInt)
      iv == lower_cell(i.l, e.args[2].value, elem)
  IN CASE e.builtin = "append" -> call(v.l, fn, "void", <<self.v, v.v>>)
       [] e.builtin = "pop" -> from_cell(call(self.l, fn, cell_cls(elem), <<self.v>>), elem)
       [] e.builtin = "insert" -> call(iv.l, fn, "void", <<self.v, i.v, iv.v>>)
       [] e.builtin = "remove_at" -> from_cell(call(i.l, fn, cell_cls(elem), <<self.v, i.v>>), elem)
       [] e.builtin = "clear" -> call_with(self, "rv_list_clear", "void")
       [] e.builtin = "contains" -> call(v.l, fn, "w", <<self.v, v.v>>)
       [] e.builtin = "index_of" -> call(v.l, fn, "l", <<self.v, v.v>>)

\* The object comes first; the fields are evaluated into it.
RECURSIVE lower_fields(_, _, _)
lower_fields(obj, args, st) ==
  IF args = <<>> THEN obj
  ELSE LET a == Head(args)
           t == st.fields[a.field].type
           stored == store_cell(lower_expr_to(obj.l, a.value, t), obj.v, Offset(a.field), t)
       IN lower_fields(Value(stored, obj.v), Tail(args), st)

ResultClass(t) == IF t.k = "void" THEN "void" ELSE cls(t)
lower_call(L, e) ==
  LET callee == L.syms[e.sym]
      args == lower_args(L, e.args, callee.params, <<>>)
      self == lower_expr(L, e.callee.base)
      margs == lower_args(self.l, e.args, Tail(callee.params), <<self.v>>)
  IN CASE e.kind = "func" -> call(args.l, callee.mangled, ResultClass(callee.type), args.vs)
       [] e.kind = "method" -> call(margs.l, callee.mangled, ResultClass(callee.type), margs.vs)
       [] e.kind = "construct" -> lower_fields(call(L, "rv_alloc", "l", <<ir_sym(callee.mangled)>>), e.args, callee)
       [] e.kind = "builtin" -> lower_builtin(L, e)
       [] e.kind = "str_method" -> lower_str_method(L, e)
       [] e.kind = "list_method" -> lower_list_method(L, e)

lower_string(L, bytes) ==
  LET strings == ir_string_literal(L.strings, bytes)
  IN Value([L EXCEPT !.strings = strings], ir_sym(SymbolOf(strings, bytes)))

IntNode(L, e) == lower_expr_to(L, e, TInt)
store_slot(r, t, slot) == ir_emit_store_slot(r.l, t, r.v, slot)
load_slot(L, slot) == ir_emit_load_slot(L, "l", slot)

---------------------------------------------------------------------------
(* Assignments                                                               *)

\* What `place op= value` stores, when cur is what the place holds.
Combined(cur, s, at, result, wanted) ==
  convert(lower_binop(Operands(cur.v, lower_expr(cur.l, s.value)), compound_base_op(s.op), at, s.value.ty, result), result, wanted)

\* What s stores in a place that holds wanted values, read as at: cur is what it
\* holds now, and L the lowerer once the place is known.
StoredValue(L, cur, s, at, result, wanted) ==
  IF s.op = "=" THEN lower_expr_to(L, s.value, wanted) ELSE Combined(cur, s, at, result, wanted)

store_name(r, sym) ==
  IF sym.kind = "global" THEN store_cell(r, ir_sym(sym.mangled), 0, sym.type) ELSE store_slot(r, cls(sym.type), sym.slot)
assign_to_name(L, s) ==
  LET sym == L.syms[s.target.sym]
      t == s.target.ty
      numeric == IsNumeric(t) /\ IsNumeric(s.value.ty)
      sum == IF ~numeric THEN t ELSE IF t = TInt /\ s.value.ty = TInt THEN TInt ELSE TFloat
  IN store_name(StoredValue(L, lower_name(L, s.target), s, t, sum, sym.type), sym)

\* b is the base, already evaluated.
assign_to_field(b, s) ==
  LET t == s.target.ty
      offset == Offset(s.target.field)
  IN store_cell(StoredValue(b.l, load_cell(b.l, b.v, offset, t), s, t, t, t), b.v, offset, t)

\* x holds the list and the index.
set_item(x, c, elem) == call(c.l, list_fn(elem, "rv_list_set"), "void", <<x.a, x.b, c.v>>).l
assign_to_index(x, s, elem) ==
  set_item(x, cell_of(StoredValue(x.l, list_get(x.l, x.a, x.b, elem), s, elem, elem, elem), elem), elem)

lower_place(b, index) == Operands(b.v, IntNode(b.l, index))
lower_assign(L, s) ==
  CASE s.target.k = "name" -> assign_to_name(L, s)
    [] s.target.k = "field" -> assign_to_field(lower_expr(L, s.target.base), s)
    [] s.target.k = "index" -> assign_to_index(lower_place(lower_expr(L, s.target.base), s.target.index), s, s.target.base.ty.elem)

---------------------------------------------------------------------------
(* Control flow                                                              *)

\* Fault: the rest of the block stays where it is.
LeaveStays(L) == L
\* The rest of the block goes where nothing jumps to.
Leave(L) == use_block(new_block(L), LastBlock(L) + 1)

\* There is a block to emit into: asking for it makes TLC work out L first.
InBlock(L) == L.b # 0

RECURSIVE lower_block(_, _)

lower_block(L, b) == IF InBlock(L) /\ b = <<>> THEN L ELSE lower_block(lower_stmt(L, Head(b)), Tail(b))

lower_if(L, s) ==
  LET then == LastBlock(L) + 1
      join == IF s.else = None THEN then + 1 ELSE then + 2
      other == then + 1   \* the else block, or the join
      cond == lower_expr(NewBlocks(L, join - LastBlock(L)), s.cond)
      taken == lower_block(use_block(ir_emit_br(cond.l, cond.v, then, other), then), s.then)
      left == JumpUnlessTerminated(taken, join)
      refused == JumpUnlessTerminated(lower_stmt(use_block(left, other), s.else), join)
  IN use_block(IF s.else = None THEN left ELSE refused, join)

push_loop(L, continueTo, breakTo) == [L EXCEPT !.loops = Append(@, [continue |-> continueTo, break |-> breakTo])]
pop_loop(L) == [L EXCEPT !.loops = Front(@)]

\* The body of a loop and what happens at its end.
LoopBody(L, b, continueTo, breakTo) ==
  JumpUnlessTerminated(pop_loop(lower_block(push_loop(L, continueTo, breakTo), b)), continueTo)

lower_while(L, s) ==
  LET header == LastBlock(L) + 1  body == header + 1  exit == header + 2
      cond == lower_expr(use_block(ir_emit_jmp(NewBlocks(L, 3), header), header), s.cond)
      entered == use_block(ir_emit_br(cond.l, cond.v, body, exit), body)
  IN use_block(LoopBody(entered, s.body, header, exit), exit)

\* Up by one and back to the header.
StepBy(L, slot, header) ==
  LET i == load_slot(L, slot)
      next == ir_emit_binary(i.l, "add", "l", i.v, ir_int("l", 1))
  IN ir_emit_jmp(store_slot(next, "l", slot), header)

\* A branch on how two slots compare.
Test(L, op, x, y, then, else) ==
  LET a == load_slot(L, x)  b == load_slot(a.l, y)
      c == ir_emit_cmp(b.l, op, "l", a.v, b.v)
  IN ir_emit_br(c.l, c.v, then, else)

\* An inclusive range stops before counting past its end.
InclusiveStep(L, cur, end, exit) ==
  LET incr == LastBlock(L) + 1 IN use_block(Test(new_block(L), "ceq", cur, end, exit, incr), incr)

lower_for_range(L, s) ==
  LET opened == NewBlocks(temp_slot(temp_slot(L)), 4)
      end == LastSlot(opened) - 1  cur == end + 1
      exit == LastBlock(opened)
      header == exit - 3  body == exit - 2  step == exit - 1
      lo == store_slot(IntNode(opened, s.iter.lo), "l", cur)
      hi == store_slot(IntNode(lo, s.iter.hi), "l", end)
      tested == Test(use_block(ir_emit_jmp(hi, header), header), IF s.iter.inclusive THEN "cle" ELSE "clt", cur, end, body, exit)
      i == load_slot(use_block(tested, body), cur)
      ran == LoopBody(store_slot(i, "l", L.syms[s.sym].slot), s.body, step, exit)
      stepping == use_block(ran, step)
  IN use_block(StepBy(IF s.iter.inclusive THEN InclusiveStep(stepping, cur, end, exit) ELSE stepping, cur, header), exit)

\* The length is read once, before the first iteration.
lower_for_each(L, s) ==
  LET elem == IF s.iter.ty.k = "str" THEN TStr ELSE s.iter.ty.elem
      opened == NewBlocks(temp_slot(temp_slot(temp_slot(L))), 4)
      idx == LastSlot(opened)  len == idx - 1  seq == idx - 2
      exit == LastBlock(opened)
      header == exit - 3  body == exit - 2  step == exit - 1
      iter == lower_expr(opened, s.iter)
      kept == store_slot(iter, "l", seq)
      counted == store_slot(ir_emit_load(kept, "l", iter.v, HEADER_SIZE), "l", len)
      started == ir_emit_jmp(ir_emit_store_slot(counted, "l", ir_int("l", 0), idx), header)
      q == load_slot(use_block(Test(use_block(started, header), "clt", idx, len, body, exit), body), seq)
      i == load_slot(q.l, idx)
      item == IF s.iter.ty.k = "str" THEN call(i.l, "rv_str_index", "l", <<q.v, i.v>>) ELSE list_get(i.l, q.v, i.v, elem)
      ran == LoopBody(store_slot(item, cls(elem), L.syms[s.sym].slot), s.body, step, exit)
  IN use_block(StepBy(use_block(ran, step), idx, header), exit)

\* The block the return goes into is an argument next to the one that emits the value.
lower_return(L, s) ==
  LET v == lower_expr_to(L, s.value, L.ret)
      into == IF ArgOrder = "left" THEN L.b ELSE v.l.b
      returned == IF s.value = None THEN ir_emit_ret(L, NoValue)
                  ELSE use_block(ir_emit_ret(use_block(v.l, into), v.v), v.l.b)
  IN Leave(returned)

lower_var(L, s) ==
  LET t == L.syms[s.sym].type IN store_slot(lower_expr_to(L, s.init, t), cls(t), L.syms[s.sym].slot)

lower(L, n) ==
  CASE InBlock(L) /\ n.k = "int" -> Value(L, ir_int("l", n.val))
    [] n.k = "float" -> Value(L, ir_float(n.val))
    [] n.k = "bool" -> Value(L, w_const(IF n.val THEN 1 ELSE 0))
    [] n.k = "string" -> lower_string(L, n.bytes)
    [] n.k = "null" -> Value(L, null_ptr)
    [] n.k = "name" -> lower_name(L, n)
    [] n.k = "fstring" -> lower_fstring(L, n)
    [] n.k = "list" -> lower_list_literal(L, n)
    [] n.k = "unary" -> lower_unary(L, n)
    [] n.k = "binary" -> lower_binary(L, n)
    [] n.k = "call" -> lower_call(L, n)
    [] n.k = "field" -> lower_field(L, n)
    [] n.k = "index" -> lower_index(L, n)
    [] n.k = "slice" -> lower_slice(L, n)
    [] n.k = "var" -> lower_var(L, n)
    [] n.k = "assign" -> lower_assign(L, n)
    [] n.k = "expr" -> lower_expr(L, n.expr).l
    [] n.k = "if" -> lower_if(L, n)
    [] n.k = "while" -> lower_while(L, n)
    [] n.k = "for" -> IF n.iter.k = "range" THEN lower_for_range(L, n) ELSE lower_for_each(L, n)
    [] n.k = "break" -> Leave(ir_emit_jmp(L, Last(L.loops).break))
    [] n.k = "continue" -> Leave(ir_emit_jmp(L, Last(L.loops).continue))
    [] n.k = "return" -> lower_return(L, n)
    [] n.k = "block" -> lower_block(L, n.body)

---------------------------------------------------------------------------
(* Declarations                                                              *)

Closed(block, ret) ==
  IF ir_block_terminated(block) THEN block
  ELSE Append(block, IF ret = "void" THEN [Instr("ret", "w") EXCEPT !.a = NoValue] ELSE Instr("hlt", "w"))

Finished(L) ==
  [L EXCEPT !.funcs = Append(@, [L.f EXCEPT !.blocks = [b \in DOMAIN @ |-> Closed(@[b], L.f.ret)]])]

\* The entry block only takes the parameters; the body is in one of its own.
lower_function(L, fn) ==
  LET sym == L.syms[fn]
      new == [L EXCEPT !.f = ir_func_new(sym.mangled, [i \in DOMAIN sym.params |-> cls(sym.params[i])],
                                         ResultClass(sym.type), sym.nlocals),
                       !.ret = sym.type]
      entry == use_block(NewBlocks(new, 2), 1)
  IN Finished(lower_block(use_block(ir_emit_jmp(entry, 2), 2), sym.decl.body))

\* A pointer global starts out as a literal, or as nothing.
GlobalData(sym, kind, init) == [sym |-> sym, kind |-> kind, init |-> init]
lower_global(L, g) ==
  LET sym == L.syms[g]
      kind == IF sym.type.k \in {"int", "bool"} THEN "int" ELSE IF sym.type.k = "float" THEN "float" ELSE "ptr"
      text == lower_string(L, sym.value.v)
  IN IF sym.type.k = "str"
       THEN [text.l EXCEPT !.globals = Append(@, GlobalData(sym.mangled, "ptr", text.v.sym))]
     ELSE [L EXCEPT !.globals = Append(@, GlobalData(sym.mangled, kind, IF kind = "ptr" THEN "" ELSE sym.value.v))]

lower_typeinfo(sym) == [sym |-> sym.mangled, fks |-> [i \in DOMAIN sym.fields |-> field_kind(sym.fields[i].type)]]

NewLowerer(C) ==
  [syms |-> C.syms, f |-> ir_func_new("", <<>>, "void", 0), b |-> 0, ret |-> TVoid, loops |-> <<>>,
   strings |-> <<>>, globals |-> <<>>, funcs |-> <<>>]
ModuleOf(L, C) ==
  [funcs |-> L.funcs, globals |-> L.globals, strings |-> L.strings,
   typeinfos |-> [i \in DOMAIN C.structs |-> lower_typeinfo(C.syms[C.structs[i]])],
   main |-> C.syms[C.main].mangled, returnsInt |-> C.syms[C.main].type = TInt]

RECURSIVE lower_globals(_, _), lower_functions(_, _)
lower_globals(L, gs) == IF gs = <<>> THEN L ELSE lower_globals(lower_global(L, Head(gs)), Tail(gs))
lower_functions(L, fs) == IF fs = <<>> THEN L ELSE lower_functions(lower_function(L, Head(fs)), Tail(fs))

\* A checked program as a module.
lower_program(C) == ModuleOf(lower_functions(lower_globals(NewLowerer(C), C.globals), C.funcs), C)
=============================================================================
