------------------------------ MODULE Machine ------------------------------
(* A compiled program running: one instruction of the code that              *)
(* backend/qbe.c writes, or one call into runtime/rivel_rt.c, in one step.   *)
(*                                                                           *)
(* The machine m is a record: state, "running" or how it ended; code, its    *)
(* exit status; panic, the message it died with; frames, the stack, the      *)
(* innermost last; cells, the globals; h, the heap and the world outside.    *)
(* Registers, slots and cells hold integers; a pointer is Base plus the      *)
(* number of an object.                                                      *)
EXTENDS Qbe, RtValues

HEADER_SIZE == 16
CELL_SIZE == 8
ExitPanic == 101
Unset == Base * Base   \* what a slot holds before its first store

FuncOf(il, name) == CHOOSE f \in ToSet(il.funcs) : f.name = name

---------------------------------------------------------------------------
(* Loading                                                                   *)

\* Literals are objects that exist before the program starts.
Literals(il) == SelectSeq(il.data, LAMBDA d : d.items[1].sym = "rv_ti_str")
StaticAddress(il, sym) == Base + SelectInSeq(Literals(il), LAMBDA d : d.sym = sym)
InitialCell(il, item) == IF item.sym = "" THEN item.v ELSE StaticAddress(il, item.sym)

\* A parameter is in the slot of its number.
Frame(f, args, dst) ==
  [f |-> f.name, b |-> 1, pc |-> 1, dst |-> dst,
   t |-> [n \in 0..(f.ntemps - 1) |-> Unset],
   s |-> [n \in 0..(f.nslots - 1) |-> IF n < Len(args) THEN args[n + 1] ELSE Unset]]

\* rv_init, the roots, and the call of the program's main.
emit_main(il, world) ==
  [state |-> "running", code |-> 0, panic |-> "", text |-> <<>>,
   frames |-> <<Frame(FuncOf(il, il.main), <<>>, -1)>>,
   cells |-> [g \in il.globals |-> InitialCell(il, (CHOOSE d \in ToSet(il.data) : d.sym = g).items[1])],
   h |-> [world EXCEPT !.objs = [i \in DOMAIN Literals(il) |-> Str(Literals(il)[i].items[5].bytes)]]]

---------------------------------------------------------------------------
(* How a program ends                                                        *)

Ended(m, state, code) == [m EXCEPT !.state = state, !.code = code % 256]
Panicked(m, msg, text) == [Ended(m, "panic", ExitPanic) EXCEPT !.panic = msg, !.text = text]
Crashed(m) == Ended(m, "crash", 0)

---------------------------------------------------------------------------
(* Memory                                                                    *)

\* The cells of a list are not where the code of a program reads.
LoadAt(H, p, offset) ==
  LET o == Obj(H, p)
  IN IF o.kind \in {"str", "list"} THEN Len(o.cells) ELSE o.cells[(offset - HEADER_SIZE) \div CELL_SIZE + 1]
StoreAt(H, p, offset, v) == SetCells(H, p, [Obj(H, p).cells EXCEPT ![(offset - HEADER_SIZE) \div CELL_SIZE + 1] = v])
Mapped(H, p) == p - Base \in DOMAIN H.objs

---------------------------------------------------------------------------
(* Calls into the runtime                                                    *)

KindOf(n) == CHOOSE k \in DOMAIN RV_FK : RV_FK[k] = n
TypeInfo(il, sym) == CHOOSE ti \in ToSet(il.typeinfos) : ti.sym = sym

RtArith(H, fn, a, b) ==
  CASE fn = "rv_add" -> rv_add(H, a, b) [] fn = "rv_sub" -> rv_sub(H, a, b) [] fn = "rv_mul" -> rv_mul(H, a, b)
    [] fn = "rv_div" -> rv_div(H, a, b) [] fn = "rv_mod" -> rv_mod(H, a, b)
    [] fn = "rv_shl" -> rv_shl(H, a, b) [] fn = "rv_shr" -> rv_shr(H, a, b)
ArithNames == {"rv_add", "rv_sub", "rv_mul", "rv_div", "rv_mod", "rv_shl", "rv_shr"}

RtList(H, fn, a) ==
  CASE fn = "rv_list_new" -> rv_list_new(H, KindOf(a[1]))
    [] fn = "rv_list_clear" -> rv_list_clear(H, a[1])
    [] fn = "rv_list_slice" -> rv_list_slice(H, a[1], a[2], a[3])
    [] fn \in {"rv_list_get_l", "rv_list_get_d"} -> rv_list_get(H, a[1], a[2])
    [] fn \in {"rv_list_set_l", "rv_list_set_d"} -> rv_list_set(H, a[1], a[2], a[3])
    [] fn \in {"rv_list_append_l", "rv_list_append_d"} -> rv_list_append(H, a[1], a[2])
    [] fn \in {"rv_list_pop_l", "rv_list_pop_d"} -> rv_list_pop(H, a[1])
    [] fn \in {"rv_list_insert_l", "rv_list_insert_d"} -> rv_list_insert(H, a[1], a[2], a[3])
    [] fn \in {"rv_list_remove_at_l", "rv_list_remove_at_d"} -> rv_list_remove_at(H, a[1], a[2])
    [] fn \in {"rv_list_contains_l", "rv_list_contains_d"} -> rv_list_contains(H, a[1], a[2])
    [] fn \in {"rv_list_index_of_l", "rv_list_index_of_d"} -> rv_list_index_of(H, a[1], a[2])

RtStr(H, fn, a) ==
  CASE fn = "rv_str_empty" -> rv_str_empty(H)
    [] fn = "rv_str_concat" -> rv_str_concat(H, a[1], a[2]) [] fn = "rv_str_eq" -> rv_str_eq(H, a[1], a[2])
    [] fn = "rv_str_cmp" -> rv_str_cmp(H, a[1], a[2])       [] fn = "rv_str_index" -> rv_str_index(H, a[1], a[2])
    [] fn = "rv_str_slice" -> rv_str_slice(H, a[1], a[2], a[3])
    [] fn = "rv_str_contains" -> rv_str_contains(H, a[1], a[2])
    [] fn = "rv_str_starts_with" -> rv_str_starts_with(H, a[1], a[2])
    [] fn = "rv_str_ends_with" -> rv_str_ends_with(H, a[1], a[2])
    [] fn = "rv_str_find" -> rv_str_find(H, a[1], a[2])     [] fn = "rv_str_split" -> rv_str_split(H, a[1], a[2])
    [] fn = "rv_str_join" -> rv_str_join(H, a[1], a[2])     [] fn = "rv_str_trim" -> rv_str_trim(H, a[1])
    [] fn = "rv_str_upper" -> rv_str_upper(H, a[1])         [] fn = "rv_str_lower" -> rv_str_lower(H, a[1])
    [] fn = "rv_str_replace" -> rv_str_replace(H, a[1], a[2], a[3])
    [] fn = "rv_str_repeat" -> rv_str_repeat(H, a[1], a[2])
    [] fn = "rv_str_from_int" -> rv_str_from_int(H, a[1])   [] fn = "rv_str_from_float" -> rv_str_from_float(H, a[1])
    [] fn = "rv_str_from_bool" -> rv_str_from_bool(H, a[1]) [] fn = "rv_str_parse_int" -> rv_str_parse_int(H, a[1])
    [] fn = "rv_str_parse_float" -> rv_str_parse_float(H, a[1])

RtOther(il, H, fn, a) ==
  CASE fn \in ArithNames -> RtArith(H, fn, a[1], a[2])
    [] fn = "rv_neg" -> rv_neg(H, a[1]) [] fn = "rv_abs" -> rv_abs(H, a[1])
    [] fn = "rv_float_to_int" -> rv_float_to_int(H, a[1])
    [] fn = "rv_alloc" -> rv_alloc(H, a[1], TypeInfo(il, a[1]).fks)
    [] fn = "rv_box_int" -> rv_box(H, "int", a[1]) [] fn = "rv_box_float" -> rv_box(H, "float", a[1])
    [] fn = "rv_box_bool" -> rv_box(H, "bool", a[1])
    [] fn = "rv_ord" -> rv_ord(H, a[1]) [] fn = "rv_chr" -> rv_chr(H, a[1])
    [] fn = "rv_eq" -> Done(H, B(rv_eq(H, a[1], a[2])))
    [] fn = "rv_print" -> rv_print(H, a[1]) [] fn = "rv_println" -> rv_println(H, a[1])
    [] fn = "rv_eprintln" -> rv_eprintln(H, a[1])
    [] fn = "rv_args" -> rv_args(H) [] fn = "rv_read_line" -> rv_read_line(H)
    [] fn = "rv_read_file" -> rv_read_file(H, a[1]) [] fn = "rv_write_file" -> rv_write_file(H, a[1], a[2])
    [] fn = "rv_assert" -> rv_assert(H, a[1])
    [] fn = "rv_sqrt" -> rv_sqrt(H, a[1])
    [] fn = "fabs" -> Done(H, FAbs(a[1])) [] fn = "fmod" -> Done(H, FMod(a[1], a[2]))

Named(fn, prefix) == Len(fn) > Len(prefix) /\ SubSeq(fn, 1, Len(prefix)) = prefix
Runtime(il, H, fn, a) ==
  CASE Named(fn, "rv_str_") -> RtStr(H, fn, a)
    [] Named(fn, "rv_list_") -> RtList(H, fn, a)
    [] OTHER -> RtOther(il, H, fn, a)

---------------------------------------------------------------------------
(* Instructions                                                              *)

Top(m) == Last(m.frames)
Set(m, in, v) == IF in.dst < 0 THEN m ELSE [m EXCEPT !.frames[Len(m.frames)].t[in.dst] = v]
Onwards(m) == [m EXCEPT !.frames[Len(m.frames)].pc = @ + 1]
JumpTo(m, b) == [m EXCEPT !.frames[Len(m.frames)].b = b, !.frames[Len(m.frames)].pc = 1]

\* A literal's symbol is its address; other symbols are used as they are.
Operand(il, m, v) ==
  CASE v.k = "tmp" -> Top(m).t[v.n]
    [] v.k = "sym" -> IF \E d \in ToSet(Literals(il)) : d.sym = v.sym THEN StaticAddress(il, v.sym) ELSE v.sym
    [] OTHER -> v.n

LowHalf(n) == n % 2^(Width \div 2)
Unop(in, a) ==
  CASE in.op = "copy" -> LowHalf(a) [] in.op = "extuw" -> LowHalf(a)
    [] in.op = "neg" -> FNeg(a) [] in.op = "sltof" -> OfInt(a)
Binop(in, a, b) ==
  LET t == in.type
  IN CASE in.op = "add" -> IF t = "d" THEN FAdd(a, b) ELSE Wrap(a + b)
       [] in.op = "sub" -> IF t = "d" THEN FSub(a, b) ELSE Wrap(a - b)
       [] in.op = "mul" -> IF t = "d" THEN FMul(a, b) ELSE Wrap(a * b)
       [] in.op = "div" -> FDiv(a, b)
       [] in.op = "and" -> BitAnd(a, b) [] in.op = "or" -> BitOr(a, b)
       [] in.op = "xor" -> IF t = "w" THEN LowHalf(BitXor(a, b)) ELSE BitXor(a, b)
       [] in.op \in {"ceqw", "ceql"} -> B(a = b) [] in.op \in {"cnew", "cnel"} -> B(a # b)
       [] in.op \in {"csltw", "csltl"} -> B(a < b) [] in.op \in {"cslew", "cslel"} -> B(a <= b)
       [] in.op \in {"csgtw", "csgtl"} -> B(a > b) [] in.op \in {"csgew", "csgel"} -> B(a >= b)
       [] in.op = "ceqd" -> B(FEq(a, b)) [] in.op = "cned" -> B(~FEq(a, b))
       [] in.op = "cltd" -> B(FLt(a, b)) [] in.op = "cled" -> B(FLe(a, b))
       [] in.op = "cgtd" -> B(FLt(b, a)) [] in.op = "cged" -> B(FLe(b, a))

DoLoad(il, m, in) ==
  LET p == Operand(il, m, in.a)
  IN IF in.a.k = "sym" /\ in.a.sym \in DOMAIN m.cells THEN Onwards(Set(m, in, m.cells[in.a.sym]))
     ELSE IF Mapped(m.h, p) THEN Onwards(Set(m, in, LoadAt(m.h, p, in.offset)))
     ELSE Crashed(m)
DoStore(il, m, in) ==
  LET v == Operand(il, m, in.a)
      p == Operand(il, m, in.b)
  IN IF in.b.k = "sym" THEN Onwards([m EXCEPT !.cells[in.b.sym] = v])
     ELSE IF Mapped(m.h, p) THEN Onwards([m EXCEPT !.h = StoreAt(@, p, in.offset, v)])
     ELSE Crashed(m)

\* The arguments a runtime function follows.
TwoPointers == {"rv_str_concat", "rv_str_eq", "rv_str_cmp", "rv_str_contains", "rv_str_starts_with", "rv_str_ends_with",
                "rv_str_find", "rv_str_split", "rv_str_join", "rv_write_file"}
NoPointers == {"rv_str_empty", "rv_str_from_int", "rv_str_from_float", "rv_str_from_bool", "rv_list_new"}
OnePointer == {"rv_ord", "rv_print", "rv_println", "rv_eprintln", "rv_read_file", "rv_panic"}
Follows(fn) ==
  CASE fn \in TwoPointers -> {1, 2} [] fn = "rv_str_replace" -> {1, 2, 3} [] fn \in NoPointers -> {}
    [] fn \in OnePointer \/ Named(fn, "rv_str_") \/ Named(fn, "rv_list_") -> {1}
    [] OTHER -> {}

DoRuntime(il, m, in, a) ==
  LET r == Runtime(il, m.h, in.callee, a)
      after == [m EXCEPT !.h = r.h]
  IN CASE \E i \in Follows(in.callee) : ~Mapped(m.h, a[i]) -> Crashed(m)
       [] in.callee = "rv_exit" -> Ended(m, "exit", a[1])
       [] in.callee = "rv_panic" -> Panicked(m, "panic", Bytes(m.h, a[1]))
       [] OTHER -> IF r.panic # "" THEN Panicked(m, r.panic, <<>>) ELSE Onwards(Set(after, in, r.v))
DoCall(il, m, in) ==
  LET a == [i \in DOMAIN in.args |-> Operand(il, m, in.args[i])]
      own == \E f \in ToSet(il.funcs) : f.name = in.callee
  IN IF own THEN [Onwards(m) EXCEPT !.frames = Append(@, Frame(FuncOf(il, in.callee), a, in.dst))]
     ELSE DoRuntime(il, m, in, a)

\* main's value is the exit status, cut to a byte.
DoRet(il, m, in) ==
  LET v == Operand(il, m, in.a)
      dst == Top(m).dst
      left == [m EXCEPT !.frames = Front(@)]
  IN IF Len(m.frames) = 1 THEN Ended(m, "exit", IF il.returnsInt THEN v ELSE 0)
     ELSE IF dst < 0 THEN left ELSE [left EXCEPT !.frames[Len(left.frames)].t[dst] = v]

Execute(il, m, in) ==
  LET a == Operand(il, m, in.a)
      top == Len(m.frames)
  IN CASE in.op = "load" -> DoLoad(il, m, in)
       [] in.op = "store" -> DoStore(il, m, in)
       [] in.op = "load_slot" -> Onwards(Set(m, in, Top(m).s[in.slot]))
       [] in.op = "store_slot" -> Onwards([m EXCEPT !.frames[top].s[in.slot] = a])
       [] in.op = "call" -> DoCall(il, m, in)
       [] in.op = "jmp" -> JumpTo(m, in.target)
       [] in.op = "br" -> JumpTo(m, IF a # 0 THEN in.target ELSE in.target2)
       [] in.op = "ret" -> DoRet(il, m, in)
       [] in.op = "hlt" -> Crashed(m)
       [] in.op \in {"copy", "neg", "extuw", "sltof"} -> Onwards(Set(m, in, Unop(in, a)))
       [] OTHER -> Onwards(Set(m, in, Binop(in, a, Operand(il, m, in.b))))

Step(il, m) == LET top == Top(m) IN Execute(il, m, FuncOf(il, top.f).blocks[top.b][top.pc])
=============================================================================
