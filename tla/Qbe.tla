-------------------------------- MODULE Qbe --------------------------------
(* The module that backend/qbe.c writes, and what the tools after it demand  *)
(* of it: QBE's parser and type checker and the assembler, which are not     *)
(* part of the repository's own code, and the signatures of                  *)
(* runtime/rivel_rt.h, which nothing checks once the code is assembled.      *)
EXTENDS Ir, FiniteSets, SequencesExt

---------------------------------------------------------------------------
(* Writing                                                                   *)

\* A data definition as written: its items and how many commas are between them.
Data(sym, items) == [sym |-> sym, items |-> items, commas |-> Len(items) - 1]
Item(class, v) == [class |-> class, v |-> v, sym |-> "", bytes |-> <<>>]
Ref(sym) == [Item("l", 0) EXCEPT !.sym = sym]

RV_F_STATIC == 1
RV_KIND_STRUCT == 0

data_string(bytes) == <<[Item("b", 0) EXCEPT !.bytes = bytes], Item("b", 0)>>
StringData(s) ==
  Data(s.sym, <<Ref("rv_ti_str"), Item("w", RV_F_STATIC), Item("w", 0), Item("l", Len(s.bytes))>> \o data_string(s.bytes))
TypeInfoData(ti) ==
  Data(ti.sym, <<Ref(ti.sym \o ".name"), Item("l", RV_KIND_STRUCT), Item("l", Len(ti.fks)), Ref(ti.sym \o ".fields")>>)
FieldsData(ti) ==
  Data(ti.sym \o ".fields", IF ti.fks = <<>> THEN <<Item("b", 0)>> ELSE [i \in DOMAIN ti.fks |-> Item("b", RV_FK[ti.fks[i]])])
GlobalCell(g) ==
  Data(g.sym, <<CASE g.kind = "int" -> Item("l", g.init)
                  [] g.kind = "float" -> Item("d", g.init)
                  [] g.kind = "ptr" -> Ref(g.init)>>)   \* `l 0` for null

\* The pointer globals, for the collector, one after another.
roots(m) == SelectSeq(m.globals, LAMBDA g : g.kind = "ptr")
RootsData(m) ==
  IF roots(m) = <<>> THEN Data("rv_roots", <<Item("l", 0)>>)
  ELSE [sym |-> "rv_roots", items |-> [i \in DOMAIN roots(m) |-> Ref(roots(m)[i].sym)], commas |-> 0]

emit_data(m) ==
  [i \in DOMAIN m.strings |-> StringData(m.strings[i])]
  \o FlattenSeq([i \in DOMAIN m.typeinfos |-> <<FieldsData(m.typeinfos[i]), TypeInfoData(m.typeinfos[i])>>])
  \o [i \in DOMAIN m.globals |-> GlobalCell(m.globals[i])]
  \o <<RootsData(m), Data("rv_roots_count", <<Item("l", Len(roots(m)))>>)>>

\* Comparisons of words and longs are signed ones, those of doubles ordered.
cmp_name(op, t) ==
  "c" \o (IF op \in {"ceq", "cne"} \/ t = "d" THEN "" ELSE "s") \o SubSeq(op, 2, 3) \o t
emit_instr(in) == IF in.op \in Comparing THEN [in EXCEPT !.op = cmp_name(in.op, in.type)] ELSE in

\* Parameter i goes into slot i before the first block.
emit_func(f) == [f EXCEPT !.blocks = [b \in DOMAIN @ |-> [i \in DOMAIN @[b] |-> emit_instr(@[b][i])]]]

qbe_emit(m) ==
  [data |-> emit_data(m), funcs |-> [i \in DOMAIN m.funcs |-> emit_func(m.funcs[i])],
   globals |-> {m.globals[i].sym : i \in DOMAIN m.globals}, main |-> m.main, returnsInt |-> m.returnsInt, typeinfos |-> m.typeinfos]

---------------------------------------------------------------------------
(* What QBE and the assembler refuse                                         *)

Instrs(f) == UNION {ToSet(f.blocks[b]) : b \in DOMAIN f.blocks}

\* A block is straight code and one jump.
Straight(f) ==
  \A b \in DOMAIN f.blocks :
    /\ ir_block_terminated(f.blocks[b])
    /\ \A i \in DOMAIN f.blocks[b] : f.blocks[b][i].op \in Terminators => i = Len(f.blocks[b])
JumpsLand(f) ==
  \A in \in Instrs(f) : /\ in.op \in {"jmp", "br"} => in.target \in DOMAIN f.blocks
                        /\ in.op = "br" => in.target2 \in DOMAIN f.blocks

CompareNames == {cmp_name(op, t) : op \in Comparing, t \in {"w", "l", "d"}}
ResultOf(in) == IF in.op \in CompareNames THEN "w" ELSE in.type

\* The operands of an instruction, each with the class it must have.
Wants(in) ==
  LET Pair(t) == <<<<in.a, t>>, <<in.b, t>>>>
  IN CASE in.op = "extuw" \/ in.op = "br" -> <<<<in.a, "w">>>>
       [] in.op \in {"sltof", "load"} -> <<<<in.a, "l">>>>
       [] in.op \in {"copy", "neg", "store_slot"} -> <<<<in.a, in.type>>>>
       [] in.op = "store" -> <<<<in.a, in.type>>, <<in.b, "l">>>>
       [] in.op = "call" -> [i \in DOMAIN in.args |-> <<in.args[i], in.args[i].type>>]
       [] in.op \in {"load_slot", "jmp", "ret", "hlt"} -> <<>>
       [] in.op \in CompareNames -> Pair(SubSeq(in.op, Len(in.op), Len(in.op)))
       [] OTHER -> Pair(in.type)

\* A temporary has the class it was given; a long can be read as a word. A
\* number is a word or a long as needed, a double is marked as one.
Defs(f) == {<<in.dst, ResultOf(in)>> : in \in {x \in Instrs(f) : x.dst >= 0}}
HasClass(defs, v, t) ==
  CASE v.k = "tmp" -> <<v.n, t>> \in defs \/ (t = "w" /\ <<v.n, "l">> \in defs)
    [] v.k = "int" -> t # "d"
    [] v.k = "float" -> t = "d"
    [] v.k = "sym" -> t = "l"
    [] OTHER -> FALSE
Typed(f, defs) ==
  /\ Cardinality(defs) = Cardinality({d[1] : d \in defs})
  /\ \A in \in Instrs(f) :
       /\ \A i \in DOMAIN Wants(in) : HasClass(defs, Wants(in)[i][1], Wants(in)[i][2])
       /\ in.op = "ret" => IF f.ret = "void" THEN in.a = NoValue ELSE HasClass(defs, in.a, f.ret)

DataIsSeparated(d) == d.commas = Len(d.items) - 1
qbe_accepts(il) ==
  /\ \A i \in DOMAIN il.data : DataIsSeparated(il.data[i])
  /\ \A i \in DOMAIN il.funcs : LET f == il.funcs[i] IN Straight(f) /\ JumpsLand(f) /\ Typed(f, Defs(f))

Symbols(il) == [i \in DOMAIN il.data |-> il.data[i].sym] \o [i \in DOMAIN il.funcs |-> il.funcs[i].name]
as_accepts(il) == IsInjective(Symbols(il))

---------------------------------------------------------------------------
(* Signatures: the classes of the arguments and of the result.               *)

Signature(args, ret) == [args |-> args, ret |-> ret]
Each(names, args, ret) == [n \in names |-> Signature(args, ret)]

\* runtime/rivel_rt.h and, last, the C library. Locations are left out.
RuntimeAbi ==
  Each({"rv_add", "rv_sub", "rv_mul", "rv_div", "rv_mod", "rv_shl", "rv_shr"}, <<"l", "l">>, "l")
  @@ Each({"rv_neg", "rv_abs", "rv_ord", "rv_chr", "rv_alloc", "rv_box_int"}, <<"l">>, "l")
  @@ Each({"rv_float_to_int", "rv_box_float", "rv_str_from_float"}, <<"d">>, "l")
  @@ Each({"rv_box_bool", "rv_str_from_bool"}, <<"w">>, "l")
  @@ Each({"rv_print", "rv_println", "rv_eprintln", "rv_panic", "rv_exit", "rv_list_clear"}, <<"l">>, "void")
  @@ Each({"rv_str_empty", "rv_args", "rv_read_line"}, <<>>, "l")
  @@ Each({"rv_str_from_int", "rv_str_parse_int", "rv_str_parse_float", "rv_str_trim", "rv_str_upper", "rv_str_lower",
           "rv_read_file"}, <<"l">>, "l")
  @@ Each({"rv_str_eq", "rv_eq", "rv_str_contains", "rv_str_starts_with", "rv_str_ends_with", "rv_write_file"}, <<"l", "l">>, "w")
  @@ Each({"rv_str_concat", "rv_str_cmp", "rv_str_index", "rv_str_find", "rv_str_split", "rv_str_join", "rv_str_repeat",
           "rv_list_new"}, <<"l", "l">>, "l")
  @@ Each({"rv_str_slice", "rv_str_replace", "rv_list_slice"}, <<"l", "l", "l">>, "l")
  @@ Each({"rv_assert"}, <<"w">>, "void")
  @@ Each({"rv_list_get_l", "rv_list_remove_at_l", "rv_list_index_of_l"}, <<"l", "l">>, "l")
  @@ Each({"rv_list_get_d", "rv_list_remove_at_d"}, <<"l", "l">>, "d")
  @@ Each({"rv_list_set_l", "rv_list_insert_l"}, <<"l", "l", "l">>, "void")
  @@ Each({"rv_list_set_d", "rv_list_insert_d"}, <<"l", "l", "d">>, "void")
  @@ ("rv_list_append_l" :> Signature(<<"l", "l">>, "void")) @@ ("rv_list_append_d" :> Signature(<<"l", "d">>, "void"))
  @@ ("rv_list_pop_l" :> Signature(<<"l">>, "l")) @@ ("rv_list_pop_d" :> Signature(<<"l">>, "d"))
  @@ ("rv_list_contains_l" :> Signature(<<"l", "l">>, "w")) @@ ("rv_list_contains_d" :> Signature(<<"l", "d">>, "w"))
  @@ ("rv_list_index_of_d" :> Signature(<<"l", "d">>, "l"))
  @@ ("rv_sqrt" :> Signature(<<"d">>, "d")) @@ ("fabs" :> Signature(<<"d">>, "d")) @@ ("fmod" :> Signature(<<"d", "d">>, "d"))

Abi(il) == [n \in {il.funcs[i].name : i \in DOMAIN il.funcs} |->
              LET f == CHOOSE g \in ToSet(il.funcs) : g.name = n IN Signature(f.params, f.ret)] @@ RuntimeAbi

\* A call passes what its callee takes and expects what it returns.
CallAgrees(abi, defs, in) ==
  LET sig == abi[in.callee]
  IN /\ in.callee \in DOMAIN abi
     /\ Len(in.args) = Len(sig.args)
     /\ \A i \in DOMAIN in.args : in.args[i].type = sig.args[i] /\ HasClass(defs, in.args[i], sig.args[i])
     /\ IF in.dst < 0 THEN TRUE ELSE in.type = sig.ret
CallsAgree(il) ==
  LET abi == Abi(il)
  IN \A i \in DOMAIN il.funcs : LET defs == Defs(il.funcs[i])
       IN \A in \in Instrs(il.funcs[i]) : in.op = "call" => CallAgrees(abi, defs, in)
=============================================================================
