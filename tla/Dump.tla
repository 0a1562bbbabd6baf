-------------------------------- MODULE Dump --------------------------------
(* What --dump-ast and --dump-ir print: ast/ast_dump.c and the dump of       *)
(* ir/ir.c. A text is a sequence of lines, a line is its indentation, its    *)
(* words and how many parentheses close on it; a word is a string, and a     *)
(* byte inside quotes is the string of its number.                           *)
EXTENDS Numbers, TLC, SequencesExt

Line(depth, words) == [depth |-> depth, words |-> words, close |-> 0]
Alone(depth, words) == <<[Line(depth, words) EXCEPT !.close = 1]>>
\* The parenthesis of the first line closes at the end of the last.
Closed(lines) == [lines EXCEPT ![Len(lines)].close = @ + 1]
Node(depth, words, children) == Closed(<<Line(depth, words)>> \o children)

Operators ==
  {"+", "-", "*", "/", "%", "&", "|", "^", "~", "<<", ">>", "==", "!=", "<", "<=", ">", ">=", "&&", "||", "!", "??",
   "=", "+=", "-=", "*=", "/=", "%="}
op_text(op) == IF op \in Operators THEN op ELSE "?"

HexDigit(n) == IF n < 10 THEN 48 + n ELSE 55 + n
\* Fault: the escape character is not escaped itself.
EscapedBare(b) ==
  CASE b = 34 -> <<92, b>>
    [] b \in 32..126 \ {34} -> <<b>>
    [] OTHER -> <<92, 120, HexDigit((b % 256) \div 16), HexDigit(b % 16)>>
Escaped(b) ==
  CASE b \in {34, 92} -> <<92, b>>
    [] b \in 32..126 \ {34, 92} -> <<b>>
    [] OTHER -> <<92, 120, HexDigit((b % 256) \div 16), HexDigit(b % 16)>>
Quoted(codes) == <<"\"">> \o [i \in DOMAIN codes |-> ToString(codes[i])] \o <<"\"">>
\* The tree has a word for a line end, the intermediate code has not.
dump_str(bytes) == Quoted(FlattenSeq([i \in DOMAIN bytes |-> IF bytes[i] = 10 THEN <<92, 110>> ELSE Escaped(bytes[i])]))
dump_bytes(bytes) == Quoted(FlattenSeq([i \in DOMAIN bytes |-> Escaped(bytes[i])]))

RECURSIVE dump_type(_)
dump_type(t) ==
  CASE t.k = "none" -> <<"void">>
    [] t.k = "name" -> <<t.name>>
    [] t.k = "list" -> <<"list[">> \o dump_type(t.inner) \o <<"]">>
    [] t.k = "optional" -> dump_type(t.inner) \o <<"?">>
Written(t, otherwise) == IF t.k = "none" THEN <<otherwise>> ELSE dump_type(t)

RECURSIVE dump_expr(_, _)
dump_expr_list(items, depth) == FlattenSeq([i \in DOMAIN items |-> dump_expr(items[i], depth)])
Labelled(a, depth) ==
  IF a.label = "" THEN dump_expr(a.value, depth) ELSE Node(depth, <<"arg", a.label>>, dump_expr(a.value, depth + 1))
dump_expr(e, depth) ==
  CASE e.k = "none" -> Alone(depth, <<"missing">>)
    [] e.k = "int" -> Alone(depth, <<"int", ToString(e.val)>>)
    [] e.k = "float" -> Alone(depth, <<"float", ToString(e.val)>>)
    [] e.k = "bool" -> Alone(depth, <<"bool", IF e.val THEN "true" ELSE "false">>)
    [] e.k = "string" -> Alone(depth, <<"str">> \o dump_str(e.bytes))
    [] e.k = "null" -> Alone(depth, <<"null">>)
    [] e.k = "name" -> Alone(depth, <<"name", e.name>>)
    [] e.k = "fstring" -> Node(depth, <<"fstring">>, dump_expr_list(e.parts, depth + 1))
    [] e.k = "list" -> Node(depth, <<"list">>, dump_expr_list(e.items, depth + 1))
    [] e.k = "unary" -> Node(depth, <<"unary", op_text(e.op)>>, dump_expr(e.operand, depth + 1))
    [] e.k = "binary" -> Node(depth, <<"binary", op_text(e.op)>>, dump_expr_list(<<e.lhs, e.rhs>>, depth + 1))
    [] e.k = "call" ->
         Node(depth, <<"call">>, dump_expr(e.callee, depth + 1) \o FlattenSeq([i \in DOMAIN e.args |-> Labelled(e.args[i], depth + 1)]))
    [] e.k = "field" -> Node(depth, <<"field", e.name>>, dump_expr(e.base, depth + 1))
    [] e.k = "index" -> Node(depth, <<"index">>, dump_expr_list(<<e.base, e.index>>, depth + 1))
    [] e.k = "slice" -> Node(depth, <<"slice">>, dump_expr_list(<<e.base, e.lo, e.hi>>, depth + 1))
    [] e.k = "range" ->
         Node(depth, <<"range", IF e.inclusive THEN "inclusive" ELSE "exclusive">>, dump_expr_list(<<e.lo, e.hi>>, depth + 1))

RECURSIVE dump_stmt(_, _)
dump_block(b, depth) == Node(depth, <<"block">>, FlattenSeq([i \in DOMAIN b |-> dump_stmt(b[i], depth + 1)]))
dump_stmt(s, depth) ==
  CASE s.k = "block" -> dump_block(s.body, depth)
    [] s.k = "var" -> Node(depth, <<"var", s.name>> \o Written(s.type, "infer"), dump_expr(s.init, depth + 1))
    [] s.k = "assign" -> Node(depth, <<"assign", op_text(s.op)>>, dump_expr_list(<<s.target, s.value>>, depth + 1))
    [] s.k = "expr" -> Node(depth, <<"expr">>, dump_expr(s.expr, depth + 1))
    [] s.k = "if" ->
         Node(depth, <<"if">>, dump_expr(s.cond, depth + 1) \o dump_block(s.then, depth + 1)
                               \o IF s.else.k = "none" THEN <<>> ELSE dump_stmt(s.else, depth + 1))
    [] s.k = "while" -> Node(depth, <<"while">>, dump_expr(s.cond, depth + 1) \o dump_block(s.body, depth + 1))
    [] s.k = "for" -> Node(depth, <<"for", s.name>>, dump_expr(s.iter, depth + 1) \o dump_block(s.body, depth + 1))
    [] s.k \in {"break", "continue"} -> Alone(depth, <<s.k>>)
    [] s.k = "return" -> IF s.value.k = "none" THEN Alone(depth, <<"return">>) ELSE Node(depth, <<"return">>, dump_expr(s.value, depth + 1))

Parameter(p) == <<"(", p.name>> \o Written(p.type, "self") \o <<")">>
dump_func(kind, f, depth) ==
  Node(depth, <<kind, f.name, "(params">> \o FlattenSeq([i \in DOMAIN f.params |-> Parameter(f.params[i])]) \o <<")", "->">> \o dump_type(f.ret),
       dump_block(f.body, depth + 1))
DumpField(f) == Alone(2, <<"field", f.name>> \o dump_type(f.type))
dump_struct(st) ==
  Node(1, <<"struct", st.name>>, FlattenSeq([i \in DOMAIN st.fields |-> DumpField(st.fields[i])])
                                 \o FlattenSeq([i \in DOMAIN st.methods |-> dump_func("method", st.methods[i], 2)]))
dump_decl(d) ==
  CASE d.k = "func" -> dump_func("func", d, 1)
    [] d.k = "struct" -> dump_struct(d)
    [] d.k = "global" -> Node(1, <<"global", d.name>> \o Written(d.type, "infer"), dump_expr(d.init, 2))
ast_dump(decls) == Node(0, <<"module">>, FlattenSeq([i \in DOMAIN decls |-> dump_decl(decls[i])]))

---------------------------------------------------------------------------
(* The intermediate code: a number is printed the same way whatever its class *)

FloatWord(bits) ==
  CASE ~Finite(bits) -> "x" \o ToString(bits)
    [] Finite(bits) /\ bits % One = 0 -> ToString(bits \div One)
    [] OTHER -> ToString(bits) \o "/4"
dump_value(v) ==
  CASE v.k = "none" -> <<"<none>">>
    [] v.k = "tmp" -> <<"%t", ToString(v.n)>>
    [] v.k = "int" -> <<ToString(v.n)>>
    [] v.k = "float" -> <<FloatWord(v.n)>>
    [] v.k = "sym" -> <<"$", v.sym>>
dump_args(args) == FlattenSeq([i \in DOMAIN args |-> <<args[i].type>> \o dump_value(args[i])])

Compares == {"ceq", "cne", "clt", "cle", "cgt", "cge"}
Defined(in) == IF in.dst < 0 THEN <<>> ELSE <<"%t", ToString(in.dst), "=", in.type>>
Operand(v) == IF v.k = "none" THEN <<>> ELSE dump_value(v)
op_name(in) == IF in.op \in Compares THEN <<in.op, in.type>> ELSE <<in.op>>
dump_instr(in) ==
  Line(2, Defined(in) \o
    CASE in.op = "load" -> <<"load", in.type>> \o dump_value(in.a) \o <<"+", ToString(in.offset)>>
      [] in.op = "store" -> <<"store", in.type>> \o dump_value(in.a) \o <<"->">> \o dump_value(in.b) \o <<"+", ToString(in.offset)>>
      [] in.op = "load_slot" -> <<"loadslot", in.type, "s", ToString(in.slot)>>
      [] in.op = "store_slot" -> <<"storeslot", in.type>> \o dump_value(in.a) \o <<"->", "s", ToString(in.slot)>>
      [] in.op = "call" -> <<"$", in.callee, "(">> \o dump_args(in.args) \o <<")">>
      [] in.op = "jmp" -> <<"jmp", ToString(in.target)>>
      [] in.op = "br" -> <<"br">> \o dump_value(in.a) \o <<ToString(in.target), ToString(in.target2)>>
      [] in.op = "ret" -> <<"ret">> \o Operand(in.a)
      [] in.op = "hlt" -> <<"hlt">>
      [] OTHER -> op_name(in) \o dump_value(in.a) \o Operand(in.b))

StringLine(s) == Line(0, <<"string", s.sym>> \o dump_bytes(s.bytes))
TypeInfoLine(ti) == Line(0, <<"typeinfo", ti.sym>> \o [i \in DOMAIN ti.fks |-> ToString(ti.fks[i])])
GlobalLine(g) ==
  Line(0, <<"global", g.sym>> \o
    CASE g.kind = "int" -> <<ToString(g.init)>>
      [] g.kind = "float" -> <<FloatWord(g.init)>>
      [] g.kind = "ptr" -> IF g.init = "" THEN <<"null">> ELSE <<"$", g.init>>)
BlockLines(blocks, b) == <<Line(1, <<"@b", ToString(b)>>)>> \o [i \in DOMAIN blocks[b] |-> dump_instr(blocks[b][i])]
FunctionLines(f) ==
  <<Line(0, <<"function", IF f.ret = "void" THEN "" ELSE f.ret, f.name, "(">> \o f.params \o <<")", ToString(f.nslots)>>)>>
  \o FlattenSeq([b \in DOMAIN f.blocks |-> BlockLines(f.blocks, b)])
ir_dump(m) ==
  [i \in DOMAIN m.strings |-> StringLine(m.strings[i])]
  \o [i \in DOMAIN m.typeinfos |-> TypeInfoLine(m.typeinfos[i])]
  \o [i \in DOMAIN m.globals |-> GlobalLine(m.globals[i])]
  \o FlattenSeq([i \in DOMAIN m.funcs |-> FunctionLines(m.funcs[i])])
=============================================================================
