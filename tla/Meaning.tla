------------------------------ MODULE Meaning ------------------------------
(* What a program means, after docs/spec.md: an evaluation of the typed tree *)
(* that knows nothing of the intermediate code, of cells or of the runtime.  *)
(* It is what compiled programs are compared with.                           *)
(*                                                                           *)
(* A value is what its type says: an integer, the bits of a float, TRUE or   *)
(* FALSE, the bytes of a string, <<>> or <<v>> for an optional, and for      *)
(* lists and structs, which are shared, the number of an object in store:    *)
(* the sequence of its elements or fields. A state S is a record: env and    *)
(* globals, from symbols to values; store; out, err, input, files and args;  *)
(* and stop, how control left the code that ran last, "" if it did not,      *)
(* with the value returned, the exit code and the message.                   *)
EXTENDS Types, Numbers, SequencesExt, TLC

CONSTANT ByteLimit

Got(S, v) == [s |-> S, v |-> v]
Stops(S, how) == [S EXCEPT !.stop = how]
PanicsWith(S, msg) == Got([S EXCEPT !.stop = "panic", !.msg = msg], 0)
Goes(r) == r.s.stop = ""

---------------------------------------------------------------------------
(* Values                                                                    *)

\* The implicit conversions: int to float, T to T?, null to T?.
As(v, from, to) ==
  LET widened == IF from.k = "int" /\ (to.k = "float" \/ (to.k = "optional" /\ to.elem.k = "float")) THEN OfInt(v) ELSE v
  IN CASE from.k = "null" -> <<>>
       [] to.k = "optional" /\ from.k # "optional" -> <<widened>>
       [] OTHER -> widened

Text(v, t) ==
  CASE t.k = "str" -> v [] t.k = "int" -> IntText(v) [] t.k = "float" -> FloatText(v)
    [] t.k = "bool" -> IF v THEN BoolText(1) ELSE BoolText(0)

\* Structural equality, by the type the values have.
RECURSIVE Same(_, _, _, _, _)
Same(P, S, t, a, b) ==
  LET Alike(et, i) == Same(P, S, et, S.store[a][i], S.store[b][i])
  IN CASE t.k = "float" -> FEq(a, b)
       [] t.k = "optional" -> Len(a) = Len(b) /\ (a = <<>> \/ Same(P, S, t.elem, a[1], b[1]))
       [] t.k = "list" -> Len(S.store[a]) = Len(S.store[b]) /\ \A i \in DOMAIN S.store[a] : Alike(t.elem, i)
       [] t.k = "struct" -> \A i \in DOMAIN S.store[a] : Alike(P.syms[t.sym].fields[i].type, i)
       [] OTHER -> a = b

---------------------------------------------------------------------------
(* Operators                                                                 *)

Exactly(S, n) == IF Fits(n) THEN Got(S, n) ELSE PanicsWith(S, "integer overflow")
Floor(a, b) == IF b > 0 THEN a \div b ELSE (-a) \div (-b)

OnInts(S, op, a, b) ==
  CASE op = "+" -> Exactly(S, a + b) [] op = "-" -> Exactly(S, a - b) [] op = "*" -> Exactly(S, a * b)
    [] op \in {"/", "%"} -> IF b = 0 THEN PanicsWith(S, "division by zero")
                            ELSE IF op = "/" THEN Exactly(S, Floor(a, b)) ELSE Got(S, a - b * Floor(a, b))
    [] op \in {"<<", ">>"} -> IF b \notin 0..(Width - 1) THEN PanicsWith(S, "shift amount out of range")
                              ELSE Got(S, IF op = "<<" THEN Wrap(a * 2^b) ELSE Floor(a, 2^b))
    [] op = "&" -> Got(S, BitAnd(a, b)) [] op = "|" -> Got(S, BitOr(a, b)) [] op = "^" -> Got(S, BitXor(a, b))
OnFloats(op, a, b) ==
  CASE op = "+" -> FAdd(a, b) [] op = "-" -> FSub(a, b) [] op = "*" -> FMul(a, b) [] op = "/" -> FDiv(a, b)
    [] op = "%" -> FMod(a, b)

\* The type two operands meet in.
Common(at, bt) ==
  CASE at.k = "optional" -> at [] bt.k = "optional" -> bt
    [] IsNumeric(at) /\ IsNumeric(bt) /\ at # bt -> TFloat [] OTHER -> at

Less(t, a, b) == CASE t.k = "int" -> a < b [] t.k = "float" -> FLt(a, b) [] t.k = "str" -> str_cmp(a, b) < 0

Operate(P, S, op, a, at, b, bt) ==
  LET t == Common(at, bt)
      x == As(a, at, t)
      y == As(b, bt, t)
      same == Same(P, S, t, x, y)
  IN CASE op = "==" -> Got(S, same) [] op = "!=" -> Got(S, ~same)
       [] op = "<" -> Got(S, Less(t, x, y)) [] op = ">" -> Got(S, Less(t, y, x))
       [] op = "<=" -> Got(S, Less(t, x, y) \/ same) [] op = ">=" -> Got(S, Less(t, y, x) \/ same)
       [] t.k = "str" -> Got(S, x \o y)
       [] t.k = "int" -> OnInts(S, op, x, y)
       [] t.k = "float" -> Got(S, OnFloats(op, x, y))

Negate(S, op, v, t) ==
  CASE op = "!" -> Got(S, ~v) [] op = "~" -> Got(S, -1 - v)
    [] t.k = "int" -> Exactly(S, -v) [] OTHER -> Got(S, FNeg(v))

---------------------------------------------------------------------------
(* Strings                                                                   *)

Occurs(t, s, i) == i + Len(t) - 1 <= Len(s) /\ SubSeq(s, i, i + Len(t) - 1) = t
Places(t, s) == {i \in 1..(Len(s) + 1) : Occurs(t, s, i)}
FirstPlace(t, s) == CHOOSE i \in Places(t, s) : \A j \in Places(t, s) : i <= j

\* s cut at the occurrences of t that come first and do not overlap.
RECURSIVE Cut(_, _)
Cut(s, t) ==
  IF Places(t, s) = {} THEN <<s>>
  ELSE LET i == FirstPlace(t, s) IN <<SubSeq(s, 1, i - 1)>> \o Cut(SubSeq(s, i + Len(t), Len(s)), t)
Glue(parts, sep) == IF parts = <<>> THEN <<>> ELSE FoldLeft(LAMBDA all, p : all \o sep \o p, parts[1], Tail(parts))

Blank == {9, 10, 11, 12, 13, 32}
RECURSIVE Stripped(_)
Stripped(s) ==
  IF s # <<>> /\ s[1] \in Blank THEN Stripped(Tail(s))
  ELSE IF s # <<>> /\ Last(s) \in Blank THEN Stripped(Front(s)) ELSE s
Shifted(s, range, by) == [i \in DOMAIN s |-> IF s[i] \in range THEN s[i] + by ELSE s[i]]

Digit == 48..57
WithoutSign(s) == IF s # <<>> /\ s[1] \in {43, 45} THEN Tail(s) ELSE s
Signed(s, n) == IF s[1] = 45 THEN -n ELSE n
AsInt(s) ==
  LET d == WithoutSign(s)
  IN IF d = <<>> \/ ~(ToSet(d) \subseteq Digit) \/ ~Fits(Signed(s, Number(d))) THEN <<>> ELSE <<Signed(s, Number(d))>>
\* The decimal fractions that are quarters.
Quarters == <<<<>>, <<46, 48>>, <<46, 50, 53>>, <<46, 53>>, <<46, 55, 53>>>>
QuarterOf == <<0, 0, 1, 2, 3>>
AsFloat(s) ==
  LET d == WithoutSign(s)
      splits == {<<n, q>> \in (1..Len(d)) \X DOMAIN Quarters : SubSeq(d, n + 1, Len(d)) = Quarters[q] /\ ToSet(SubSeq(d, 1, n)) \subseteq Digit}
      split == CHOOSE p \in splits : TRUE
  IN IF splits = {} THEN <<>> ELSE <<Signed(s, OfInt(Number(SubSeq(d, 1, split[1]))) + QuarterOf[split[2]])>>

---------------------------------------------------------------------------
(* Builtins                                                                  *)

\* A new object.
New(S, items) == Got([S EXCEPT !.store = Append(@, items)], Len(S.store) + 1)
Put(S, ref, items) == [S EXCEPT !.store[ref] = items]
Maybe(S, name, found) == Got(S, IF name \in DOMAIN found THEN <<found[name]>> ELSE <<>>)

StrMethod(S, name, s, a) ==
  CASE name = "contains" -> Got(S, Places(a[1], s) # {})
    [] name = "find" -> Got(S, IF Places(a[1], s) = {} THEN -1 ELSE FirstPlace(a[1], s) - 1)
    [] name = "starts_with" -> Got(S, IsPrefix(a[1], s))
    [] name = "ends_with" -> Got(S, IsSuffix(a[1], s))
    [] name = "split" -> New(S, IF a[1] = <<>> THEN [i \in DOMAIN s |-> <<s[i]>>] ELSE Cut(s, a[1]))
    [] name = "join" -> Got(S, Glue(S.store[a[1]], s))
    [] name = "trim" -> Got(S, Stripped(s))
    [] name = "upper" -> Got(S, Shifted(s, 97..122, -32)) [] name = "lower" -> Got(S, Shifted(s, 65..90, 32))
    [] name = "replace" -> Got(S, IF a[1] = <<>> THEN s ELSE Glue(Cut(s, a[1]), a[2]))
    [] name = "repeat" -> IF a[1] < 0 THEN PanicsWith(S, "negative repeat count")
                          ELSE IF Len(s) * a[1] > MaxInt THEN PanicsWith(S, "integer overflow")
                          ELSE Got(S, Glue([i \in 1..a[1] |-> s], <<>>))

\* The first place of an equal element, 0 if there is none.
FoundAt(P, S, elem, items, v) ==
  SelectInSeq([i \in DOMAIN items |-> Same(P, S, elem, items[i], v)], LAMBDA same : same)
ListMethod(P, S, name, ref, elem, a) ==
  LET items == S.store[ref]
      Sets(new, v) == Got(Put(S, ref, new), v)
      index == a[1] + 1
      bad == PanicsWith(S, "index out of range")
  IN CASE name = "append" -> Sets(Append(items, a[1]), 0)
       [] name = "pop" -> IF items = <<>> THEN PanicsWith(S, "pop from empty list") ELSE Sets(Front(items), Last(items))
       [] name = "insert" -> IF index \notin 1..(Len(items) + 1) THEN bad ELSE Sets(InsertAt(items, index, a[2]), 0)
       [] name = "remove_at" -> IF index \notin DOMAIN items THEN bad ELSE Sets(RemoveAt(items, index), items[index])
       [] name = "clear" -> Sets(<<>>, 0)
       [] name = "contains" -> Got(S, FoundAt(P, S, elem, items, a[1]) # 0)
       [] name = "index_of" -> Got(S, FoundAt(P, S, elem, items, a[1]) - 1)

Written(S, to, text) == Got([S EXCEPT ![to] = @ \o text], 0)
Line(text) == Append(text, 10)
ChompedLine(line) == LET l == IF Last(line) = 10 THEN Front(line) ELSE line
                     IN IF Last(line) = 10 /\ l # <<>> /\ Last(l) = 13 THEN Front(l) ELSE l

MinMax(S, op, t, a, b) ==
  LET other == IF op = "min" THEN Less(t, b, a) ELSE Less(t, a, b) IN Got(S, IF other THEN b ELSE a)
IntOf(S, v, t) ==
  CASE t.k = "str" -> Got(S, AsInt(v)) [] t.k = "int" -> Got(S, v)
    [] t.k = "float" -> IF FLe(OfInt(MinInt), v) /\ FLt(v, OfInt(MaxInt + 1)) THEN Got(S, Quot(v, One))
                        ELSE PanicsWith(S, "float to int conversion out of range")

Root(S, f) == Got(S, IF f = NaN \/ f < 0 THEN NaN ELSE IF ~Finite(f) THEN f
                     ELSE CHOOSE r \in 0..(One * f) : r * r <= One * f /\ (r + 1) * (r + 1) > One * f)

\* a: the arguments, t: the type of the first one, after the conversions.
Builtin(S, name, a, t, result) ==
  CASE name = "print" -> Written(S, "out", Text(a[1], t))
    [] name = "println" -> Written(S, "out", Line(Text(a[1], t)))
    [] name = "eprintln" -> Written(S, "err", Line(Text(a[1], t)))
    [] name = "len" -> Got(S, IF t.k = "str" THEN Len(a[1]) ELSE Len(S.store[a[1]]))
    [] name = "str" -> Got(S, Text(a[1], t))
    [] name = "int" -> IntOf(S, a[1], t)
    [] name = "float" -> Got(S, IF t.k = "str" THEN AsFloat(a[1]) ELSE As(a[1], t, TFloat))
    [] name = "ord" -> IF Len(a[1]) = 1 THEN Got(S, a[1][1]) ELSE PanicsWith(S, "ord expects a one-byte string")
    [] name = "chr" -> IF a[1] \in 0..(ByteLimit - 1) THEN Got(S, <<a[1]>>) ELSE PanicsWith(S, "chr out of range")
    [] name = "panic" -> Got([S EXCEPT !.stop = "panic", !.msg = "panic", !.text = a[1]], 0)
    [] name = "assert" -> IF a[1] THEN Got(S, 0) ELSE PanicsWith(S, "assertion failed")
    [] name = "exit" -> Got([S EXCEPT !.stop = "exit", !.code = a[1]], 0)
    [] name = "args" -> New(S, S.args)
    [] name = "read_file" -> Maybe(S, a[1], S.files)
    [] name = "write_file" -> IF a[1] = <<>> THEN Got(S, FALSE) ELSE Got([S EXCEPT !.files = (a[1] :> a[2]) @@ @], TRUE)
    [] name = "read_line" -> IF S.input = <<>> THEN Got(S, <<>>)
                             ELSE Got([S EXCEPT !.input = Tail(@)], <<ChompedLine(Head(S.input))>>)
    [] name = "sqrt" -> Root(S, As(a[1], t, TFloat))
    [] name = "abs" -> IF t.k = "float" THEN Got(S, FAbs(a[1])) ELSE Exactly(S, Abs(a[1]))
    [] name \in {"min", "max"} -> MinMax(S, name, result, a[1], a[2])
    [] name = "wrapping_add" -> Got(S, Wrap(a[1] + a[2])) [] name = "wrapping_sub" -> Got(S, Wrap(a[1] - a[2]))
    [] name = "wrapping_mul" -> Got(S, Wrap(a[1] * a[2]))

---------------------------------------------------------------------------
(* Expressions                                                               *)

RECURSIVE Eval(_, _, _), EvalAll(_, _, _, _), Call(_, _, _, _)

\* The operands of an expression, from left to right.
Operands(e) ==
  CASE e.k = "fstring" -> e.parts
    [] e.k = "list" -> e.items
    [] e.k = "unary" -> <<e.operand>>
    [] e.k = "binary" -> <<e.lhs, e.rhs>>
    [] e.k = "field" -> <<e.base>>
    [] e.k = "index" -> <<e.base, e.index>>
    [] e.k = "slice" -> <<e.base, e.lo, e.hi>>
    [] e.k = "call" -> (IF e.kind \in {"method", "str_method", "list_method"} THEN <<e.callee.base>> ELSE <<>>)
                       \o [i \in DOMAIN e.args |-> e.args[i].value]
    [] OTHER -> <<>>

EvalAll(P, S, es, vs) ==
  IF es = <<>> \/ S.stop # "" THEN Got(S, vs)
  ELSE LET r == Eval(P, S, Head(es)) IN EvalAll(P, r.s, Tail(es), Append(vs, r.v))

\* A variable; what the checker knows not to be null is there.
Variable(P, S, e) ==
  LET v == IF P.syms[e.sym].kind = "global" THEN S.globals[e.name] ELSE S.env[e.name]
      narrowed == P.syms[e.sym].type.k = "optional" /\ e.ty.k # "optional"
  IN IF ~narrowed THEN Got(S, v)
     ELSE IF v = <<>> THEN Got(Stops(S, "null read"), 0) ELSE Got(S, v[1])

\* Arguments after their conversion to the types wanted.
Converted(es, vs, ts) == [i \in DOMAIN vs |-> As(vs[i], es[i].ty, ts[i])]

\* A struct's fields, in the order of their declaration.
Construct(P, S, e, vs) ==
  LET st == P.syms[e.sym]
      given(f) == CHOOSE i \in DOMAIN vs : e.args[i].field = f
  IN New(S, [f \in DOMAIN st.fields |-> As(vs[given(f)], e.args[given(f)].value.ty, st.fields[f].type)])

CallOf(P, S, e, es, vs) ==
  LET fn == P.syms[e.sym]
      t == es[1].ty
      rest == IF vs = <<>> THEN <<>> ELSE Tail(vs)
  IN CASE e.kind \in {"func", "method"} -> Call(P, S, e.sym, Converted(es, vs, fn.params))
       [] e.kind = "construct" -> Construct(P, S, e, vs)
       [] e.kind = "str_method" -> StrMethod(S, e.builtin, vs[1], rest)
       [] e.kind = "list_method" ->
            ListMethod(P, S, e.builtin, vs[1], t.elem, Converted(Tail(es), rest, ListMethods(t.elem)[e.builtin].params))
       [] e.builtin \in {"min", "max"} -> Builtin(S, e.builtin, Converted(es, vs, <<e.ty, e.ty>>), t, e.ty)
       [] OTHER -> Builtin(S, e.builtin, vs, IF es = <<>> THEN TVoid ELSE t, e.ty)

Apply(P, S, e, es, vs) ==
  LET items == IF e.k \in {"index", "slice"} /\ es[1].ty.k = "list" THEN S.store[vs[1]] ELSE vs[1]
  IN CASE e.k \in {"int", "float", "bool"} -> Got(S, e.val)
       [] e.k = "string" -> Got(S, e.bytes)
       [] e.k = "null" -> Got(S, <<>>)
       [] e.k = "name" -> Variable(P, S, e)
       [] e.k = "fstring" -> Got(S, Glue([i \in DOMAIN vs |-> Text(vs[i], es[i].ty)], <<>>))
       [] e.k = "list" -> New(S, [i \in DOMAIN vs |-> As(vs[i], es[i].ty, e.ty.elem)])
       [] e.k = "unary" -> Negate(S, e.op, vs[1], es[1].ty)
       [] e.k = "binary" -> Operate(P, S, e.op, vs[1], es[1].ty, vs[2], es[2].ty)
       [] e.k = "field" -> Got(S, S.store[vs[1]][e.field])
       [] e.k = "index" ->
            IF vs[2] \notin 0..(Len(items) - 1) THEN PanicsWith(S, "index out of range")
            ELSE Got(S, IF es[1].ty.k = "str" THEN <<items[vs[2] + 1]>> ELSE items[vs[2] + 1])
       [] e.k = "slice" ->
            IF ~(0 <= vs[2] /\ vs[2] <= vs[3] /\ vs[3] <= Len(items)) THEN PanicsWith(S, "slice out of range")
            ELSE IF es[1].ty.k = "str" THEN Got(S, SubSeq(items, vs[2] + 1, vs[3])) ELSE New(S, SubSeq(items, vs[2] + 1, vs[3]))
       [] e.k = "call" -> CallOf(P, S, e, es, vs)

\* The right operand is evaluated only when the left one does not decide.
Logic(P, S, e) ==
  LET l == Eval(P, S, e.lhs) IN IF ~Goes(l) \/ l.v = (e.op = "||") THEN l ELSE Eval(P, l.s, e.rhs)
Default(P, S, e) ==
  LET l == Eval(P, S, e.lhs)
      r == Eval(P, l.s, e.rhs)
  IN IF ~Goes(l) THEN l ELSE IF l.v # <<>> THEN Got(l.s, l.v[1]) ELSE Got(r.s, As(r.v, e.rhs.ty, e.ty))

Eval(P, S, e) ==
  IF e.k = "binary" /\ e.op \in {"&&", "||"} THEN Logic(P, S, e)
  ELSE IF e.k = "binary" /\ e.op = "??" THEN Default(P, S, e)
  ELSE LET es == Operands(e)
           vs == EvalAll(P, S, es, <<>>)
       IN IF Goes(vs) THEN Apply(P, vs.s, e, es, vs.v) ELSE vs

EvalAs(P, S, e, t) == LET r == Eval(P, S, e) IN IF Goes(r) THEN Got(r.s, As(r.v, e.ty, t)) ELSE r

---------------------------------------------------------------------------
(* Statements                                                                *)

RECURSIVE Run(_, _, _), RunAll(_, _, _), Loop(_, _, _), Over(_, _, _, _)

RunAll(P, S, b) == IF b = <<>> \/ S.stop # "" THEN S ELSE RunAll(P, Run(P, S, Head(b)), Tail(b))

\* Names say it all: no visible name can be declared again.
Bound(S, name, v) ==
  IF name \in DOMAIN S.globals THEN [S EXCEPT !.globals[name] = v] ELSE [S EXCEPT !.env = (name :> v) @@ @]

\* The value an assignment stores into a place of type t that holds old.
NewValue(P, S, s, old, oldType, t) ==
  LET r == Eval(P, S, s.value)
      sum == Operate(P, r.s, SubSeq(s.op, 1, Len(s.op) - 1), old, oldType, r.v, s.value.ty)
  IN IF ~Goes(r) THEN r
     ELSE IF s.op = "=" THEN Got(r.s, As(r.v, s.value.ty, t))
     ELSE IF Goes(sum) THEN Got(sum.s, As(sum.v, Common(oldType, s.value.ty), t)) ELSE sum

AssignName(P, S, s) ==
  LET t == P.syms[s.target.sym].type
      old == IF s.op = "=" THEN Got(S, 0) ELSE Variable(P, S, s.target)
      v == NewValue(P, old.s, s, old.v, s.target.ty, t)
  IN IF Goes(old) /\ Goes(v) THEN Bound(v.s, s.target.name, v.v) ELSE (IF Goes(old) THEN v.s ELSE old.s)

AssignField(P, S, s) ==
  LET t == s.target.ty
      b == Eval(P, S, s.target.base)
      v == NewValue(P, b.s, s, b.s.store[b.v][s.target.field], t, t)
  IN IF ~Goes(b) THEN b.s ELSE IF ~Goes(v) THEN v.s ELSE [v.s EXCEPT !.store[b.v][s.target.field] = v.v]

\* The element is looked up again when it is stored.
AssignElement(P, S, s) ==
  LET t == s.target.base.ty.elem
      bi == EvalAll(P, S, <<s.target.base, s.target.index>>, <<>>)
      i == bi.v[2] + 1
      bad == PanicsWith(bi.s, "index out of range").s
      v == NewValue(P, bi.s, s, bi.s.store[bi.v[1]][i], t, t)
  IN IF ~Goes(bi) THEN bi.s
     ELSE IF s.op # "=" /\ i \notin DOMAIN bi.s.store[bi.v[1]] THEN bad
     ELSE IF ~Goes(v) THEN v.s
     ELSE IF i \notin DOMAIN v.s.store[bi.v[1]] THEN PanicsWith(v.s, "index out of range").s
     ELSE [v.s EXCEPT !.store[bi.v[1]][i] = v.v]

\* What is left of a loop: after one iteration that ended in S.
Continues(S) == S.stop \in {"", "continue"}
AfterLoop(S) == IF S.stop \in {"break", "continue"} THEN Stops(S, "") ELSE S

Loop(P, S, s) ==
  LET c == Eval(P, S, s.cond)
      once == RunAll(P, c.s, s.body)
  IN IF ~Goes(c) \/ ~c.v THEN c.s
     ELSE IF Continues(once) THEN Loop(P, Stops(once, ""), s) ELSE AfterLoop(once)

\* Over n items from the i-th on: numbers from `from` up, elements, or bytes.
ItemAt(S, s, seq, from, i) ==
  IF s.iter.k = "range" THEN Got(S, from + i - 1)
  ELSE IF s.iter.ty.k = "str" THEN Got(S, <<seq[i]>>)
  ELSE IF i \in DOMAIN S.store[from] THEN Got(S, S.store[from][i]) ELSE PanicsWith(S, "index out of range")
Over(P, S, s, it) ==
  LET item == ItemAt(S, s, it.seq, it.from, it.i)
      once == RunAll(P, Bound(item.s, s.name, item.v), s.body)
  IN IF it.i > it.n THEN S
     ELSE IF ~Goes(item) THEN item.s
     ELSE IF Continues(once) THEN Over(P, Stops(once, ""), s, [it EXCEPT !.i = @ + 1]) ELSE AfterLoop(once)

ForLoop(P, S, s) ==
  LET ends == EvalAll(P, S, <<s.iter.lo, s.iter.hi>>, <<>>)
      count == ends.v[2] - ends.v[1] + (IF s.iter.inclusive THEN 1 ELSE 0)
      r == Eval(P, S, s.iter)
      Items(seq, from, n) == [seq |-> seq, from |-> from, n |-> n, i |-> 1]
  IN IF s.iter.k = "range" THEN (IF Goes(ends) THEN Over(P, ends.s, s, Items(<<>>, ends.v[1], count)) ELSE ends.s)
     ELSE IF ~Goes(r) THEN r.s
     ELSE IF s.iter.ty.k = "str" THEN Over(P, r.s, s, Items(r.v, 0, Len(r.v)))
     ELSE Over(P, r.s, s, Items(<<>>, r.v, Len(r.s.store[r.v])))

Returned(P, S, s) ==
  LET r == EvalAs(P, S, s.value, S.ret)
  IN IF s.value = None THEN Stops(S, "return") ELSE IF Goes(r) THEN [r.s EXCEPT !.stop = "return", !.result = r.v] ELSE r.s

Branch(P, S, s) ==
  LET c == Eval(P, S, s.cond)
  IN IF ~Goes(c) THEN c.s ELSE IF c.v THEN RunAll(P, c.s, s.then) ELSE IF s.else = None THEN c.s ELSE Run(P, c.s, s.else)

Run(P, S, s) ==
  CASE s.k = "var" -> LET r == EvalAs(P, S, s.init, P.syms[s.sym].type) IN IF Goes(r) THEN Bound(r.s, s.name, r.v) ELSE r.s
    [] s.k = "assign" /\ s.target.k = "name" -> AssignName(P, S, s)
    [] s.k = "assign" /\ s.target.k = "field" -> AssignField(P, S, s)
    [] s.k = "assign" /\ s.target.k = "index" -> AssignElement(P, S, s)
    [] s.k = "expr" -> Eval(P, S, s.expr).s
    [] s.k = "if" -> Branch(P, S, s)
    [] s.k = "while" -> Loop(P, S, s)
    [] s.k = "for" -> ForLoop(P, S, s)
    [] s.k = "return" -> Returned(P, S, s)
    [] s.k \in {"break", "continue"} -> Stops(S, s.k)
    [] s.k = "block" -> RunAll(P, S, s.body)

---------------------------------------------------------------------------
(* Functions and programs                                                    *)

\* The variables of a call are its own.
Call(P, S, fn, vs) ==
  LET params == P.syms[fn].decl.params
      Value(name) == vs[SelectInSeq(params, LAMBDA p : p.name = name)]
      env == [name \in {params[i].name : i \in DOMAIN params} |-> Value(name)]
      done == RunAll(P, [S EXCEPT !.env = env, !.ret = P.syms[fn].type], P.syms[fn].decl.body)
      back == [done EXCEPT !.env = S.env, !.ret = S.ret]
  IN IF done.stop = "return" THEN Got(Stops(back, ""), done.result) ELSE Got(back, 0)

\* Globals are initialised in order, before main.
RECURSIVE Globals(_, _, _)
Globals(P, S, gs) ==
  IF gs = <<>> \/ S.stop # "" THEN S
  ELSE LET g == P.syms[Head(gs)]
           r == EvalAs(P, S, g.decl.init, g.type)
       IN Globals(P, IF Goes(r) THEN [r.s EXCEPT !.globals = (g.name :> r.v) @@ @] ELSE r.s, Tail(gs))

Start(world) ==
  [env |-> [n \in {} |-> 0], globals |-> [n \in {} |-> 0], store |-> <<>>, out |-> <<>>, err |-> <<>>, input |-> world.input, files |-> world.files,
   args |-> world.args, stop |-> "", ret |-> TVoid, result |-> 0, code |-> 0, msg |-> "", text |-> <<>>]

\* What running the program shows: how it ends, and what it wrote.
Meant(P, world) ==
  LET g == Globals(P, Start(world), P.globals)
      r == Call(P, g, P.main, <<>>)
      code == IF r.s.stop = "exit" THEN r.s.code ELSE IF P.syms[P.main].type = TInt THEN r.v ELSE 0
      panicked == r.s.stop = "panic"
  IN [state |-> IF panicked THEN "panic" ELSE IF r.s.stop = "null read" THEN "crash" ELSE "exit",
      code |-> IF panicked THEN 101 ELSE code % 256, panic |-> r.s.msg, text |-> r.s.text,
      out |-> r.s.out, err |-> r.s.err, files |-> r.s.files]
=============================================================================
