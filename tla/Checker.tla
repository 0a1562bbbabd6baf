------------------------------ MODULE Checker ------------------------------
(* Name resolution and typing, and the passes of sema_check, sema/check.c.   *)
(* check_expr returns the checker it leaves behind and the expression with   *)
(* its types and symbols filled in; `expected` is the type the context       *)
(* wants, None if it wants none. check_stmt does the same for a statement.   *)
EXTENDS Scopes

Result(C, e) == [c |-> C, e |-> e]
set_type(C, e, t) == Result(C, [e EXCEPT !.ty = t])
Reported(C, what, e) == set_type(error(C, what), e, TError)

require_convertible(C, actual, wanted, what) == Require(C, Convertible(actual, wanted), what)

\* Expressions and statements are nodes of one tree; check, at the end of
\* them, goes by what a node is.
RECURSIVE check(_, _, _)
check_expr(C, e, expected) == check(C, e, expected)
check_stmt(C, s) == check(C, s, None)

check_name(C, e) ==
  LET s == lookup(C, e.name)
      sym == C.syms[s]
      bound == [e EXCEPT !.sym = s]
  IN IF s = 0 THEN Reported(C, "unknown name", e)
     ELSE IF sym.kind \in {"local", "param"}
       THEN set_type([C EXCEPT !.syms[s].used = TRUE], bound, effective_type(C, s))
     ELSE IF sym.kind # "global" THEN Reported(C, "not a value", bound)
     ELSE IF sym.type = None THEN Reported(C, "used before its declaration", bound)
     ELSE set_type(C, bound, sym.type)

---------------------------------------------------------------------------
(* Operators                                                                 *)

Arithmetic == {"+", "-", "*", "/", "%"}
BothNumeric(l, r) == IsNumeric(l) /\ IsNumeric(r)
BothInt(l, r) == l = TInt /\ r = TInt

CanCompare(l, r) ==
  \/ l = r /\ l # TVoid
  \/ BothNumeric(l, r)
  \/ l.k = "null" /\ r.k = "optional"
  \/ l.k = "optional" /\ Convertible(r, l)
  \/ r.k = "optional" /\ Convertible(l, r)

BinaryType(op, l, r) ==
  CASE op = "+" /\ l = TStr /\ r = TStr -> TStr
    [] op \in Arithmetic /\ BothNumeric(l, r) -> IF BothInt(l, r) THEN TInt ELSE TFloat
    [] op \in {"&", "|", "^", "<<", ">>"} /\ BothInt(l, r) -> TInt
    [] op \in {"<", "<=", ">", ">="} /\ (BothNumeric(l, r) \/ (l = TStr /\ r = TStr)) -> TBool
    [] op \in {"==", "!="} /\ CanCompare(l, r) -> TBool
    [] op \in {"&&", "||"} /\ l = TBool /\ r = TBool -> TBool
    [] OTHER -> None

binary_result(C, op, l, r) ==
  IF IsError(l) \/ IsError(r) THEN WithType(C, TError)
  ELSE IF BinaryType(op, l, r) # None THEN WithType(C, BinaryType(op, l, r))
  ELSE IF op \in {"==", "!="} /\ TNull \in {l, r} THEN WithType(error(C, "never null"), TError)
  ELSE WithType(error(C, "operator is not defined"), TError)

\* The operands have been checked: the node and its own type.
Operated(C, e, l, r) ==
  LET b == binary_result(C, e.op, l.ty, r.ty) IN set_type(b.c, [e EXCEPT !.lhs = l, !.rhs = r], b.t)

check_default(C, e) ==
  LET l == check_expr(C, e.lhs, None)
      inner == l.e.ty.elem
      needed == IF l.e.ty.k = "optional" THEN inner ELSE None
      warned == Require(l.c, l.e.ty.k \in {"optional", "error"}, "left side of ?? must be optional")
      r == check_expr(warned, e.rhs, needed)
      both == [e EXCEPT !.lhs = l.e, !.rhs = r.e]
  IN IF needed = None THEN set_type(r.c, both, TError)
     ELSE set_type(require_convertible(r.c, r.e.ty, inner, "right side of ??"), both, inner)

check_logic(C, e) ==
  LET l == check_expr(C, e.lhs, TBool)
      r == check_expr(collect_facts(l.c, l.e, e.op = "&&"), e.rhs, TBool)
  IN Operated(NarrowsBackTo(r.c, Len(C.narrows)), e, l.e, r.e)

\* A bare null takes the type of the optional it is compared with.
Adopt(e, other) == IF e.ty.k = "null" /\ other.ty.k = "optional" THEN [e EXCEPT !.ty = other.ty] ELSE e

check_binary(C, e) ==
  IF e.op = "??" THEN check_default(C, e)
  ELSE IF e.op \in {"&&", "||"} THEN check_logic(C, e)
  ELSE LET l == check_expr(C, e.lhs, None)
           r == check_expr(l.c, e.rhs, IF l.e.ty.k = "null" THEN None ELSE l.e.ty)
       IN Operated(r.c, e, Adopt(l.e, r.e), Adopt(r.e, l.e))

check_unary(C, e) ==
  LET v == check_expr(C, e.operand, None)
      t == v.e.ty
      node == [e EXCEPT !.operand = v.e]
      defined == (e.op = "-" /\ IsNumeric(t)) \/ (e.op = "!" /\ t = TBool) \/ (e.op = "~" /\ t = TInt)
  IN IF IsError(t) \/ defined THEN set_type(v.c, node, t) ELSE Reported(v.c, "operator is not defined", node)

---------------------------------------------------------------------------
(* Lists, fields, indexes, slices, f-strings                                 *)

\* Checks the items from the i-th on; elem is what the earlier ones agreed on.
RECURSIVE check_items(_, _, _, _, _)
check_items(C, e, i, elem, expected) ==
  IF i > Len(e.items) THEN set_type(C, e, IF IsError(elem) THEN TError ELSE TyList(elem))
  ELSE LET v == check_expr(C, e.items[i], elem)
           t == v.e.ty
           node == [e EXCEPT !.items[i] = v.e]
       IN IF elem = None /\ t = TNull THEN Reported(v.c, "cannot infer a list type from null", node)
          ELSE IF elem = None /\ t = TVoid THEN Reported(v.c, "no value to be an element", node)
          ELSE IF elem = None THEN check_items(v.c, node, i + 1, t, expected)
          ELSE IF Convertible(t, elem) THEN check_items(v.c, node, i + 1, elem, expected)
          ELSE IF Convertible(elem, t) /\ expected = None THEN check_items(v.c, node, i + 1, t, expected)
          ELSE Reported(v.c, "list elements differ", node)

check_list_literal(C, e, expected) ==
  LET elem == IF expected.k = "list" THEN expected.elem ELSE None
  IN IF e.items # <<>> THEN check_items(C, e, 1, elem, expected)
     ELSE IF elem = None THEN Reported(C, "cannot infer the element type", e)
     ELSE set_type(C, e, expected)

check_field(C, e) ==
  LET b == check_expr(C, e.base, None)
      t == b.e.ty
      node == [e EXCEPT !.base = b.e]
      st == b.c.syms[t.sym]
      f == strmap_get(st.members, e.name)
  IN IF IsError(t) THEN set_type(b.c, node, t)
     ELSE IF t.k = "optional" THEN Reported(b.c, "may be null", node)
     ELSE IF t.k # "struct" THEN Reported(b.c, "no such field", node)
     ELSE IF f # 0 THEN set_type(b.c, [node EXCEPT !.field = f], st.fields[f].type)
     ELSE IF strmap_get(st.methods, e.name) # 0 THEN Reported(b.c, "is a method", node)
     ELSE Reported(b.c, "no such field", node)

check_index(C, e) ==
  LET b == check_expr(C, e.base, None)
      i == check_expr(b.c, e.index, TInt)
      c == require_convertible(i.c, i.e.ty, TInt, "an index")
      node == [e EXCEPT !.base = b.e, !.index = i.e]
      t == b.e.ty
  IN CASE t.k = "error" -> set_type(c, node, t)
       [] t.k = "list" -> set_type(c, node, t.elem)
       [] t.k = "str" -> set_type(c, node, TStr)
       [] t.k = "optional" -> Reported(c, "may be null", node)
       [] OTHER -> Reported(c, "cannot index", node)

check_slice(C, e) ==
  LET b == check_expr(C, e.base, None)
      lo == check_expr(b.c, e.lo, TInt)
      hi == check_expr(lo.c, e.hi, TInt)
      c == require_convertible(require_convertible(hi.c, lo.e.ty, TInt, "a slice bound"), hi.e.ty, TInt, "a slice bound")
      node == [e EXCEPT !.base = b.e, !.lo = lo.e, !.hi = hi.e]
  IN IF b.e.ty.k \in {"error", "list", "str"} THEN set_type(c, node, b.e.ty) ELSE Reported(c, "cannot slice", node)

Printable(C, t, what) == Require(C, IsError(t) \/ IsPrintable(t), what)

RECURSIVE check_parts(_, _, _)
check_parts(C, e, i) ==
  IF i > Len(e.parts) THEN set_type(C, e, TStr)
  ELSE LET part == check_expr(C, e.parts[i], None)
       IN check_parts(Printable(part.c, part.e.ty, "cannot format"), [e EXCEPT !.parts[i] = part.e], i + 1)

---------------------------------------------------------------------------
(* Calls                                                                     *)

\* Checks the arguments from the i-th on; wanted[i] is a type or None.
RECURSIVE check_args(_, _, _, _)
check_args(C, call, wanted, i) ==
  IF i > Len(call.args) THEN Result(C, call)
  ELSE LET v == check_expr(C, call.args[i].value, wanted[i])
           c == Require(v.c, wanted[i] = None \/ Convertible(v.e.ty, wanted[i]), "argument")
       IN check_args(c, [call EXCEPT !.args[i].value = v.e], wanted, i + 1)
Loosely(n) == [i \in 1..n |-> None]
check_args_loosely(C, call) == check_args(C, call, Loosely(Len(call.args)), 1)

RECURSIVE reject_labels(_, _)
reject_labels(C, args) ==
  IF args = <<>> THEN C ELSE reject_labels(Require(C, Head(args).label = "", "label on an argument"), Tail(args))

\* The arguments against one type each; a wrong number of them is an error of its own.
check_signature(C, call, wanted, result, countFails) ==
  LET c == reject_labels(C, call.args)
      v == IF Len(call.args) = Len(wanted) THEN check_args(c, call, wanted, 1)
           ELSE check_args_loosely(error(c, "number of arguments"), call)
  IN set_type(v.c, v.e, IF Len(call.args) = Len(wanted) THEN result ELSE countFails)
check_positional_args(C, call, params, result) == check_signature(C, call, params, result, result)

RECURSIVE check_fields(_, _, _, _, _)
check_fields(C, call, st, seen, i) ==
  LET a == call.args[i]
      f == IF a.label = "" THEN 0 ELSE strmap_get(st.members, a.label)
      want == IF f = 0 THEN None ELSE st.fields[f].type
      named == Require(C, a.label # "", "needs a field label")
      known == Require(named, a.label = "" \/ f # 0, "no such field")
      once == Require(known, f \notin seen, "field given twice")
      v == check_expr(once, a.value, want)
      c == Require(v.c, want = None \/ Convertible(v.e.ty, want), "field")
  IN IF i > Len(call.args) THEN [c |-> C, e |-> call, seen |-> seen]
     ELSE check_fields(c, [call EXCEPT !.args[i] = [a EXCEPT !.value = v.e, !.field = f]], st, seen \cup ({f} \ {0}), i + 1)

RECURSIVE MissingFields(_, _)
MissingFields(C, n) == IF n = 0 THEN C ELSE MissingFields(error(C, "missing field"), n - 1)
check_construct(C, call, s) ==
  LET st == C.syms[s]
      v == check_fields(C, [call EXCEPT !.kind = "construct", !.sym = s], st, {}, 1)
  IN set_type(MissingFields(v.c, Len(st.fields) - Cardinality(v.seen)), v.e, st.type)

\* Builtins that accept several types: what is wrong with those given, and the result.
Overloaded(b, ts) ==
  LET t == ts[1]
      Shape(ok, result) == [ok |-> IsError(t) \/ ok, t |-> result]
  IN CASE b \in {"print", "println", "eprintln"} -> Shape(IsPrintable(t), TVoid)
       [] b = "len" -> Shape(t.k \in {"str", "list"}, TInt)
       [] b = "str" -> Shape(IsPrintable(t), TStr)
       [] b = "int" -> IF t = TStr THEN Shape(TRUE, TyOptional(TInt)) ELSE Shape(IsNumeric(t), TInt)
       [] b = "float" -> IF t = TStr THEN Shape(TRUE, TyOptional(TFloat)) ELSE Shape(IsNumeric(t), TFloat)
       [] b = "abs" -> Shape(IsNumeric(t), IF IsNumeric(t) THEN t ELSE TError)
       [] b \in {"min", "max"} ->
            IF TError \in {t, ts[2]} THEN Shape(TRUE, TError)
            ELSE IF BothNumeric(t, ts[2]) THEN Shape(TRUE, IF BothInt(t, ts[2]) THEN TInt ELSE TFloat)
            ELSE [ok |-> FALSE, t |-> TError]

check_overloaded(C, call, b) ==
  LET v == check_signature(C, call, Loosely(OverloadedFuncs[b]), TVoid, TError)
      shape == Overloaded(b, [i \in DOMAIN v.e.args |-> v.e.args[i].value.ty])
  IN IF Len(call.args) # OverloadedFuncs[b] THEN v
     ELSE set_type(Require(v.c, shape.ok, "argument type"), v.e, shape.t)

check_builtin_call(C, call, b) ==
  LET node == [call EXCEPT !.kind = "builtin", !.builtin = b]
  IN IF b \in DOMAIN OverloadedFuncs THEN check_overloaded(C, node, b)
     ELSE check_signature(C, node, BuiltinFuncs[b].params, BuiltinFuncs[b].result, TError)

check_method_of(C, call, kind, b, table) ==
  check_signature(C, [call EXCEPT !.kind = kind, !.builtin = b], table[b].params, table[b].result, TError)

Uncallable(C, call, what) ==
  LET v == check_args_loosely(error(C, what), call) IN set_type(v.c, v.e, TError)

check_named_call(C, call, s) ==
  LET sym == C.syms[s]
      node == [call EXCEPT !.callee.sym = s]
  IN CASE s = 0 -> Uncallable(C, call, "unknown function")
       [] sym.kind = "func" -> check_positional_args(C, [node EXCEPT !.kind = "func", !.sym = s], sym.params, sym.type)
       [] sym.kind = "struct" -> check_construct(C, node, s)
       [] sym.kind = "builtin" \/ (sym.kind = "type" /\ sym.name \in {"int", "float", "str"}) ->
            check_builtin_call(C, node, sym.name)
       [] OTHER -> Uncallable(C, node, "not a function")

check_method_call(C, call) ==
  LET b == check_expr(C, call.callee.base, None)
      node == [call EXCEPT !.callee.base = b.e]
      t == b.e.ty
      name == call.callee.name
      m == strmap_get(b.c.syms[t.sym].methods, name)
      v == check_args_loosely(b.c, node)
  IN CASE t.k = "error" -> set_type(v.c, v.e, TError)
       [] t.k = "struct" /\ m # 0 ->
            check_positional_args(b.c, [node EXCEPT !.kind = "method", !.sym = m],
                                  Tail(b.c.syms[m].params), b.c.syms[m].type)
       [] t.k = "str" /\ name \in DOMAIN StrMethods -> check_method_of(b.c, node, "str_method", name, StrMethods)
       [] t.k = "list" /\ name \in DOMAIN ListMethods(t.elem) ->
            check_method_of(b.c, node, "list_method", name, ListMethods(t.elem))
       [] t.k = "optional" -> Uncallable(b.c, node, "may be null")
       [] OTHER -> Uncallable(b.c, node, "no such method")

check_call(C, call) ==
  LET node == [call EXCEPT !.callee.ty = TVoid]
  IN CASE node.callee.k = "name" -> check_named_call(C, node, lookup(C, node.callee.name))
       [] node.callee.k = "field" -> check_method_call(C, node)
       [] OTHER -> LET f == check_expr(error(C, "not callable"), node.callee, None)
                       v == check_args_loosely(f.c, [node EXCEPT !.callee = f.e])
                   IN set_type(v.c, v.e, TError)

check_stray_range(C, e) ==
  LET lo == check_expr(error(C, "range outside of a for loop"), e.lo, None)
      hi == check_expr(lo.c, e.hi, None)
  IN set_type(hi.c, [e EXCEPT !.lo = lo.e, !.hi = hi.e], TError)

---------------------------------------------------------------------------
(* Where control goes: calls of panic and exit do not return.                *)

RECURSIVE stmt_has_break(_), stmt_falls_through(_)
block_has_break(b) == \E i \in DOMAIN b : stmt_has_break(b[i])
stmt_has_break(s) ==
  \/ s.k = "break"
  \/ s.k = "if" /\ (block_has_break(s.then) \/ (s.else # None /\ stmt_has_break(s.else)))
  \/ s.k = "block" /\ block_has_break(s.body)

expr_diverges(e) == e.k = "call" /\ e.kind = "builtin" /\ e.builtin \in {"panic", "exit"}
Forever(cond) == cond.k = "bool" /\ cond.val

block_falls_through(b) == \A i \in DOMAIN b : stmt_falls_through(b[i])
else_falls_through(s) == s.else = None \/ stmt_falls_through(s.else)
stmt_falls_through(s) ==
  CASE s.k \in {"return", "break", "continue"} -> FALSE
    [] s.k = "expr" -> ~expr_diverges(s.expr)
    [] s.k = "if" -> block_falls_through(s.then) \/ else_falls_through(s)
    [] s.k = "while" -> ~Forever(s.cond) \/ block_has_break(s.body)
    [] s.k = "block" -> block_falls_through(s.body)
    [] OTHER -> TRUE

---------------------------------------------------------------------------
(* Statements                                                                *)

Statement(C, s) == [c |-> C, s |-> s]

RECURSIVE check_stmts(_, _, _, _)

\* A block as [c, body].
Closing(C, base, newScope) == IF newScope THEN scope_pop(NarrowsBackTo(C, base)) ELSE NarrowsBackTo(C, base)
check_block(C, b, newScope) ==
  [check_stmts(IF newScope THEN scope_push(C) ELSE C, b, 1, TRUE) EXCEPT !.c = Closing(@, Len(C.narrows), newScope)]

VarType(declared, init) ==
  CASE declared # None -> declared
    [] init \in {TNull, TVoid} -> TError
    [] OTHER -> init
\* The variable is there once its initial value, v, has been looked at.
LastDeclared(C, s) == Statement(C, [s EXCEPT !.sym = Len(C.syms)])
DeclareVar(v, s, declared) ==
  LET fits == IF declared = None THEN v.e.ty \notin {TNull, TVoid} ELSE Convertible(v.e.ty, declared)
      c == Require(v.c, fits, "initial value")
  IN LastDeclared(declare_local(c, "local", s.name, VarType(declared, v.e.ty), FALSE), [s EXCEPT !.init = v.e])
InitVar(d, s) == DeclareVar(check_expr(d.c, s.init, d.t), s, d.t)
check_var(C, s) == InitVar(IF s.type = None THEN WithType(C, None) ELSE resolve_type(C, s.type, FALSE), s)

\* The value, once the target is known: wanted is the type it stores.
Stored(C, s, target, wanted) ==
  LET v == check_expr(C, s.value, IF s.op = "=" THEN wanted ELSE None)
      sum == binary_result(v.c, compound_base_op(s.op), target.ty, v.e.ty)
      node == [s EXCEPT !.target = target, !.value = v.e]
  IN IF s.op = "=" THEN Statement(require_convertible(v.c, v.e.ty, wanted, "assignment"), node)
     ELSE Statement(Require(sum.c, IsError(sum.t) \/ Convertible(sum.t, wanted), "would store another type"), node)

\* The target cannot be assigned to; the value is still looked at.
OnlyTheValue(C, s, target) ==
  LET v == check_expr(C, s.value, None)
  IN Statement(v.c, [s EXCEPT !.target = [target EXCEPT !.ty = TError], !.value = v.e])
Unassignable(C, s, target, what) == OnlyTheValue(error(C, what), s, target)

\* Assigning to a variable puts its declared type back.
assign_name(C, s) ==
  LET x == lookup(C, s.target.name)
      sym == C.syms[x]
      local == sym.kind \in {"local", "param"}
      bound == [s.target EXCEPT !.sym = x]
      c == IF ~local THEN C
           ELSE Require([C EXCEPT !.syms[x].used = @ \/ s.op # "="], ~sym.immutable, "immutable")
      typed == [bound EXCEPT !.ty = IF s.op = "=" THEN sym.type ELSE effective_type(C, x)]
  IN IF x = 0 THEN Unassignable(C, s, s.target, "unknown name")
     ELSE IF ~local /\ sym.kind # "global" THEN Unassignable(C, s, bound, "not assignable")
     ELSE [Stored(c, s, typed, sym.type) EXCEPT !.c = IF local THEN narrow_push(@, x, sym.type) ELSE @]

StoredIn(target, s) == Stored(target.c, s, target.e, target.e.ty)

\* The base has been checked, and is checked again with the index.
StringItem(i, s) == OnlyTheValue(i.c, s, [s.target EXCEPT !.index = i.e])
assign_index(b, s) ==
  LET node == [s.target EXCEPT !.base = b.e]
  IN IF b.e.ty.k = "str" THEN StringItem(check_expr(error(b.c, "strings are immutable"), node.index, None), [s EXCEPT !.target = node])
     ELSE StoredIn(check_index(b.c, node), s)

check_assign(C, s) ==
  CASE s.target.k = "name" -> assign_name(C, s)
    [] s.target.k = "field" -> StoredIn(check_field(C, s.target), s)
    [] s.target.k = "index" -> assign_index(check_expr(C, s.target.base, None), s)

check_condition(C, cond) ==
  LET v == check_expr(C, cond, TBool) IN [v EXCEPT !.c = Require(@, v.e.ty \in {TError, TBool}, "condition must be a bool")]

check_if(C, s) ==
  LET base == Len(C.narrows)
      cond == check_condition(C, s.cond)
      then == check_block(collect_facts(cond.c, cond.e, TRUE), s.then, TRUE)
      after == NarrowsBackTo(then.c, base)
      else == check_stmt(collect_facts(after, cond.e, FALSE), s.else)
      node == [s EXCEPT !.cond = cond.e, !.then = then.body]
  IN IF s.else = None THEN Statement(after, node)
     ELSE Statement(NarrowsBackTo(else.c, base), [node EXCEPT !.else = else.s])

\* The body of a loop, as check_block returns it.
LoopBody(C, b, newScope) ==
  LET r == check_block([C EXCEPT !.loop = @ + 1], b, newScope) IN [r EXCEPT !.c.loop = @ - 1]

check_while(C, s) ==
  LET cond == check_condition(C, s.cond)
      body == LoopBody(collect_facts(cond.c, cond.e, TRUE), s.body, TRUE)
  IN Statement(NarrowsBackTo(body.c, Len(C.narrows)), [s EXCEPT !.cond = cond.e, !.body = body.body])

check_bounds(C, r) ==
  LET lo == check_expr(C, r.lo, TInt)
      hi == check_expr(lo.c, r.hi, TInt)
      c == require_convertible(require_convertible(hi.c, lo.e.ty, TInt, "a range bound"), hi.e.ty, TInt, "a range bound")
  IN set_type(c, [r EXCEPT !.lo = lo.e, !.hi = hi.e], TInt)

ElementType(iter) ==
  CASE iter.k = "range" -> TInt [] iter.ty.k = "list" -> iter.ty.elem [] iter.ty.k = "str" -> TStr [] OTHER -> TError
check_for(C, s) ==
  LET iter == IF s.iter.k = "range" THEN check_bounds(C, s.iter) ELSE check_expr(C, s.iter, None)
      c == Require(iter.c, iter.e.k = "range" \/ iter.e.ty.k \in {"list", "str", "error"}, "cannot iterate")
      declared == declare_local(scope_push(c), "local", s.name, ElementType(iter.e), TRUE)
      x == Len(declared.syms)
      body == LoopBody([declared EXCEPT !.syms[x].used = TRUE], s.body, FALSE)
  IN Statement(scope_pop(body.c), [s EXCEPT !.iter = iter.e, !.body = body.body, !.sym = x])

check_return(C, s) ==
  LET ret == C.syms[C.fn].type
      c == Require(C, ret # TVoid, "return takes no value")
      v == check_expr(c, s.value, IF ret = TVoid THEN None ELSE ret)
      node == [s EXCEPT !.value = v.e]
  IN IF s.value = None THEN Statement(Require(C, ret = TVoid, "must return a value"), s)
     ELSE IF ret = TVoid THEN Statement(v.c, node)
     ELSE Statement(require_convertible(v.c, v.e.ty, ret, "the return value"), node)

\* An `if` one of whose branches leaves tells the rest of the block something.
FactsAfter(C, s) ==
  LET then == block_falls_through(s.then)
  IN IF s.k # "if" \/ then = else_falls_through(s) THEN C ELSE collect_facts(C, s.cond, then)

NextStmts(r, b, i, reachable) ==
  check_stmts(FactsAfter(r.c, r.s), [b EXCEPT ![i] = r.s], i + 1, reachable /\ stmt_falls_through(r.s))
check_stmts(C, b, i, reachable) ==
  IF InScope(C) /\ i > Len(b) THEN [c |-> C, body |-> b]
  ELSE LET first == ~reachable /\ \A j \in 1..(i - 2) : stmt_falls_through(b[j])
       IN NextStmts(check_stmt(IF first THEN warning(C, "unreachable code") ELSE C, b[i]), b, i, reachable)

\* Asking for the scope makes TLC work out C first.
check(C, n, expected) ==
  CASE InScope(C) /\ n.k = "int" -> set_type(C, n, TInt)
    [] n.k = "float" -> set_type(C, n, TFloat)
    [] n.k = "bool" -> set_type(C, n, TBool)
    [] n.k = "string" -> set_type(C, n, TStr)
    [] n.k = "null" -> set_type(C, n, IF expected.k = "optional" THEN expected ELSE TNull)
    [] n.k = "name" -> check_name(C, n)
    [] n.k = "fstring" -> check_parts(C, n, 1)
    [] n.k = "list" -> check_list_literal(C, n, expected)
    [] n.k = "unary" -> check_unary(C, n)
    [] n.k = "binary" -> check_binary(C, n)
    [] n.k = "call" -> check_call(C, n)
    [] n.k = "field" -> check_field(C, n)
    [] n.k = "index" -> check_index(C, n)
    [] n.k = "slice" -> check_slice(C, n)
    [] n.k = "range" -> check_stray_range(C, n)
    [] n.k = "var" -> check_var(C, n)
    [] n.k = "assign" -> check_assign(C, n)
    [] n.k = "expr" -> LET v == check_expr(C, n.expr, None) IN Statement(v.c, [n EXCEPT !.expr = v.e])
    [] n.k = "if" -> check_if(C, n)
    [] n.k = "while" -> check_while(C, n)
    [] n.k = "for" -> check_for(C, n)
    [] n.k \in {"break", "continue"} -> Statement(Require(C, C.loop > 0, "outside of a loop"), n)
    [] n.k = "return" -> check_return(C, n)
    [] n.k = "block" -> LET b == check_block(C, n.body, TRUE) IN Statement(b.c, [n EXCEPT !.body = b.body])

---------------------------------------------------------------------------
(* Declarations                                                              *)

mangle(prefix, a, b) == prefix \o a \o (IF b = "" THEN "" ELSE "__" \o b)

RECURSIVE DeclareTypes(_, _), DeclareBuiltins(_, _)
Predeclare(C, kind, name, type) ==
  LET c == AddSymbol(C, [NewSymbol(kind, name) EXCEPT !.type = type])
  IN [c EXCEPT !.scopes[1].names = strmap_put(@, name, Len(c.syms))]
DeclareTypes(C, rows) ==
  IF InScope(C) /\ rows = <<>> THEN C ELSE DeclareTypes(Predeclare(C, "type", rows[1][1], rows[1][2]), Tail(rows))
DeclareBuiltins(C, names) ==
  IF InScope(C) /\ names = <<>> THEN C ELSE DeclareBuiltins(Predeclare(C, "builtin", Head(names), None), Tail(names))

NewChecker ==
  [syms |-> <<>>, scopes |-> <<NewScope>>, narrows |-> <<>>, ds |-> <<>>, fn |-> 0, loop |-> 0,
   funcs |-> <<>>, structs |-> <<>>, globals |-> <<>>, main |-> 0]

\* `int`, `float` and `str` are types that can be called; the others are functions.
add_builtins ==
  DeclareBuiltins(
    DeclareTypes(NewChecker, <<<<"int", TInt>>, <<"float", TFloat>>, <<"bool", TBool>>, <<"str", TStr>>,
                               <<"void", TVoid>>, <<"list", None>>>>),
    BUILTIN_FUNCS)

\* Pass 1. A function or a method, a struct or a global enters with its linker name.
Declared(C, list, kind, d, prefix) ==
  LET c == AddSymbol(C, [NewSymbol(kind, d.name) EXCEPT !.decl = d, !.mangled = mangle(prefix, d.name, "")])
      n == Len(c.syms)
      named == declare(c, n)
  IN IF lookup(named, d.name) = n THEN [named EXCEPT ![list] = Append(@, n)] ELSE named

RECURSIVE collect_methods(_, _, _)
collect_methods(C, st, ms) ==
  LET m == Head(ms)
      sym == [NewSymbol("method", m.name) EXCEPT !.decl = m, !.owner = st, !.mangled = mangle("rv_fn_", C.syms[st].name, m.name)]
      c == AddSymbol(C, sym)
      n == Len(c.syms)
      taken == strmap_get(C.syms[st].methods, m.name) # 0
      added == [c EXCEPT !.syms[st].methods = strmap_put(@, m.name, n), !.funcs = Append(@, n)]
  IN IF ms = <<>> THEN C ELSE collect_methods(IF taken THEN error(c, "method exists") ELSE added, st, Tail(ms))

collect_struct(C, d) ==
  LET n == Len(C.syms) + 1
      c == Declared(C, "structs", "struct", d, "rv_ti_")
  IN collect_methods([c EXCEPT !.syms[n].type = TyStruct(n)], n, d.methods)

RECURSIVE collect_decls(_, _)
collect_decls(C, decls) ==
  IF InScope(C) /\ decls = <<>> THEN C
  ELSE LET d == Head(decls)
           c == CASE d.k = "func" -> Declared(C, "funcs", "func", d, "rv_fn_")
                  [] d.k = "struct" -> collect_struct(C, d)
                  [] d.k = "global" -> Declared(C, "globals", "global", d, "rv_g_")
       IN collect_decls(c, Tail(decls))

\* Pass 2. A field is known once its type is.
RECURSIVE resolve_fields(_, _, _)
resolve_fields(C, st, fds) ==
  LET f == Head(fds)
      sym == C.syms[st]
      taken == strmap_get(sym.members, f.name) # 0 \/ strmap_get(sym.methods, f.name) # 0
      t == resolve_type(C, f.type, FALSE)
      added == [t.c EXCEPT !.syms[st].fields = Append(@, [name |-> f.name, type |-> t.t]),
                           !.syms[st].members = strmap_put(@, f.name, Len(sym.fields) + 1)]
  IN IF fds = <<>> THEN C
     ELSE resolve_fields(IF taken THEN error(C, "member exists") ELSE added, st, Tail(fds))

RECURSIVE resolve_params(_, _, _)
resolve_params(C, fn, i) ==
  LET ps == C.syms[fn].decl.params
      owner == C.syms[fn].owner
      t == IF ps[i].type = None /\ owner # 0 /\ ps[i].name = "self" THEN WithType(C, C.syms[owner].type)
           ELSE resolve_type(C, ps[i].type, FALSE)
      c == Require(t.c, \A j \in 1..(i - 1) : ps[j].name # ps[i].name, "duplicate parameter name")
  IN IF i > Len(ps) THEN C ELSE resolve_params([c EXCEPT !.syms[fn].params = Append(@, t.t)], fn, i + 1)
resolve_signature(C, fn) ==
  LET c == resolve_params(C, fn, 1)
      ret == C.syms[fn].decl.ret
      t == IF ret = None THEN WithType(c, TVoid) ELSE resolve_type(c, ret, TRUE)
  IN [t.c EXCEPT !.syms[fn].type = t.t]
resolve_global(C, g) ==
  LET t == resolve_type(C, C.syms[g].decl.type, FALSE)
  IN IF C.syms[g].decl.type = None THEN C ELSE [t.c EXCEPT !.syms[g].type = t.t]

RECURSIVE ForEach(_, _, _)
ForEach(Op(_, _), C, list) == IF InScope(C) /\ list = <<>> THEN C ELSE ForEach(Op, Op(C, Head(list)), Tail(list))

\* Structs that need themselves through fields that are not optional: depth
\* first, one stack per root. S holds the checker, the stack of structs, where
\* each of them has got to in its fields, and which are new, visiting or done.
RECURSIVE Visit(_)
Visit(S) ==
  LET top == Last(S.stack)
      f == S.next[top]
      field == S.c.syms[top].fields[f]
      onto == field.type.sym
      on == [S EXCEPT !.next[top] = f + 1]
  IN IF S.stack = <<>> THEN S
     ELSE IF f > Len(S.c.syms[top].fields) THEN Visit([S EXCEPT !.mark[top] = "done", !.stack = Front(@)])
     ELSE IF field.type.k # "struct" THEN Visit(on)
     ELSE IF S.mark[onto] = "visiting" THEN Visit([on EXCEPT !.c = error(@, "requires itself")])
     ELSE IF S.mark[onto] = "new" THEN Visit([on EXCEPT !.mark[onto] = "visiting", !.stack = Append(@, onto)])
     ELSE Visit(on)
RECURSIVE VisitRoots(_, _)
VisitRoots(S, roots) ==
  LET fresh == [S EXCEPT !.stack = <<Head(roots)>>, !.mark[Head(roots)] = "visiting",
                         !.next = [n \in DOMAIN @ |-> 1]]
  IN IF roots = <<>> THEN S.c
     ELSE VisitRoots(IF S.mark[Head(roots)] = "new" THEN Visit(fresh) ELSE S, Tail(roots))
\* Fault: the search from the first struct is taken to have reached them all.
check_first_struct(C) ==
  LET all == {C.structs[i] : i \in DOMAIN C.structs}
  IN VisitRoots([c |-> C, stack |-> <<>>, next |-> [n \in all |-> 1], mark |-> [n \in all |-> "new"]],
                IF C.structs = <<>> THEN <<>> ELSE <<Head(C.structs)>>)
check_struct_cycles(C) ==
  LET all == {C.structs[i] : i \in DOMAIN C.structs}
  IN VisitRoots([c |-> C, stack |-> <<>>, next |-> [n \in all |-> 1], mark |-> [n \in all |-> "new"]], C.structs)

resolve_decls(C) ==
  LET fields == ForEach(LAMBDA c, s : resolve_fields(c, s, c.syms[s].decl.fields), C, C.structs)
      funcs == ForEach(resolve_signature, fields, C.funcs)
  IN check_struct_cycles(ForEach(resolve_global, funcs, C.globals))

\* Pass 3. A global is typed and folded before the next one.
Unfoldable(type, init) == type.k \in {"list", "struct"} \/ (type.k = "optional" /\ init.k # "null")
Widened(type, c) == [c EXCEPT !.type = type, !.v = IF type = TFloat /\ c.type = TInt THEN OfInt(@) ELSE @]
Initialised(v, g, declared) ==
  LET t == v.e.ty
      type == IF declared # None THEN declared ELSE IF t = TNull THEN TError ELSE t
      fits == IF declared # None THEN Convertible(t, declared) ELSE t # TNull
      c == [Require(v.c, fits, "initial value") EXCEPT !.syms[g].type = type, !.syms[g].decl.init = v.e]
      folded == fold(c.syms, v.e)
  IN IF TError \in {type, t} THEN c
     ELSE IF Unfoldable(type, v.e) THEN error(c, "cannot be initialized at compile time")
     ELSE IF folded.ok THEN [c EXCEPT !.syms[g].value = Widened(type, folded.c), !.syms[g].folded = TRUE]
     ELSE Require(c, folded.msg = "", folded.msg)
check_global(C, g) == Initialised(check_expr(C, C.syms[g].decl.init, C.syms[g].type), g, C.syms[g].type)

RECURSIVE declare_params(_, _, _)
declare_params(C, fn, i) ==
  LET p == C.syms[fn].decl.params[i]
      c == declare_local(C, "param", p.name, C.syms[fn].params[i], p.type = None)
  IN IF i > Len(C.syms[fn].decl.params) THEN C
     ELSE declare_params([c EXCEPT !.syms[Len(c.syms)].used = TRUE, !.syms[fn].decl.params[i].sym = Len(c.syms)], fn, i + 1)

Checked(b, fn) ==
  LET returns == b.c.syms[fn].type = TVoid \/ ~block_falls_through(b.body)
      c == scope_pop(Require(b.c, returns, "can reach the end without returning"))
  IN [c EXCEPT !.fn = 0, !.syms[fn].decl.body = b.body]
check_function(C, fn) ==
  LET entered == scope_push([C EXCEPT !.fn = fn, !.loop = 0, !.syms[fn].nlocals = 0])
  IN Checked(check_block(declare_params(entered, fn, 1), C.syms[fn].decl.body, FALSE), fn)

check_main(C) ==
  LET m == lookup(C, "main")
      sym == C.syms[m]
      c == Require(Require(C, sym.params = <<>>, "main takes no parameters"), sym.type \in {TInt, TVoid}, "main returns int")
  IN IF m = 0 \/ C.syms[m].kind # "func" THEN error(C, "no main function") ELSE [c EXCEPT !.main = m]

check_globals(C) == ForEach(check_global, C, C.globals)
check_functions(C) == ForEach(check_function, C, C.funcs)
sema_check(decls) == check_main(check_functions(check_globals(resolve_decls(collect_decls(add_builtins, decls)))))

HasErrors(C) == \E i \in DOMAIN C.ds : C.ds[i][1] = "error"
=============================================================================
