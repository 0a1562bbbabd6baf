------------------------------ MODULE Analysis ------------------------------
(* The index editors get, ide/analysis.c: what is declared, where each       *)
(* declaration is used, the type of every expression, calls and folds.       *)
(*                                                                           *)
(* The code gives a place by its bytes in the source; here it is the path    *)
(* from the module to a node or to the name in it, <<2, "body", 1, "name">>. *)
(* A declaration is named by its symbol and, for a field, its number there.  *)
(* P is the checker once sema_check is done.                                 *)
EXTENDS Checker

VariableKind == 13
FunctionKind == 12
MethodKind == 6
StructKind == 23
FieldKind == 8
Id(sym) == <<sym, 0>>
NoOwner == Id(-1)

\* What is visible from the statement after the n-th of the block at `within`.
After(within, n) == [within |-> within, after |-> n]
Throughout(within) == After(within, 0)

reference(use, id) == <<[what |-> "reference", use |-> Append(use, "name"), id |-> id]>>
Fold(at) == <<[what |-> "fold", range |-> at]>>
symbol(name, id, at, scope, kind, type, owner, inferred, immutable) ==
  <<[what |-> "symbol", id |-> id, name |-> name, kind |-> kind, owner |-> owner, selection |-> Append(at, "name"),
     scope |-> scope, type |-> type, inferred |-> inferred, immutable |-> immutable]>>

user_symbol(P, sym) == sym # 0 /\ P.syms[sym].kind \notin {"builtin", "type"}

\* The struct of that name, 0 if there is none.
struct_named(P, name) ==
  LET i == SelectInSeq(P.structs, LAMBDA s : P.syms[s].name = name) IN IF i = 0 THEN 0 ELSE P.structs[i]

RECURSIVE type_refs(_, _, _)
type_refs(P, t, at) ==
  CASE t.k = "none" -> <<>>
    [] t.k = "name" -> IF struct_named(P, t.name) # 0 THEN reference(at, Id(struct_named(P, t.name))) ELSE <<>>
    [] OTHER -> type_refs(P, t.inner, Append(at, "inner"))

---------------------------------------------------------------------------
(* Expressions and statements                                                *)

RECURSIVE expression(_, _, _), statement(_, _, _, _, _)
Children(P, es, at) == FlattenSeq([i \in DOMAIN es |-> expression(P, es[i], Append(at, i))])
Child(P, e, at, part) == expression(P, e[part], Append(at, part))

\* The f-th field of a struct, by the declaration that it comes from.
FieldId(P, st, f) == <<st, SelectInSeq(P.syms[st].decl.fields, LAMBDA d : d.name = P.syms[st].fields[f].name)>>

\* Fault: the labels of a construction are no references.
argument_unlabelled(P, call, at, i) == expression(P, call.args[i].value, at \o <<"args", i, "value">>)

\* A label refers to the field of the struct that is made.
argument(P, call, at, i) ==
  LET a == call.args[i]
      here == at \o <<"args", i>>
      f == strmap_get(P.syms[call.sym].members, a.label)
  IN expression(P, a.value, Append(here, "value"))
     \o IF call.kind = "construct" /\ a.label # "" /\ f # 0
        THEN <<[what |-> "reference", use |-> Append(here, "label"), id |-> FieldId(P, call.sym, f)]>> ELSE <<>>
call(P, e, at) ==
  Child(P, e, at, "callee")
  \o FlattenSeq([i \in DOMAIN e.args |-> argument(P, e, at, i)])
  \o <<[what |-> "call", range |-> at, callee |-> Append(at, "callee"),
        id |-> IF user_symbol(P, e.sym) THEN Id(e.sym) ELSE NoOwner, builtin |-> e.builtin]>>

field(P, e, at) ==
  LET st == e.base.ty.sym
      f == strmap_get(P.syms[st].members, e.name)
      m == strmap_get(P.syms[st].methods, e.name)
  IN Child(P, e, at, "base")
     \o (CASE e.base.ty.k = "struct" /\ f # 0 -> reference(at, FieldId(P, st, f))
           [] e.base.ty.k = "struct" /\ f = 0 /\ m # 0 -> reference(at, Id(m))
           [] OTHER -> <<>>)

Within(P, e, at) ==
  CASE e.k = "name" -> IF user_symbol(P, e.sym) THEN reference(at, Id(e.sym)) ELSE <<>>
    [] e.k = "fstring" -> Children(P, e.parts, Append(at, "parts"))
    [] e.k = "list" -> Children(P, e.items, Append(at, "items"))
    [] e.k = "unary" -> Child(P, e, at, "operand")
    [] e.k = "binary" -> Child(P, e, at, "lhs") \o Child(P, e, at, "rhs")
    [] e.k = "call" -> call(P, e, at)
    [] e.k = "field" -> field(P, e, at)
    [] e.k = "index" -> Child(P, e, at, "base") \o Child(P, e, at, "index")
    [] e.k = "slice" -> Child(P, e, at, "base") \o Child(P, e, at, "lo") \o Child(P, e, at, "hi")
    [] e.k = "range" -> Child(P, e, at, "lo") \o Child(P, e, at, "hi")
    [] OTHER -> <<>>
expression(P, e, at) ==
  IF e = None THEN <<>> ELSE <<[what |-> "expression", range |-> at, type |-> e.ty]>> \o Within(P, e, at)

\* The n-th statement of the block at `within` is at `at`.
TypeOf(P, sym) == IF sym = 0 THEN None ELSE P.syms[sym].type
block(P, b, at, owner) ==
  Fold(at) \o FlattenSeq([i \in DOMAIN b |-> statement(P, b[i], Append(at, i), After(at, i), owner)])
statement(P, s, at, scope, owner) ==
  CASE s.k = "var" ->
         symbol(s.name, Id(s.sym), at, scope, VariableKind, TypeOf(P, s.sym), owner, s.type = None, FALSE)
         \o type_refs(P, s.type, Append(at, "type")) \o Child(P, s, at, "init")
    [] s.k = "assign" -> Child(P, s, at, "target") \o Child(P, s, at, "value")
    [] s.k = "expr" -> Child(P, s, at, "expr")
    [] s.k = "if" -> Child(P, s, at, "cond") \o block(P, s.then, Append(at, "then"), owner)
                     \o statement(P, s.else, Append(at, "else"), scope, owner)
    [] s.k = "while" -> Child(P, s, at, "cond") \o block(P, s.body, Append(at, "body"), owner)
    [] s.k = "for" ->
         symbol(s.name, Id(s.sym), at, Throughout(Append(at, "body")), VariableKind, TypeOf(P, s.sym), owner, TRUE, TRUE)
         \o Child(P, s, at, "iter") \o block(P, s.body, Append(at, "body"), owner)
    [] s.k = "return" -> Child(P, s, at, "value")
    [] s.k = "block" -> block(P, s.body, Append(at, "body"), owner)
    [] OTHER -> <<>>

---------------------------------------------------------------------------
(* Declarations                                                              *)

parameter(P, f, at, i, fn) ==
  LET p == f.params[i]
      here == at \o <<"params", i>>
  IN symbol(p.name, Id(p.sym), here, Throughout(Append(at, "body")), VariableKind, TypeOf(P, p.sym), Id(fn), FALSE, p.name = "self")
     \o type_refs(P, p.type, Append(here, "type"))

\* The checker's tree has the types and symbols.
function(P, fn, at, scope) ==
  LET f == P.syms[fn].decl
      owner == P.syms[fn].owner
  IN symbol(f.name, Id(fn), at, scope, IF owner # 0 THEN MethodKind ELSE FunctionKind, P.syms[fn].type,
            IF owner # 0 THEN Id(owner) ELSE NoOwner, FALSE, FALSE)
     \o type_refs(P, f.ret, Append(at, "ret"))
     \o FlattenSeq([i \in DOMAIN f.params |-> parameter(P, f, at, i, fn)])
     \o block(P, f.body, Append(at, "body"), Id(fn))

member(P, st, at, i) ==
  LET d == P.syms[st].decl.fields[i]
      here == at \o <<"fields", i>>
      f == strmap_get(P.syms[st].members, d.name)
  IN symbol(d.name, <<st, i>>, here, Throughout(at), FieldKind, IF f # 0 THEN P.syms[st].fields[f].type ELSE None, Id(st), FALSE, FALSE)
     \o type_refs(P, d.type, Append(here, "type"))
structure(P, st, at) ==
  LET d == P.syms[st].decl
  IN symbol(d.name, Id(st), at, Throughout(<<>>), StructKind, P.syms[st].type, NoOwner, FALSE, FALSE)
     \o Fold(at)
     \o FlattenSeq([i \in DOMAIN d.fields |-> member(P, st, at, i)])
     \o FlattenSeq([j \in DOMAIN d.methods |-> function(P, st + j, at \o <<"methods", j>>, Throughout(at))])
variable(P, g, at) ==
  LET d == P.syms[g].decl
  IN symbol(d.name, Id(g), at, Throughout(<<>>), VariableKind, P.syms[g].type, NoOwner, d.type = None, FALSE)
     \o type_refs(P, d.type, Append(at, "type")) \o Child(P, d, at, "init")

\* Each declaration has a symbol, and a struct's methods have the ones after it.
Taken(d) == IF d.k = "struct" THEN 1 + Len(d.methods) ELSE 1
SymbolOfDecl(decls, i) == Len(add_builtins.syms) + 1 + FoldLeft(LAMBDA n, d : n + Taken(d), 0, SubSeq(decls, 1, i - 1))
module_index(P, decls) ==
  FlattenSeq([i \in DOMAIN decls |->
    LET n == SymbolOfDecl(decls, i)
    IN CASE decls[i].k = "func" -> function(P, n, <<i>>, Throughout(<<>>))
         [] decls[i].k = "struct" -> structure(P, n, <<i>>)
         [] decls[i].k = "global" -> variable(P, n, <<i>>)])

---------------------------------------------------------------------------
(* What the index is for                                                     *)

Entries(index, what) == SelectSeq(index, LAMBDA x : x.what = what)
Uses(index, id) ==
  LET found == SelectSeq(Entries(index, "reference"), LAMBDA x : x.id = id) IN [i \in DOMAIN found |-> found[i].use]

RECURSIVE Put(_, _, _)
Put(node, path, name) == IF path = <<>> THEN name ELSE [node EXCEPT ![Head(path)] = Put(@, Tail(path), name)]
Renamed(decls, places, name) == FoldLeft(LAMBDA t, p : Put(t, p, name), decls, places)

\* Its name and all its uses, renamed together, leave the module what it was.
Fresh(name) == IF SubSeq(name, 1, 1) = "_" THEN "_zz" ELSE "zz"
Renames(P, decls, index, s) ==
  sema_check(Renamed(decls, <<s.selection>> \o Uses(index, s.id), Fresh(s.name))).ds = P.ds
\* A variable is used where its scope says it can be.
UsedInScope(index, s) ==
  s.kind = VariableKind => LET uses == Uses(index, s.id) IN \A i \in DOMAIN uses :
    /\ IsPrefix(s.scope.within, uses[i]) /\ Len(uses[i]) > Len(s.scope.within)
    /\ s.scope.after > 0 => uses[i][Len(s.scope.within) + 1] > s.scope.after

\* `main` and `self` have the names they must have.
IndexIsRight(P, decls, index) ==
  LET symbols == Entries(index, "symbol") IN \A i \in DOMAIN symbols :
    /\ symbols[i].name \notin {"main", "self"} => Renames(P, decls, index, symbols[i])
    /\ UsedInScope(index, symbols[i])
=============================================================================
