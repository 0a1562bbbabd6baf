------------------------------ MODULE Scopes ------------------------------
(* The state of sema/check.c: symbols, scopes, narrowing facts, diagnostics. *)
(*                                                                           *)
(* A checker C is a record: syms, the symbols in the order of their          *)
(* creation; scopes, from the global one to the innermost; narrows, the      *)
(* stack of facts; ds, the diagnostics; fn and loop, the function and the    *)
(* number of loops around the current statement; funcs, structs, globals and *)
(* main, the program being put together. A symbol is referred to by its      *)
(* number.                                                                   *)
EXTENDS Fold

---------------------------------------------------------------------------
(* The hash map of base/strmap.c: open addressing, linear probing, no        *)
(* removal. The value 0 is the code's NULL, which a lookup cannot tell from  *)
(* absence.                                                                  *)

CONSTANT Hash(_)   \* str_hash

Unused == [used |-> FALSE, key |-> "", value |-> 0]
strmap_init == [entries |-> [i \in {} |-> Unused], count |-> 0, cap |-> 0]

\* From slot i on: the one that holds the key, or the free one it would take.
RECURSIVE probe(_, _, _, _)
probe(entries, cap, key, i) ==
  IF entries[i].used /\ entries[i].key # key THEN probe(entries, cap, key, (i + 1) % cap) ELSE i
strmap_slot(entries, cap, key) == probe(entries, cap, key, Hash(key) % cap)

\* The entries from slot i of the old table on, moved into the new one.
RECURSIVE Rehash(_, _, _, _)
Rehash(m, i, entries, cap) ==
  IF i = m.cap THEN entries
  ELSE Rehash(m, i + 1, IF m.entries[i].used
                        THEN [entries EXCEPT ![strmap_slot(entries, cap, m.entries[i].key)] = m.entries[i]]
                        ELSE entries, cap)
strmap_grow(m) ==
  LET cap == IF m.cap = 0 THEN 16 ELSE m.cap * 2
  IN [m EXCEPT !.entries = Rehash(m, 0, [i \in 0..(cap - 1) |-> Unused], cap), !.cap = cap]

strmap_get(m, key) == IF m.cap = 0 THEN 0 ELSE m.entries[strmap_slot(m.entries, m.cap, key)].value

PutIn(m, i, key, value) ==
  [m EXCEPT !.entries[i] = [used |-> TRUE, key |-> key, value |-> value],
            !.count = IF m.entries[i].used THEN @ ELSE @ + 1]
strmap_put(m, key, value) ==
  LET room == IF (m.count + 1) * 4 >= m.cap * 3 THEN strmap_grow(m) ELSE m
  IN PutIn(room, strmap_slot(room.entries, room.cap, key), key, value)

---------------------------------------------------------------------------
(* Symbols and scopes.                                                       *)

NewScope == [names |-> strmap_init, locals |-> <<>>]

NewSymbol(kind, name) ==
  [kind |-> kind, name |-> name, type |-> None, mangled |-> "", slot |-> 0, immutable |-> FALSE, used |-> FALSE,
   params |-> <<>>, owner |-> 0, nlocals |-> 0, fields |-> <<>>, members |-> strmap_init, methods |-> strmap_init,
   decl |-> None, folded |-> FALSE, value |-> NullConst(TError)]

\* The new symbol is the last one, Len(C.syms).
AddSymbol(C, s) == [C EXCEPT !.syms = Append(@, s)]
new_sym(C, kind, name) == AddSymbol(C, NewSymbol(kind, name))

error(C, what) == [C EXCEPT !.ds = Append(@, <<"error", what>>)]
warning(C, what) == [C EXCEPT !.ds = Append(@, <<"warning", what>>)]
note(C, what) == [C EXCEPT !.ds = Append(@, <<"note", what>>)]
Require(C, ok, what) == IF ok THEN C ELSE error(C, what)

Enclosing(C) == Len(C.scopes)
InScope(C) == Enclosing(C) # 0
scope_push(C) == [C EXCEPT !.scopes = Append(@, NewScope)]

\* A variable whose name does not start with an underscore should be used.
Unread(C, s) == C.syms[s].kind = "local" /\ ~C.syms[s].used /\ SubSeq(C.syms[s].name, 1, 1) # "_"
RECURSIVE WarnUnread(_, _)
WarnUnread(C, locals) ==
  IF locals = <<>> THEN C
  ELSE WarnUnread(IF Unread(C, Head(locals)) THEN warning(C, "never used") ELSE C, Tail(locals))
scope_pop(C) ==
  LET warned == WarnUnread(C, C.scopes[Enclosing(C)].locals)
  IN [warned EXCEPT !.scopes = SubSeq(@, 1, Len(@) - 1)]

RECURSIVE LookupFrom(_, _, _)
LookupFrom(C, name, i) ==
  IF i = 0 THEN 0
  ELSE LET s == strmap_get(C.scopes[i].names, name) IN IF s # 0 THEN s ELSE LookupFrom(C, name, i - 1)
lookup(C, name) == LookupFrom(C, name, Enclosing(C))

Enter(C, s) ==
  [C EXCEPT !.scopes[Enclosing(C)].names = strmap_put(@, C.syms[s].name, s),
            !.scopes[Enclosing(C)].locals = Append(@, s)]

\* Rejects any name that is visible already, shadowing included.
declare(C, s) ==
  LET existing == lookup(C, C.syms[s].name)
  IN IF existing = 0 THEN Enter(C, s)
     ELSE IF C.syms[existing].kind \in {"type", "builtin"} THEN error(C, "cannot be redefined")
     ELSE note(error(C, "already defined"), "previous definition")

\* The symbol exists, with a slot of its own, even when its name is taken.
declare_local(C, kind, name, type, immutable) ==
  LET slot == C.syms[C.fn].nlocals
      s == [NewSymbol(kind, name) EXCEPT !.type = type, !.immutable = immutable, !.slot = slot]
      added == AddSymbol([C EXCEPT !.syms[C.fn].nlocals = slot + 1], s)
  IN declare(added, Len(added.syms))

---------------------------------------------------------------------------
(* Narrowing: facts of the form "this variable has this type now".           *)

effective_type(C, s) ==
  LET facts == SelectSeq(C.narrows, LAMBDA n : n.sym = s)
  IN IF facts = <<>> THEN C.syms[s].type ELSE Last(facts).type

narrow_push(C, s, type) == [C EXCEPT !.narrows = Append(@, [sym |-> s, type |-> type])]
NarrowsBackTo(C, base) == [C EXCEPT !.narrows = SubSeq(@, 1, base)]

narrowable_var(C, e) ==
  /\ e.k = "name" /\ e.sym # 0
  /\ C.syms[e.sym].kind \in {"local", "param"}
  /\ effective_type(C, e.sym).k = "optional"

NullTested(e) == IF e.rhs.k = "null" THEN e.lhs ELSE e.rhs

\* The facts that hold where cond came out as whenTrue.
RECURSIVE collect_facts(_, _, _)
collect_facts(C, cond, whenTrue) ==
  CASE cond.k = "unary" /\ cond.op = "!" -> collect_facts(C, cond.operand, ~whenTrue)
    [] cond.k = "binary" /\ cond.op = (IF whenTrue THEN "&&" ELSE "||") ->
         collect_facts(collect_facts(C, cond.lhs, whenTrue), cond.rhs, whenTrue)
    [] cond.k = "binary" /\ cond.op = (IF whenTrue THEN "!=" ELSE "==") /\ "null" \in {cond.lhs.k, cond.rhs.k} ->
         LET var == NullTested(cond)
         IN IF narrowable_var(C, var) THEN narrow_push(C, var.sym, effective_type(C, var.sym).elem) ELSE C
    [] OTHER -> C

---------------------------------------------------------------------------
(* Types as written                                                          *)

WithType(C, t) == [c |-> C, t |-> t]

resolve_name(C, name, allowVoid) ==
  LET s == lookup(C, name)
      sym == C.syms[s]
  IN IF s = 0 THEN WithType(error(C, "unknown type"), TError)
     ELSE IF sym.kind = "type" /\ sym.type = TVoid /\ ~allowVoid THEN WithType(error(C, "void is no type here"), TError)
     ELSE IF sym.kind = "type" /\ sym.type = None THEN WithType(error(C, "list needs an element type"), TError)
     ELSE IF sym.kind \in {"type", "struct"} THEN WithType(C, sym.type)
     ELSE WithType(error(C, "not a type"), TError)

RECURSIVE resolve_type(_, _, _)
resolve_type(C, t, allowVoid) ==
  CASE t.k = "none" -> WithType(C, TError)
    [] t.k = "name" -> resolve_name(C, t.name, allowVoid)
    [] t.k = "list" -> LET r == resolve_type(C, t.inner, FALSE) IN WithType(r.c, TyList(r.t))
    [] t.k = "optional" ->
         LET r == resolve_type(C, t.inner, FALSE)
         IN WithType(Require(r.c, r.t.k # "optional", "already optional"), TyOptional(r.t))
=============================================================================
