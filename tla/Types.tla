------------------------------- MODULE Types -------------------------------
(* The syntax tree of ast/ast.h, the types of sema/types.c and the builtin   *)
(* tables of sema/builtins.c.                                                *)
EXTENDS Integers, Sequences

---------------------------------------------------------------------------
(* The syntax tree of ast/ast.h. The parser's fields are arguments of the    *)
(* constructors; the fields the checker fills in start out empty, as the     *)
(* arena's zeroed nodes do. A symbol is a number, 0 for none.                *)

None == [k |-> "none"]

(* Types as written *)
NamedType(n) == [k |-> "name", name |-> n]
ListType(t) == [k |-> "list", inner |-> t]
OptionalType(t) == [k |-> "optional", inner |-> t]

(* Expressions *)
IntLit(n) == [k |-> "int", val |-> n, ty |-> None]
FloatLit(bits) == [k |-> "float", val |-> bits, ty |-> None]
BoolLit(b) == [k |-> "bool", val |-> b, ty |-> None]
StrLit(bytes) == [k |-> "string", bytes |-> bytes, ty |-> None]
NullLit == [k |-> "null", ty |-> None]
Name(n) == [k |-> "name", name |-> n, sym |-> 0, ty |-> None]
FString(parts) == [k |-> "fstring", parts |-> parts, ty |-> None]
ListLit(items) == [k |-> "list", items |-> items, ty |-> None]
Unary(op, e) == [k |-> "unary", op |-> op, operand |-> e, ty |-> None]
Binary(op, l, r) == [k |-> "binary", op |-> op, lhs |-> l, rhs |-> r, ty |-> None]
Arg(label, e) == [label |-> label, value |-> e, field |-> 0]
CallExpr(callee, args) ==
  [k |-> "call", callee |-> callee, args |-> args, kind |-> "unresolved", sym |-> 0, builtin |-> "", ty |-> None]
Field(base, n) == [k |-> "field", base |-> base, name |-> n, field |-> 0, ty |-> None]
Index(base, i) == [k |-> "index", base |-> base, index |-> i, ty |-> None]
Slice(base, lo, hi) == [k |-> "slice", base |-> base, lo |-> lo, hi |-> hi, ty |-> None]
RangeExpr(lo, hi, inclusive) == [k |-> "range", lo |-> lo, hi |-> hi, inclusive |-> inclusive, ty |-> None]

(* Statements; a block is a sequence of them *)
Var(n, t, init) == [k |-> "var", name |-> n, type |-> t, init |-> init, sym |-> 0]
Assign(target, op, value) == [k |-> "assign", target |-> target, op |-> op, value |-> value]
ExprStmt(e) == [k |-> "expr", expr |-> e]
Block(stmts) == [k |-> "block", body |-> stmts]
If(cond, then, else) == [k |-> "if", cond |-> cond, then |-> then, else |-> else]
While(cond, body) == [k |-> "while", cond |-> cond, body |-> body]
For(n, iter, body) == [k |-> "for", name |-> n, iter |-> iter, body |-> body, sym |-> 0]
Break == [k |-> "break"]
Continue == [k |-> "continue"]
Return(e) == [k |-> "return", value |-> e]

\* The operator of `place op= value`.
compound_base_op(op) ==
  CASE op = "+=" -> "+" [] op = "-=" -> "-" [] op = "*=" -> "*" [] op = "/=" -> "/" [] op = "%=" -> "%"
    [] OTHER -> op

(* Declarations *)
Param(n, t) == [name |-> n, type |-> t, sym |-> 0]
Func(n, params, ret, body) == [k |-> "func", name |-> n, params |-> params, ret |-> ret, body |-> body]
FieldDecl(n, t) == [name |-> n, type |-> t]
Struct(n, fields, methods) == [k |-> "struct", name |-> n, fields |-> fields, methods |-> methods]
Global(n, t, init) == [k |-> "global", name |-> n, type |-> t, init |-> init]

---------------------------------------------------------------------------
(* Types. The table interns them, so that two of them are equal exactly when *)
(* they are the same pointer: here a type is its structure and equality is   *)
(* TLA+'s.                                                                   *)

TError == [k |-> "error"]
TVoid  == [k |-> "void"]
TNull  == [k |-> "null"]
TInt   == [k |-> "int"]
TFloat == [k |-> "float"]
TBool  == [k |-> "bool"]
TStr   == [k |-> "str"]

TyList(elem) == [k |-> "list", elem |-> elem]
TyOptional(inner) == IF inner.k \in {"optional", "error"} THEN inner ELSE [k |-> "optional", elem |-> inner]
TyStruct(sym) == [k |-> "struct", sym |-> sym]

IsError(t) == t.k = "error"
IsNumeric(t) == t.k \in {"int", "float"}
IsPrintable(t) == t.k \in {"int", "float", "bool", "str"}

\* Fault: what has no type because of a mistake is refused where a type is wanted.
ConvertibleOnly(from, to) ==
  from = to \/ (from.k = "int" /\ to.k = "float") \/ (to.k = "optional" /\ (from.k = "null" \/ from = to.elem))
\* Identity, int to float, T to T? and null to T?. There is no optional of an
\* optional, so the recursion of the code goes one level deep.
Direct(from, to) == from = to \/ IsError(from) \/ IsError(to) \/ (from.k = "int" /\ to.k = "float")
Convertible(from, to) == Direct(from, to) \/ (to.k = "optional" /\ (from.k = "null" \/ Direct(from, to.elem)))

---------------------------------------------------------------------------
(* Builtins that want one type for each argument: the types and the result.  *)

Sig(params, result) == [params |-> params, result |-> result]

BuiltinFuncs ==
  [ord |-> Sig(<<TStr>>, TInt), chr |-> Sig(<<TInt>>, TStr), panic |-> Sig(<<TStr>>, TVoid),
   assert |-> Sig(<<TBool>>, TVoid), exit |-> Sig(<<TInt>>, TVoid), args |-> Sig(<<>>, TyList(TStr)),
   read_file |-> Sig(<<TStr>>, TyOptional(TStr)), write_file |-> Sig(<<TStr, TStr>>, TBool),
   read_line |-> Sig(<<>>, TyOptional(TStr)), sqrt |-> Sig(<<TFloat>>, TFloat),
   wrapping_add |-> Sig(<<TInt, TInt>>, TInt), wrapping_sub |-> Sig(<<TInt, TInt>>, TInt),
   wrapping_mul |-> Sig(<<TInt, TInt>>, TInt)]

\* Those that look at the types they are given, with their number of arguments.
OverloadedFuncs == [print |-> 1, println |-> 1, eprintln |-> 1, len |-> 1, str |-> 1, int |-> 1, float |-> 1,
                    abs |-> 1, min |-> 2, max |-> 2]

\* In the order of the table; int, float and str are types that can be called.
BUILTIN_FUNCS ==
  <<"print", "println", "eprintln", "len", "ord", "chr", "panic", "assert", "exit", "args", "read_file", "write_file",
    "read_line", "sqrt", "abs", "min", "max", "wrapping_add", "wrapping_sub", "wrapping_mul">>

StrMethods ==
  [contains |-> Sig(<<TStr>>, TBool), starts_with |-> Sig(<<TStr>>, TBool), ends_with |-> Sig(<<TStr>>, TBool),
   find |-> Sig(<<TStr>>, TInt), split |-> Sig(<<TStr>>, TyList(TStr)), join |-> Sig(<<TyList(TStr)>>, TStr),
   trim |-> Sig(<<>>, TStr), upper |-> Sig(<<>>, TStr), lower |-> Sig(<<>>, TStr),
   replace |-> Sig(<<TStr, TStr>>, TStr), repeat |-> Sig(<<TInt>>, TStr)]

ListMethods(elem) ==
  [append |-> Sig(<<elem>>, TVoid), pop |-> Sig(<<>>, elem), insert |-> Sig(<<TInt, elem>>, TVoid),
   remove_at |-> Sig(<<TInt>>, elem), clear |-> Sig(<<>>, TVoid), contains |-> Sig(<<elem>>, TBool),
   index_of |-> Sig(<<elem>>, TInt)]
=============================================================================
