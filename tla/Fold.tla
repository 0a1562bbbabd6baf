------------------------------- MODULE Fold -------------------------------
(* Constant folding of global initialisers, sema/fold.c. A constant has a    *)
(* type and a value: an integer, the bits of a float, 0 or 1 for a bool, the *)
(* bytes of a string, or nothing for null. An expression that does not fold  *)
(* leaves a message, empty where the code gives up without one.              *)
EXTENDS Types, Numbers, SequencesExt

Const(t, v) == [type |-> t, null |-> FALSE, v |-> v]
NullConst(t) == [type |-> t, null |-> TRUE, v |-> 0]
Truth(p) == Const(TBool, IF p THEN 1 ELSE 0)

Folded(c) == [ok |-> TRUE, c |-> c, msg |-> ""]
Fails(msg) == [ok |-> FALSE, c |-> NullConst(TError), msg |-> msg]

as_float(c) == IF c.type.k = "float" THEN c.v ELSE OfInt(c.v)

\* The fewest digits that read back as the number, and a point in any case.
float_to_str(bits) == FloatText(bits)

fold_str_of(c) ==
  CASE c.type.k = "str" -> c.v
    [] c.type.k = "int" -> IntText(c.v)
    [] c.type.k = "float" -> float_to_str(c.v)
    [] c.type.k = "bool" -> BoolText(c.v)

\* str_from stops at the first zero byte of the text the parts make.
UpToNul(bytes) ==
  IF 0 \in {bytes[i] : i \in DOMAIN bytes} THEN SubSeq(bytes, 1, SelectInSeq(bytes, LAMBDA b : b = 0) - 1) ELSE bytes

Compare(op, eq, lt, gt) ==
  CASE op = "==" -> eq [] op = "!=" -> ~eq [] op = "<" -> lt [] op = "<=" -> lt \/ eq
    [] op = ">" -> gt [] op = ">=" -> gt \/ eq
Comparisons == {"==", "!=", "<", "<=", ">", ">="}

InRange(n) == IF Fits(n) THEN Folded(Const(TInt, n)) ELSE Fails("integer overflow in constant expression")

\* Fault: the smallest number is never divided.
fold_division_refuses(op, a, b) ==
  LET rem == Rem(a, b)  down == rem # 0 /\ (rem < 0) # (b < 0)
  IN IF b = 0 THEN Fails("division by zero in constant expression")
     ELSE IF a = MinInt THEN Fails("integer overflow in constant expression")
     ELSE Folded(Const(TInt, IF op = "/" THEN Quot(a, b) - (IF down THEN 1 ELSE 0)
                             ELSE rem + (IF down THEN b ELSE 0)))

fold_division(op, a, b) ==
  LET rem == Rem(a, b)  down == rem # 0 /\ (rem < 0) # (b < 0)
  IN IF b = 0 THEN Fails("division by zero in constant expression")
     ELSE IF a = MinInt /\ b = -1 THEN Fails("integer overflow in constant expression")
     ELSE Folded(Const(TInt, IF op = "/" THEN Quot(a, b) - (IF down THEN 1 ELSE 0)
                             ELSE rem + (IF down THEN b ELSE 0)))

fold_shift(op, a, n) ==
  IF n < 0 \/ n >= Width THEN Fails("shift amount out of range in constant expression")
  ELSE Folded(Const(TInt, IF op = "<<" THEN Wrap(a * 2^n) ELSE a \div 2^n))

fold_ints(op, a, b) ==
  CASE op = "+" -> InRange(a + b)
    [] op = "-" -> InRange(a - b)
    [] op = "*" -> InRange(a * b)
    [] op \in {"/", "%"} -> fold_division(op, a, b)
    [] op = "&" -> Folded(Const(TInt, BitAnd(a, b)))
    [] op = "|" -> Folded(Const(TInt, BitOr(a, b)))
    [] op = "^" -> Folded(Const(TInt, BitXor(a, b)))
    [] op \in {"<<", ">>"} -> fold_shift(op, a, b)
    [] op \in Comparisons -> Folded(Truth(Compare(op, a = b, a < b, a > b)))

fold_floats(op, a, b) ==
  CASE op = "+" -> Folded(Const(TFloat, FAdd(a, b)))
    [] op = "-" -> Folded(Const(TFloat, FSub(a, b)))
    [] op = "*" -> Folded(Const(TFloat, FMul(a, b)))
    [] op = "/" -> Folded(Const(TFloat, FDiv(a, b)))
    [] op = "%" -> Folded(Const(TFloat, FMod(a, b)))
    [] op \in Comparisons -> Folded(Truth(Compare(op, FEq(a, b), FLt(a, b), FLt(b, a))))
    [] OTHER -> Fails("this operation is not allowed in a constant expression")

fold_operands(op, l, r) ==
  IF l.type.k = "str" /\ r.type.k = "str" /\ op = "+" THEN Folded(Const(TStr, l.v \o r.v))
  ELSE IF l.type.k = "str" /\ r.type.k = "str" /\ op \in Comparisons
    THEN LET d == str_cmp(l.v, r.v) IN Folded(Truth(Compare(op, d = 0, d < 0, d > 0)))
  ELSE IF l.type.k = "bool" /\ r.type.k = "bool" /\ op \in {"==", "!="}
    THEN Folded(Truth(Compare(op, l.v = r.v, FALSE, FALSE)))
  ELSE IF l.type.k = "int" /\ r.type.k = "int" THEN fold_ints(op, l.v, r.v)
  ELSE IF IsNumeric(l.type) /\ IsNumeric(r.type) THEN fold_floats(op, as_float(l), as_float(r))
  ELSE Fails("this operation is not allowed in a constant expression")

fold_unary(op, c) ==
  CASE op = "!" -> Folded(Truth(c.v = 0))
    [] op = "~" -> Folded(Const(TInt, -c.v - 1))
    [] c.type.k = "int" -> IF c.v = MinInt THEN Fails("integer overflow in constant expression")
                           ELSE Folded(Const(TInt, -c.v))
    [] OTHER -> Folded(Const(TFloat, FNeg(c.v)))

RECURSIVE fold(_, _), fold_parts(_, _, _)

fold_name(syms, e) ==
  IF e.sym = 0 \/ syms[e.sym].kind # "global"
    THEN Fails("only literals and other globals can appear in a global initializer")
  ELSE IF ~syms[e.sym].folded THEN Fails("globals can only refer to globals declared before them")
  ELSE Folded(syms[e.sym].value)

fold_binary(syms, e) ==
  LET l == fold(syms, e.lhs)
      r == fold(syms, e.rhs)
  IN IF ~l.ok THEN l
     ELSE IF e.op \in {"&&", "||"} THEN (IF (e.op = "&&") = (l.c.v = 0) THEN l ELSE r)
     ELSE IF ~r.ok THEN r ELSE fold_operands(e.op, l.c, r.c)

\* The text of an f-string's parts from the i-th on.
fold_parts(syms, parts, text) ==
  IF parts = <<>> THEN Folded(Const(TStr, UpToNul(text)))
  ELSE LET part == fold(syms, Head(parts))
       IN IF ~part.ok THEN part
          ELSE IF ~IsPrintable(part.c.type) THEN Fails("")
          ELSE fold_parts(syms, Tail(parts), text \o fold_str_of(part.c))

fold_call(syms, e) ==
  LET a == fold(syms, e.args[1].value)
      folds == e.kind = "builtin" /\ e.builtin \in {"str", "len"} /\ Len(e.args) = 1
  IN IF ~folds THEN Fails("global initializers must be constant expressions")
     ELSE IF ~a.ok THEN a
     ELSE IF e.builtin = "str"
       THEN (IF IsPrintable(a.c.type) THEN Folded(Const(TStr, fold_str_of(a.c))) ELSE Fails(""))
     ELSE IF a.c.type.k = "str" THEN Folded(Const(TInt, Len(a.c.v)))
     ELSE Fails("global initializers must be constant expressions")

fold(syms, e) ==
  CASE e.k = "int" -> Folded(Const(TInt, e.val))
    [] e.k = "float" -> Folded(Const(TFloat, e.val))
    [] e.k = "bool" -> Folded(Truth(e.val))
    [] e.k = "string" -> Folded(Const(TStr, e.bytes))
    [] e.k = "null" -> Folded(NullConst(e.ty))
    [] e.k = "name" -> fold_name(syms, e)
    [] e.k = "unary" -> LET v == fold(syms, e.operand) IN IF v.ok THEN fold_unary(e.op, v.c) ELSE v
    [] e.k = "binary" -> fold_binary(syms, e)
    [] e.k = "fstring" -> fold_parts(syms, e.parts, <<>>)
    [] e.k = "call" -> fold_call(syms, e)
    [] OTHER -> Fails("global initializers must be constant expressions")
=============================================================================
