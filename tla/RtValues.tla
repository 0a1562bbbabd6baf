------------------------------ MODULE RtValues ------------------------------
(* The parts of runtime/rivel_rt.c that compiled code calls for checked      *)
(* arithmetic, strings, boxes, lists, structural equality and input/output.  *)
(* A heap H is a record: objs, the objects in the order of their allocation; *)
(* and the world outside: out and err (what was written), input (the lines   *)
(* still to read), files (path |-> content) and args. A pointer is the       *)
(* integer Base plus the object's number. Storage, growth and collection are *)
(* the subject of RtList, PageHeap and Collector.                            *)
(*                                                                           *)
(* Every function returns what its C function leaves behind: the heap, the   *)
(* result and the message of the panic that ended the program, "" if none.   *)
EXTENDS Numbers, FiniteSets

CONSTANTS Base,       \* no integer reaches the addresses
          ByteLimit   \* the number of byte values: 256 in the code

Done(H, v) == [h |-> H, v |-> v, panic |-> ""]
Panic(H, msg) == [h |-> H, v |-> 0, panic |-> msg]
B(p) == IF p THEN 1 ELSE 0
rv_assert(H, cond) == IF cond = 0 THEN Panic(H, "assertion failed") ELSE Done(H, 0)

---------------------------------------------------------------------------
(* Checked integer arithmetic                                                *)

\* The result of an operation that __builtin_*_overflow watches.
Checked(H, n) == IF Fits(n) THEN Done(H, n) ELSE Panic(H, "integer overflow")

rv_add(H, a, b) == Checked(H, a + b)
rv_sub(H, a, b) == Checked(H, a - b)
rv_mul(H, a, b) == Checked(H, a * b)
rv_neg(H, a) == rv_sub(H, 0, a)
rv_abs(H, a) == IF a < 0 THEN rv_neg(H, a) ELSE Done(H, a)

\* Fault: the quotient is rounded by the sign of the dividend alone.
rv_div_down(H, a, b) ==
  IF b = 0 THEN Panic(H, "division by zero")
  ELSE IF a = MinInt /\ b = -1 THEN Panic(H, "integer overflow")
  ELSE Done(H, Quot(a, b) - B(Rem(a, b) # 0 /\ a < 0))
rv_div(H, a, b) ==
  IF b = 0 THEN Panic(H, "division by zero")
  ELSE IF a = MinInt /\ b = -1 THEN Panic(H, "integer overflow")
  ELSE Done(H, Quot(a, b) - B(Rem(a, b) # 0 /\ (a < 0) # (b < 0)))

rv_mod(H, a, b) ==
  IF b = 0 THEN Panic(H, "division by zero")
  ELSE IF b = -1 THEN Done(H, 0)
  ELSE LET r == Rem(a, b) IN Done(H, r + (IF r # 0 /\ (r < 0) # (b < 0) THEN b ELSE 0))

ShiftOk(n) == n >= 0 /\ n < Width
rv_shl(H, a, n) == IF ShiftOk(n) THEN Done(H, Wrap(a * 2^n)) ELSE Panic(H, "shift amount out of range")
rv_shr(H, a, n) ==
  IF ~ShiftOk(n) THEN Panic(H, "shift amount out of range")
  ELSE Done(H, IF a < 0 THEN -((-a - 1) \div 2^n) - 1 ELSE a \div 2^n)

rv_float_to_int(H, f) ==
  IF FLe(OfInt(MinInt), f) /\ FLt(f, OfInt(MaxInt + 1)) THEN Done(H, Quot(f, One))
  ELSE Panic(H, "float to int conversion out of range")

---------------------------------------------------------------------------
(* Objects                                                                   *)

Obj(H, p) == H.objs[p - Base]
Alloc(H, obj) == Done([H EXCEPT !.objs = Append(@, obj)], Base + Len(H.objs) + 1)
Str(bytes) == [kind |-> "str", ti |-> "str", fks |-> <<>>, cells |-> bytes]
Bytes(H, p) == Obj(H, p).cells
Cells(H, p) == Obj(H, p).cells
SetCells(H, p, cells) == [H EXCEPT !.objs[p - Base].cells = cells]

rv_alloc(H, ti, fks) == Alloc(H, [kind |-> "struct", ti |-> ti, fks |-> fks, cells |-> [i \in DOMAIN fks |-> 0]])
rv_box(H, fk, v) == Alloc(H, [kind |-> "box", ti |-> "box", fks |-> <<fk>>, cells |-> <<v>>])
rv_list_new(H, fk) == Alloc(H, [kind |-> "list", ti |-> "list", fks |-> <<fk>>, cells |-> <<>>])
rv_str_new(H, bytes) == Alloc(H, Str(bytes))
rv_str_empty(H) == rv_str_new(H, <<>>)

---------------------------------------------------------------------------
(* Strings                                                                   *)

At(s, i, t) == i + Len(t) <= Len(s) /\ SubSeq(s, i + 1, i + Len(t)) = t

\* First occurrence of t in s at or after index from, or -1.
find_bytes(s, t, from) ==
  LET hits == {i \in from..(Len(s) - Len(t)) : At(s, i, t)}
  IN IF hits = {} THEN -1 ELSE CHOOSE i \in hits : \A j \in hits : i <= j

is_space(c) == c \in {32, 9, 10, 13, 11, 12}
Upper(c) == IF c \in 97..122 THEN c - 32 ELSE c
Lower(c) == IF c \in 65..90 THEN c + 32 ELSE c

rv_str_concat(H, a, b) == rv_str_new(H, Bytes(H, a) \o Bytes(H, b))
rv_str_eq(H, a, b) == Done(H, B(Bytes(H, a) = Bytes(H, b)))
rv_str_cmp(H, a, b) == Done(H, str_cmp(Bytes(H, a), Bytes(H, b)))
rv_str_index(H, s, i) ==
  IF i < 0 \/ i >= Len(Bytes(H, s)) THEN Panic(H, "index out of range")
  ELSE rv_str_new(H, <<Bytes(H, s)[i + 1]>>)
rv_str_slice(H, s, lo, hi) ==
  IF lo < 0 \/ lo > hi \/ hi > Len(Bytes(H, s)) THEN Panic(H, "slice out of range")
  ELSE rv_str_new(H, SubSeq(Bytes(H, s), lo + 1, hi))
rv_str_find(H, s, t) == Done(H, find_bytes(Bytes(H, s), Bytes(H, t), 0))
rv_str_contains(H, s, t) == Done(H, B(find_bytes(Bytes(H, s), Bytes(H, t), 0) >= 0))
rv_str_starts_with(H, s, t) == Done(H, B(At(Bytes(H, s), 0, Bytes(H, t))))
rv_str_ends_with(H, s, t) ==
  LET from == Len(Bytes(H, s)) - Len(Bytes(H, t)) IN Done(H, B(from >= 0 /\ At(Bytes(H, s), from, Bytes(H, t))))

\* A list of new strings.
RECURSIVE Strings(_, _)
Strings(H, texts) ==
  IF texts = <<>> THEN [h |-> H, ps |-> <<>>]
  ELSE LET one == rv_str_new(H, Head(texts)) rest == Strings(one.h, Tail(texts))
       IN [h |-> rest.h, ps |-> <<one.v>> \o rest.ps]
StringList(H, texts) ==
  LET made == Strings(H, texts) l == rv_list_new(made.h, "ptr") IN Done(SetCells(l.h, l.v, made.ps), l.v)

RECURSIVE Pieces(_, _, _)
Pieces(s, sep, start) ==
  LET at == find_bytes(s, sep, start)
  IN IF at < 0 THEN <<SubSeq(s, start + 1, Len(s))>>
     ELSE <<SubSeq(s, start + 1, at)>> \o Pieces(s, sep, at + Len(sep))
rv_str_split(H, s, sep) ==
  StringList(H, IF Bytes(H, sep) = <<>> THEN [i \in DOMAIN Bytes(H, s) |-> <<Bytes(H, s)[i]>>]
                ELSE Pieces(Bytes(H, s), Bytes(H, sep), 0))

RECURSIVE Joined(_, _)
Joined(sep, parts) ==
  IF parts = <<>> THEN <<>>
  ELSE Head(parts) \o (IF Len(parts) = 1 THEN <<>> ELSE sep \o Joined(sep, Tail(parts)))
rv_str_join(H, sep, parts) ==
  rv_str_new(H, Joined(Bytes(H, sep), [i \in DOMAIN Cells(H, parts) |-> Bytes(H, Cells(H, parts)[i])]))

Trimmed(s) ==
  LET kept == {i \in DOMAIN s : ~is_space(s[i])}
  IN IF kept = {} THEN <<>>
     ELSE SubSeq(s, CHOOSE i \in kept : \A j \in kept : i <= j, CHOOSE i \in kept : \A j \in kept : i >= j)
rv_str_trim(H, s) == rv_str_new(H, Trimmed(Bytes(H, s)))
rv_str_upper(H, s) == rv_str_new(H, [i \in DOMAIN Bytes(H, s) |-> Upper(Bytes(H, s)[i])])
rv_str_lower(H, s) == rv_str_new(H, [i \in DOMAIN Bytes(H, s) |-> Lower(Bytes(H, s)[i])])

\* The text with `from` exchanged, scanning on after each occurrence.
RECURSIVE Replaced(_, _, _, _)
Replaced(s, from, to, start) ==
  LET at == find_bytes(s, from, start)
  IN IF at < 0 THEN SubSeq(s, start + 1, Len(s))
     ELSE SubSeq(s, start + 1, at) \o to \o Replaced(s, from, to, at + Len(from))
rv_str_replace(H, s, from, to) ==
  IF Bytes(H, from) = <<>> \/ find_bytes(Bytes(H, s), Bytes(H, from), 0) < 0 THEN Done(H, s)
  ELSE rv_str_new(H, Replaced(Bytes(H, s), Bytes(H, from), Bytes(H, to), 0))

rv_str_repeat(H, s, n) ==
  LET len == Len(Bytes(H, s))
  IN IF n < 0 THEN Panic(H, "negative repeat count")
     ELSE IF ~Fits(len * n) THEN Panic(H, "integer overflow")
     ELSE rv_str_new(H, [i \in 1..(len * n) |-> Bytes(H, s)[((i - 1) % len) + 1]])

rv_str_from_int(H, v) == rv_str_new(H, IntText(v))
rv_str_from_float(H, v) == rv_str_new(H, FloatText(v))
rv_str_from_bool(H, v) == rv_str_new(H, BoolText(v))

\* The digits after an optional sign, accumulated with the sign's own bound.
Unsigned(s) == IF s # <<>> /\ s[1] \in {43, 45} THEN Tail(s) ELSE s
Negative(s) == s # <<>> /\ s[1] = 45
rv_str_parse_int(H, p) ==
  LET s == Bytes(H, p)  digits == Unsigned(s)
      v == IF Negative(s) THEN -Number(digits) ELSE Number(digits)
  IN IF digits = <<>> \/ (\E i \in DOMAIN digits : ~IsDigit(digits[i])) THEN Done(H, 0)
     ELSE IF ~Fits(v) THEN Done(H, 0)
     ELSE rv_box(H, "int", v)

\* strtod on a whole text: a sign, digits and one of the fractions there are.
NoFloat == NaN + 1
Strtod(s) ==
  LET t == Unsigned(s)
      dots == {i \in DOMAIN t : t[i] = 46}
      whole == IF dots = {} THEN t ELSE SubSeq(t, 1, (CHOOSE i \in dots : TRUE) - 1)
      quarters == {q \in 0..3 : Fraction(q) = SubSeq(t, Len(whole) + 1, Len(t))}
      q == IF dots = {} THEN 0 ELSE CHOOSE x \in quarters : TRUE
      v == OfInt(Number(whole)) + q
  IN IF whole = <<>> \/ (\E i \in DOMAIN whole : ~IsDigit(whole[i])) \/ (dots # {} /\ quarters = {}) THEN NoFloat
     ELSE IF Negative(s) THEN -v ELSE v
rv_str_parse_float(H, p) ==
  LET s == Bytes(H, p)
  IN IF s = <<>> \/ is_space(s[1]) THEN Done(H, 0)
     ELSE IF Strtod(s) = NoFloat THEN Done(H, 0) ELSE rv_box(H, "float", Strtod(s))

rv_ord(H, s) ==
  IF Len(Bytes(H, s)) # 1 THEN Panic(H, "ord expects a one-byte string") ELSE Done(H, Bytes(H, s)[1])
rv_chr(H, c) == IF c < 0 \/ c >= ByteLimit THEN Panic(H, "chr out of range") ELSE rv_str_new(H, <<c>>)

---------------------------------------------------------------------------
(* Structural equality and lists                                             *)

last_ptr_field(fks) ==
  LET ptrs == {i \in DOMAIN fks : fks[i] = "ptr"}
  IN IF ptrs = {} THEN 0 ELSE CHOOSE i \in ptrs : \A j \in ptrs : j <= i

RECURSIVE rv_eq(_, _, _)
cell_eq(H, fk, x, y) == CASE fk = "float" -> FEq(x, y) [] fk = "ptr" -> rv_eq(H, x, y) [] OTHER -> x = y
list_eq(H, a, b) ==
  /\ a.fks = b.fks
  /\ Len(a.cells) = Len(b.cells)
  /\ \A i \in DOMAIN a.cells : cell_eq(H, a.fks[1], a.cells[i], b.cells[i])
rv_eq(H, p, q) ==
  IF p = 0 \/ q = 0 THEN p = q
  ELSE LET a == Obj(H, p)  b == Obj(H, q)  tail == last_ptr_field(a.fks)
       IN /\ a.kind = b.kind
          /\ CASE a.kind = "str" -> a.cells = b.cells
               [] a.kind = "list" -> list_eq(H, a, b)
               [] a.kind = "box" -> a.fks = b.fks /\ cell_eq(H, a.fks[1], a.cells[1], b.cells[1])
               [] OTHER -> /\ a.ti = b.ti
                           /\ \A i \in DOMAIN a.fks \ {tail} : cell_eq(H, a.fks[i], a.cells[i], b.cells[i])
                           /\ tail = 0 \/ rv_eq(H, a.cells[tail], b.cells[tail])

index_of(H, l, v) ==
  LET hits == {i \in DOMAIN Cells(H, l) : cell_eq(H, Obj(H, l).fks[1], Cells(H, l)[i], v)}
  IN IF hits = {} THEN -1 ELSE (CHOOSE i \in hits : \A j \in hits : i <= j) - 1
InList(H, l, i) == i >= 0 /\ i < Len(Cells(H, l))
OutOfRange(H) == Panic(H, "index out of range")

rv_list_get(H, l, i) == IF InList(H, l, i) THEN Done(H, Cells(H, l)[i + 1]) ELSE OutOfRange(H)
rv_list_set(H, l, i, v) ==
  IF InList(H, l, i) THEN Done(SetCells(H, l, [Cells(H, l) EXCEPT ![i + 1] = v]), 0) ELSE OutOfRange(H)
rv_list_append(H, l, v) == Done(SetCells(H, l, Append(Cells(H, l), v)), 0)
rv_list_pop(H, l) ==
  LET cs == Cells(H, l)
  IN IF cs = <<>> THEN Panic(H, "pop from empty list") ELSE Done(SetCells(H, l, SubSeq(cs, 1, Len(cs) - 1)), cs[Len(cs)])
rv_list_insert(H, l, i, v) ==
  LET cs == Cells(H, l)
  IN IF i < 0 \/ i > Len(cs) THEN OutOfRange(H)
     ELSE Done(SetCells(H, l, SubSeq(cs, 1, i) \o <<v>> \o SubSeq(cs, i + 1, Len(cs))), 0)
rv_list_remove_at(H, l, i) ==
  LET cs == Cells(H, l)
  IN IF ~InList(H, l, i) THEN OutOfRange(H)
     ELSE Done(SetCells(H, l, SubSeq(cs, 1, i) \o SubSeq(cs, i + 2, Len(cs))), cs[i + 1])
rv_list_clear(H, l) == Done(SetCells(H, l, <<>>), 0)
rv_list_contains(H, l, v) == Done(H, B(index_of(H, l, v) >= 0))
rv_list_index_of(H, l, v) == Done(H, index_of(H, l, v))
rv_list_slice(H, l, lo, hi) ==
  LET new == rv_list_new(H, Obj(H, l).fks[1])
  IN IF lo < 0 \/ lo > hi \/ hi > Len(Cells(H, l)) THEN Panic(H, "slice out of range")
     ELSE Done(SetCells(new.h, new.v, SubSeq(Cells(H, l), lo + 1, hi)), new.v)

---------------------------------------------------------------------------
(* Input and output                                                          *)

rv_print(H, s) == Done([H EXCEPT !.out = @ \o Bytes(H, s)], 0)
rv_println(H, s) == Done([H EXCEPT !.out = @ \o Append(Bytes(H, s), 10)], 0)
rv_eprintln(H, s) == Done([H EXCEPT !.err = @ \o Append(Bytes(H, s), 10)], 0)
rv_args(H) == StringList(H, H.args)
rv_read_file(H, path) ==
  IF Bytes(H, path) \in DOMAIN H.files THEN rv_str_new(H, H.files[Bytes(H, path)]) ELSE Done(H, 0)
rv_write_file(H, path, data) ==
  LET name == Bytes(H, path)
  IN IF name = <<>> THEN Done(H, 0)   \* fopen has nowhere to create it
     ELSE Done([H EXCEPT !.files = [f \in DOMAIN @ \cup {name} |-> IF f = name THEN Bytes(H, data) ELSE @[f]]], 1)

\* A line without its newline, and without the carriage return before that.
Chomp(line) ==
  LET n == Len(line)
  IN IF n = 0 \/ line[n] # 10 THEN line
     ELSE IF n > 1 /\ line[n - 1] = 13 THEN SubSeq(line, 1, n - 2) ELSE SubSeq(line, 1, n - 1)
rv_read_line(H) ==
  IF H.input = <<>> THEN Done(H, 0)
  ELSE rv_str_new([H EXCEPT !.input = Tail(@)], Chomp(Head(H.input)))

\* An integer square root of the quarters: exact where the root is one.
Isqrt(n) == CHOOSE r \in 0..n : r * r <= n /\ (r + 1) * (r + 1) > n
rv_sqrt(H, x) ==
  Done(H, IF x = NaN \/ x < 0 THEN NaN ELSE IF Finite(x) THEN Isqrt(x * One) ELSE x)
=============================================================================
