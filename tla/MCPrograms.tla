----------------------------- MODULE MCPrograms -----------------------------
(***************************************************************************)
(* The programs Rivel is checked with, as families of declaration lists.   *)
(***************************************************************************)
EXTENDS Types, SequencesExt

---------------------------------------------------------------------------
(* Abbreviations                                                           *)

IntT == NamedType("int")
FloatT == NamedType("float")
BoolT == NamedType("bool")
StrT == NamedType("str")
I(n) == IF n >= 0 THEN IntLit(n) ELSE IF n = -128 THEN Binary("-", Unary("-", IntLit(127)), IntLit(1)) ELSE Unary("-", IntLit(-n))
F(q) == IF q >= 0 THEN FloatLit(q) ELSE Unary("-", FloatLit(-q))
X == Name("x")
N(n) == Name(n)
Args(es) == [i \in DOMAIN es |-> Arg("", es[i])]
Do(f, es) == CallExpr(Name(f), Args(es))
On(base, m, es) == CallExpr(Field(base, m), Args(es))
Show(e) == ExprStmt(Do("println", <<e>>))
Let(n, e) == Var(n, None, e)
Main(body) == Func("main", <<>>, None, body)
Bin(op, a, b) == Binary(op, a, b)
Inc(n) == Assign(Name(n), "+=", IntLit(1))
Body(stmts) == <<Main(stmts)>>

---------------------------------------------------------------------------
(* Numbers: the same operation while the program runs and as the initialiser *)
(* of a global                                                             *)

Ints == {-128, -3, -1, 0, 2, 127}
IntOps == {"+", "-", "*", "/", "%", "<<", ">>", "&", "|", "^"}
\* The remainder of the smallest integer and -1 is a story of its own.
Folds(op, a, b) == ~(op = "%" /\ a = -128 /\ b = -1)
IntPrograms ==
  {Body(<<Let("a", I(a)), Let("b", I(b)), Show(Bin(op, N("a"), N("b")))>>) : op \in IntOps, a \in Ints, b \in Ints}
FoldPrograms ==
  {<<Global("g", None, Bin(t[1], I(t[2]), I(t[3]))), Main(<<Show(N("g"))>>)>> :
     t \in {t \in IntOps \X Ints \X Ints : Folds(t[1], t[2], t[3])}}
AssignPrograms ==
  {Body(<<Let("x", I(a)), Assign(X, op, I(b)), Show(X)>>) :
     op \in {"+=", "-=", "*=", "/=", "%="}, a \in {-128, 2, 127}, b \in {-1, 0, 3}}

\* 1.5, a quarter, zero, infinity and not a number
Floats == {F(6), F(-8), F(1), F(0), Bin("/", F(4), F(0)), Bin("/", F(0), F(0))}
FloatOps == {"+", "-", "*", "/", "%", "<", "<=", "==", "!="}
FloatPrograms ==
  {Body(<<Let("a", a), Let("b", b), Show(Bin(op, N("a"), N("b")))>>) : op \in FloatOps, a \in Floats, b \in Floats}
FloatFolds ==
  {<<Global("g", None, Bin(op, a, b)), Main(<<Show(N("g"))>>)>> : op \in FloatOps, a \in Floats, b \in Floats}
UnaryPrograms ==
  {Body(<<Let("a", I(a)), Show(e)>>) : a \in Ints,
     e \in {Unary("-", N("a")), Unary("~", N("a")), Do("abs", <<N("a")>>), Do("float", <<N("a")>>)}}
  \cup {Body(<<Let("a", a), Show(e)>>) : a \in Floats \cup {F(512), F(-516)},
     e \in {Unary("-", N("a")), Do("int", <<N("a")>>), Do("abs", <<N("a")>>), Do("sqrt", <<N("a")>>)}}

NumberPrograms == UNION {IntPrograms, FoldPrograms, AssignPrograms, FloatPrograms, FloatFolds, UnaryPrograms}

---------------------------------------------------------------------------
(* Structs: what each of three structs needs                               *)

Needs == {IntT, NamedType("A"), NamedType("B"), NamedType("C"), OptionalType(NamedType("A"))}
Fields(ts) == [i \in DOMAIN ts |-> FieldDecl(<<"p", "q">>[i], ts[i])]
StructPrograms ==
  {<<Struct("A", Fields(<<t[1], t[2]>>), <<>>), Struct("B", Fields(<<t[3], t[4]>>), <<>>),
            Struct("C", Fields(<<t[5]>>), <<>>), Main(<<>>)>> :
     t \in Needs \X Needs \X Needs \X {IntT, NamedType("C"), ListType(NamedType("A"))} \X Needs}

---------------------------------------------------------------------------
(* Statements: every sequence of a few of them, straight on, in a branch, in *)
(* a loop and over a list                                                  *)

O == Name("o")
L == Name("l")
IsNull == Bin("==", O, NullLit)
NotNull == Bin("!=", O, NullLit)
Steps == {
  Inc("x"),
  Assign(O, "=", NullLit),
  Assign(O, "=", X),
  Assign(X, "=", Bin("??", O, X)),
  If(NotNull, <<Assign(X, "+=", O)>>, Block(<<Inc("x")>>)),
  If(IsNull, <<Return(None)>>, None),
  If(Bin("&&", NotNull, Bin(">", O, IntLit(2))), <<Assign(L, "=", ListLit(<<O>>))>>, None),
  Assign(X, "+=", O),
  ExprStmt(On(L, "append", <<X>>)),
  Assign(X, "-=", On(L, "pop", <<>>)),
  Assign(Index(L, IntLit(1)), "*=", X),
  If(Bin(">", X, IntLit(3)), <<Break>>, If(Bin("==", X, IntLit(2)), <<Inc("x"), Continue>>, None))}

Around(k, b) ==
  CASE k = "block" -> <<Block(b)>>
    [] k = "branch" -> <<If(Bin("||", IsNull, Bin("<", O, X)), b, Block(<<Inc("x")>>))>>
    [] k = "while" -> <<While(Bin("<", N("n"), IntLit(3)), <<Inc("n")>> \o b)>>
    [] k = "each" -> <<For("i", L, <<Assign(X, "+=", Name("i"))>> \o b)>>
    [] k = "range" -> <<For("i", RangeExpr(X, IntLit(3), TRUE), b \o <<Show(Name("i"))>>)>>
Statements(first, b) ==
  Body(<<Let("x", IntLit(1)), Let("n", IntLit(0)), Var("o", OptionalType(IntT), first), Let("l", ListLit(<<IntLit(1), IntLit(3)>>))>>
       \o b \o <<Show(Bin("+", X, N("n"))), Show(FString(<<Do("len", <<L>>), Bin("??", O, IntLit(9))>>))>>)
StatementPrograms ==
  {Statements(first, Around(k, b)) : first \in {NullLit, IntLit(4)}, k \in {"block", "branch", "while", "each", "range"},
                                     b \in [1..2 -> Steps]}

\* What stands behind a jump is lowered too, and never reached.
Jumps == {Break, Continue, Return(None), Block(<<Break, Inc("x")>>), ExprStmt(Do("exit", <<IntLit(3)>>)),
          If(Bin(">", X, IntLit(2)), <<Break, Inc("x")>>, Block(<<Continue, Inc("x")>>))}
Behind == {Inc("x"), Show(Bin("&&", Bin("<", X, X), BoolLit(TRUE))), If(Bin("<", X, IntLit(0)), <<Inc("x")>>, None),
           While(BoolLit(TRUE), <<Break, Inc("x")>>), Return(None), Break}
UnreachedPrograms ==
  {Body(<<Let("x", IntLit(1)), While(Bin("<", X, IntLit(4)), <<Inc("x"), jump, behind, Inc("x")>>), Show(X), Return(None), Show(I(9))>>) :
     jump \in Jumps, behind \in Behind}

---------------------------------------------------------------------------
(* Strings: every method and function on short texts                       *)

T(bytes) == StrLit(bytes)
ShortTexts == {<<>>, <<97>>, <<97, 66>>, <<97, 66, 97>>, <<32, 97, 32>>}
PairMethods == {"contains", "starts_with", "ends_with", "find"}
\* Printed with marks around it, so that blanks and the empty text show.
Marked(e) == Show(Bin("+", Bin("+", T(<<60>>), e), T(<<62>>)))
StringPrograms == UNION {
  {Body(<<Let("s", T(a)), Show(On(N("s"), m, <<T(b)>>))>>) : m \in PairMethods, a \in ShortTexts, b \in ShortTexts},
  {Body(<<Let("s", T(a)), Marked(On(N("s"), m, <<>>))>>) : m \in {"trim", "upper", "lower"}, a \in ShortTexts},
  {Body(<<Let("s", T(a)), Marked(On(N("s"), "replace", <<T(b), T(<<98, 98>>)>>))>>) : a \in ShortTexts, b \in ShortTexts},
  {Body(<<Let("p", On(T(a), "split", <<T(b)>>)), Show(Do("len", <<N("p")>>)), Marked(On(T(<<43>>), "join", <<N("p")>>))>>) :
     a \in ShortTexts, b \in ShortTexts},
  {Body(<<Let("s", T(a)), Marked(On(N("s"), "repeat", <<I(n)>>))>>) : a \in {<<>>, <<97, 66>>}, n \in {-1, 0, 2, 64}},
  {Body(<<Let("s", T(a)), Marked(Index(N("s"), I(i))), Marked(Slice(N("s"), I(i), I(j)))>>) :
     a \in {<<97, 66>>}, i \in -1..2, j \in -1..3},
  {Body(<<For("c", T(a), <<Show(Do("ord", <<N("c")>>))>>), Show(Do("ord", <<T(a)>>))>>) : a \in ShortTexts},
  {Body(<<Marked(Do("chr", <<I(n)>>))>>) : n \in {-1, 0, 65, 127}},
  {Body(<<Let("a", T(a)), Let("b", T(b)), Show(Bin(op, N("a"), N("b")))>>) : op \in {"<", "<=", ">", "==", "!="}, a \in ShortTexts, b \in ShortTexts},
  {Body(<<Let("s", Do(to, <<T(a)>>)), If(Bin("==", N("s"), NullLit), <<Show(T(<<45>>))>>, Block(<<Show(N("s"))>>))>>) :
     to \in {"int", "float"},
     a \in {<<>>, <<45>>, <<55>>, <<43, 49, 50>>, <<45, 49, 50, 56>>, <<49, 50, 56>>, <<49, 120>>, <<32, 49>>,
            <<49, 46, 53>>, <<46>>, <<45, 48, 46, 50, 53>>}}}

---------------------------------------------------------------------------
(* Lists: every method, for elements of every kind of cell                 *)

P2 == NamedType("P")
PairDecl == Struct("P", <<FieldDecl("a", IntT), FieldDecl("n", OptionalType(P2))>>,
                   <<Func("sum", <<Param("self", None)>>, IntT, <<Return(Bin("+", Field(N("self"), "a"), IntLit(1)))>>)>>)
MkP(a, next) == CallExpr(N("P"), <<Arg("n", next), Arg("a", a)>>)
\* An element type with two different elements of it.
Elements == {[t |-> IntT, a |-> I(1), b |-> I(2)], [t |-> FloatT, a |-> I(1), b |-> F(6)],
             [t |-> BoolT, a |-> BoolLit(TRUE), b |-> BoolLit(FALSE)], [t |-> StrT, a |-> T(<<97>>), b |-> T(<<98>>)],
             [t |-> OptionalType(IntT), a |-> NullLit, b |-> I(1)], [t |-> ListType(IntT), a |-> ListLit(<<>>), b |-> ListLit(<<I(3)>>)],
             [t |-> P2, a |-> MkP(I(1), NullLit), b |-> MkP(I(1), MkP(I(2), NullLit))]}
Size == Show(Do("len", <<L>>))
ListSteps(el) == {
  <<ExprStmt(On(L, "append", <<el.a>>))>>,
  <<ExprStmt(On(L, "insert", <<I(0), el.b>>))>>,
  <<ExprStmt(On(L, "insert", <<I(3), el.b>>))>>,
  <<Let("q", On(L, "pop", <<>>)), Show(Bin("==", N("q"), el.a))>>,
  <<Let("r", On(L, "remove_at", <<I(1)>>)), Show(Bin("==", N("r"), el.b))>>,
  <<Assign(Index(L, I(1)), "=", el.a)>>,
  <<Assign(L, "=", Slice(L, I(1), I(2)))>>,
  <<ExprStmt(On(L, "clear", <<>>))>>,
  <<For("e", L, <<Show(Bin("!=", N("e"), el.a))>>)>>}
ListProgram(el, first, second) ==
  <<PairDecl,
    Main(<<Var("l", ListType(el.t), ListLit(<<el.a, el.b>>))>> \o first \o second
         \o <<Size, Show(On(L, "index_of", <<el.b>>)), Show(On(L, "contains", <<el.a>>)), Show(Bin("==", L, ListLit(<<el.a, el.b>>)))>>)>>
ListPrograms ==
  UNION {UNION {{ListProgram(el, first, second) : second \in ListSteps(el) \ {first}} : first \in ListSteps(el)} : el \in Elements}

---------------------------------------------------------------------------
(* The order of evaluation: t and its like print what they are given.      *)

Tracers == <<
  Func("t", <<Param("n", IntT)>>, IntT, <<Show(N("n")), Return(N("n"))>>),
  Func("b", <<Param("n", IntT)>>, BoolT, <<Show(N("n")), Return(Bin(">", N("n"), IntLit(1)))>>),
  Func("o", <<Param("n", IntT)>>, OptionalType(IntT),
       <<Show(N("n")), If(Bin(">", N("n"), IntLit(1)), <<Return(N("n"))>>, None), Return(NullLit)>>),
  Func("s", <<Param("n", IntT)>>, StrT, <<Show(N("n")), Return(Do("str", <<N("n")>>))>>),
  Func("ls", <<Param("n", IntT)>>, ListType(IntT), <<Show(N("n")), Return(ListLit(<<N("n"), IntLit(7), IntLit(8)>>))>>),
  Func("p", <<Param("n", IntT)>>, NamedType("P"), <<Show(N("n")), Return(MkP(N("n"), NullLit))>>),
  Func("add3", <<Param("x", IntT), Param("y", OptionalType(FloatT)), Param("z", StrT)>>, IntT, <<Return(Do("len", <<N("z")>>))>>)>>
Tr(f, n) == Do(f, <<IntLit(n)>>)
Traced == {
  Show(Bin("-", Tr("t", 1), Bin("*", Tr("t", 2), Tr("t", 3)))),
  Show(Bin("&&", Tr("b", 1), Tr("b", 2))), Show(Bin("||", Tr("b", 1), Tr("b", 2))),
  Show(Bin("||", Bin("&&", Tr("b", 3), Tr("b", 1)), Unary("!", Tr("b", 2)))),
  Show(Bin("??", Tr("o", 1), Tr("t", 2))), Show(Bin("??", Tr("o", 2), Tr("t", 1))),
  Show(Bin("==", Tr("o", 2), Tr("t", 2))), Show(Bin("!=", Tr("t", 1), Tr("o", 1))), Show(Bin("==", Tr("o", 1), NullLit)),
  Show(Do("add3", <<Tr("t", 3), Tr("t", 1), Tr("s", 2)>>)),
  Show(Index(Tr("ls", 4), Tr("t", 1))), Show(Index(Tr("s", 4), Tr("t", 0))), Show(Index(Tr("ls", 4), Tr("t", 5))),
  Show(Do("len", <<Slice(Tr("ls", 4), Tr("t", 1), Tr("t", 3))>>)),
  Show(FString(<<Tr("t", 3), T(<<44>>), Tr("b", 1), Tr("s", 2)>>)), Show(FString(<<>>)),
  Show(Field(CallExpr(N("P"), <<Arg("n", MkP(Tr("t", 2), NullLit)), Arg("a", Tr("t", 1))>>), "a")),
  Show(Do("min", <<Tr("t", 3), Tr("t", 1)>>)), Show(Do("max", <<Tr("t", 1), FloatLit(6)>>)), Show(Do("min", <<F(6), F(-8)>>)),
  Show(On(Tr("p", 1), "sum", <<>>)), Assign(Field(Tr("p", 2), "a"), "+=", Tr("t", 1)), Assign(Field(Tr("p", 2), "n"), "=", Tr("p", 1)),
  Assign(Index(Tr("ls", 3), Tr("t", 1)), "=", Tr("t", 2)), Assign(Index(Tr("ls", 3), Tr("t", 9)), "-=", Tr("t", 2)),
  Assign(Index(Tr("ls", 3), Tr("t", 9)), "=", Tr("t", 2)),
  Show(On(Tr("s", 1), "replace", <<Tr("s", 1), Tr("s", 2)>>)), ExprStmt(On(Tr("ls", 1), "insert", <<Tr("t", 1), Tr("t", 2)>>)),
  For("i", RangeExpr(Tr("t", 1), Tr("t", 2), FALSE), <<Show(N("i"))>>), For("i", RangeExpr(I(127), I(127), TRUE), <<Show(N("i"))>>),
  For("e", Tr("ls", 1), <<Show(N("e"))>>), For("c", Tr("s", 12), <<Show(N("c"))>>), If(Tr("b", 1), <<>>, If(Tr("b", 2), <<>>, None)),
  Show(Do("wrapping_add", <<I(127), I(3)>>)), Show(Do("wrapping_sub", <<I(-128), I(3)>>)), Show(Do("wrapping_mul", <<I(127), I(3)>>)),
  ExprStmt(Tr("ls", 1))}
OrderPrograms == {<<PairDecl>> \o Tracers \o <<Main(<<Let("x", IntLit(2)), s, Show(X)>>)>> : s \in Traced}

---------------------------------------------------------------------------
(* Whole programs: calls and their end, globals, files, input              *)

Fact == Func("fact", <<Param("n", IntT)>>, IntT,
             <<If(Bin("<=", N("n"), IntLit(1)), <<Return(IntLit(1))>>, None),
               Return(Bin("*", N("n"), Do("fact", <<Bin("-", N("n"), IntLit(1))>>)))>>)
Sum == Func("sum", <<Param("q", OptionalType(P2))>>, IntT,
            <<If(Bin("==", N("q"), NullLit), <<Return(IntLit(0))>>, None),
              Return(Bin("+", Field(N("q"), "a"), Do("sum", <<Field(N("q"), "n")>>)))>>)
Main2(ret, body) == Func("main", <<>>, ret, body)
Chain == MkP(I(1), MkP(I(2), MkP(I(3), NullLit)))
GlobalTypes == {<<IntT, I(7)>>, <<FloatT, I(7)>>, <<BoolT, BoolLit(TRUE)>>, <<StrT, T(<<104, 105>>)>>, <<OptionalType(StrT), NullLit>>,
                <<IntT, Bin("-", Do("len", <<FString(<<IntLit(10), BoolLit(TRUE), F(6)>>)>>), IntLit(2))>>,
                <<BoolT, Bin("||", Bin("<", T(<<97>>), T(<<98>>)), BoolLit(FALSE))>>, <<BoolT, Bin("&&", Unary("!", BoolLit(TRUE)), BoolLit(TRUE))>>,
                <<StrT, Bin("+", Do("str", <<Unary("~", IntLit(4))>>), T(<<33>>))>>, <<FloatT, Bin("*", IntLit(2), Unary("-", F(6)))>>}
ShownAs(t, e) == IF t.k = "optional" THEN Show(Bin("==", e, NullLit)) ELSE Show(e)
WholePrograms == UNION {
  {<<Fact, Main2(IntT, <<Return(Do("fact", <<I(n)>>))>>)>> : n \in {1, 4, 5, 6}},
  {<<PairDecl, Sum, Main(<<Let("c", Chain), Show(Do("sum", <<N("c")>>)), Assign(Field(N("c"), "n"), "=", NullLit),
                            Show(Do("sum", <<N("c")>>)), Show(Bin("==", N("c"), MkP(I(1), NullLit))), Show(Bin("==", Chain, Chain))>>)>>},
  {<<Global("g", IF declared THEN t[1] ELSE None, t[2]), Main(<<ShownAs(t[1], N("g")), Assign(N("g"), "=", t[2]), ShownAs(t[1], N("g"))>>)>> :
     t \in GlobalTypes, declared \in {TRUE}},
  {<<Global("g", None, IntLit(3)), Global("h", None, Bin("*", N("g"), IntLit(2))),
     Func("up", <<>>, None, <<Assign(N("g"), "+=", N("h"))>>), Main(<<ExprStmt(Do("up", <<>>)), ExprStmt(Do("up", <<>>)), Show(N("g"))>>)>>},
  {Body(<<ExprStmt(Do("exit", <<I(n)>>)), Show(I(1))>>) : n \in {0, 3, -1}},
  {Body(<<ExprStmt(Do("panic", <<T(<<98>>)>>))>>), Body(<<ExprStmt(Do("assert", <<BoolLit(TRUE)>>)), ExprStmt(Do("assert", <<BoolLit(FALSE)>>))>>)},
  {<<Main2(IntT, <<While(BoolLit(TRUE), <<Return(IntLit(300 - 200))>>)>>)>>},
  {<<Func("f", <<Param("n", IntT)>>, IntT, <<If(Bin(">", N("n"), I(0)), <<Return(N("n"))>>, Block(<<ExprStmt(Do("panic", <<T(<<98>>)>>))>>))>>),
     Main(<<Show(Do("f", <<IntLit(1)>>)), Show(Do("f", <<IntLit(0)>>))>>)>>},
  {Body(<<Let("l", Do("read_line", <<>>)),
          While(Bin("!=", L, NullLit), <<Marked(L), Assign(L, "=", Do("read_line", <<>>))>>)>>)},
  {Body(<<For("a", Do("args", <<>>), <<Marked(N("a"))>>), ExprStmt(Do("print", <<I(1)>>)), ExprStmt(Do("eprintln", <<T(<<101>>)>>))>>)},
  {Body(<<Show(Do("write_file", <<T(name), T(<<120>>)>>)), Let("r", Do("read_file", <<T(<<102>>)>>)),
          Marked(Bin("??", N("r"), T(<<45>>)))>>) : name \in {<<>>, <<102>>, <<103>>}}}

---------------------------------------------------------------------------
(* Programs with one mistake                                               *)

Unknown == N("nowhere")
P0 == MkP(I(1), NullLit)
\* Expressions with one mistake, that have no type because of it,
Poisoned == {
  Unknown, N("t"), N("P"), N("int"), Bin("+", X, T(<<97>>)), Bin("<", BoolLit(TRUE), X), Bin("&", X, F(6)), Bin("==", X, NullLit),
  Bin("==", X, T(<<97>>)), Bin("&&", X, BoolLit(TRUE)), Bin("??", X, IntLit(1)), Bin("+", O, X), Unary("-", BoolLit(TRUE)),
  Unary("!", X), Unary("~", F(6)), Bin("+", Unknown, T(<<97>>)), Bin("+", Unary("-", Unknown), Index(L, X)),
  ListLit(<<>>), ListLit(<<NullLit>>), ListLit(<<X, T(<<97>>)>>), ListLit(<<Unknown, X>>), ListLit(<<Do("println", <<X>>)>>),
  Field(X, "a"), Field(O, "a"), Field(N("p"), "z"), Field(N("p"), "sum"), Field(Field(N("p"), "n"), "a"), Field(Field(Unknown, "a"), "b"),
  Index(X, X), Index(O, X), Slice(X, X, X), RangeExpr(X, X, TRUE), Do("nowhere", <<X>>), Do("x", <<X>>), Do("len", <<>>),
  Do("bool", <<X>>), Do("abs", <<T(<<>>)>>), Do("min", <<X, T(<<>>)>>), Do("max", <<X>>),
  CallExpr(Index(L, X), <<>>), CallExpr(Field(Unknown, "m"), Args(<<X>>)), On(N("p"), "nothing", <<X>>),
  On(Field(N("p"), "n"), "sum", <<>>), On(T(<<>>), "size", <<>>), On(L, "push", <<X>>), On(L, "insert", <<X>>), On(X, "a", <<>>)}
\* or a type all the same.
Mistyped == {
  FString(<<NullLit>>), FString(<<L>>), Bin("??", O, T(<<97>>)), Index(L, T(<<97>>)), Index(L, F(6)), Slice(L, BoolLit(TRUE), X),
  Do("t", <<>>), Do("t", <<T(<<97>>)>>), Do("t", <<O>>), Do("t", <<Unknown>>), Do("len", <<X>>), Do("str", <<L>>),
  Do("int", <<BoolLit(TRUE)>>), Do("float", <<O>>), Do("ord", <<X>>), Do("sqrt", <<T(<<>>)>>), CallExpr(N("t"), <<Arg("n", X)>>),
  CallExpr(N("P"), <<Arg("a", X)>>), CallExpr(N("P"), <<Arg("a", X), Arg("n", NullLit), Arg("a", X)>>),
  CallExpr(N("P"), <<Arg("a", X), Arg("n", NullLit), Arg("z", X)>>), CallExpr(N("P"), <<Arg("a", T(<<>>)), Arg("n", NullLit)>>),
  On(N("p"), "sum", <<X>>), On(T(<<>>), "find", <<X>>), On(L, "append", <<T(<<97>>)>>), On(L, "contains", <<NullLit>>)}
WrongStatements == {
  Var("y", NamedType("nothing"), X), Var("y", NamedType("list"), X), Var("y", NamedType("void"), X), Var("y", NamedType("t"), X),
  Var("y", IntT, T(<<97>>)), Var("y", IntT, O), Var("y", OptionalType(OptionalType(IntT)), X),
  Let("_", NullLit), Let("_", Do("println", <<X>>)), Let("x", IntLit(1)), Let("len", IntLit(1)), Let("int", IntLit(1)), Let("t", IntLit(1)),
  Assign(X, "=", O), Assign(X, "+=", T(<<97>>)), Assign(X, "-=", F(6)), Assign(Unknown, "=", X), Assign(N("t"), "=", X), Assign(X, "=", Unknown),
  Assign(Field(N("p"), "z"), "=", X), Assign(Field(N("p"), "a"), "=", T(<<97>>)), Assign(Index(T(<<97>>), X), "=", T(<<97>>)), Assign(Index(L, X), "=", T(<<97>>)),
  If(X, <<>>, None), If(Unknown, <<Inc("x")>>, None), While(O, <<Inc("x")>>), For("i", X, <<>>), For("i", RangeExpr(X, F(6), FALSE), <<>>),
  For("i", L, <<Assign(N("i"), "=", IntLit(1))>>), For("x", L, <<>>), For("i", Unknown, <<Assign(X, "+=", Bin("*", N("i"), T(<<97>>)))>>),
  Break, Continue, Return(X), Block(<<Break>>)}
InMain(stmts) ==
  <<PairDecl, Func("t", <<Param("n", IntT)>>, IntT, <<Return(N("n"))>>),
    Main(<<Let("x", IntLit(1)), Var("o", OptionalType(IntT), NullLit), Let("l", ListLit(<<X>>)), Let("p", P0), Show(FString(<<X, Do("len", <<L>>), Bin("??", O, Field(N("p"), "a"))>>))>> \o stmts)>>
Sel(name, ps, ret, body) == Func(name, ps, ret, body)
Good == Main(<<>>)
S(n, fields, methods) == Struct(n, [i \in DOMAIN fields |-> FieldDecl(fields[i][1], fields[i][2])], methods)
WrongDecls == {
  <<>>, <<Global("main", None, IntLit(1))>>, <<Main2(StrT, <<Return(T(<<>>))>>)>>, <<Func("main", <<Param("n", IntT)>>, None, <<>>)>>,
  <<Good, Good>>, <<Good, Func("len", <<>>, None, <<>>)>>, <<Good, Func("int", <<>>, None, <<>>)>>, <<Good, S("A", <<>>, <<>>), Global("A", None, I(1))>>,
  <<Good, S("A", <<<<"a", IntT>>, <<"a", IntT>>>>, <<>>)>>, <<Good, S("A", <<<<"a", IntT>>>>, <<Func("a", <<Param("self", None)>>, None, <<>>)>>)>>,
  <<Good, S("A", <<>>, <<Func("m", <<Param("self", None)>>, None, <<>>), Func("m", <<Param("self", None)>>, None, <<>>)>>)>>,
  <<Good, S("A", <<<<"a", NamedType("B")>>>>, <<>>)>>, <<Good, S("A", <<<<"a", NamedType("A")>>>>, <<>>)>>,
  <<Good, Func("f", <<Param("a", NamedType("B"))>>, None, <<>>)>>,
  <<Good, Func("f", <<>>, NamedType("B"), <<Return(I(1))>>)>>, <<Good, Func("f", <<>>, IntT, <<>>)>>, <<Good, Func("f", <<>>, IntT, <<Return(None)>>)>>,
  <<Good, Func("f", <<>>, IntT, <<If(BoolLit(TRUE), <<Return(I(1))>>, None)>>)>>,
  <<Good, Func("f", <<>>, IntT, <<While(BoolLit(TRUE), <<If(BoolLit(TRUE), <<Break>>, None)>>)>>)>>,
  <<Good, Global("g", IntT, T(<<97>>))>>, <<Good, Global("g", None, NullLit)>>, <<Good, Global("g", ListType(IntT), ListLit(<<>>))>>,
  <<Good, Global("g", OptionalType(IntT), IntLit(1))>>, <<Good, Global("g", None, Do("abs", <<I(1)>>))>>, <<Good, Global("g", None, Do("ord", <<T(<<97>>)>>))>>,
  <<Good, Global("g", None, N("h")), Global("h", IntT, IntLit(1))>>, <<Good, Global("g", None, N("h")), Global("h", None, IntLit(1))>>,
  <<Good, Global("g", None, Bin("/", IntLit(1), IntLit(0)))>>, <<Good, Global("g", None, Bin("+", IntLit(127), IntLit(1)))>>, <<Good, Global("g", None, Unknown)>>,
  <<Good, Global("g", NamedType("B"), IntLit(1))>>}
WrongPrograms == UNION {
  {InMain(<<ExprStmt(e)>>) : e \in UNION {Poisoned, Mistyped}},
  \* What follows from a mistake is no mistake.
  {InMain(<<Let("y", e), Show(Bin("+", N("y"), N("y"))), Assign(Index(N("y"), X), "=", On(N("y"), "m", <<>>)),
            For("i", N("y"), <<If(N("i"), <<Var("k", IntT, Unary("-", N("i"))), Assign(Field(N("y"), "z"), "+=", N("k"))>>, None)>>),
            ExprStmt(Do("t", <<N("y")>>)), Let("v", Bin("??", N("y"), X)), Show(FString(<<N("v"), ListLit(<<N("y"), X>>)>>))>>) :
     e \in Poisoned},
  {InMain(<<s>>) : s \in WrongStatements}, WrongDecls}
=============================================================================
