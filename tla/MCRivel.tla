------------------------------- MODULE MCRivel -------------------------------
(***************************************************************************)
(* The invocations Rivel is checked with.                                  *)
(***************************************************************************)
EXTENDS Rivel, MCPrograms, FiniteSets

MCHash(name) == Len(name)
MCCode(c) == CASE c = "-" -> 45 [] c = "o" -> 111 [] OTHER -> 120

EmptyWorld == [objs |-> <<>>, out |-> <<>>, err |-> <<>>, input |-> <<>>, files |-> [f \in {} |-> <<>>], args |-> <<>>]
Source(decls) == [readable |-> TRUE, lexical |-> 0, syntax |-> 0, decls |-> decls]
NoFiles == [p \in {} |-> "old"]

\* rivel prog.rv
Invoke(decls) ==
  [command |-> "rivel", args |-> <<"prog.rv">>, source |-> Source(decls), world |-> EmptyWorld, disk |-> NoFiles,
   mayFail |-> FALSE]
Ran1(programs) == {Invoke(p) : p \in programs}
NumberInv == Ran1(NumberPrograms)
StructInv == Ran1(StructPrograms)
StatementInv == Ran1(StatementPrograms \cup UnreachedPrograms)
StringInv == Ran1(StringPrograms)
ListInv == Ran1(ListPrograms)
OrderInv == Ran1(OrderPrograms)
\* Programs with one mistake are in wrong.rv.
WrongInv == {[Invoke(p) EXCEPT !.args = <<"wrong.rv">>] : p \in WrongPrograms}
\* A world with something in it.
FullWorld == [EmptyWorld EXCEPT !.input = <<<<97, 13, 10>>, <<10>>, <<98>>>>, !.files = (<<102>> :> <<49>>)]
WholeInv == {[Invoke(p) EXCEPT !.world = w, !.args = <<"prog.rv", "-o", "x">>] : p \in WholePrograms, w \in {EmptyWorld, FullWorld}}

---------------------------------------------------------------------------
(* Every kind of command line, on every kind of source, with and without   *)
(* files of those names and tools that fail                                *)

ArgLists == {
  <<>>, <<"--help">>, <<"p.rv", "--version">>, <<"-o">>, <<"p.rv", "-t">>, <<"-x", "p.rv">>, <<"p.rv", "q.rv">>, <<"--keep">>,
  <<"p.rv">>, <<"run", "p.rv", "a">>, <<"-o", "out", "p.rv">>, <<"dir/p.rivel">>, <<"p.txt">>, <<"-t", "t", "p.rv">>,
  <<"--keep", "p.rv">>, <<"--emit-il", "p.rv">>, <<"--emit-asm", "p.rv">>, <<"--keep", "--emit-asm", "p.rv">>, <<"--emit-asm", "--emit-il", "p.rv">>,
  <<"--dump-tokens", "p.rv">>, <<"--dump-ast", "p.rv">>, <<"--dump-ir", "p.rv">>, <<"--analyze", "-">>, <<"p.rv", "--keep">>}
Warned == Let("unused", I(1))
Silent == {
  Source(Body(<<Show(X)>>)), Source(Body(<<Warned, Show(X)>>)),
  [Source(<<>>) EXCEPT !.readable = FALSE],
  [Source(Body(<<Show(I(1))>>)) EXCEPT !.lexical = 2], [Source(Body(<<Warned>>)) EXCEPT !.syntax = 1],
  [Source(Body(<<Show(X)>>)) EXCEPT !.lexical = 1, !.syntax = 1],
  \* More errors than are kept, with a warning behind them
  [Source(Body(<<Warned, Show(X)>>)) EXCEPT !.lexical = 2, !.syntax = 1], Source(Body(<<Show(X), Show(N("y")), Warned, Show(N("z"))>>))}
Speaking == {
  Source(Body(<<Warned, Show(I(1))>>)), Source(Body(<<ExprStmt(Do("exit", <<I(3)>>))>>)), Source(Body(<<Warned, ExprStmt(Do("panic", <<T(<<98>>)>>))>>)),
  Source(Body(<<>>))}
OldFiles == [p \in {"./p", "./p.il", "./p.s", "dir/p", "out"} |-> "old"]
CommandInv ==
  {[Invoke(<<>>) EXCEPT !.command = c, !.args = a, !.source = s] : c \in {"rivelc", "rivel"}, a \in ArgLists, s \in Silent}
  \cup {[Invoke(<<>>) EXCEPT !.command = c, !.args = a, !.source = s, !.disk = d, !.mayFail = f] :
          c \in {"rivelc", "rivel"}, a \in ArgLists, s \in Speaking, d \in {NoFiles, OldFiles}, f \in BOOLEAN}

---------------------------------------------------------------------------
(* The index and the dumps                                                 *)

IndexedTrees == {
  <<Main(<<Let("a", I(1)), Block(<<Let("b", N("a")), Show(N("b"))>>), Let("b", I(2)), Show(Bin("+", N("a"), N("b"))),
           For("i", RangeExpr(I(0), N("a"), FALSE), <<Let("c", N("i")), Show(N("c"))>>), For("i", ListLit(<<N("b")>>), <<Show(N("i"))>>)>>)>>,
  <<Global("g", IntT, I(1)), Func("f", <<Param("n", IntT)>>, IntT, <<If(Bin(">", N("n"), N("g")), <<Return(Do("f", <<N("n")>>))>>, Block(<<Let("k", N("g")), Return(N("k"))>>))>>),
    Main(<<Assign(N("g"), "=", Do("f", <<N("g")>>))>>)>>,
  <<Struct("A", <<FieldDecl("x", OptionalType(NamedType("B"))), FieldDecl("y", ListType(NamedType("A")))>>,
      <<Func("m", <<Param("self", None), Param("o", NamedType("A"))>>, NamedType("B"),
             <<Return(CallExpr(N("B"), <<Arg("x", Do("len", <<Field(N("self"), "y")>>))>>))>>)>>),
    Struct("B", <<FieldDecl("x", IntT)>>, <<Func("n", <<Param("self", None)>>, None, <<Assign(Field(N("self"), "x"), "+=", I(1))>>)>>),
    Main(<<Var("a", NamedType("A"), CallExpr(N("A"), <<Arg("y", ListLit(<<>>)), Arg("x", NullLit)>>)),
           Show(Field(On(N("a"), "m", <<N("a")>>), "x")),
           If(Bin("!=", Field(N("a"), "x"), NullLit), <<>>, None),
           Let("b", On(N("a"), "m", <<N("a")>>)), ExprStmt(On(N("b"), "n", <<>>)),
           Assign(Field(N("a"), "y"), "=", ListLit(<<N("a")>>)), Show(Slice(T(<<97>>), Do("len", <<Field(N("a"), "y")>>), IntLit(1)))>>)>>,
  \* What is being typed: names that are not there, a field that is not, a variable in its own initialiser
  <<Struct("P", <<FieldDecl("a", IntT)>>, <<>>), Global("g", NamedType("Q"), N("h")),
    Main(<<Let("p", CallExpr(N("P"), <<Arg("a", I(1)), Arg("z", I(2))>>)), Show(Field(N("p"), "b")), Show(N("q")), Let("s", N("g")), Let("r", N("r"))>>)>>}
AskIndex(decls) == [Invoke(decls) EXCEPT !.args = <<"--analyze", "-">>]
AnalyzeInv == {AskIndex(p) : p \in UNION {IndexedTrees, WholePrograms, OrderPrograms}}

\* Programs that differ in one small thing.
V(t, e) == Body(<<Var("x", t, e)>>)
Alike == {
  V(None, I(1)), V(None, FloatLit(4)), V(IntT, I(1)), V(OptionalType(IntT), I(1)), V(ListType(IntT), I(1)), V(ListType(OptionalType(IntT)), I(1)),
  V(OptionalType(ListType(IntT)), I(1)), V(None, T(<<>>)), V(None, T(<<34>>)), V(None, T(<<92, 34>>)), V(None, T(<<10>>)), V(None, T(<<92, 110>>)),
  V(None, T(<<0>>)), V(None, T(<<1, 50>>)), V(None, T(<<18>>)), V(None, T(<<92, 120, 49, 50>>)), V(None, N("int")), V(None, NullLit), V(None, N("null")),
  V(None, BoolLit(TRUE)), V(None, N("true")), V(None, ListLit(<<>>)), V(None, FString(<<>>)), V(None, ListLit(<<X, X>>)), V(None, ListLit(<<ListLit(<<X>>), X>>)),
  V(None, ListLit(<<ListLit(<<X, X>>)>>)), V(None, FString(<<X, X>>)), V(None, Bin("-", X, X)), V(None, Unary("-", X)), V(None, Unary("-", Bin("-", X, X))),
  V(None, Bin("-", Unary("-", X), X)), V(None, Index(X, X)), V(None, RangeExpr(X, X, TRUE)), V(None, RangeExpr(X, X, FALSE)), V(None, Slice(X, X, X)),
  V(None, Do("x", <<X>>)), V(None, CallExpr(X, <<Arg("x", X)>>)), V(None, CallExpr(X, <<Arg("arg", X)>>)), V(None, Do("x", <<X, X>>)), V(None, Field(X, "x")), V(None, Field(X, "y")),
  Body(<<Assign(X, "=", X)>>), Body(<<Assign(X, "+=", X)>>), Body(<<ExprStmt(X)>>), Body(<<Block(<<ExprStmt(X)>>)>>), Body(<<ExprStmt(X), ExprStmt(X)>>),
  Body(<<Block(<<ExprStmt(X)>>), ExprStmt(X)>>), Body(<<Block(<<ExprStmt(X), ExprStmt(X)>>)>>), Body(<<Return(None)>>), Body(<<Return(X)>>), Body(<<Return(None), ExprStmt(X)>>),
  Body(<<If(X, <<>>, None)>>), Body(<<If(X, <<>>, Block(<<>>))>>), Body(<<If(X, <<>>, None), Block(<<>>)>>), Body(<<If(X, <<>>, If(X, <<>>, None))>>),
  Body(<<If(X, <<>>, Block(<<If(X, <<>>, None)>>))>>), Body(<<If(X, <<If(X, <<>>, None)>>, None)>>), Body(<<While(X, <<>>)>>), Body(<<For("x", X, <<>>)>>), Body(<<For("y", X, <<>>)>>),
  Body(<<Break>>), Body(<<Continue>>), <<>>, <<Main(<<>>), Main(<<>>)>>, <<Struct("main", <<>>, <<>>)>>, <<Struct("main", <<FieldDecl("x", IntT)>>, <<>>)>>,
  <<Struct("main", <<>>, <<Main(<<>>)>>)>>, <<Struct("main", <<>>, <<>>), Main(<<>>)>>, <<Global("x", None, X)>>, <<Global("x", IntT, X)>>,
  <<Func("main", <<Param("self", None)>>, None, <<>>)>>, <<Func("main", <<Param("x", IntT)>>, None, <<>>)>>, <<Func("main", <<>>, IntT, <<>>)>>}
Modest == UNION {WholePrograms, {<<PairDecl>> \o Tracers \o <<Main(<<s>>)>> : s \in {Show(Do("min", <<F(6), F(-8)>>)), Show(Do("min", <<I(6), I(-8)>>)), ExprStmt(Tr("ls", 1)), ExprStmt(Tr("s", 1))}}}
DumpInv ==
  UNION {{[Invoke(p) EXCEPT !.args = <<"--dump-ast", "p.rv">>] : p \in Alike}, {[Invoke(p) EXCEPT !.args = <<"--dump-ir", "p.rv">>] : p \in Modest}}

\* One global text is a root; two are a list of roots.
TwoTexts ==
  Ran1({<<Global("g", StrT, T(<<97>>)), Main(<<Show(N("g"))>>)>>,
        <<Global("g", StrT, T(<<97>>)), Global("h", StrT, T(<<98>>)), Main(<<Show(Bin("+", N("g"), N("h")))>>)>>})

MCInvocations ==
  NumberInv \cup StructInv \cup StatementInv \cup StringInv \cup ListInv \cup OrderInv \cup WrongInv
  \cup WholeInv \cup CommandInv \cup AnalyzeInv \cup DumpInv

\* sema/types.h:12: the error type stands for what has no type because of a mistake, so
\* that the checker reports one mistake once, whatever the program goes on to do with it.
OneReport ==
  pc = "exited" /\ inv.args = <<"wrong.rv">> => Len(SelectSeq(stderr, LAMBDA d : d[1] = "error")) = 1
=============================================================================
