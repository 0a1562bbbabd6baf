---------------------------- MODULE ParseRecovery ----------------------------
(* src/parse/parser.c: which tokens the recursive-descent parser consumes,   *)
(* when it reports an error, and where it goes on after one.  The C stack is *)
(* todo, the sequence of what the active functions have still to do, the     *)
(* innermost first; a step does the first of them.  Of the tree only the     *)
(* spans of the declarations are kept, and the kind of the last expression,  *)
(* which decides what may be assigned to or stand as a statement.            *)
(*                                                                           *)
(* A token is its kind.  "-" stands for the unary and arithmetic operators,  *)
(* "<" for the comparisons, "&&" for the operators that bind weaker, "="     *)
(* for the assignments, ".." for both ranges, "break" also for continue, and *)
(* "int" for the literals, save "min", the 2^63 that only a minus makes an   *)
(* int; "list" is the identifier of that name.                               *)
EXTENDS Integers, Sequences, FiniteSetsExt

CONSTANTS
    Inputs,    \* the token sequences to parse, without their end
    Programs   \* those of them that the grammar of docs/spec.md derives

VARIABLES
    toks,       \* the input, ended by "eof"
    pos,        \* the next token
    panicking,  \* errors are suppressed until the next boundary
    errors,     \* some error has been reported
    todo,
    kind,       \* of the last expression
    decls       \* the spans, first and last token, of the module's declarations

vars == <<toks, pos, panicking, errors, todo, kind, decls>>

Class(t) == IF t = "list" THEN "id" ELSE t

Ahead(n) == Class(toks[IF pos + n <= Len(toks) THEN pos + n ELSE Len(toks)])

at(k) == Ahead(0) = k

at_eof == at("eof")

\* The first thing to do is g.
Now(g) == todo # <<>> /\ todo[1][1] = g

\* What it is done with.
Arg == todo[1][2]

Expr == <<"expr">>
Type == <<"type">>
Block == <<"block">>
Postfix == <<"postfix">>
Semi == <<"semi">>
Token(k) == <<"expect", k>>
As(k) == <<"made", k>>

----------------------------------------------------------------------------
(* How a step ends: n tokens are consumed, and gs is done next.              *)

Then(n, gs) ==
    /\ pos' = pos + n
    /\ todo' = gs \o Tail(todo)
    /\ UNCHANGED <<toks, decls>>

Go(n, gs) == Then(n, gs) /\ UNCHANGED <<panicking, errors, kind>>

\* Only the first error of a statement is reported.
Report(bad) == errors' = (errors \/ (bad /\ ~panicking))

\* error_span.
Fail(gs) == Then(0, gs) /\ Report(TRUE) /\ panicking' = TRUE /\ UNCHANGED kind

\* soft_error, if bad: parsing goes on as if nothing had happened.
Warn(bad, n, gs) == Then(n, gs) /\ Report(bad) /\ UNCHANGED <<panicking, kind>>

Made(k, n, gs) == Then(n, gs) /\ kind' = k /\ UNCHANGED <<panicking, errors>>

----------------------------------------------------------------------------
(* Recovery.                                                                 *)

\* How many braces are open at i that were not at pos.
Depth(i) ==
    Cardinality({j \in pos .. i - 1 : toks[j] = "{"})
        - Cardinality({j \in pos .. i - 1 : toks[j] = "}"})

Past(i, ks) == IF toks[i] \in ks THEN i + 1 ELSE i

Resume(p) ==
    /\ pos' = p
    /\ panicking' = FALSE
    /\ todo' = Tail(todo)
    /\ UNCHANGED <<toks, errors, kind, decls>>

StmtBoundary(i) ==
    \/ toks[i] = "eof"
    \/ Depth(i) = 0 /\ toks[i] \in {";", "}", "if", "while", "for", "return", "func", "struct"}

DeclBoundary(i) ==
    \/ toks[i] = "eof"
    \/ Depth(i) = 0 /\ toks[i] \in {";", "func", "struct"}
    \/ Depth(i) <= 1 /\ toks[i] = "}"

StmtEnd == Min({i \in pos .. Len(toks) : StmtBoundary(i)})
DeclEnd == Min({i \in pos .. Len(toks) : DeclBoundary(i)})

(* Faults: sync_stmt leaves the block with its brace; sync_decl does not     *)
(* pass the brace it stops at.                                               *)
SyncOverBrace == Past(StmtEnd, {";", "}"})
SyncUpToBrace == Past(DeclEnd, {";"})

sync_stmt == Past(StmtEnd, {";"})
sync_decl == Past(DeclEnd, {";", "}"})

SyncStmt == Now("syncStmt") /\ IF panicking THEN Resume(sync_stmt) ELSE Go(0, <<>>)

SyncDecl == Now("syncDecl") /\ IF panicking THEN Resume(sync_decl) ELSE Go(0, <<>>)

Expect == Now("expect") /\ IF at(Arg) THEN Go(1, <<>>) ELSE Fail(<<>>)

----------------------------------------------------------------------------
(* Types and expressions.                                                    *)

ParseType ==
    /\ Now("type")
    /\ \/ ~at("id") /\ Fail(<<>>)
       \/ at("id") /\ (toks[pos] # "list" \/ Ahead(1) # "[") /\ Go(1, <<<<"optional">>>>)
       \/ toks[pos] = "list" /\ Ahead(1) = "["
          /\ Go(2, <<Type, Token("]"), <<"optional">>>>)

Optional == Now("optional") /\ IF at("?") THEN Go(1, <<<<"optional">>>>) ELSE Go(0, <<>>)

\* Only list elements may have no label.
ParseArgs ==
    LET labelled == at("id") /\ Ahead(1) = ":"
    IN  /\ Now("args")
        /\ IF at(Arg) \/ at_eof THEN Go(0, <<Token(Arg)>>)
           ELSE Warn(labelled /\ Arg = "]", IF labelled THEN 2 ELSE 0,
                     <<Expr, <<"moreArgs", Arg>>>>)

MoreArgs ==
    /\ Now("moreArgs")
    /\ IF at(",") THEN Go(1, <<<<"args", Arg>>>>) ELSE Go(0, <<Token(Arg)>>)

ParseFstring ==
    /\ Now("fstring")
    /\ \/ at("f-end") /\ Made("other", 1, <<>>)
       \/ at_eof /\ Made("other", 0, <<>>)
       \/ at("f-text") /\ Go(1, <<<<"fstring">>>>)
       \/ at("f-open") /\ Warn(Ahead(1) = "f-close", 1,
                               <<Expr, Token("f-close"), <<"fstring">>>>)
       \/ Ahead(0) \notin {"f-end", "eof", "f-text", "f-open"} /\ Fail(<<As("other")>>)

ParsePrimary ==
    /\ Now("primary")
    /\ \/ at("int") /\ Made("other", 1, <<>>)
       \/ at("min") /\ Then(1, <<>>) /\ Report(TRUE) /\ panicking' = TRUE /\ kind' = "other"
       \/ at("f-start") /\ Go(1, <<<<"fstring">>>>)
       \/ Ahead(0) \in {"id", "self"} /\ Made("name", 1, <<>>)
       \/ at("(") /\ Go(1, <<Expr, Token(")")>>)
       \/ at("[") /\ Go(1, <<<<"args", "]">>, As("other")>>)
       \/ Ahead(0) \notin {"int", "min", "f-start", "id", "self", "(", "["} /\ Fail(<<As("other")>>)

ParsePostfix ==
    /\ Now("postfix")
    /\ \/ at("(") /\ Go(1, <<<<"args", ")">>, As("call"), Postfix>>)
       \/ at(".") /\ Go(1, <<Token("id"), As("field"), Postfix>>)
       \/ at("[") /\ Go(1, <<Expr, <<"slice">>>>)
       \/ Ahead(0) \notin {"(", ".", "["} /\ Go(0, <<>>)

Slice ==
    /\ Now("slice")
    /\ IF at("..") THEN Go(1, <<Expr, Token("]"), As("other"), Postfix>>)
       ELSE Go(0, <<Token("]"), As("index"), Postfix>>)

NewExpr == Now("made") /\ Made(Arg, 0, <<>>)

\* A minus and a number are one literal, which takes no postfix.
ParseUnary ==
    /\ Now("unary")
    /\ \/ at("-") /\ Ahead(1) \in {"int", "min"} /\ Made("other", 2, <<>>)
       \/ at("-") /\ Ahead(1) \notin {"int", "min"} /\ Go(1, <<<<"unary">>, As("other")>>)
       \/ ~at("-") /\ Go(0, <<<<"primary">>, Postfix>>)

\* An operand of the next level, and any more that operators add.
Level(g, operand, op) ==
    \/ Now(g) /\ Arg = "first" /\ Go(0, <<<<operand, "first">>, <<g, "more">>>>)
    \/ /\ Now(g) /\ Arg = "more"
       /\ IF at(op) THEN Go(1, <<<<operand, "first">>, As("other"), <<g, "more">>>>)
          ELSE Go(0, <<>>)

ParseAdd == Level("add", "unary", "-")

ParseCmp ==
    /\ Now("cmp")
    /\ \/ Arg = "first" /\ Go(0, <<<<"add", "first">>, <<"cmp", "second">>>>)
       \/ Arg = "second" /\ at("<") /\ Go(1, <<<<"add", "first">>, As("other"), <<"cmp", "third">>>>)
       \/ Arg = "third" /\ at("<") /\ Warn(TRUE, 1, <<<<"add", "first">>, As("other")>>)
       \/ Arg \in {"second", "third"} /\ ~at("<") /\ Go(0, <<>>)

ParseExpr == Now("expr") /\ Go(0, <<<<"weak", "first">>>>)

ParseOr == Level("weak", "cmp", "&&")

----------------------------------------------------------------------------
(* Statements.                                                               *)

\* A range where a statement should end is an error too.
ExpectSemi ==
    /\ Now("semi")
    /\ IF at(";") THEN Go(1, <<>>) ELSE Fail(<<>>)

\* Also parse_global: the two are alike.
ParseVar ==
    /\ Now("var")
    /\ IF Ahead(1) = ":" THEN Go(2, <<Type, Token("="), Expr, Semi>>)
       ELSE Go(2, <<Expr, Semi>>)

ParseIf ==
    \/ Now("if") /\ Go(1, <<Expr, Block, <<"else">>>>)
    \/ /\ Now("else")
       /\ \/ ~at("else") /\ Go(0, <<>>)
          \/ at("else") /\ Ahead(1) = "if" /\ Go(1, <<<<"if">>>>)
          \/ at("else") /\ Ahead(1) # "if" /\ Go(1, <<Block>>)

ParseWhile == Now("while") /\ Go(1, <<Expr, Block>>)

ParseFor ==
    \/ Now("for") /\ Go(1, <<Token("id"), Token("in"), Expr, <<"range">>>>)
    \/ Now("range") /\ IF at("..") THEN Go(1, <<Expr, Block>>) ELSE Go(0, <<Block>>)

ParseReturn == Now("return") /\ Go(1, IF Ahead(1) = ";" THEN <<Semi>> ELSE <<Expr, Semi>>)

(* Fault: a call may be assigned to.                                         *)
AssignableToo == {"name", "field", "index", "call"}

Assignable == {"name", "field", "index"}

ParseExprStmt ==
    \/ Now("exprStmt") /\ Go(0, <<Expr, <<"target">>>>)
    \/ Now("target") /\ at("=") /\ Go(1, <<Expr, <<"assigned", kind>>, Semi>>)
    \/ Now("target") /\ ~at("=") /\ Warn(kind # "call", 0, <<Semi>>)
    \/ Now("assigned") /\ Warn(Arg \notin Assignable, 0, <<>>)

DeclarationKeywords == {"func", "struct"}

\* A declaration is reported on but not consumed.
ParseStmt ==
    /\ Now("stmt")
    /\ \/ Ahead(0) \in {"if", "while", "for", "return"} /\ Go(0, <<<<toks[pos]>>>>)
       \/ at("break") /\ Go(1, <<Semi>>)
       \/ at("{") /\ Go(0, <<Block>>)
       \/ at("id") /\ Ahead(1) \in {":=", ":"} /\ Go(0, <<<<"var">>>>)
       \/ Ahead(0) \in DeclarationKeywords /\ Fail(<<>>)
       \/ /\ Ahead(0) \notin {"if", "while", "for", "return", "break", "{"} \cup DeclarationKeywords
          /\ ~(at("id") /\ Ahead(1) \in {":=", ":"})
          /\ Go(0, <<<<"exprStmt">>>>)

ParseBlock ==
    \/ Now("block") /\ at("{") /\ Go(1, <<<<"stmts">>>>)
    \/ Now("block") /\ ~at("{") /\ Fail(<<<<"syncStmt">>>>)
    \/ /\ Now("stmts")
       /\ IF at("}") \/ at_eof THEN Go(0, <<Token("}")>>)
          ELSE Go(0, <<<<"stmt">>, <<"syncStmt">>, <<"stmts">>>>)

----------------------------------------------------------------------------
(* Declarations.                                                             *)

ParseParams ==
    \/ /\ Now("params")
       /\ \/ (at(")") \/ at_eof) /\ Go(0, <<>>)
          \/ at("id") /\ Go(1, <<Token(":"), Type, <<"moreParams">>>>)
          \/ Ahead(0) \notin {")", "eof", "id"} /\ Fail(<<>>)
    \/ Now("moreParams") /\ IF at(",") THEN Go(1, <<<<"params">>>>) ELSE Go(0, <<>>)

\* A method's first parameter is self.
ParseSelf ==
    /\ Now("self")
    /\ \/ at("self") /\ Go(1, IF Ahead(1) = ")" THEN <<>> ELSE <<Token(",")>>)
       \/ ~at("self") /\ Warn(TRUE, 0, <<>>)

ParseFunc ==
    \/ Now("func") /\ Go(1, <<Token("id"), Token("(")>> \o Arg
                              \o <<<<"params">>, Token(")"), <<"result">>, Block>>)
    \/ Now("result") /\ IF at("->") THEN Go(1, <<Type>>) ELSE Go(0, <<>>)

\* What is neither field nor method is reported on but not consumed.
ParseStruct ==
    \/ Now("struct") /\ Go(1, <<Token("id"), Token("{"), <<"members">>>>)
    \/ /\ Now("members")
       /\ \/ (at("}") \/ at_eof) /\ Go(0, <<Token("}")>>)
          \/ at("func") /\ Go(0, <<<<"func", <<<<"self">>>>>>, <<"syncStmt">>, <<"members">>>>)
          \/ at("id") /\ Go(1, <<Token(":"), Type, Semi, <<"syncStmt">>, <<"members">>>>)
          \/ Ahead(0) \notin {"}", "eof", "func", "id"} /\ Fail(<<<<"syncStmt">>, <<"members">>>>)

\* The declaration begun at Arg is complete.
NewDecl ==
    /\ Now("decl")
    /\ decls' = decls \cup {<<Arg, pos - 1>>}
    /\ todo' = <<<<"syncDecl">>>> \o Tail(todo)
    /\ UNCHANGED <<toks, pos, panicking, errors, kind>>

ParseModule ==
    LET Decl(g) == Go(0, <<g, <<"decl", pos>>, <<"module">>>>)
    IN  /\ Now("module")
        /\ \/ at_eof /\ Go(0, <<>>)
           \/ at("func") /\ Decl(<<"func", <<>>>>)
           \/ at("struct") /\ Decl(<<"struct">>)
           \/ at("id") /\ Ahead(1) \in {":=", ":"} /\ Decl(<<"var">>)
           \/ /\ Ahead(0) \notin {"eof"} \cup DeclarationKeywords
              /\ ~(at("id") /\ Ahead(1) \in {":=", ":"})
              /\ Fail(<<<<"syncDecl">>, <<"module">>>>)

----------------------------------------------------------------------------
Init ==
    /\ \E input \in Inputs : toks = Append(input, "eof")
    /\ pos = 1
    /\ panicking = FALSE /\ errors = FALSE
    /\ todo = <<<<"module">>>>
    /\ kind = "other"
    /\ decls = {}

ParseExpression ==
    \/ ParseExpr \/ ParseOr \/ ParseCmp \/ ParseAdd \/ ParseUnary \/ ParsePostfix \/ Slice
    \/ ParsePrimary \/ ParseFstring \/ ParseArgs \/ MoreArgs \/ NewExpr

ParseStatement ==
    \/ ParseStmt \/ ParseBlock \/ ParseVar \/ ParseIf \/ ParseWhile \/ ParseFor \/ ParseReturn
    \/ ParseExprStmt \/ ExpectSemi

ParseDeclaration ==
    \/ ParseModule \/ ParseFunc \/ ParseSelf \/ ParseParams \/ ParseStruct \/ NewDecl
    \/ ParseType \/ Optional

Next == Expect \/ SyncStmt \/ SyncDecl \/ ParseExpression \/ ParseStatement \/ ParseDeclaration

Spec == Init /\ [][Next]_vars

\* Nothing interrupts the parser.
FairSpec == Spec /\ WF_vars(Next)

----------------------------------------------------------------------------
(* Properties.                                                               *)

Done == todo = <<>>

(* The parser never reads past the end of the tokens, and a declaration's    *)
(* span is a part of the input.                                              *)
TypeOK ==
    /\ pos \in 1 .. Len(toks)
    /\ panicking \in BOOLEAN /\ errors \in BOOLEAN
    /\ kind \in {"name", "field", "index", "call", "other"}
    /\ \A d \in decls : d[1] \in 1 .. Len(toks) /\ d[2] \in d[1] .. Len(toks)

(* Recovery swallows no error and invents none: an input is accepted iff the *)
(* grammar derives it.                                                       *)
AcceptsTheGrammar == Done => (~errors <=> SubSeq(toks, 1, Len(toks) - 1) \in Programs)

\* The text before i closes the braces it opens.
Opened(i) == Cardinality({j \in 1 .. i - 1 : toks[j] = "{"})
Closed(i) == Cardinality({j \in 1 .. i - 1 : toks[j] = "}"})
Balanced(i) == Opened(i) = Closed(i) /\ \A j \in 1 .. i - 1 : Opened(j) >= Closed(j)

\* Declaration d is the last, and begins where another one may have ended.
LastDeclaration(d, i) ==
    /\ SubSeq(toks, i, Len(toks) - 1) = d
    /\ i > 1 /\ toks[i - 1] \in {";", "}"}
    /\ Balanced(i)

EmptyFunction == <<"func", "id", "(", ")", "{", "}">>
Global == <<"id", ":=", "int", ";">>

\* Every struct before i has its brace.
StructsAreOpened(i) == \A j \in 1 .. i - 1 : toks[j] = "struct" => "{" \in {toks[j + 1], toks[j + 2]}

(* Whatever is wrong before it, a function that begins at a declaration      *)
(* boundary is parsed, in its full length.                                   *)
FunctionsAreKept ==
    Done => \A i \in DOMAIN toks :
        LastDeclaration(EmptyFunction, i) /\ StructsAreOpened(i) => <<i, Len(toks) - 1>> \in decls

(* The same for a global.                                                    *)
GlobalsAreKept ==
    Done => \A i \in DOMAIN toks :
        LastDeclaration(Global, i) => <<i, Len(toks) - 1>> \in decls

(* The parser comes to an end.                                               *)
ParserEnds == <>Done

(* The two loops that neither consume a token nor end: a block at a          *)
(* declaration, and a struct at a token where sync_stmt stops.               *)
Stuck ==
    \/ Now("stmts") /\ Ahead(0) \in DeclarationKeywords
    \/ Now("members") /\ Ahead(0) \in {"if", "while", "for", "return", "struct"}

(* Nothing else keeps it from ending.                                        *)
EndsOrIsStuck == <>(Done \/ Stuck)
=============================================================================
