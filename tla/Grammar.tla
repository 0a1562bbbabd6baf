------------------------------- MODULE Grammar -------------------------------
(* The grammar of docs/spec.md, section 8, over the token kinds of           *)
(* ParseRecovery.  A nonterminal maps a set I of positions in s to the       *)
(* positions where a phrase of it that begins at one of I may end.  Where    *)
(* section 8 and other parts of the document say more than its productions   *)
(* do, the productions here say it: only calls stand as statements, only     *)
(* variables, fields and elements are assigned to, list elements have no     *)
(* labels.  Where the code accepts more by design, they follow the code: a   *)
(* type may have several question marks, self is a name, a comma may follow  *)
(* a lone self.  A negative literal takes no postfix.                        *)
EXTENDS Integers, Sequences

Tok(s, I, ks) == {i + 1 : i \in {j \in I : j <= Len(s) /\ s[j] \in ks}}

Names == {"id", "list"}

RECURSIVE Types(_, _), Optionals(_, _), Exprs(_, _), Postfixes(_, _), Grown(_, _), Unaries(_, _),
          Sums(_, _), Args(_, _, _), Strings(_, _), Stmts(_, _), Ifs(_, _),
          Params(_, _), Members(_, _), Decls(_, _)

Optionals(s, I) == LET J == Tok(s, I, {"?"}) IN IF J = {} THEN I ELSE I \cup Optionals(s, J)

Types(s, I) ==
    IF I = {} THEN {}
    ELSE Optionals(s, Tok(s, I, {"id"}) \cup
             LET L == Tok(s, I, {"list"})
             IN  {i \in L : i > Len(s) \/ s[i] # "["} \cup Tok(s, Types(s, Tok(s, L, {"["})), {"]"}))

----------------------------------------------------------------------------
Args(s, I, labels) ==
    IF I = {} THEN {}
    ELSE LET J == Exprs(s, I \cup (IF labels THEN Tok(s, Tok(s, I, Names), {":"}) ELSE {}))
         IN  I \cup J \cup Args(s, Tok(s, J, {","}), labels)

Strings(s, I) ==
    IF I = {} THEN {}
    ELSE Tok(s, I, {"f-end"}) \cup
         Strings(s, Tok(s, I, {"f-text"}) \cup Tok(s, Exprs(s, Tok(s, I, {"f-open"})), {"f-close"}))

\* Postfix expressions are pairs of an end and the kind of what ends there;
\* parentheses keep the kind.
Primaries(s, I) ==
    LET open == Tok(s, I, {"("})
    IN  {<<i, "name">> : i \in Tok(s, I, Names \cup {"self"})}
        \cup {<<i, "other">> : i \in Tok(s, I, {"int"}) \cup Strings(s, Tok(s, I, {"f-start"}))
                                   \cup Tok(s, Args(s, Tok(s, I, {"["}), FALSE), {"]"})
                                   \cup Tok(s, Exprs(s, open), {")"})}
        \cup UNION {{<<i, p[2]>> : i \in Tok(s, {p[1]}, {")"})} : p \in Postfixes(s, open)}

Grown(s, P) ==
    LET ends == {p[1] : p \in P}
        from == Exprs(s, Tok(s, ends, {"["}))
        more == {<<i, "call">> : i \in Tok(s, Args(s, Tok(s, ends, {"("}), TRUE), {")"})}
                \cup {<<i, "field">> : i \in Tok(s, Tok(s, ends, {"."}), Names)}
                \cup {<<i, "index">> : i \in Tok(s, from, {"]"})}
                \cup {<<i, "other">> : i \in Tok(s, Exprs(s, Tok(s, from, {".."})), {"]"})}
    IN  IF more \subseteq P THEN P ELSE Grown(s, P \cup more)

Postfixes(s, I) == IF I = {} THEN {} ELSE Grown(s, Primaries(s, I))

Kinds(s, I, ks) == {p[1] : p \in {q \in Postfixes(s, I) : q[2] \in ks}}

AllKinds == {"name", "field", "index", "call", "other"}

Unaries(s, I) ==
    IF I = {} THEN {}
    ELSE LET minus == Tok(s, I, {"-"})
         IN  Kinds(s, I, AllKinds) \cup Tok(s, minus, {"int", "min"})
             \cup Unaries(s, {i \in minus : i <= Len(s) /\ s[i] # "int"})

Sums(s, I) ==
    IF I = {} THEN {} ELSE LET J == Unaries(s, I) IN J \cup Sums(s, Tok(s, J, {"-"}))

Comparisons(s, I) == LET J == Sums(s, I) IN J \cup Sums(s, Tok(s, J, {"<"}))

Exprs(s, I) ==
    IF I = {} THEN {} ELSE LET J == Comparisons(s, I) IN J \cup Exprs(s, Tok(s, J, {"&&"}))

----------------------------------------------------------------------------
Blocks(s, I) == Tok(s, Stmts(s, Tok(s, I, {"{"})), {"}"})

Ifs(s, I) ==
    IF I = {} THEN {}
    ELSE LET J == Blocks(s, Exprs(s, Tok(s, I, {"if"})))
             E == Tok(s, J, {"else"})
         IN  J \cup Ifs(s, E) \cup Blocks(s, E)

Variables(s, I) ==
    LET N == Tok(s, I, Names)
    IN  Tok(s, Exprs(s, Tok(s, N, {":="}) \cup Tok(s, Types(s, Tok(s, N, {":"})), {"="})), {";"})

Simple(s, I) ==
    Tok(s, Kinds(s, I, {"call"}) \cup Tok(s, I, {"break", "return"}) \cup Exprs(s, Tok(s, I, {"return"}))
           \cup Exprs(s, Tok(s, Kinds(s, I, {"name", "field", "index"}), {"="})), {";"})

Fors(s, I) ==
    LET J == Exprs(s, Tok(s, Tok(s, Tok(s, I, {"for"}), Names), {"in"}))
    IN  Blocks(s, J \cup Exprs(s, Tok(s, J, {".."})))

Stmts(s, I) ==
    IF I = {} THEN {}
    ELSE I \cup Stmts(s, Variables(s, I) \cup Simple(s, I) \cup Blocks(s, I) \cup Ifs(s, I)
                             \cup Blocks(s, Exprs(s, Tok(s, I, {"while"}))) \cup Fors(s, I))

----------------------------------------------------------------------------
Params(s, I) ==
    IF I = {} THEN {}
    ELSE LET J == Types(s, Tok(s, Tok(s, I, Names), {":"})) IN I \cup J \cup Params(s, Tok(s, J, {","}))

Body(s, I) ==
    LET J == Tok(s, I, {")"}) IN Blocks(s, J \cup Types(s, Tok(s, J, {"->"})))

Header(s, I) == Tok(s, Tok(s, Tok(s, I, {"func"}), Names), {"("})

Functions(s, I) == Body(s, Params(s, Header(s, I)))

Methods(s, I) ==
    LET J == Tok(s, Header(s, I), {"self"}) IN Body(s, J \cup Params(s, Tok(s, J, {","})))

Fields(s, I) == Tok(s, Types(s, Tok(s, Tok(s, I, Names), {":"})), {";"})

Members(s, I) == IF I = {} THEN {} ELSE I \cup Members(s, Fields(s, I) \cup Methods(s, I))

Structs(s, I) == Tok(s, Members(s, Tok(s, Tok(s, Tok(s, I, {"struct"}), Names), {"{"})), {"}"})

Decls(s, I) ==
    IF I = {} THEN {} ELSE I \cup Decls(s, Functions(s, I) \cup Structs(s, I) \cup Variables(s, I))

Derives(s) == Len(s) + 1 \in Decls(s, {1})
=============================================================================
