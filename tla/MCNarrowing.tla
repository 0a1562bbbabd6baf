---------------------------- MODULE MCNarrowing ----------------------------
(* Function bodies over one variable for the model checker.                  *)
EXTENDS Narrowing

CONSTANT x

OneVar == {x}

Use  == [k |-> "use", v |-> x]
Null == [k |-> "set", v |-> x, to |-> "null"]
Some == [k |-> "set", v |-> x, to |-> "some"]
Bump == [k |-> "bump", v |-> x]
Jump(k) == [k |-> k]
If(c, b, e) == [k |-> "if", cond |-> c, then |-> b, else |-> e]
While(c, b) == [k |-> "while", cond |-> c, body |-> b]
For(b) == [k |-> "for", body |-> b]
Block(b) == [k |-> "block", body |-> b]

Ne == [k |-> "ne", v |-> x]
Eq == [k |-> "eq", v |-> x]
Read == [k |-> "read", v |-> x]
Opaque == [k |-> "opaque"]
True == [k |-> "true"]

----------------------------------------------------------------------------
(* Every condition of up to two connectives, in the places one can stand.    *)

Atoms == {Ne, Eq, Read, Opaque, True}
Not(cs) == {[k |-> "not", e |-> c] : c \in cs}
Pairs(cs) == {[k |-> k, l |-> l, r |-> r] : k \in {"and", "or"}, l \in cs, r \in cs}
TwoTests == LET units == Atoms \cup Not(Atoms) IN units \cup Pairs(units) \cup Not(Pairs(units))

WithCondition(c) == <<
    <<If(c, <<Use>>, <<>>)>>,
    <<If(c, <<>>, <<Block(<<Use>>)>>)>>,
    <<If(c, <<Jump("return")>>, <<>>), Use>>,
    <<If(c, <<>>, <<Block(<<Jump("panic")>>)>>), Use>>,
    <<While(c, <<Use, Null>>)>>,
    <<While(c, <<Null, Jump("break")>>), Use>> >>

CondPrograms == {WithCondition(c)[i] : c \in TwoTests, i \in 1..6}

----------------------------------------------------------------------------
(* Every statement of up to two levels, before and inside other statements.   *)

Simple == {Use, Null, Some, Bump, Jump("break"), Jump("continue"), Jump("return")}
Short == {<<>>} \cup {<<s>> : s \in Simple}
Two == Short \cup {<<s, t>> : s \in Simple, t \in Simple}
Elses == {<<>>} \cup {<<Block(b)>> : b \in Short}

Compound ==
    {If(c, b, e) : c \in {Ne, Eq, Opaque}, b \in Two, e \in Elses}
    \cup {While(c, b) : c \in {Ne, Eq, Opaque, True}, b \in Two}
    \cup {For(b) : b \in Two} \cup {Block(b) : b \in Two}

WithStatement(s) == <<
    <<s, Use>>, <<s, Jump("break")>>,
    <<If(Ne, <<s, Use>>, <<>>)>>,
    <<If(Eq, <<Jump("return")>>, <<>>), s, Use>>,
    <<While(Ne, <<s>>)>>, <<While(True, <<s, Use>>)>>,
    <<For(<<s, Jump("break")>>), Jump("return")>> >>

FlowPrograms == {WithStatement(s)[i] : s \in Compound, i \in 1..7}

AllPrograms == CondPrograms \cup FlowPrograms

----------------------------------------------------------------------------
(* Where an assignment is forgotten.                                         *)

\* By the end of an if nested in the narrowed region.
NestedPrograms == {<<If(Ne, <<If(Opaque, b, <<>>), Use>>, <<>>)>> : b \in Two}

\* By the next iteration of a loop inside the narrowed region.
LoopPrograms == {<<If(Eq, <<Jump("return")>>, <<>>), While(Opaque, b)>> : b \in Two}

BlockPrograms == NestedPrograms \cup LoopPrograms

\* By the guard whose surviving branch made it.
GuardPrograms == {<<If(Eq, <<Jump("return")>>, <<Block(b)>>), Use>> : b \in Two}

----------------------------------------------------------------------------
(* The trees of these programs, and their heights.                           *)

Of(kinds, trees) == {t \in trees : t.k \in kinds}
First3(blocks) == {b[Min({i, Len(b)})] : b \in blocks \ {<<>>}, i \in 1..3}
BlocksOf(stmts) ==
    {s.then : s \in Of({"if"}, stmts)} \cup {s.else : s \in Of({"if"}, stmts)}
    \cup {s.body : s \in Of({"while", "for", "block"}, stmts)}
OperandsOf(cs) == {c.e : c \in Of({"not"}, cs)} \cup {c.l : c \in Of({"and", "or"}, cs)} \cup {c.r : c \in Of({"and", "or"}, cs)}

AllStatements ==
    LET whole  == First3(AllPrograms \cup BlockPrograms \cup GuardPrograms)
        parts  == First3(BlocksOf(whole))
        within == First3(BlocksOf(parts))
    IN  whole \cup (parts \cup (within \cup First3(BlocksOf(within))))

AllConditions ==
    LET whole == TwoTests \cup Atoms
    IN  whole \cup OperandsOf(whole) \cup OperandsOf(OperandsOf(whole))

RECURSIVE HeightOf(_)
HeightOf(t) == 1 + Max({0} \cup {HeightOf(p) : p \in Operands(t) \cup Inner(t)})

=============================================================================
