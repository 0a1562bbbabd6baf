----------------------------- MODULE Narrowing -----------------------------
(* The flow-sensitive part of the type checker (src/src/sema/check.c) and the
   control flow that lowering gives the program it accepted
   (src/src/lower/lower.c).  The checker lets a variable declared T? be used as
   a T wherever the facts it has collected say so; lowering then reads the slot
   with no test for null.  A behaviour starts with a program the checker
   accepts and runs it; a condition the model does not interpret may have
   either outcome.

   A program is a block: a sequence of statements, each a record.
     [k |-> "use", v]                     an expression statement that needs v as a T
     [k |-> "bump", v]                    a compound assignment to v
     [k |-> "set", v, to]                 v = null, or v = a T
     [k |-> "if", cond, then, else]       else: a sequence of at most one statement
     [k |-> "while", cond, body], [k |-> "for", body], [k |-> "block", body]
     [k |-> "break"], [k |-> "continue"], [k |-> "return"], [k |-> "panic"]
   A condition is also a record.
     [k |-> "ne", v], [k |-> "eq", v]     v != null, v == null
     [k |-> "read", v]                    a comparison that needs v as a T
     [k |-> "true"], [k |-> "opaque"]     the literal; anything else
     [k |-> "not", e], [k |-> "and", l, r], [k |-> "or", l, r]                *)
EXTENDS Integers, SequencesExt

CONSTANTS
    Vars,       \* the local variables, each declared with an optional type
    Conditions, \* the conditions
    Statements, \* and the statements that programs are made of,
    Height(_),  \* with the height of each of these trees
    Programs    \* the function bodies to consider

Blocks == Seq(Statements)

IsCondition(c) ==
    \/ c \in [k : {"ne", "eq", "read"}, v : Vars]
    \/ c \in [k : {"true", "opaque"}]
    \/ c \in [k : {"not"}, e : Conditions]
    \/ c \in [k : {"and", "or"}, l : Conditions, r : Conditions]

IsStatement(s) ==
    \/ s \in [k : {"use", "bump"}, v : Vars]
    \/ s \in [k : {"set"}, v : Vars, to : {"null", "some"}]
    \/ s \in [k : {"if"}, cond : Conditions, then : Blocks, else : Blocks]
    \/ s \in [k : {"while"}, cond : Conditions, body : Blocks]
    \/ s \in [k : {"for", "block"}, body : Blocks]
    \/ s \in [k : {"break", "continue", "return", "panic"}]

\* The conditions, and the statements, that are a part of one.
Operands(c) ==
    IF c.k = "not" THEN {c.e} ELSE IF c.k \in {"and", "or"} THEN {c.l, c.r} ELSE {}

Inner(s) ==
    IF s.k = "if" THEN Range(s.then) \cup Range(s.else)
    ELSE IF s.k \in {"while", "for", "block"} THEN Range(s.body)
    ELSE {}

ASSUME TreesAssumption ==
    /\ \A t \in Conditions \cup Statements : Height(t) \in Nat
    /\ \A c \in Conditions : IsCondition(c) /\ \A p \in Operands(c) : Height(p) < Height(c)
    /\ \A s \in Statements : IsStatement(s) /\ \A p \in Inner(s) : Height(p) < Height(s)

ASSUME ProgramsAssumption == Programs \subseteq Blocks

----------------------------------------------------------------------------
(* What the control flow of a statement says, before anything is typed.  The
   checker's functions call themselves for the parts of a statement: f is what
   the function gives for those.                                              *)

SomeIn(f, b) == \E i \in DOMAIN b : f[b[i]]
AllIn(f, b) == \A i \in DOMAIN b : f[b[i]]

HasBreak(f, s) ==
    \/ s.k = "break"
    \/ s.k = "if" /\ (SomeIn(f, s.then) \/ SomeIn(f, s.else))
    \/ s.k = "block" /\ SomeIn(f, s.body)
StmtHasBreak[s \in Statements] == HasBreak(StmtHasBreak, s)

\* Fault: only the block's own statements are looked at.
OwnBreak(b) == \E i \in DOMAIN b : b[i].k = "break"

BlockHasBreak(b) == SomeIn(StmtHasBreak, b)

\* Fault: every endless loop is taken to keep control.
EndlessKeepsControl(f, s) ==
    /\ s.k \notin {"return", "break", "continue", "panic"}
    /\ s.k = "if" => AllIn(f, s.then) \/ AllIn(f, s.else)
    /\ s.k = "while" => s.cond.k # "true"
    /\ s.k = "block" => AllIn(f, s.body)

FallsThrough(f, s) ==
    /\ s.k \notin {"return", "break", "continue", "panic"}
    /\ s.k = "if" => AllIn(f, s.then) \/ AllIn(f, s.else)
    /\ s.k = "while" => ~ (s.cond.k = "true" /\ ~ BlockHasBreak(s.body))
    /\ s.k = "block" => AllIn(f, s.body)
StmtFallsThrough[s \in Statements] == FallsThrough(StmtFallsThrough, s)

BlockFallsThrough(b) == AllIn(StmtFallsThrough, b)

----------------------------------------------------------------------------
(* The overlay of narrowing facts.  C is the checker: C.narrows the stack of
   facts, C.depth the number of enclosing loops, C.ok whether no error has been
   reported so far.                                                           *)

Checkers == [narrows : Seq([sym : Vars, type : {"optional", "value"}]), depth : Nat, ok : BOOLEAN]

EffectiveType(C, v) ==
    LET facts == {i \in DOMAIN C.narrows : C.narrows[i].sym = v}
    IN  IF facts = {} THEN "optional" ELSE C.narrows[Max(facts)].type

NarrowPush(C, v, type) ==
    [C EXCEPT !.narrows = Append(@, [sym |-> v, type |-> type])]

NarrowableVar(C, v) == EffectiveType(C, v) = "optional"

\* The facts that cond makes when its value is whenTrue.
Collect(f, C, cond, whenTrue) ==
    IF cond.k = "not" THEN f[cond.e][~ whenTrue][C]
    ELSE IF (cond.k = "and" /\ whenTrue) \/ (cond.k = "or" /\ ~ whenTrue) THEN
        f[cond.r][whenTrue][f[cond.l][whenTrue][C]]
    ELSE IF /\ cond.k \in {"ne", "eq"} /\ NarrowableVar(C, cond.v)
            /\ (cond.k = "ne") = whenTrue
    THEN NarrowPush(C, cond.v, "value")
    ELSE C
FactsOf[cond \in Conditions] ==
    [whenTrue \in BOOLEAN |-> [C \in Checkers |-> Collect(FactsOf, C, cond, whenTrue)]]

CollectFacts(C, cond, whenTrue) == FactsOf[cond][whenTrue][C]

Require(C, p) == [C EXCEPT !.ok = @ /\ p]

Truncate(C, base) == [C EXCEPT !.narrows = SubSeq(@, 1, base)]

----------------------------------------------------------------------------
(* Expressions.  A narrowed variable is never null, so comparing it with null
   is an error, as using an optional one is.                                  *)

CheckBinary(f, C, e) ==
    LET l == f[e.l][C]
        r == f[e.r][CollectFacts(l, e.l, e.k = "and")]
    IN  Truncate(r, Len(C.narrows))

CheckParts(f, C, e) ==
    IF e.k \in {"and", "or"} THEN CheckBinary(f, C, e)
    ELSE IF e.k = "not" THEN f[e.e][C]
    ELSE IF e.k = "read" THEN Require(C, EffectiveType(C, e.v) = "value")
    ELSE IF e.k \in {"ne", "eq"} THEN Require(C, EffectiveType(C, e.v) = "optional")
    ELSE C
CheckExpr[e \in Conditions] == [C \in Checkers |-> CheckParts(CheckExpr, C, e)]

----------------------------------------------------------------------------
(* Statements.                                                                *)

\* Fault: assigning leaves the narrowing alone.
AssignKeepsFacts(C, s) ==
    IF s.k = "bump" THEN Require(C, EffectiveType(C, s.v) = "value") ELSE C

CheckAssign(C, s) ==
    NarrowPush(
        IF s.k = "bump" THEN Require(C, EffectiveType(C, s.v) = "value") ELSE C,
        s.v, "optional")

\* After an if of which only one branch can be left, its condition is known.
GuardFacts(C, s) ==
    IF s.k # "if" \/ BlockFallsThrough(s.then) = BlockFallsThrough(s.else) THEN C
    ELSE CollectFacts(C, s.cond, BlockFallsThrough(s.then))

CheckStmts(f, C, b) ==
    LET after[i \in 0 .. Len(b)] ==
            IF i = 0 THEN C ELSE GuardFacts(f[b[i]][after[i - 1]], b[i])
    IN  after[Len(b)]

CheckBlock(f, C, b) == Truncate(CheckStmts(f, C, b), Len(C.narrows))

CheckIf(f, C, s) ==
    LET base == Len(C.narrows)
        then == CheckBlock(f, CollectFacts(CheckExpr[s.cond][C], s.cond, TRUE), s.then)
        else == CheckStmts(f, CollectFacts(Truncate(then, base), s.cond, FALSE), s.else)
    IN  Truncate(else, base)

CheckLoop(f, C, b) ==
    LET body == CheckBlock(f, [C EXCEPT !.depth = @ + 1], b)
    IN  [body EXCEPT !.depth = @ - 1]

CheckWhile(f, C, s) ==
    Truncate(CheckLoop(f, CollectFacts(CheckExpr[s.cond][C], s.cond, TRUE), s.body), Len(C.narrows))

CheckFor(f, C, s) == CheckLoop(f, C, s.body)

Check(f, C, s) ==
    IF s.k \in {"set", "bump"} THEN CheckAssign(C, s)
    ELSE IF s.k = "use" THEN Require(C, EffectiveType(C, s.v) = "value")
    ELSE IF s.k = "if" THEN CheckIf(f, C, s)
    ELSE IF s.k = "while" THEN CheckWhile(f, C, s)
    ELSE IF s.k = "for" THEN CheckFor(f, C, s)
    ELSE IF s.k = "block" THEN CheckBlock(f, C, s.body)
    ELSE IF s.k \in {"break", "continue"} THEN Require(C, C.depth > 0)
    ELSE C
CheckStmt[s \in Statements] == [C \in Checkers |-> Check(CheckStmt, C, s)]

----------------------------------------------------------------------------
(* What runs.  frames is the control stack: a block with the index of its next
   statement, or a loop whose header is tested whenever it is on top.          *)

VARIABLES
    prog,       \* the function body
    frames,     \* the control stack, innermost first
    val,        \* for each variable, whether its slot holds null
    outcome     \* "running", or how the run ended

vars == <<prog, frames, val, outcome>>

NewChecker == [narrows |-> <<>>, depth |-> 0, ok |-> TRUE]

Accepted(b) == CheckBlock(CheckStmt, NewChecker, b).ok

AcceptedPrograms == {b \in Programs : Accepted(b)}

\* Only such a body may belong to a function that returns a value.
MustReturn(b) == ~ BlockFallsThrough(b)

BlockFrame(b) == [k |-> "block", block |-> b, next |-> 1]

LoopFrame(s) == [k |-> "loop", stmt |-> s]

Init ==
    /\ prog \in AcceptedPrograms
    /\ frames = <<BlockFrame(prog)>>
    /\ val \in [Vars -> {"null", "some"}]
    /\ outcome = "running"

\* The ways a condition can come out; "null" when it reads a null as a T.
Outcome(f, c) ==
    IF c.k = "ne" THEN {IF val[c.v] = "some" THEN "yes" ELSE "no"}
    ELSE IF c.k = "eq" THEN {IF val[c.v] = "some" THEN "no" ELSE "yes"}
    ELSE IF c.k = "read" THEN IF val[c.v] = "some" THEN {"yes", "no"} ELSE {"null"}
    ELSE IF c.k = "true" THEN {"yes"}
    ELSE IF c.k = "opaque" THEN {"yes", "no"}
    ELSE IF c.k = "not" THEN {IF o = "yes" THEN "no" ELSE IF o = "no" THEN "yes" ELSE o : o \in f[c.e]}
    ELSE IF c.k = "and" THEN UNION {IF o = "yes" THEN f[c.r] ELSE {o} : o \in f[c.l]}
    ELSE UNION {IF o = "no" THEN f[c.r] ELSE {o} : o \in f[c.l]}
Outcomes[c \in Conditions] == Outcome(Outcomes, c)

Top == Head(frames)

AtStmt == outcome = "running" /\ Top.k = "block" /\ Top.next <= Len(Top.block)

AtLoop == outcome = "running" /\ Top.k = "loop"

Cur == Top.block[Top.next]

Rest == [frames EXCEPT ![1].next = @ + 1]

Stop(how) == outcome' = how /\ frames' = <<>> /\ UNCHANGED <<prog, val>>

Continue(fs) == frames' = fs /\ UNCHANGED <<prog, outcome>>

\* A use, or a compound assignment, reads the slot as a T.
LowerName ==
    /\ AtStmt /\ Cur.k \in {"use", "bump"}
    /\ IF val[Cur.v] = "null" THEN Stop("nullRead") ELSE Continue(Rest) /\ UNCHANGED val

LowerAssign ==
    /\ AtStmt /\ Cur.k = "set"
    /\ Continue(Rest) /\ val' = [val EXCEPT ![Cur.v] = Cur.to]

LowerIf ==
    /\ AtStmt /\ Cur.k = "if"
    /\ \E o \in Outcomes[Cur.cond] :
          IF o = "null" THEN Stop("nullRead")
          ELSE /\ Continue(<<BlockFrame(IF o = "yes" THEN Cur.then ELSE Cur.else)>> \o Rest)
               /\ UNCHANGED val

LowerBlock ==
    /\ AtStmt /\ Cur.k = "block"
    /\ Continue(<<BlockFrame(Cur.body)>> \o Rest) /\ UNCHANGED val

EnterLoop ==
    /\ AtStmt /\ Cur.k \in {"while", "for"}
    /\ Continue(<<LoopFrame(Cur)>> \o Rest) /\ UNCHANGED val

\* The header: a while tests its condition, a for runs out at some point.
LoopHeader ==
    /\ AtLoop
    /\ \E o \in IF Top.stmt.k = "while" THEN Outcomes[Top.stmt.cond] ELSE {"yes", "no"} :
          IF o = "null" THEN Stop("nullRead")
          ELSE /\ Continue(IF o = "yes" THEN <<BlockFrame(Top.stmt.body)>> \o frames
                                        ELSE Tail(frames))
               /\ UNCHANGED val

Loops == {i \in DOMAIN frames : frames[i].k = "loop"}

InnermostLoop == CHOOSE i \in Loops : \A j \in Loops : i <= j

LowerBreak ==
    /\ AtStmt /\ Cur.k = "break"
    /\ IF Loops = {} THEN Stop("lost")
       ELSE Continue(SubSeq(frames, InnermostLoop + 1, Len(frames))) /\ UNCHANGED val

LowerContinue ==
    /\ AtStmt /\ Cur.k = "continue"
    /\ IF Loops = {} THEN Stop("lost")
       ELSE Continue(SubSeq(frames, InnermostLoop, Len(frames))) /\ UNCHANGED val

LowerReturn == AtStmt /\ Cur.k \in {"return", "panic"} /\ Stop("left")

\* The end of a block; that of the function's own block ends the run.
BlockEnd ==
    /\ outcome = "running" /\ Top.k = "block" /\ Top.next > Len(Top.block)
    /\ IF Len(frames) = 1 THEN Stop("ended") ELSE Continue(Tail(frames)) /\ UNCHANGED val

Next ==
    \/ LowerName \/ LowerAssign \/ LowerIf \/ LowerBlock \/ EnterLoop \/ LoopHeader
    \/ LowerBreak \/ LowerContinue \/ LowerReturn \/ BlockEnd

Spec == Init /\ [][Next]_vars

----------------------------------------------------------------------------
(* Properties.                                                                *)

TypeOK ==
    /\ prog \in AcceptedPrograms
    /\ val \in [Vars -> {"null", "some"}]
    /\ outcome \in {"running", "left", "ended", "nullRead", "lost"}
    /\ (outcome = "running") = (frames # <<>>)

\* docs/spec.md 2.3: assigning to a narrowed variable ends the narrowing from
\* that point, so no program the checker accepts reads a null as a T.
AssignmentEndsNarrowing == outcome # "nullRead"

\* The variables a statement assigns, and those a condition tests, anywhere in it.
AssignedIn(f, b) == UNION {f[b[i]] : i \in DOMAIN b}
Assigns(f, s) ==
    IF s.k \in {"set", "bump"} THEN {s.v}
    ELSE IF s.k = "if" THEN AssignedIn(f, s.then) \cup AssignedIn(f, s.else)
    ELSE IF s.k \in {"while", "for", "block"} THEN AssignedIn(f, s.body)
    ELSE {}
Assigned[s \in Statements] == Assigns(Assigned, s)

Tests(f, c) ==
    IF c.k \in {"ne", "eq"} THEN {c.v}
    ELSE IF c.k = "not" THEN f[c.e]
    ELSE IF c.k \in {"and", "or"} THEN f[c.l] \cup f[c.r]
    ELSE {}
Tested[c \in Conditions] == Tests(Tested, c)

\* What may have been narrowed at statement i of b, given what may be before b.
Seen(b, i, outer) ==
    outer \cup UNION {Tested[b[j].cond] : j \in {h \in 1 .. i - 1 : b[h].k = "if"}}

\* No statement nested in b assigns a variable that a test outside it may have
\* narrowed, and no if that guards what follows it assigns what it tests.
ConfinedIn(f, b, outer) == \A i \in DOMAIN b : f[b[i]][Seen(b, i, outer)]
Confines(f, s, outer) ==
    /\ s.k \in {"if", "while", "for", "block"} => Assigned[s] \cap outer = {}
    /\ s.k = "if" =>
          /\ \/ BlockFallsThrough(s.then) = BlockFallsThrough(s.else)
             \/ Assigned[s] \cap Tested[s.cond] = {}
          /\ ConfinedIn(f, s.then, outer \cup Tested[s.cond])
          /\ ConfinedIn(f, s.else, outer \cup Tested[s.cond])
    /\ s.k = "while" => ConfinedIn(f, s.body, outer \cup Tested[s.cond])
    /\ s.k \in {"for", "block"} => ConfinedIn(f, s.body, outer)
StmtConfined[s \in Statements] == [outer \in SUBSET Vars |-> Confines(StmtConfined, s, outer)]

Confined(b) == ConfinedIn(StmtConfined, b, {})

\* What the overlay does guarantee: a program that assigns a variable only in
\* the block that narrowed it, or where nothing did, never reads a null as a T.
ConfinedNeverReadsNull == outcome = "nullRead" => ~ Confined(prog)

\* A function that returns a value never runs off the end of its body, where
\* lowering puts a trap.
ValueIsReturned == outcome = "ended" => ~ MustReturn(prog)

\* What the checker warns of as unreachable never runs.
UnreachableNeverRuns ==
    AtStmt => BlockFallsThrough(SubSeq(Top.block, 1, Top.next - 1))

=============================================================================
