------------------------------- MODULE Rivel -------------------------------
(* The compiler as a whole: Driver with the passes of the other modules, the *)
(* programs it makes, and what the passes owe each other and the language.   *)
EXTENDS Driver, TLC

CONSTANTS
    Hash(_),                \* the string map's hash function
    Code(_),                \* the byte of a character of an argument
    Width, One,             \* bits of an int, the bits of 1.0
    Base, ByteLimit,        \* addresses, byte values
    ArgOrder,               \* which way the C compiler evaluates arguments
    MaxInstructions         \* bound: no program of the instance runs longer

ASSUME RivelAssumption ==
    /\ Width \in 4..16 /\ One = 4
    /\ Base \in Nat /\ Base >= 2^Width /\ ByteLimit \in Nat
    /\ ArgOrder \in {"left", "right"} /\ MaxInstructions \in Nat

Sema == INSTANCE Analysis
Texts == INSTANCE Dump
Low  == INSTANCE Lower
Back == INSTANCE Machine
Mean == INSTANCE Meaning

---------------------------------------------------------------------------
(* The passes that Driver runs                                               *)

Checked(decls) == Sema!sema_check(decls)
Indexed(checked, decls) == Sema!module_index(checked, decls)
Lowered(checked) == Low!lower_program(checked)
Emitted(module) == Back!qbe_emit(module)
Compiles(code) == Back!qbe_accepts(code)
Assembles(code) == Back!as_accepts(code)
TreeText(decls) == Texts!ast_dump(decls)
ModuleText(module) == Texts!ir_dump(module)

\* At most n instructions, in two halves. The driver waits for the last one.
RECURSIVE Ran(_, _, _)
Ran(code, m, n) ==
  IF m.state # "running" THEN m
  ELSE IF n = 1 THEN Back!Step(code, m)
  ELSE Ran(code, Ran(code, m, n \div 2), n - n \div 2)

ArgBytes(arg) == [i \in 1..Len(arg) |-> Code(SubSeq(arg, i, i))]
InWorld(world, args) == [world EXCEPT !.args = [i \in DOMAIN args |-> ArgBytes(args[i])]]
Executed(code, world, args) == Ran(code, Back!emit_main(code, InWorld(world, args)), MaxInstructions)

---------------------------------------------------------------------------
(* Properties                                                                *)

RanAs(meant) ==
  machine[1] = [machine[1] EXCEPT !.state = meant.state, !.code = meant.code, !.panic = meant.panic, !.text = meant.text,
                                  !.h.out = meant.out, !.h.err = meant.err, !.h.files = meant.files]
\* A program that was run did what docs/spec.md says the source means, through
\* checking, lowering, QBE's instructions and the runtime: it wrote that and
\* ended that way.
RunsAsMeant ==
  [][pc = "done" /\ machine # <<>> =>
       \E meant \in {Mean!Meant(prog, InWorld(inv.world, opts.run_argv))} : RanAs(meant)]_vars

\* qbe and the assembler take every module that qbe_emit writes: no use before a
\* definition, no instruction behind a jump, operands of the instruction's types.
CodeIsAccepted ==
  il # Nothing => Compiles(il) /\ Assembles(il) /\ Back!CallsAgree(il)

Clean(ds) == \A i \in DOMAIN ds : ds[i][1] # "error"

RECURSIVE Computed(_)
Computed(e) ==
  CASE e.k \in {"int", "float", "bool", "string"} -> TRUE
    [] e.k = "unary" -> Computed(e.operand)
    [] e.k = "binary" -> Computed(e.lhs) /\ Computed(e.rhs)
    [] OTHER -> FALSE
Globals(decls) == SelectSeq(decls, LAMBDA d : d.k = "global")
AsVariables(decls) ==
  LET vars_ == [i \in DOMAIN Globals(decls) |-> Sema!Var(Globals(decls)[i].name, Globals(decls)[i].type, Globals(decls)[i].init)]
  IN [i \in DOMAIN decls |-> IF decls[i].k = "func" /\ decls[i].name = "main" THEN [decls[i] EXCEPT !.body = vars_ \o @] ELSE decls[i]]
Comparable(constants) ==
  constants # <<>> /\ \A i \in DOMAIN constants : constants[i].type.k # "optional" /\ Computed(constants[i].init)
Twin(decls) == Checked(SelectSeq(AsVariables(decls), LAMBDA d : d.k # "global"))
FoldedLike(twin) ==
  Clean(twin.ds) => \E meant \in {Mean!Meant(twin, inv.world)} : Clean(prog.ds) <=> meant.state = "exit"
\* fold.c computes globals as the program would compute them as variables of main
\* at run time: a constant is refused when, and only when, that would panic.
FoldsLikeRun ==
  [][pc = "done" /\ prog # Nothing /\ Comparable(Globals(inv.source.decls)) =>
       \E twin \in {Twin(inv.source.decls)} : FoldedLike(twin)]_vars

Structs(decls) == SelectSeq(decls, LAMBDA d : d.k = "struct")
NeededBy(decls, names) ==
  {d.name : d \in {d \in ToSet(Structs(decls)) : \E n \in ToSet(Structs(decls)) : n.name \in names /\
     \E i \in DOMAIN n.fields : n.fields[i].type.k = "name" /\ n.fields[i].type.name = d.name}}
RECURSIVE NeededAfter(_, _, _)
NeededAfter(decls, names, n) == IF n = 0 THEN names ELSE LET more == NeededBy(decls, names) IN NeededAfter(decls, names \cup more, n - 1)
Circular(decls) ==
  \E d \in ToSet(Structs(decls)) : d.name \in NeededAfter(decls, NeededBy(decls, {d.name}), Len(decls))
\* check_struct_cycles refuses structs when, and only when, one of them could never
\* be made because each of a circle of them needs the next.
CyclesReported ==
  (pc = "exited" /\ prog # Nothing) =>
    (Circular(inv.source.decls) <=> \E i \in DOMAIN prog.ds : prog.ds[i] = <<"error", "requires itself">>)

\* The index that `rivelc --analyze` prints is what an editor takes it for: a name
\* and its uses renamed together leave the module what it was, and a variable is
\* only used where its scope says.
IndexHolds ==
  [][pc = "index" =>
       \E i \in {Indexed(prog, inv.source.decls)} : Sema!IndexIsRight(prog, inv.source.decls, i)]_vars

Dumped(flag) == {i.source : i \in {i \in Invocations : \E n \in DOMAIN i.args : i.args[n] = flag}}
Sound(s) == s.lexical = 0 /\ s.syntax = 0 /\ Clean(Checked(s.decls).ds)
Trees == [s \in Dumped("--dump-ast") |-> TreeText(s.decls)]
Modules == [s \in {s \in Dumped("--dump-ir") : Sound(s)} |-> Lowered(Checked(s.decls))]
ModuleDumps == [s \in DOMAIN Modules |-> ModuleText(Modules[s])]
ToldApart ==
  /\ Printed("tree") => \A s \in DOMAIN Trees : Trees[s] = stdout[1].text => s.decls = inv.source.decls
  /\ Printed("ir") => \A s \in DOMAIN Modules : ModuleDumps[s] = stdout[1].text => Modules[s] = ir
\* What ast_dump and ir_dump print tells two trees, or two modules, apart.
DumpsTellApart == [][pc = "done" => ToldApart]_vars
=============================================================================
