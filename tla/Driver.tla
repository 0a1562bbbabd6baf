------------------------------- MODULE Driver -------------------------------
(* One invocation of the compiler, driver/driver.c: the command line, the    *)
(* passes one after another, the tools it runs, the files it leaves behind   *)
(* and, for rivel, the program itself. What a pass computes is not its       *)
(* affair: the passes are parameters here, and Rivel puts in the real ones.  *)
(* A source is the tree the parser gives, with the number of errors of the   *)
(* two passes before.                                                        *)
(*                                                                           *)
(* The tools fail for reasons of their own: a disk that is full, a QBE or a  *)
(* runtime that is not installed, a linker that refuses. An invocation says  *)
(* whether they may.                                                         *)
EXTENDS Integers, FiniteSets, SequencesExt

CONSTANTS
    Invocations,                     \* what is run: see Init
    MaxErrors,                       \* Diags.max_errors: errors kept; 0 keeps all
    SemaCheck(_), LowerProgram(_), \* a tree checked; a checked tree lowered
    ModuleIndex(_, _),              \* where a checked tree declares and uses what
    AstDump(_), IrDump(_),         \* what the dumps print
    QbeEmit(_),                     \* what is written of a module
    QbeTakes(_), AsTakes(_),   \* what QBE and the assembler make of that
    Executes(_, _, _)                 \* how the program ends, in a world, given arguments

Nothing == [k |-> "none"]

ASSUME ErrorLimitAssumption == MaxErrors \in Nat

\* No argument is NULL; and the files with our names that are there already are
\* not ours.
NULL == ""
ASSUME InvocationAssumption ==
  \A i \in Invocations :
    /\ i.args \in Seq(STRING) /\ \A n \in DOMAIN i.args : i.args[n] # NULL
    /\ \A p \in DOMAIN i.disk : i.disk[p] # "mine"
    /\ i.source.lexical \in Nat /\ i.source.syntax \in Nat

\* The levels of what is found, of which rivelc and program are not.
Levels == {"error", "warning", "note"}

ASSUME CheckAssumption ==
  \A decls \in {i.source.decls : i \in Invocations} :
    LET checked == SemaCheck(decls)
    IN  /\ checked # Nothing
        /\ checked.ds \in Seq(Levels \X STRING)

EndsIn(s, end) == Len(s) > Len(end) /\ SubSeq(s, Len(s) - Len(end) + 1, Len(s)) = end
Cut(s, end) == SubSeq(s, 1, Len(s) - Len(end))
Local(path) == IF \E i \in 1..Len(path) : SubSeq(path, i, i) = "/" THEN path ELSE "./" \o path
default_output(input) ==
  IF EndsIn(input, ".rivel") THEN Local(Cut(input, ".rivel"))
  ELSE IF EndsIn(input, ".rv") THEN Local(Cut(input, ".rv"))
  ELSE input \o ".out"

\* What the output of an invocation may be called. An ending makes another name.
OutputNames(i) == {"/tmp/rivel-run"} \cup ToSet(i.args) \cup {default_output(arg) : arg \in ToSet(i.args)}
ASSUME EndingAssumption ==
  \A i \in Invocations : \A name \in OutputNames(i) :
    name # name \o ".il" /\ name # name \o ".s" /\ name \o ".il" # name \o ".s"

VARIABLES
    inv,       \* the invocation: command, args, source, world, mayFail
    pc,        \* the next thing driver_main does
    argv,      \* the arguments that parse_args has not read
    opts,      \* Options
    disk,      \* path |-> "source", "old" or "mine"
    diags,     \* Diags: the diagnostics kept and not yet printed, the errors counted
    prog,      \* Program: the checked tree
    ir, il,    \* the module, and what was written of it
    machine,   \* <<>>, or the program that was run: how it ended
    stdout,    \* what the driver printed there: what it is, and its text
    stderr,    \* diagnostics and messages, in the order they were printed
    status     \* the exit status

vars == <<inv, pc, argv, opts, disk, diags, prog, ir, il, machine, stdout, stderr, status>>
---------------------------------------------------------------------------
(* The command line                                                          *)

NoOptions == [input |-> NULL, output |-> NULL, target |-> NULL, run |-> FALSE, flags |-> {}, run_argv |-> <<>>, exit |-> -1]
Flags == {"--analyze", "--dump-tokens", "--dump-ast", "--dump-ir", "--emit-il", "--emit-asm", "--keep"}
Known == {"-h", "--help", "--version", "-o", "-t"} \cup Flags
IsOption(arg) == Len(arg) > 1 /\ SubSeq(arg, 1, 1) = "-"

Output == IF opts.run THEN "/tmp/rivel-run" ELSE IF opts.output # NULL THEN opts.output ELSE default_output(opts.input)
IlPath == Output \o ".il"
AsmPath == Output \o ".s"
Flag(f) == f \in opts.flags

\* For editors every pass goes over the source, whatever is wrong with it.
Analyzing == Flag("--analyze")

---------------------------------------------------------------------------
(* Helpers                                                                   *)

NoDiags == [items |-> <<>>, errors |-> 0]

\* Fault: the error that passes the limit is still kept.
diag_add_one_more(d, x) ==
  LET errors == IF x[1] = "error" THEN d.errors + 1 ELSE d.errors
  IN  [items |-> IF x[1] = "error" /\ MaxErrors # 0 /\ d.errors > MaxErrors THEN d.items ELSE Append(d.items, x),
       errors |-> errors]
\* Every error is counted, the first MaxErrors are kept, and all that is no error.
diag_add(d, x) ==
  LET errors == IF x[1] = "error" THEN d.errors + 1 ELSE d.errors
  IN  [items |-> IF x[1] = "error" /\ MaxErrors # 0 /\ errors > MaxErrors THEN d.items ELSE Append(d.items, x),
       errors |-> errors]
Added(d, found) ==
  LET after[i \in 0..Len(found)] == IF i = 0 THEN d ELSE diag_add(after[i - 1], found[i])
  IN  after[Len(found)]
diags_ok(d) == d.errors = 0

TooMany == <<"error", "stopping">>
Listing(d) == d.items \o (IF MaxErrors # 0 /\ d.errors > MaxErrors THEN <<TooMany>> ELSE <<>>)
diags_print == stderr' = stderr \o Listing(diags)

Errors(n, what) == [i \in 1..n |-> <<"error", what>>]
FoundByLexer == Errors(inv.source.lexical, "lexical")
FoundByParser == Errors(inv.source.syntax, "syntax")
Say(what) == stderr' = Append(stderr, <<"rivelc", what>>)
Exit(code) == pc' = "exited" /\ status' = code
Finish(code) == pc' = "done" /\ status' = code
Prints(what, text) == stdout' = Append(stdout, [what |-> what, text |-> text])

Write(path) == disk' = [p \in DOMAIN disk \cup {path} |-> IF p = path THEN "mine" ELSE disk[p]]
Removed(paths) == disk' = [p \in DOMAIN disk \ paths |-> disk[p]]
Exists(path) == path \in DOMAIN disk

Init ==
  /\ inv \in Invocations
  /\ pc = "start" /\ argv = inv.args /\ opts = NoOptions /\ disk = inv.disk /\ diags = NoDiags
  /\ prog = Nothing /\ ir = Nothing /\ il = Nothing /\ machine = <<>>
  /\ stdout = <<>> /\ stderr = <<>> /\ status = -1

---------------------------------------------------------------------------
(* parse_args, one action per branch of its loop                             *)

UnchangedByArgs == UNCHANGED <<inv, disk, diags, prog, ir, il, machine>>
Quiet == UNCHANGED <<pc, status, stdout, stderr>>
\* exit is the status parse_args ends the process with, -1 if it does not.
EndsWith(code) == opts' = [opts EXCEPT !.exit = code] /\ Exit(code) /\ UNCHANGED argv

StartArgs ==
  /\ pc = "start"
  /\ LET subcommand == argv # <<>> /\ argv[1] = "run"
     IN  /\ opts' = [opts EXCEPT !.run = inv.command = "rivel" \/ subcommand]
         /\ argv' = IF subcommand THEN Tail(argv) ELSE argv
  /\ pc' = "args"
  /\ UnchangedByArgs /\ UNCHANGED <<status, stdout, stderr>>

\* What follows the file that is run is the program's.
Settled == opts.run /\ opts.input # NULL
TakeRunArgs ==
  /\ pc = "args" /\ argv # <<>> /\ Settled
  /\ opts' = [opts EXCEPT !.run_argv = argv]
  /\ argv' = <<>>
  /\ UnchangedByArgs /\ Quiet

Reading == pc = "args" /\ argv # <<>> /\ ~Settled
NextArg == Head(argv)
ShowUsage ==
  /\ Reading /\ NextArg \in {"-h", "--help", "--version"}
  /\ EndsWith(0) /\ Prints("usage or version", <<>>)
  /\ UnchangedByArgs /\ UNCHANGED stderr

TakeValue ==
  /\ Reading /\ NextArg \in {"-o", "-t"} /\ Len(argv) > 1
  /\ opts' = IF NextArg = "-o" THEN [opts EXCEPT !.output = argv[2]] ELSE [opts EXCEPT !.target = argv[2]]
  /\ argv' = Tail(Tail(argv))
  /\ UnchangedByArgs /\ Quiet

SetFlag ==
  /\ Reading /\ NextArg \in Flags
  /\ opts' = [opts EXCEPT !.flags = @ \cup {NextArg}]
  /\ argv' = Tail(argv)
  /\ UnchangedByArgs /\ Quiet

TakeInput ==
  /\ Reading /\ ~IsOption(NextArg) /\ opts.input = NULL
  /\ opts' = [opts EXCEPT !.input = NextArg]
  /\ argv' = Tail(argv)
  /\ UnchangedByArgs /\ Quiet

\* An option without its value, one that is not known, or a second file.
Refused ==
  \/ NextArg \in {"-o", "-t"} /\ Len(argv) = 1
  \/ IsOption(NextArg) /\ NextArg \notin Known
  \/ ~IsOption(NextArg) /\ opts.input # NULL
RefuseArgs ==
  /\ (Reading /\ Refused) \/ (pc = "args" /\ argv = <<>> /\ opts.input = NULL)
  /\ EndsWith(2) /\ Say("usage")
  /\ UnchangedByArgs /\ UNCHANGED stdout

EndArgs ==
  /\ pc = "args" /\ argv = <<>> /\ opts.input # NULL
  /\ pc' = "load" /\ status' = 1
  /\ UnchangedByArgs /\ UNCHANGED <<argv, opts, stdout, stderr>>

---------------------------------------------------------------------------
(* The passes                                                                *)

\* There is no file of the name "-".
source_from_file == inv.source.readable /\ opts.input # "-"

\* What an editor has not saved yet comes in by the standard input.
FromStdin == Analyzing /\ opts.input = "-" /\ inv.source.readable

Load ==
  /\ pc = "load"
  /\ IF source_from_file \/ FromStdin THEN pc' = "lex" /\ UNCHANGED <<stderr, status>>
     ELSE Exit(2) /\ Say("cannot read")
  /\ UNCHANGED <<inv, argv, opts, disk, diags, prog, ir, il, machine, stdout>>

\* Fault: a dump succeeds whatever was found.
PassSucceeds(next, flag, what, text, found) ==
  /\ diags' = Added(diags, found)
  /\ IF Flag(flag) /\ ~Analyzing THEN Finish(0) /\ Prints(what, text)
     ELSE pc' = next /\ UNCHANGED <<stdout, status>>
  /\ UNCHANGED <<inv, argv, opts, disk, prog, ir, il, machine, stderr>>
\* A pass that a flag makes the last one: what it found decides the status.
Pass(next, flag, what, text, found) ==
  /\ diags' = Added(diags, found)
  /\ IF Flag(flag) /\ ~Analyzing THEN Finish(IF diags_ok(diags') THEN 0 ELSE 1) /\ Prints(what, text)
     ELSE pc' = next /\ UNCHANGED <<stdout, status>>
  /\ UNCHANGED <<inv, argv, opts, disk, prog, ir, il, machine, stderr>>
Lex == pc = "lex" /\ Pass("parse", "--dump-tokens", "tokens", <<>>, FoundByLexer)
Parse == pc = "parse" /\ Pass("check", "--dump-ast", "tree", AstDump(inv.source.decls), FoundByParser)

\* Nothing is checked after a lexical or a syntax error.
Check ==
  /\ pc = "check"
  /\ IF diags_ok(diags) \/ Analyzing
     THEN \E c \in {SemaCheck(inv.source.decls)} :
            /\ prog' = c
            /\ diags' = Added(diags, c.ds)
            /\ pc' = IF Analyzing THEN "index" ELSE IF diags_ok(diags') THEN "lower" ELSE "done"
     ELSE pc' = "done" /\ UNCHANGED <<prog, diags>>
  /\ UNCHANGED <<inv, argv, opts, disk, ir, il, machine, stdout, stderr, status>>

\* What was found, and where everything is declared and used.
Analyze ==
  /\ pc = "index"
  /\ Prints("analysis", [diagnostics |-> diags.items, index |-> ModuleIndex(prog, inv.source.decls)])
  /\ Exit(0)
  /\ UNCHANGED <<inv, argv, opts, disk, diags, prog, ir, il, machine, stderr>>

Lower ==
  /\ pc = "lower"
  /\ ir' = LowerProgram(prog)
  /\ IF Flag("--dump-ir") THEN Finish(0) /\ Prints("ir", IrDump(ir'))
     ELSE pc' = "print" /\ UNCHANGED <<stdout, status>>
  /\ UNCHANGED <<inv, argv, opts, disk, diags, prog, il, machine, stderr>>

\* The warnings, before the tools and the program have their say.
PrintWarnings ==
  /\ pc = "print"
  /\ diags_print
  /\ diags' = NoDiags
  /\ pc' = "write_il"
  /\ UNCHANGED <<inv, argv, opts, disk, prog, ir, il, machine, stdout, status>>

---------------------------------------------------------------------------
(* build_native                                                              *)

Fail(what) == Say(what) /\ pc' = "cleanup" /\ UNCHANGED status
UnchangedByBuild == UNCHANGED <<inv, argv, opts, diags, prog, ir, machine, stdout>>

WriteIl ==
  /\ pc = "write_il"
  /\ il' = QbeEmit(ir)
  /\ Write(IlPath)
  /\ IF Flag("--emit-il") THEN pc' = "cleanup" /\ status' = 0 ELSE pc' = "qbe" /\ UNCHANGED status
  /\ UnchangedByBuild /\ UNCHANGED stderr

\* fopen refuses, or fclose finds the disk full.
CannotWriteIl ==
  /\ pc = "write_il" /\ inv.mayFail
  /\ Fail("cannot write")
  /\ (UNCHANGED disk \/ Write(IlPath))
  /\ UnchangedByBuild /\ UNCHANGED il

NoBackend == pc = "qbe" /\ inv.mayFail /\ Fail("cannot find QBE") /\ UnchangedByBuild /\ UNCHANGED <<disk, il>>
Backend ==
  /\ pc = "qbe" /\ QbeTakes(il) = TRUE
  /\ Write(AsmPath)
  /\ IF Flag("--emit-asm") THEN pc' = "cleanup" /\ status' = 0 ELSE pc' = "link" /\ UNCHANGED status
  /\ UnchangedByBuild /\ UNCHANGED <<il, stderr>>
\* QBE has its output file open before it reads its input.
BackendFails ==
  /\ pc = "qbe" /\ (inv.mayFail \/ QbeTakes(il) = FALSE)
  /\ Fail("the backend failed")
  /\ (UNCHANGED disk \/ Write(AsmPath))
  /\ UnchangedByBuild /\ UNCHANGED il

NoRuntime == pc = "link" /\ inv.mayFail /\ Fail("cannot find the runtime") /\ UnchangedByBuild /\ UNCHANGED <<disk, il>>
Link ==
  /\ pc = "link" /\ AsTakes(il) = TRUE
  /\ Write(Output) /\ pc' = "cleanup" /\ status' = 0
  /\ UnchangedByBuild /\ UNCHANGED <<il, stderr>>
\* The linker takes away what it could not finish.
LinkFails ==
  /\ pc = "link" /\ (inv.mayFail \/ AsTakes(il) = FALSE)
  /\ Fail("linking failed")
  /\ (UNCHANGED disk \/ Removed({Output}))
  /\ UnchangedByBuild /\ UNCHANGED il

\* Fault: --keep keeps nothing of a build that failed.
UnwantedOfFailure ==
  (IF (Flag("--keep") /\ status = 0) \/ Flag("--emit-il") THEN {} ELSE {IlPath})
  \cup (IF (Flag("--keep") /\ status = 0) \/ Flag("--emit-asm") \/ Flag("--emit-il") THEN {} ELSE {AsmPath})
Unwanted ==
  (IF Flag("--keep") \/ Flag("--emit-il") THEN {} ELSE {IlPath})
  \cup (IF Flag("--keep") \/ Flag("--emit-asm") \/ Flag("--emit-il") THEN {} ELSE {AsmPath})
Cleanup ==
  /\ pc = "cleanup"
  /\ Removed(Unwanted)
  /\ IF status = 0 /\ opts.run THEN pc' = "run" /\ UNCHANGED status ELSE Finish(status)
  /\ UnchangedByBuild /\ UNCHANGED <<il, stderr>>

---------------------------------------------------------------------------
(* run_program, and the end                                                  *)

RunProgram ==
  /\ pc = "run" /\ Exists(Output)
  /\ \E m \in {Executes(il, inv.world, opts.run_argv)} :
       /\ machine' = <<m>>
       /\ Finish(IF m.state = "crash" THEN 1 ELSE m.code)
       /\ stderr' = IF m.state = "crash" THEN stderr ELSE Append(stderr, <<"program", m.panic>>)
  /\ Removed({Output})
  /\ UNCHANGED <<inv, argv, opts, diags, prog, ir, il, stdout>>
CannotRun ==
  /\ pc = "run" /\ (inv.mayFail \/ ~Exists(Output))
  /\ Say("cannot run") /\ Finish(1)
  /\ Removed({Output})
  /\ UNCHANGED <<inv, argv, opts, diags, prog, ir, il, machine, stdout>>

Done ==
  /\ pc = "done"
  /\ diags_print
  /\ pc' = "exited"
  /\ UNCHANGED <<inv, argv, opts, disk, diags, prog, ir, il, machine, stdout, status>>

\* The process is gone: no other state is without a next step.
Exited == pc = "exited" /\ UNCHANGED vars

ParseArgs ==
  StartArgs \/ TakeRunArgs \/ ShowUsage \/ TakeValue \/ SetFlag \/ TakeInput \/ RefuseArgs \/ EndArgs
Compile == Load \/ Lex \/ Parse \/ Check \/ Analyze \/ Lower \/ PrintWarnings
Build ==
  WriteIl \/ CannotWriteIl \/ NoBackend \/ Backend \/ BackendFails \/ NoRuntime \/ Link \/ LinkFails \/ Cleanup
Next == ParseArgs \/ Compile \/ Build \/ RunProgram \/ CannotRun \/ Done \/ Exited

Spec == Init /\ [][Next]_vars

---------------------------------------------------------------------------
(* Properties                                                                *)

Printed(what) == \E i \in DOMAIN stdout : stdout[i].what = what
Mine(path) == Exists(path) /\ disk[path] = "mine"
Asked ==
  IF opts.exit = 0 THEN Printed("usage or version")
  ELSE IF Analyzing THEN Printed("analysis")
  ELSE IF Flag("--dump-tokens") THEN Printed("tokens")
  ELSE IF Flag("--dump-ast") THEN Printed("tree")
  ELSE IF Flag("--dump-ir") THEN Printed("ir")
  ELSE IF opts.run THEN machine # <<>>
  ELSE IF Flag("--emit-il") THEN Mine(IlPath)
  ELSE IF Flag("--emit-asm") THEN Mine(AsmPath)
  ELSE Mine(Output)
\* driver_main's status 0 means that what was asked for is there. Any other one is
\* the program's own, or comes with a message that says why.
StatusTellsTheTruth ==
  pc = "exited" =>
    IF status = 0 THEN Asked /\ (\A i \in DOMAIN stderr : stderr[i][1] \notin {"error", "rivelc"})
    ELSE machine # <<>> \/ \E i \in DOMAIN stderr : stderr[i][1] \in {"error", "rivelc"}

Wanted ==
  (IF Flag("--keep") \/ Flag("--emit-il") THEN {IlPath} ELSE {})
  \cup (IF Flag("--keep") \/ Flag("--emit-asm") THEN {AsmPath} ELSE {})
  \cup (IF opts.run \/ Flag("--emit-il") \/ Flag("--emit-asm") THEN {} ELSE {Output})
OnlyWantedIsLeft == pc = "exited" => \A p \in DOMAIN disk : disk[p] = "mine" => p \in Wanted
WantedStays == \A p \in Wanted : Mine(p) => Mine(p)'
\* What rivelc leaves on the disk was asked for, whichever stage of build_native
\* failed, and a run leaves no program; what it wrote and was asked for it never
\* takes away again, so that --keep keeps what was made before a later stage failed.
FilesAsAsked == []OnlyWantedIsLeft /\ [][WantedStays]_vars

\* Nothing looks for mistakes behind the pass that was asked to be the last.
LastPass == IF Analyzing THEN "check" ELSE IF Flag("--dump-tokens") THEN "lex" ELSE IF Flag("--dump-ast") THEN "parse" ELSE "check"
Found ==
  IF LastPass = "lex" THEN FoundByLexer
  ELSE IF LastPass = "parse" THEN FoundByLexer \o FoundByParser
  ELSE FoundByLexer \o FoundByParser \o (IF prog = Nothing THEN <<>> ELSE prog.ds)
WasRead == opts.exit = -1 /\ (source_from_file \/ FromStdin)

\* The first n of what was found without the errors that are past the limit.
ErrorsUpTo(found, n) == Cardinality({i \in 1..n : found[i][1] = "error"})
KeptUpTo(found, n) == {i \in 1..n : found[i][1] = "error" /\ MaxErrors # 0 => ErrorsUpTo(found, i) <= MaxErrors}
NumberKept == Cardinality(KeptUpTo(Found, Len(Found)))
ShowsFound(s) ==
  \A i \in KeptUpTo(Found, Len(Found)) :
    LET place == Cardinality(KeptUpTo(Found, i)) IN place \in DOMAIN s /\ s[place] = Found[i]
\* The warnings and the first MaxErrors errors of the lexer, the parser and the checker
\* together are shown once, in the order found, before the tools and a program that
\* is run have their say; and a line says so when, and only when, errors were left out.
DiagnosticsReachTheUser ==
  (pc = "exited" /\ WasRead) =>
    IF Analyzing
    THEN /\ stderr = <<>> /\ Len(stdout) = 1
         /\ ShowsFound(stdout[1].text.diagnostics) /\ Len(stdout[1].text.diagnostics) = NumberKept
    ELSE /\ ShowsFound(stderr)
         /\ NumberKept < Len(Found) <=> NumberKept < Len(stderr) /\ stderr[NumberKept + 1] = TooMany
         /\ \A i \in NumberKept + 1 .. Len(stderr) :
              stderr[i][1] \in {"rivelc", "program"} \/ (i = NumberKept + 1 /\ stderr[i] = TooMany)
=============================================================================
