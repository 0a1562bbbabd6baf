# Rivel: models, model checks and proofs

Rivel is a small statically typed language. `rivelc` compiles one source file through the stages
lexer, parser, checker, lowering, QBE IL, `qbe`, `cc`, and links the result with a C runtime that
brings a tracing garbage collector. A language server in `tools/lsp` runs the same compiler behind
an editor. This directory holds TLA+ modules for the parts of that system whose correctness
depends on order, on state that outlives a call, or on arithmetic at a boundary; TLC
configurations that check them on small instances; and proofs, checked by TLAPS, that hold for
every instance. The compiler is modelled from its command line to the instructions of the program
it makes, so that what a program means can be compared with what the compiled program does. Paths
below are those of the repository; `PROJECT.json` maps each definition to the lines it stands for.

## 1. The system

| part | state it keeps | operations | what makes it hard | what makes it correct |
|---|---|---|---|---|
| garbage collector (`runtime/rivel_rt.c` 341-487) | object headers with a type and a mark bit, mark stack, registered globals; it reads the C stack | `rv_alloc`, `rv_gc_collect` | runs between any two steps of the program; part of its roots are guessed (any stack word); two collections must not disturb each other | nothing reachable is freed; what it frees is garbage; everything unreachable goes; it ends |
| allocator (120-335) | pages with one size class and a free list, lists of pages with room, sorted large objects, address bounds, byte counts | `gc_alloc`, `new_page`, `new_large`, the sweep, `find_object` | any word must resolve to the right object or none; four registries describe the same memory | objects never overlap; every inner word resolves; free lists and counts are exact |
| page table (187-226) | open-addressing hash table of pages | insert, rebuild, lookup | collisions, wrap-around, growth during use, no tombstones | a lookup finds exactly the registered pages and ends |
| lists (945-1116) and `for` loops (`src/lower/lower.c` 920-970) | list object (length, capacity, pointer), storage object | append, pop, insert, remove, get, set, clear, slice; a loop that caches the length | storage is replaced on growth and reused after a collection; loop bodies change the list | every operation acts as on a sequence; lists do not share storage; no access outside it |
| checker, flow-sensitive part (`src/sema/check.c`) | stack of narrowing facts, loop depth | `collect_facts`, `check_block`, `stmt_falls_through` and others | facts are dropped and added at block ends, guards and assignments; loops run their body again | an accepted program reads no null as a `T`; jumps have targets; every path returns |
| checker, the rest (`check.c`, `types.c`, `builtins.c`, `base/strmap.c`) | symbols, scopes, interned types | passes over declarations, one function per expression and statement | declarations in any order, circles of structs, expected types that flow into expressions, an error that must not cause others | accepted programs are well typed, and mean what the specification says; one mistake, one report |
| constant folding (`sema/fold.c`) | none | `fold` | a second copy of the runtime's arithmetic | folding refuses what would panic and computes what the program would |
| lowering (`lower/lower.c`), IR (`ir/ir.c`), QBE printer (`backend/qbe.c`) | current block, slots, loop stack, literals | one function per construct, then one line of IL per instruction | blocks opened within expressions, jumps out of nested constructs, code behind a jump, the order of evaluation, layouts that the runtime must share | the IL is accepted and does what the source says |
| the rest of the runtime (`rivel_rt.c` 518-944, 1117-1282) | the heap, files, standard streams | checked arithmetic, texts, boxes, structural equality, conversions, I/O | boundaries of integers, empty texts, optional results | as the specification says of each operation |
| language server (`tools/lsp/server.mjs`) | a state object per open document, timers, promises, compiler processes | notifications, requests, timers, process ends | everything interleaves at each `await`; edits make running work obsolete | nothing stale is published or answered; the client's view catches up |
| parser (`src/parse/parser.c`) | token position, panicking flag, the C stack | one function per nonterminal, `sync_stmt`, `sync_decl` | after an error it goes on from wherever it is; each loop relies on the others to consume something | it accepts the grammar and nothing else; declarations after an error are found; it ends |
| lexer (`src/lex/lexer.c`), sources and diagnostics (`base/source.c`, `base/diag.c`) | position, mode stack, scratch text, tokens | `lex_source` and the loops in it | interpolated strings nest and are cut off; lookahead at the end; largest integers, code points | tokens are those of the grammar, balanced; it ends; errors point at their place |
| driver (`driver/driver.c`) | options, diagnostics, temporary files | `parse_args`, the passes, `build_native`, `run_program` | each stage may fail, and flags combine | files are removed or kept as asked; status and messages tell the truth |
| IDE analysis (`ide/analysis.c`), dumps (`ast_dump.c`, `ir.c`) | none | walks over the typed tree and the module | names are looked up again after the scopes have gone; escapes | the index is fit for renaming; different trees print differently |

How they interact. Generated code calls the runtime; the runtime calls the collector inside
`gc_alloc` only; the collector reads the program's globals (registered at start by the code
`lower.c` emits), its stack and the heap. The allocator answers the collector's question "which
object is this word in" through the page table and the array of large objects, and the sweep
rewrites both. The checker's conclusions are trusted by lowering: a narrowed variable is read
without a null test, a function whose body cannot fall through gets no return at its end, a
`break` takes the top of the lowerer's loop stack. The language server talks to the client by
messages and to the compiler by a child process; all its state is in one process, on one event
loop.

The hazards of this code, each at its line with the properties aimed at it, are listed in
`PROJECT.json` under `hazards`.

## 2. Modules

| module | what it is | instances and proofs |
|---|---|---|
| `ManagedMemory` | what a garbage-collected heap promises: objects come with blank cells and vanish only when unreachable | refined by `Collector` |
| `Collector` | the program, the roots, the conservative stack, marking and sweeping | `MCCollector`, `CollectorProofs` |
| `PageHeap` | the allocator, address by address | `MCPageHeap`, `PageHeapProofs` |
| `PageTable` | the hash table of pages, probe by probe | `MCPageTable`, `PageTableProofs` |
| `Lists` | sequences shared by reference, as `docs/spec.md` describes lists | refined by `RtList` |
| `RtList` | list objects over storage objects, and the lowered `for` loop | `MCRtList`, `RtListProofs` |
| `Narrowing` | the checker's facts over a syntax tree, and the control flow lowering emits for accepted programs | `MCNarrowing`, `NarrowingProofs` |
| `ParseRecovery` | the parser: tokens consumed, errors reported, recovery | `MCParseRecovery` |
| `Grammar` | the grammar of `docs/spec.md`, as a recogniser | what `ParseRecovery` is compared with |
| `SourceText`, `Lexer` | a text, positions, diagnostics and excerpts; the lexer character by character, and `--dump-tokens` | `MCLexer`, `LexerProofs` |
| `Lexis` | the lexical grammar of `docs/spec.md`, section 1, as a recogniser | what `Lexer` is compared with |
| `LspServer` | documents, states, timers, compilers and requests on the event loop | `MCLspServer`, `LspServerProofs` |
| `Driver` | one invocation of the compiler: arguments, passes, tools, files, status. What the passes compute is a parameter | `DriverProofs`; checked within `Rivel` |
| `Rivel` | `Driver` with the passes of the modules below, and the program it runs | `MCRivel`, over the programs of `MCPrograms` |
| `Types` | the tree, types and built-ins | used by the next three |
| `Scopes`, `Checker` | the string map, symbols, scopes, facts, diagnostics; the passes and rules of `check.c` | within `Rivel` |
| `Fold`, `Numbers` | constant folding; integers of a small width, floats on a grid | within `Rivel` |
| `Ir`, `Lower` | the emitters of `ir.c`; lowering | within `Rivel` |
| `Qbe`, `Machine`, `RtValues` | what is written for QBE and what QBE demands; the program, one instruction a step; the runtime's functions on values | within `Rivel` |
| `Analysis`, `Dump` | the index for editors; the dumps of trees and modules | within `Rivel` |
| `Meaning` | an evaluator of typed programs after `docs/spec.md`, sections 2 to 7, that knows nothing of cells, blocks or the runtime | what the compiled program is compared with |

How the layers meet. `Collector` names objects and lets any free object be handed out;
`PageHeap` is what makes that true: `FindsEveryObject` is the assumption behind `MarkWords`
(a word in an object resolves to that object, no other word resolves), `NoOverlap` the one behind
giving each object cells of its own. `PageHeap` in turn takes `page_lookup` to be exact, which is
`PageTable`'s `LookupExact`. `RtList` takes from `Collector` that unreferenced storage may be
reused and referenced storage may not (`FreeStores`). `RtValues` takes from `Collector` that a collection
changes nothing a program can see (its heap only grows) and from `RtList` that lists behave as sequences.
`Rivel` takes a source to be the tree the parser gives, with the number of errors of the two passes
before; that those give the right tree is the subject of `Lexer` and `ParseRecovery`.

Correspondence with the code, where it is not one definition per function:

* `Collector`. `ti`, `cells` and `mark` are the fields of `RvHeader` and the object's cells; `work` is the
  mark stack as a set, because the properties do not depend on the order. `local` is what live C
  and QBE temporaries hold, in frame words or callee-saved registers; `junk` is any other content
  of stack words, chosen afresh at each collection. `pc` divides `rv_gc_collect` at its loops.
  `Mutator` is any code: QBE's moves, loads and stores, and the runtime's own. A collection is
  allowed at every allocation, whatever the byte counts say, which includes every policy.
* `PageHeap`. Addresses are numbers; `malloc` and `posix_memalign` return any free aligned block. A
  collection marks any subset of what `find_object` can return, so that the sweep is tested on
  all outcomes of marking. `obj` is the ghost record of which object the program was given where.
  Loops over slots or entries that keep some of them, in order (a new page's free list, the sweep of a page, the compaction of the
  large objects), are ascending enumerations of the set that stays, `Ascending` and `Kept`; the two binary searches are recursive functions,
  halving as the code does.
* `PageTable`. `pages` is a set; the order of reinsertion does not matter to the properties. The rebuild is
  broken into growth, blanking and insertions.
* `RtList`. `store[s]` are the cells of a storage object. An unreferenced storage object keeps its contents until
  it is handed out again, zeroed as `gc_alloc` does. `list_reserve`'s loop is one doubling, as
  every caller needs one more cell than the list has.
* `Narrowing`. Programs are records. What a condition and a statement may be is said by `IsCondition` and `IsStatement` of two constants,
  `Conditions` and `Statements`, with a `Height` that falls from a tree to its parts; functions that call themselves for the parts are
  recursive functions over them. `CheckBlock` and the operators below it are the checker's functions over a
  record with the fact stack, the loop depth and the error flag. The actions run what lowering
  emits, one statement at a time; a condition the model does not interpret has either outcome.
* `ParseRecovery`. The C stack is a sequence of what is left to do; each function of the parser is an action that
  takes the first entry off and puts there what it goes on to call. A token is its kind, and one kind stands for
  the operators of a level or the literals. `sync_stmt` and `sync_decl` are the first position that
  stops their loop. Of the tree the spans of declarations remain, and the kind of an expression where an
  error depends on it. `parse_global` is the statement's `ParseVar`; `ParseExpr` and `ParseOr` are
  the three levels of weak operators in one, which accept the same tokens.
* `Lexer`. One action per round of a loop. Characters are one-letter strings; those that lead nowhere else are
  represented by a few. Literals keep their value, reduced to `Width` bits.
* `Driver`. One action per statement of `driver_main` that can fail or change something, and one per branch of the loop in `parse_args`.
  `SemaCheck`, `LowerProgram`, the dumps, the index and the tools are constants, of which it is assumed only that checking
  gives a tree and a sequence of diagnostics. `diag_add` counts every error and keeps the first `MaxErrors` of all passes together, which is
  what `--analyze` and `diags_print` have; the latter adds a line when there were more.
* `Rivel`. It gives those constants the modules below. `Executes`
  takes `Machine!Step`, one instruction, until the program ends or has made `MaxInstructions` of them. The passes are pure functions of the code, so they are operators, with a definition for each
  function of the source: `check(C, e, expected)` returns the checker and the tree with its types, `lower_expr(L, e)`
  the lowerer and the value. State that the C code keeps in a struct is a record that is passed along.
  A place in the source is a path from the module to a node. Integers have `Width` bits, floats
  are multiples of a quarter with infinities and a value that is no number, and both are integers in a register, as in the machine.
* `Machine`. A pointer is `Base` plus the number of an object. Calls of the runtime are one step. The order in which a C compiler evaluates
  arguments is a constant, `ArgOrder`, because `lower.c` depends on it; the instance has the order of gcc on x86-64.
* `Analysis`. JSON texts are sequences of records, ranges are paths.
* `LspServer`. One action per callback, including the promise continuations that it makes ready. `st[d]` is
  the sequence of state objects that document `d` went through, `states[d]` the one in the map.
  `hover` stands for every handler that answers from the analysis it awaited; `rename` and
  `completion` compile a second time; `symbols` goes through the map by `place`, and then through the files.

Definitions whose comment begins with "Fault:" are variants of a definition with one plausible
mistake. No specification uses them; they are there so that each property can be seen to fail
when the code is wrong in the way it is meant to catch.

## 3. What the checks show

| run | instance | states something about |
|---|---|---|
| `collector` | 2 objects with two cells (a struct with a pointer and a scalar field, pointer storage); a global, a frame word, a register | no dangling reference, the marking invariant, exactly garbage is freed, a collection ends, refinement of `ManagedMemory` |
| `page_heap` | 3 blocks of 4 units, classes of 2 and 3 units, requests of 1, 2, 3 and 5 | overlap, address resolution, free lists, accounting and pacing |
| `page_table` | 6 pages, tables of 2 to 16, three pages with one home slot | exact lookup, probe loops end |
| `lists` | 2 lists, 2 values, 3 storage objects, capacity 1 to 2 | storage is never shared nor too small and its unused cells are zero, loops over changing lists, refinement of `Lists` |
| `narrowing` | 5,834 accepted programs: every condition of up to two connectives in six places; compound statements of two levels in seven contexts | narrowing, returns, unreachable code |
| `narrowing_blocks` | the shape of 3.1 | violated |
| `parser` | 28,868 inputs: all short sequences over the tokens and phrases that matter in a block, an expression, an f-string, a type, a struct, a parameter list or a module; faulty text before a function | acceptance, recovery, ending |
| `parser_stuck` | up to 2 tokens in a block or a struct | violated |
| `lexer` | 40,308 texts: all short sequences of the characters that matter in an f-string, an escape, a code point, a comment, a number, an operator, a word | tokens are the grammar's and nest, positions and excerpts, dumps, ending |
| `lsp_server` | 2 documents, one of which goes through two states and may be closed and opened again, 2 compilers, a request of any kind | nothing stale is published, compared answers are fresh, workspace symbols leave out no document that stays, diagnostics catch up, every request is answered |
| `rivel` | 7,276 invocations: families of programs over numbers, structs, statements, texts, lists, evaluation order, whole programs, programs with one mistake; every kind of command line with failing tools and existing files; sources with more errors than are kept; programs to index and dump | compiled programs do what they mean, folding, what is refused and in how many reports, files, status, diagnostics, index, dumps |
| `rivel_build` | two global texts | violated |

In `rivel`, what each property adds to `RunsAsMeant`, the comparison with `Meaning`: `CodeIsAccepted` covers all blocks,
also those that are never run; `FoldsLikeRun` runs globals a second time as variables of `main`; `CyclesReported` compares the search
for circles of structs with reachability; `IndexHolds` renames every symbol of the index and checks the program again;
`DumpsTellApart` compares every two sources of a family. These four, `RunsAsMeant` included, are about the step that
computes what they compare, and so are action properties, evaluated once per computation. `StatusTellsTheTruth`, `FilesAsAsked` and
`DiagnosticsReachTheUser` are about the driver under every failure. `FilesAsAsked` is an invariant at the end (only what was asked for stays) and an action
property (what was asked for and written is never removed, so that `--keep` keeps the code of a build that fails later). `DiagnosticsReachTheUser` counts in
the list of all that the passes found which diagnostics the error limit lets through, and wants those shown, each at its place, and the line about further errors
exactly when some were left out. Programs with one mistake must be
refused with one report (`OneReport`), and a program that is accepted must be one that `Meaning` can evaluate: TLC reports an error where it is not.

Why the bounds are enough to be interesting.

* Two objects with two cells are a self reference, a cycle, garbage that points at a live object, and a
  scalar that spells an address. An object is freed, its slot reused and freed again. Both
  kinds of stack root and a global are present. The proofs remove these bounds.
* In `PageHeap` requests are below, at and above a class; a page of four units has two slots of class 1, or one slot of class 2 and a tail that
  is no slot; a large object spans a block boundary; three blocks allow a page and a large
  object, or pages of both classes, with one returned between.
* Six pages force three growths from the smallest table, half of them in one chain that wraps around.
  The proofs remove these bounds too, and that on the hash function.
* A list grows once, and there is one storage object more than there are lists, so that storage
  is always reused soon. Two elements of two values, zero cells beside them, show a shift that is off by one.
* Two levels of nesting are where facts of an inner and an outer block meet; a third adds nothing
  `check_block` does not do at the second, as it truncates to the length at its own start.
* Four to six characters behind a prefix reach each loop of the lexer with every way to go on or to end, two nested f-strings
  included. A width of 4 bits puts the largest integer within two digits in each base.
* Programs combine two statements in each context, two operations on a list, two operands of each
  operator: what lowering does for one construct depends on the code around it only through the current block, the
  loop stack and slots. 8 bits and six integers, among them the extremes, reach each overflow; programs stop after `MaxInstructions`
  instructions, which none of the instance needs. `MCHash` is the length of a name, so that names collide in every scope.
* `MaxErrors` is 2 where the code has 50 (`diags_init`), in `Lexer` and `Driver`: texts and sources with two, three and four errors, of one pass and of two,
  reach the limit, pass it by one and by more, with a warning kept behind it. The proofs hold for every limit.
* Two to five tokens after a prefix that is right reach every branch of every parser function, the error
  branches included, and put each token of the alphabet where each function expects another. 295 of the inputs are
  programs, so that acceptance is tested both ways. Phrases in place of tokens give sequences of four whole
  statement heads.
* Two states of one document are an old and the current one, the current one possibly of a second opening with
  the version number of the first, which also moves the document behind the other in the map. The other document
  stays, which is what a request over all documents must not lose. Documents share only the configured
  compiler. `MaxStates` and `MaxOpens` cut the client short, not the server; a client that closed and opened documents
  for ever could keep a request for workspace symbols busy. With one document, three states and two requests (`Docs <- OneDoc`,
  `Requests <- TwoRequests`, `MaxStates <- ThreeStates`, `Kinds` as in `Rename`) the properties hold as well.

Where `CHECK_DEADLOCK FALSE` stands, the system may stop: a program panics when memory runs out or an
index is out of range, a compiled function returns, a client sends nothing more.

### 3.1 Disagreements between the code and its documents

* `docs/spec.md` says that assigning to a narrowed variable ends the narrowing from that point.
  The checker pushes the declared type as a fact, but `check_block` drops that fact with the
  block it was made in. The run shows an accepted program that reads a null as a `T`: after an
  `if` nested in the narrowed region (`narrowing_blocks`; with `Programs <- LoopPrograms`, in the second
  iteration of a loop), and after a guard whose surviving branch assigned (with `Programs <- GuardPrograms`). The compiled
  programs crash. What the checker does guarantee is `ConfinedNeverReadsNull`: programs that
  assign a variable only in the block that narrowed it are safe.
* `tools/lsp/README.md` says that the server rejects requests against stale snapshots and cancels
  obsolete compiler processes. A rename compares version numbers after its second compilation,
  and these repeat when a document is opened again: `LspServer` with `Kinds <- Rename` violates `NoStaleAnswer`; a completion after a
  bare dot does not compare anything (the same with `Kinds <- Completion`); and the second compilation of
  either has no abort signal, so an edit does not cancel it. Handlers that compare state
  objects obey, across reopening too, and a rename never carries an outdated version number:
  `AnswersAreFresh`. Workspace symbols compare nothing: a document that is edited while its analysis is awaited is left out, and
  one that is closed and opened again meanwhile is listed twice, once with a text it no longer has.
* `src/parse/parser.h` says that the parser recovers at statement and declaration boundaries and keeps going. A
  `func` in a block or an `if` in a struct body is reported, never consumed, and not skipped by `sync_stmt`
  either: `parser_stuck` shows the loop, and `rivelc` allocates until memory runs out on such a file. `EndsOrIsStuck`
  says that these two places are the only ones. And when an erroneous declaration's `;` is there, recovery begins after it
  and skips the next declaration or statement as a whole, with any errors in it (`GlobalsAreKept` fails with `Inputs <- TwoGlobals`). Functions do not suffer:
  `FunctionsAreKept`.
* `emit_globals` prints the addresses of pointer globals without commas, and qbe refuses the file: a program with two globals of a text or optional
  type cannot be built (`rivel_build`), and is told of a compiler bug.
* `docs/spec.md` 5.2 says that operands and arguments are evaluated from left to right. `lower.c` 569 and 583-588 lower two arguments within one C call, so that gcc
  takes the second one of `write_file` and the `wrapping_` functions first. With `ArgOrder = "left"`, the order of other C compilers,
  these are right and `lower_return` (974) is wrong: it takes the block before the value has been lowered, so a `return a && b;` ends up in a block that has ended already.
* `docs/spec.md` 5.9 says that constants are computed with the semantics of run time. `fold.c` 183 refuses the smallest integer `% -1`, where `rv_mod` gives 0,
  and 350 cuts an f-string constant at a zero byte.
* Method `m` of struct `S` and a function `S__m` get one symbol (`check.c` 1546), and linking fails.
* `types.h` 12 says that the error type keeps one mistake from causing further reports; an unknown name as the base of an assigned element, a list of an unknown
  type, an unknown name returned without a result type and a parameter's name given twice are reported twice.
* `lower_call` (674) has room for 64 arguments and lets further ones fall away, where no rule limits them.
* `diag.c` 92 speaks of expanding tabs to 4 columns; the excerpt prints four blanks for a tab and `display_width` counts to the next tab stop, so behind
  a tab that is not at a tab stop the marker is misplaced.
* `driver.c`: a build removes a user's own `prog.il` and `prog.s`; `rivel --emit-il` tries to run a program that was not
  made; `--emit-asm --emit-il` ends with status 0 and no assembly; a program that a signal ends makes `rivel` end with status 1 and no message.
* `ast_dump.c` prints a type named `infer` or `void` like a type that is not written.

The programs and texts of the instances leave out what the points after `rivel_build` are about, so that the runs speak of
everything else.

### 3.2 Fairness

* `Collector!FairSpec`: weak fairness of the collector's own steps and of running out of memory. The program is
  single-threaded and calls `rv_gc_collect` synchronously, so once called it takes its next step.
  No fairness is assumed of the program.
* `ParseRecovery!FairSpec`: the parser is one synchronous call; it takes its next step.
* `Lexer!FairSpec`: likewise.
* `LspServer!FairSpec`: timers fire, since the event loop is idle between callbacks; a compiler ends, since `compile` passes a timeout of
  10 s to the child process; so does a request's second compilation, and the reading of at most 200 files. The client owes nothing: diagnostics
  catch up only while it pauses, and the property says so.

## 4. What is proved

The theorems hold for every value of the constants that satisfies the module's named `ASSUME`, which TLC
evaluates for each instance: any number of objects, cells, globals, stack words and descriptors; any page size, table of size classes,
alignment, threshold and memory; any set of pages and any hash function; any lists, values, storage and capacity; any finite set of documents, and any
requests and compilers; any command line and source, whatever the passes and tools make of it; any text; any program, of conditions and statements nested to any depth.

| module | theorem | what it states |
|---|---|---|
| `CollectorProofs` | `ReferencesStayLive`, `MarkingInvariant`, `ReclaimsOnlyGarbage`, `CollectionIsComplete`, `CollectorImplementsManagedMemory` | `NoDangling`, `TriColour`, `FreesOnlyGarbage`, `SweepIsComplete`, refinement of `ManagedMemory` |
| `PageHeapProofs` | `ObjectsDoNotOverlap`, `ResolutionIsExact`, `FreeListsStayExact`, `AccountingStaysExact`, `TypeCorrect` | `NoOverlap`, `FindsEveryObject`, `FreeListsExact`, `AccountingExact`, `TypeOK` |
| `PageTableProofs` | `LookupCorrect`, `ProbesTerminate` | `LookupExact`, `ProbesEnd` |
| `RtListProofs` | `StorageStaysSound`, `Refinement` | `StorageIsSound`, refinement of `Lists` |
| `LspServerProofs` | `AnalysesAreCurrent`, `NothingStaleIsPublished`, `FreshAnswers` | `AnalysisIsOfCurrentText`, `DiagnosticsAreCurrent`, `AnswersAreFresh` |
| `NarrowingProofs` | `NoNullIsRead`, `NothingUnreachableRuns`, `ReturnIsReached` | `ConfinedNeverReadsNull`, `UnreachableNeverRuns`, `ValueIsReturned` |
| `LexerProofs` | `StringsNest`, `SpansFit`, `StepsEnd`, `MarkersPoint`, `Typed` | `TokensNest`, `SpansFitTheText`, `StepsRunOut`, `MarkerUnderError`, `TypeOK` |
| `DriverProofs` | `StatusTruth`, `FilesLeft`, `DiagnosticsAreShown` | `StatusTellsTheTruth`, `FilesAsAsked`, `DiagnosticsReachTheUser` |

Each module first proves that an inductive invariant holds (`Invariance`, `TableInvariance`, `CountInvariance`, `FlowInvariance`), with one step per action, and
the rest from it. What the invariants are, and why they are needed:

**Collector.** `TypeOK` alone says nothing of dangling references, and `NoDangling` is not inductive: it
speaks of what is reachable through cells, so its preservation by a sweep needs the marking
invariant at that moment. The inductive invariant `IInv` conjoins

* `TypeOK`, and `PendingOK` (which allocation waits in which `pc`),
* `RefsAreLive`: every pointer cell of every live object that could still be read, and every
  variable, leads to a live object or nowhere,
* `TriColour`: marked objects off the mark stack have marked referents, and the roots scanned so
  far are marked,
* `NoStaleMark`: no marks outside a collection.

`Init => IInv` and `IInv /\ [Next]_vars => IInv'` are proved with one step per action. From it
follow `ReferencesStayLive` (`NoDangling`), `MarkingInvariant`, `ReclaimsOnlyGarbage`
(`FreesOnlyGarbage`: at a sweep the mark stack is empty, so the marked objects are closed under
references and contain the roots, and reachability is the least such set), `CollectionIsComplete`
(from `MarksAreReachable`, the converse inclusion) and `CollectorImplementsManagedMemory`, the
step simulation under the mapping that hides marks, scalars and the stack's junk.

**Page heap.** `NoOverlap` is not inductive. That a slot taken from a free list overlaps nothing depends on the free list naming
only slots that no object has; that a block from `malloc` overlaps nothing, on every object lying in a page or a large object that is registered; that
the sweep leaves a free list exact, on headers telling used slots from free ones. So `IInv` is the agreement of the registries:

* `PagesOK`, `LargesOK`, `Apart`: pages are aligned, in memory and registered once; large objects are sorted and do not
  touch; no large object reaches into a page;
* `FreeOK`, `AvailOK`: a free list names slots of its page, none twice, and `nfree` is its length; a class's list has exactly the
  pages of the class with `nfree > 0`, each once;
* `ObjectsOK`, `HeadersOK`: the objects are the slots not on a free list and the large ones, and fit where they are; a
  slot's header has a `ti` exactly if the slot is used;
* `BoundsOK`: `heap_lo` and `heap_hi` enclose all of it, widened by each allocation and taken anew by each sweep;
* `WantOK`: `gc_alloc` waits with a size that was asked for.

`FindsEveryObject` follows through lemmas about the code's two searches. The binary searches over the large objects return a `k` that
splits the array: everything before `k` is at or before the word and everything from `k` on behind it. That uses that the array is sorted,
which `new_large` keeps because it inserts at that `k` a block which `malloc` has kept apart from all others. A word in a page
resolves by one division, exactly to the slot around it, unless it is in the tail that is no slot. Most of the proof is about sequences:
that inserting, removing and compacting neither lose nor repeat an entry, and keep the order. Taken on trust are `malloc` and
`posix_memalign` (any free aligned block), `page_lookup` (proved exact below) and that a collection marks only what
`find_object` returns.

**Accounting.** The counters and what they count are never computed together: `gc_alloc` adds one slot or block, the sweep adds up
afresh what it keeps, slot by slot and large by large, and the property sums over the objects. `SumCounts` turns each of those sums,
over an arbitrary finite set and in whatever order, into a number of addresses: a sum of the sizes of disjoint blocks is the size of
their union. The three unions are then the same set, `Occupied`, for reasons that `PageHeapProofs` already has: two blocks are
disjoint because each of their words resolves to one object. `AInv` adds to `IInv`

* `HomeOK`: an object within a page is small, and the page is of the class its size asks for; without it a slot's size could not be told
  from the object's, nor what the sweep adds from what the allocation added;
* `CountersOK`: `live_bytes + allocated_since` is the number of occupied addresses, the threshold follows from `live_bytes`, an allocation
  that goes ahead has not reached it, and past it there is at most one object. The last part needs `GC_MIN_THRESHOLD > 0`, which is
  an assumption: with 0, an allocation into an empty heap would find `allocated_since` at the threshold even after a collection.

The counters are natural numbers here; `size_t` wraps beyond what an address space can hold.

**Page table.** `LookupExact` needs that probe chains have no gaps: every entry between a page's home slot and its place is
occupied (`PInv`), along with a table that is at most half full and holds each page once. From that,
`LookupCorrect`: a lookup gives exactly the registered pages; and `ProbesTerminate`: every probe sequence meets an
empty entry, since half of the table is empty and the probes visit all of it, which is the one arithmetic fact.

**Lists.** `StorageIsSound` (live lists have storage of their own, as large as their capacity, with zeros behind the elements) is almost inductive.
`ElementsAreValues` is added for the refinement: an element is something the program put there and never a zeroed cell, which is
what a shift by one too many would expose. `Refinement` maps a list to the sequence of its elements and an
operation of the runtime, with its growth of storage and shifting of cells, to one step of `Lists`, or none.

**Language server.** `IInv` conjoins `TypeOK` with

* `MapOK`: the states map holds the newest state of exactly the open documents, and that state is for the text the client has;
* `RunsAreCurrent`: a state whose compiler works is in the map, and works with the configured compiler; a compiler that
  had ended before the abort reached it belongs to an aborted state; a started state has no timer any more;
* `RequestsOK`: who waits, waits for a run that was started and not heard of; what a search of the workspace has found, with what
  lies ahead of it in the map, covers each document that has been open throughout;
* `PlacesDiffer`: no two documents have one place in the map.

`NothingStaleIsPublished` needs `RunsAreCurrent`: `publish` happens when a run ends that was not aborted, and such a run is for the newest state. `FreshAnswers` is about the moment between a run's end and the
continuations of those that awaited it. It says nothing of renames across reopening and of completions, which 3.1 shows to be stale. The documents
are assumed to be finitely many, so that a place is free in the map.

**Narrowing.** What the checker computes is recursive over trees, and what runs is a stack of frames, so the proof has three parts.

*Recursion.* The height of a tree falls towards its parts, so that what holds of a tree when it holds of all lower ones holds of every tree
(`TreeInduction`, from the least element of a set of heights), and a definition of the form `f[s \in S] == ... f[part of s] ...` is indeed
a function that satisfies its own equation (`Recursion`; the lemmas ending in `Unfolds` apply it to each of the module's
recursive functions). A `CHOOSE` alone would not tell.

*Control flow.* `FlowInv` conjoins `TypeOK` with `Stacked`: each frame runs a part of the statement that the frame below stands at, and
every statement passed in a block on the stack falls through, by the checker's own account; and a run that ended has a body that falls through.
This is what lets the end of a block be carried to the statement that holds it: an `if` whose branch ended falls through, a `while true` is left only where its body has
a `break`. `UnreachableNeverRuns` is the part about the top frame, `ValueIsReturned` the last part. The property alone is not inductive, as it says nothing of lower frames.

*Facts.* `NoNullIsRead` compares two executions: that of the checker, once over each statement, and that of the program, which runs some statements often and
others never. The trace of a block is the sequence of checkers before and after each of its statements. `Sound` says of every block on the stack that there is a
trace which accepted it, and that what the trace knows is true of the slots: before the next statement of the top frame; before the running statement of each lower one; and after
that statement too when what runs in it can come to its end, because a guard's facts hold only if its branch was left that way. A loop makes its body's facts
anew at each header, from what was known before the loop. That this survives an assignment in a nested block is where
`Confined` comes in: what a nested statement assigns is in no trace of a lower block (`Untouched`), since a checker knows nothing of a variable that no test has
mentioned (`FactsAreTested`, `TraceSeen`). Without it the theorem is false, which `narrowing_blocks` shows. That conditions make true facts (`FactsAreKnown`) and are themselves read only where
that is safe (`CheckedReadsNoNull`) are inductions over conditions; that a statement with parts brings the checker back to what it knew before (`CompoundBack`) is one over statements.

**Lexer.** `LInv` says where each loop of `lex_source` stands (`Placed`: the cursor, the start of the literal and that of the token are in order
and within the text; `LoopOK`: what a loop has read so far), that the mode of ordinary text is at the bottom of the mode stack and nowhere else (`StackOK`), that the tokens sent are in order and end
before the cursor (`TokensUpTo`), that errors lie within the text (`ErrorsInside`), and that the mode stack is what the tokens sent leave open: `modes = Opened(out)`. The last is `TokensNest`;
it needs the others because the cursor decides whether an action opens, closes or reports. The fold over the tokens is compared with the action that
appends one through its trace (`FoldIsTraced`, `OpenedAppend`). What the recursive helpers for digits, escapes and code points return stays within the text, by an induction on
what is left of it. `StepsEnd` proves that each step lowers `StepsLeft`, a number: with fairness of the lexer's step that is
`LexerEnds`, which TLC checks. `SpansFitTheText` and `StepsRunOut` are proved and not in a run, as `LexerEnds` and the comparison with `Lexis` are.
`MarkersPoint` proves what an excerpt shows. `LinesAre` says what `LineStarts` gives, by an induction along the text: as many starts as the text has lines, and the line of an offset (one more than
the line ends before it) is the last that starts no later. `Bisected` says that the bisection of `source_position` finds that line: a closed form for every range of lines (`Clamp`) satisfies the
recursion, and it is the only function that does, by an induction on the length of the range. `LineIs` says which characters `source_line` shows, `WidthIs` that without tabs
a width is a number of characters; `Underlined` puts them together for one error, which `LInv` says lies within the text.

**Driver.** The passes are parameters, so that the theorems hold of `driver_main` whatever a pass computes. They assume that the arguments are
no empty names and no file was called ours before (`InvocationAssumption`), that checking gives a tree and diagnostics of the three levels
(`CheckAssumption`), that the error limit is a number (`ErrorLimitAssumption`; 0 is no limit, as in `diag_add`), and that a name is not itself with an ending (`EndingAssumption`, a fact about strings that the provers do not know). `DInv` conjoins `TypeInv` with

* `ArgInv`: what `parse_args` took is among the arguments, and why it ended the process if it did;
* `PassInv`: which passes are behind each stage, which of them failed, and that what `Added` keeps of what they found (`Kept`) is either still to be printed or was printed first, as `Shown`;
* `StatusInv`: what a status of 0 or 1 rests on at each stage that sets one;
* `DiskInv`: which files may be ours at each stage, and which one must be there after a build that went well.

`diag_add` works on the diagnostics one by one and pass after pass; the property counts in the whole list. `AddedTwice` says that adding what two passes found is
adding one list, and `KeepsAll`, an induction along the list with `KeepsOneMore` as its step, that what is kept is what counting says, each diagnostic at the place that counting
gives it, and that an error was counted exactly if one is kept. `ShownParts` adds the line of `diags_print`. `FilesLeft` takes from `DInv` that no step removes
a file that is ours and wanted (`WantedStaysStep`): the linker only its own output before it was ours, the cleanup only what is not wanted, a run only its program.

`Rivel` instantiates `Driver`, and TLC evaluates the assumptions there for the real passes.

**Only model-checked.**

* Liveness: `CollectionEnds`, `EndsOrIsStuck`, `LexerEnds`, `DiagnosticsCatchUp`, `RequestsAreAnswered`. The provers have no rule for fairness.
* `AcceptsTheGrammar`, `FunctionsAreKept`, `DumpReadsBack` and `FollowsTheGrammar`: they compare a machine with a grammar, and the grammars
  (`Grammar`, `Lexis`) are `RECURSIVE` operators, behind which the provers lose arithmetic.
* In `Rivel`, what depends on what the passes compute: `RunsAsMeant`, `CodeIsAccepted`, `FoldsLikeRun`, `CyclesReported`, `IndexHolds`, `DumpsTellApart`, `OneReport`. Their
  definitions are recursive over programs, and an induction over programs with the whole checker in it is out of reach.

`TypeOK` is part of, or follows from, the inductive invariant of each of the eight components above; the runs check the properties that
would fail with it.

## 5. Not modelled

* Object layout, alignment, the actual values of `class_sizes` and 64 KiB pages: the instances have
  small ones, the definitions take them as constants.
* Rounding and decimal digits of floats; exponents of literals in `Rivel` (they are in `Lexer`).
* The wording of messages beyond what tells them apart, panic locations, spans in the checker, JSON and IL as characters.
* Vectors, the arena and string buffers of `base/`: they hand out memory and have no state of their own that a pass relies on.
* What a language-server answer says, changes of folders, shutdown.
* Tree-sitter grammars, editor extensions, the legacy compiler, vendored QBE, examples.

## 6. Plan

Built, most important first: the collector with its proofs, the allocator and page table
under it, lists over it, the checker's narrowing, the language server, the parser's recovery, the lexer,
and the compiler as a whole with the programs it makes.

Left to model: `Collector` over
`PageHeap`, with the pacing policy deciding when to collect.

Left to prove: for `ParseRecovery`, `TypeOK` and that recovery never moves backwards. The modules under `Rivel` hold recursive operators, and stay with TLC.
