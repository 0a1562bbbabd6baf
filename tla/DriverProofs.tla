---------------------------- MODULE DriverProofs ----------------------------
(***************************************************************************)
(* What an invocation of the compiler leaves behind and tells the user,    *)
(* for every command line, every source, every outcome of the tools, and   *)
(* whatever the passes compute: they are parameters of Driver.             *)
(***************************************************************************)
EXTENDS Driver, SequenceTheorems, FiniteSetTheorems, WellFoundedInduction, TLAPS

-----------------------------------------------------------------------------
(* The inductive invariant.                                                *)

Early == {"start", "args", "load", "lex", "parse", "check", "index", "lower", "print"}
Tools == {"write_il", "qbe", "link", "cleanup", "run"}
Messages == STRING \cup {"lexical", "syntax", "stopping"}
Diagnostic == Levels \X Messages
Collection == [items : Seq(Diagnostic), errors : Nat]
Names == STRING \cup {NULL}
Options == [input : Names, output : Names, target : Names, run : BOOLEAN, flags : SUBSET Flags,
            run_argv : Seq(STRING), exit : {-1, 0, 2}]

TypeInv ==
  /\ inv \in Invocations
  /\ pc \in Early \cup Tools \cup {"done", "exited"}
  /\ opts \in Options /\ argv \in Seq(STRING)
  /\ diags \in Collection
  /\ prog \in {Nothing, SemaCheck(inv.source.decls)}

\* How far parse_args came, and that the names it took are arguments.
ArgInv ==
  /\ {argv[n] : n \in DOMAIN argv} \subseteq ToSet(inv.args)
  /\ {opts.input, opts.output} \subseteq ToSet(inv.args) \cup {NULL}
  /\ pc \notin {"start", "args"} /\ opts.exit = -1 => opts.input # NULL
  /\ opts.exit # -1 => pc = "exited"
  /\ opts.exit = 0 => status = 0 /\ stderr = <<>> /\ Printed("usage or version")
  /\ opts.exit = 2 => status = 2 /\ \E n \in DOMAIN stderr : stderr[n][1] = "rivelc"

\* What is kept of everything that was found, and what is printed of it.
Kept == Added(NoDiags, Found)
Shown == Listing(Kept)

\* One message comes behind what is shown, if there is any.
Said(who) == stderr # <<>> /\ stderr = Append(Shown, <<who, stderr[Len(stderr)][2]>>)
Complained == Said("rivelc")

\* What is kept of what was found is either still to be printed or was printed first.
PassInv ==
  /\ pc \in Early => stderr = <<>> /\ machine = <<>>
  /\ pc \in Early \cup Tools => stdout = <<>>
  /\ pc \in {"start", "args", "load", "lex", "parse", "check"} => prog = Nothing
  /\ pc \in {"start", "args", "load", "lex"} => diags = NoDiags
  /\ pc = "parse" => diags = Added(NoDiags, FoundByLexer) /\ LastPass # "lex"
  /\ pc = "check" => diags = Added(NoDiags, FoundByLexer \o FoundByParser) /\ LastPass = "check"
  /\ pc \in {"index", "lower", "print"} => prog # Nothing /\ diags = Kept
  /\ pc \in {"index", "lower", "print"} \cup Tools => LastPass = "check"
  /\ pc = "index" => Analyzing
  /\ pc \in {"lower", "print", "done"} \cup Tools => ~Analyzing
  /\ pc \in {"lower", "print"} \cup Tools => diags_ok(Kept)
  /\ pc \in {"print"} \cup Tools => ~Flag("--dump-ir")
  /\ pc \in Tools => diags = NoDiags /\ machine = <<>>
  /\ pc \in Tools /\ (pc # "cleanup" \/ status = 0) => stderr = Shown
  /\ pc = "cleanup" /\ status # 0 => Complained
  /\ pc = "done" => \/ stderr = <<>> /\ diags = Kept /\ machine = <<>>
                    \/ diags = NoDiags /\ (stderr = Shown \/ Said("program") \/ Complained)
  /\ pc = "exited" /\ WasRead =>
       IF Analyzing THEN stderr = <<>> /\ Len(stdout) = 1 /\ stdout[1].text.diagnostics = Kept.items
       ELSE stderr = Shown \/ Said("program") \/ Complained

\* The status that the last step will return.
StatusInv ==
  /\ pc \in Early \cup {"write_il", "qbe", "link"} => status \in {-1, 1}
  /\ pc \in Early \cup Tools => (status = 0 => pc \in {"cleanup", "run"})
  /\ pc = "run" => status = 0 /\ opts.run
  /\ pc = "done" /\ status = 0 => Asked /\ diags_ok(Kept) /\ ~Complained
  /\ pc = "done" /\ status # 0 => machine # <<>> \/ ~diags_ok(Kept) \/ Complained
  /\ pc = "exited" => StatusTellsTheTruth

MineIsIn(paths) == \A p \in DOMAIN disk : disk[p] = "mine" => p \in paths
\* Which of the three files may be there, and which must be.
DiskInv ==
  /\ pc \in Early \cup {"write_il"} => MineIsIn({})
  /\ pc = "qbe" => MineIsIn({IlPath}) /\ ~Flag("--emit-il")
  /\ pc = "link" => MineIsIn({IlPath, AsmPath}) /\ ~Flag("--emit-il") /\ ~Flag("--emit-asm")
  /\ pc = "cleanup" =>
       MineIsIn({IlPath} \cup (IF Flag("--emit-il") THEN {} ELSE {AsmPath})
                \cup (IF Flag("--emit-il") \/ Flag("--emit-asm") \/ status # 0 THEN {} ELSE {Output}))
  /\ pc = "cleanup" /\ status = 0 =>
       Mine(IF Flag("--emit-il") THEN IlPath ELSE IF Flag("--emit-asm") THEN AsmPath ELSE Output)
  /\ pc = "run" => MineIsIn(Wanted \cup {Output})
  /\ pc \in {"done", "exited"} => MineIsIn(Wanted)

DInv == TypeInv /\ ArgInv /\ PassInv /\ StatusInv /\ DiskInv

-----------------------------------------------------------------------------
(* Induction along the natural numbers.                                    *)

LEMMA LeastElement ==
  ASSUME NEW T \in SUBSET Nat, T # {}
  PROVE  \E x \in T : \A y \in T : x <= y
<1> DEFINE R == {p \in Nat \X Nat : p[1] < p[2]}
<1>1. IsWellFoundedOn(R, Nat)
  BY NatLessThanWellFounded DEF OpToRel
<1>2. \A x, y \in Nat : <<y, x>> \notin R => x <= y
  OBVIOUS
<1> HIDE DEF R
<1>3. PICK x \in T : \A y \in T : ~(<<y, x>> \in R)
  BY <1>1, WFMin
<1>4. QED
  BY <1>2, <1>3

(* What holds at the first place, and at each place if at the one before,  *)
(* holds at all.                                                           *)
LEMMA Along ==
  ASSUME NEW a \in Nat, NEW b \in Nat, NEW P,
         a \in P, \A i \in a + 1 .. b : i - 1 \in P => i \in P
  PROVE  \A i \in a .. b : i \in P
<1> DEFINE Bad == {i \in Nat : i \in a .. b /\ i \notin P}
<1>1. SUFFICES ASSUME Bad # {} PROVE FALSE
  OBVIOUS
<1>2. PICK i \in Bad : \A j \in Bad : i <= j
  BY <1>1, LeastElement
<1>3. i # a /\ i \in a + 1 .. b /\ i - 1 \in a .. b /\ i - 1 \in Nat
  BY <1>2
<1>4. i - 1 \notin Bad
  BY <1>2, <1>3
<1>5. QED
  BY <1>2, <1>3, <1>4

-----------------------------------------------------------------------------
(* What diag_add keeps of a sequence of diagnostics.                       *)

IsError(x) == x[1] = "error"
Overflows(c) == MaxErrors # 0 /\ c.errors > MaxErrors

LEMMA AddKeepsType ==
  ASSUME NEW c \in Collection, NEW x \in Diagnostic
  PROVE  diag_add(c, x) \in Collection
<1>1. c.items \in Seq(Diagnostic) /\ c.errors \in Nat
  BY DEF Collection
<1>2. PICK longer \in Seq(Diagnostic) : longer = Append(c.items, x)
  BY <1>1, AppendProperties
<1> QED  BY <1>1, <1>2 DEF diag_add, Collection

\* What one more diagnostic does.
LEMMA AddIs ==
  ASSUME NEW c \in Collection, NEW x \in Diagnostic
  PROVE  LET d == diag_add(c, x) IN
         /\ d.errors = IF IsError(x) THEN c.errors + 1 ELSE c.errors
         /\ IsError(x) /\ Overflows(d) => d.items = c.items
         /\ ~(IsError(x) /\ Overflows(d)) => d.items = Append(c.items, x)
BY DEF diag_add, IsError, Overflows

IsAfter(c, f, a) == a = [i \in 0..Len(f) |-> IF i = 0 THEN c ELSE diag_add(a[i - 1], f[i])]

LEMMA AfterExists ==
  ASSUME NEW c \in Collection, NEW f \in Seq(Diagnostic)
  PROVE  \E a : IsAfter(c, f, a)
<1> DEFINE Upto(m, a) == a \in [0..m -> Collection] /\ a[0] = c /\ \A i \in 1..m : a[i] = diag_add(a[i - 1], f[i])
           P == {m \in Nat : \E a : Upto(m, a)}
<1>0. Len(f) \in Nat /\ \A i \in 1..Len(f) : f[i] \in Diagnostic
  BY ElementOfSeq, LenProperties
<1>1. 0 \in P
  <2>1. Upto(0, [i \in 0..0 |-> c])
    OBVIOUS
  <2> QED  BY <2>1
<1>2. ASSUME NEW m \in 0 + 1 .. Len(f), m - 1 \in P PROVE m \in P
  <2>1. PICK a : Upto(m - 1, a)
    BY <1>2
  <2>2. m \in Nat \ {0} /\ m - 1 \in 0..m - 1 /\ f[m] \in Diagnostic
    BY <1>0
  <2>3. PICK e \in Collection : e = diag_add(a[m - 1], f[m])
    <3>1. a[m - 1] \in Collection
      BY <2>1, <2>2
    <3> QED  BY <2>2, <3>1, AddKeepsType
  <2> DEFINE b == [i \in 0..m |-> IF i = m THEN e ELSE a[i]]
  <2>4. b[m] = e /\ \A i \in 0..m - 1 : i \in 0..m /\ b[i] = a[i]
    BY <2>2
  <2>5. b \in [0..m -> Collection]
    <3>1. \A i \in 0..m : i # m => i \in 0..m - 1
      BY <2>2
    <3>2. \A i \in 0..m : (IF i = m THEN e ELSE a[i]) \in Collection
      BY <2>1, <2>3, <3>1
    <3> QED  BY <3>2
  <2> HIDE DEF b
  <2>6. ASSUME NEW i \in 1..m PROVE b[i] = diag_add(b[i - 1], f[i])
    <3>1. i - 1 \in 0..m - 1
      OBVIOUS
    <3>2. CASE i = m
      BY <2>3, <2>4, <3>1, <3>2
    <3>3. CASE i # m
      <4>1. i \in 1..m - 1 /\ i \in 0..m - 1
        BY <3>3
      <4> QED  BY <2>1, <2>4, <3>1, <4>1
    <3> QED  BY <3>2, <3>3
  <2>7. b[0] = c
    <3>1. 0 \in 0..m - 1
      BY <2>2
    <3> QED  BY <2>1, <2>4, <3>1
  <2>8. Upto(m, b)
    BY <2>5, <2>6, <2>7
  <2> QED  BY <2>2, <2>8
<1>3. Len(f) \in P
  <2> HIDE DEF P
  <2>1. \A i \in 0 .. Len(f) : i \in P
    BY <1>0, <1>1, <1>2, Along
  <2> QED  BY <1>0, <2>1
<1>4. PICK a : Upto(Len(f), a)
  BY <1>3
<1>5. a = [i \in 0..Len(f) |-> IF i = 0 THEN c ELSE diag_add(a[i - 1], f[i])]
  <2>1. \A i \in 0..Len(f) : a[i] = IF i = 0 THEN c ELSE diag_add(a[i - 1], f[i])
    <3>1. \A i \in 0..Len(f) : i # 0 => i \in 1..Len(f)
      BY <1>0
    <3> QED  BY <1>4, <3>1
  <2> QED  BY <1>4, <2>1
<1> QED  BY <1>5 DEF IsAfter

\* Added, step by step.
LEMMA AddedIs ==
  ASSUME NEW c \in Collection, NEW f \in Seq(Diagnostic)
  PROVE  \E a : /\ a[0] = c /\ a[Len(f)] = Added(c, f)
                /\ \A i \in 1..Len(f) : a[i] = diag_add(a[i - 1], f[i])
                /\ \A i \in 0..Len(f) : a[i] \in Collection
<1> DEFINE a == CHOOSE a : IsAfter(c, f, a)
<1>0. Len(f) \in Nat /\ \A i \in 1..Len(f) : f[i] \in Diagnostic
  BY ElementOfSeq, LenProperties
<1>1. IsAfter(c, f, a)
  BY AfterExists, Zenon
<1>2. a[Len(f)] = Added(c, f)
  BY Zenon DEF Added, IsAfter
<1> HIDE DEF a
<1>3. \A i \in 0..Len(f) : a[i] = IF i = 0 THEN c ELSE diag_add(a[i - 1], f[i])
  BY <1>1, Zenon DEF IsAfter
<1>4. a[0] = c /\ \A i \in 1..Len(f) : a[i] = diag_add(a[i - 1], f[i])
  BY <1>0, <1>3
<1>5. \A i \in 0..Len(f) : a[i] \in Collection
  <2> DEFINE P == {i \in Nat : a[i] \in Collection}
  <2>1. 0 \in P
    BY <1>4
  <2>2. ASSUME NEW i \in 0 + 1 .. Len(f), i - 1 \in P PROVE i \in P
    BY <1>0, <1>4, <2>2, AddKeepsType
  <2> HIDE DEF P
  <2>3. \A i \in 0 .. Len(f) : i \in P
    BY <1>0, <2>1, <2>2, Along
  <2> QED  BY <2>3 DEF P
<1> QED  BY <1>2, <1>4, <1>5

LEMMA NothingAdded ==
  ASSUME NEW c \in Collection
  PROVE  Added(c, <<>>) = c
<1>1. <<>> \in Seq(Diagnostic) /\ Len(<<>>) = 0
  BY EmptySeq
<1> QED  BY <1>1, AddedIs

LEMMA AddedType ==
  ASSUME NEW c \in Collection, NEW f \in Seq(Diagnostic)
  PROVE  Added(c, f) \in Collection
<1>1. Len(f) \in 0..Len(f)
  BY LenProperties
<1> QED  BY <1>1, AddedIs

\* What two passes found, one behind the other.
LEMMA AddedTwice ==
  ASSUME NEW c \in Collection, NEW f \in Seq(Diagnostic), NEW g \in Seq(Diagnostic)
  PROVE  Added(Added(c, f), g) = Added(c, f \o g)
<1>0. Len(f) \in Nat /\ Len(g) \in Nat
  BY LenProperties
<1>1. PICK h \in Seq(Diagnostic) :
      /\ h = f \o g /\ Len(h) = Len(f) + Len(g)
      /\ \A i \in 1..Len(f) : h[i] = f[i]
      /\ \A i \in 1..Len(g) : h[Len(f) + i] = g[i]
  <2> DEFINE h == f \o g
  <2>1. Len(h) = Len(f) + Len(g) /\ h \in Seq(Diagnostic)
    BY ConcatProperties
  <2>2. \A i \in 1..Len(h) : h[i] = IF i <= Len(f) THEN f[i] ELSE g[i - Len(f)]
    BY ConcatProperties
  <2> HIDE DEF h
  <2>3. \A i \in 1..Len(f) : i \in 1..Len(h) /\ i <= Len(f)
    BY <1>0, <2>1
  <2>4. \A i \in 1..Len(g) : Len(f) + i \in 1..Len(h) /\ ~(Len(f) + i <= Len(f)) /\ (Len(f) + i) - Len(f) = i
    BY <1>0, <2>1
  <2>5. \E s \in Seq(Diagnostic) :
          /\ s = h /\ Len(s) = Len(f) + Len(g)
          /\ \A i \in 1..Len(f) : s[i] = f[i]
          /\ \A i \in 1..Len(g) : s[Len(f) + i] = g[i]
    BY <2>1, <2>2, <2>3, <2>4
  <2> QED  BY <2>5 DEF h
<1>2. PICK a : /\ a[0] = c /\ a[Len(f)] = Added(c, f) /\ \A i \in 1..Len(f) : a[i] = diag_add(a[i - 1], f[i])
  BY AddedIs
<1>3. PICK b : /\ b[0] = Added(c, f) /\ b[Len(g)] = Added(Added(c, f), g) /\ \A i \in 1..Len(g) : b[i] = diag_add(b[i - 1], g[i])
  BY AddedIs, AddedType
<1>4. PICK e : /\ e[0] = c /\ e[Len(h)] = Added(c, h) /\ \A i \in 1..Len(h) : e[i] = diag_add(e[i - 1], h[i])
  BY AddedIs
<1>5. \A i \in 0..Len(f) : e[i] = a[i]
  <2> DEFINE P == {i \in Nat : e[i] = a[i]}
  <2>1. 0 \in P
    BY <1>2, <1>4
  <2>2. ASSUME NEW i \in 0 + 1 .. Len(f), i - 1 \in P PROVE i \in P
    <3>1. i \in 1..Len(f) /\ i \in 1..Len(h) /\ i \in Nat
      BY <1>0, <1>1
    <3> QED  BY <1>1, <1>2, <1>4, <2>2, <3>1
  <2> HIDE DEF P
  <2>3. \A i \in 0 .. Len(f) : i \in P
    BY <1>0, <2>1, <2>2, Along
  <2> QED  BY <2>3 DEF P
<1>6. \A i \in 0..Len(g) : e[Len(f) + i] = b[i]
  <2> DEFINE P == {i \in Nat : e[Len(f) + i] = b[i]}
  <2>1. 0 \in P
    <3>1. Len(f) + 0 = Len(f) /\ Len(f) \in 0..Len(f)
      BY <1>0
    <3> QED  BY <1>2, <1>3, <1>5, <3>1
  <2>2. ASSUME NEW i \in 0 + 1 .. Len(g), i - 1 \in P PROVE i \in P
    <3>1. i \in 1..Len(g) /\ Len(f) + i \in 1..Len(h) /\ i \in Nat /\ (Len(f) + i) - 1 = Len(f) + (i - 1)
      BY <1>0, <1>1
    <3>2. e[Len(f) + i] = diag_add(e[Len(f) + (i - 1)], h[Len(f) + i])
      BY <1>4, <3>1
    <3>3. b[i] = diag_add(b[i - 1], g[i])
      BY <1>3, <3>1
    <3>4. h[Len(f) + i] = g[i] /\ e[Len(f) + (i - 1)] = b[i - 1]
      BY <1>1, <2>2, <3>1
    <3> QED  BY <3>1, <3>2, <3>3, <3>4
  <2> HIDE DEF P
  <2>3. \A i \in 0 .. Len(g) : i \in P
    BY <1>0, <2>1, <2>2, Along
  <2> QED  BY <2>3 DEF P
<1>7. Len(g) \in 0..Len(g)
  BY <1>0
<1> QED  BY <1>1, <1>3, <1>4, <1>6, <1>7

\* What the counts of the property are made of: one diagnostic more.
LEMMA CountsGrow ==
  ASSUME NEW f, NEW i \in Nat
  PROVE  /\ IsFiniteSet(KeptUpTo(f, i)) /\ Cardinality(KeptUpTo(f, i)) \in Nat /\ ErrorsUpTo(f, i) \in Nat
         /\ ErrorsUpTo(f, 0) = 0 /\ KeptUpTo(f, 0) = {} /\ Cardinality(KeptUpTo(f, 0)) = 0
         /\ i > 0 => /\ ErrorsUpTo(f, i) = IF IsError(f[i]) THEN ErrorsUpTo(f, i - 1) + 1 ELSE ErrorsUpTo(f, i - 1)
                     /\ LET kept == ~IsError(f[i]) \/ MaxErrors = 0 \/ ErrorsUpTo(f, i) <= MaxErrors IN
                        /\ KeptUpTo(f, i) = IF kept THEN KeptUpTo(f, i - 1) \cup {i} ELSE KeptUpTo(f, i - 1)
                        /\ Cardinality(KeptUpTo(f, i)) =
                             IF kept THEN Cardinality(KeptUpTo(f, i - 1)) + 1 ELSE Cardinality(KeptUpTo(f, i - 1))
<1> DEFINE E(n) == {j \in 1..n : f[j][1] = "error"}
<1>1. \A n \in Nat : IsFiniteSet(1..n)
  BY FS_Interval
<1>2. \A n \in Nat : E(n) \in SUBSET (1..n) /\ KeptUpTo(f, n) \in SUBSET (1..n)
  BY DEF KeptUpTo
<1>3. \A n \in Nat : IsFiniteSet(E(n)) /\ IsFiniteSet(KeptUpTo(f, n))
  BY <1>1, <1>2, FS_Subset
<1>4. \A n \in Nat : Cardinality(E(n)) \in Nat /\ Cardinality(KeptUpTo(f, n)) \in Nat
  BY <1>3, FS_CardinalityType
<1>5. \A n \in Nat : ErrorsUpTo(f, n) = Cardinality(E(n))
  BY DEF ErrorsUpTo
<1>6. E(0) = {} /\ KeptUpTo(f, 0) = {}
  BY DEF KeptUpTo
<1>7. ErrorsUpTo(f, 0) = 0 /\ Cardinality(KeptUpTo(f, 0)) = 0
  BY <1>5, <1>6, FS_EmptySet
<1>8. ASSUME i > 0
      PROVE  /\ ErrorsUpTo(f, i) = IF IsError(f[i]) THEN ErrorsUpTo(f, i - 1) + 1 ELSE ErrorsUpTo(f, i - 1)
             /\ LET kept == ~IsError(f[i]) \/ MaxErrors = 0 \/ ErrorsUpTo(f, i) <= MaxErrors IN
                /\ KeptUpTo(f, i) = IF kept THEN KeptUpTo(f, i - 1) \cup {i} ELSE KeptUpTo(f, i - 1)
                /\ Cardinality(KeptUpTo(f, i)) =
                     IF kept THEN Cardinality(KeptUpTo(f, i - 1)) + 1 ELSE Cardinality(KeptUpTo(f, i - 1))
  <2> DEFINE kept == ~IsError(f[i]) \/ MaxErrors = 0 \/ ErrorsUpTo(f, i) <= MaxErrors
  <2>1. i - 1 \in Nat /\ 1..i = (1..i - 1) \cup {i} /\ i \notin 1..i - 1
    BY <1>8
  <2>2. E(i) = IF IsError(f[i]) THEN E(i - 1) \cup {i} ELSE E(i - 1)
    BY <2>1 DEF IsError
  <2>3. i \notin E(i - 1) /\ i \notin KeptUpTo(f, i - 1)
    BY <1>2, <2>1
  <2>4. ErrorsUpTo(f, i) = IF IsError(f[i]) THEN ErrorsUpTo(f, i - 1) + 1 ELSE ErrorsUpTo(f, i - 1)
    <3>1. Cardinality(E(i - 1) \cup {i}) = Cardinality(E(i - 1)) + 1
      <4> HIDE DEF E
      <4> QED  BY <1>3, <2>1, <2>3, FS_AddElement
    <3> QED  BY <1>5, <2>1, <2>2, <3>1
  <2>5. KeptUpTo(f, i) = IF kept THEN KeptUpTo(f, i - 1) \cup {i} ELSE KeptUpTo(f, i - 1)
    <3> DEFINE Keep(n) == f[n][1] = "error" /\ MaxErrors # 0 => ErrorsUpTo(f, n) <= MaxErrors
    <3>1. \A n : KeptUpTo(f, n) = {j \in 1..n : Keep(j)}
      BY DEF KeptUpTo
    <3>2. Keep(i) <=> kept
      BY DEF IsError
    <3> HIDE DEF Keep, kept
    <3>3. \A j : j \in KeptUpTo(f, i) <=> j \in KeptUpTo(f, i - 1) \/ (j = i /\ kept)
      BY <2>1, <3>1, <3>2
    <3> QED  BY <3>3
  <2>6. Cardinality(KeptUpTo(f, i - 1) \cup {i}) = Cardinality(KeptUpTo(f, i - 1)) + 1
    BY <1>3, <2>1, <2>3, FS_AddElement
  <2> HIDE DEF kept
  <2>7. Cardinality(KeptUpTo(f, i)) = IF kept THEN Cardinality(KeptUpTo(f, i - 1)) + 1 ELSE Cardinality(KeptUpTo(f, i - 1))
    BY <2>5, <2>6
  <2> QED  BY <2>4, <2>5, <2>7 DEF kept
<1> QED  BY <1>3, <1>4, <1>5, <1>7, <1>6, <1>8

\* The diagnostics kept of the first i of f: each at the place that counting gives it.
KeepsFirst(f, i, c) ==
  /\ c.errors = ErrorsUpTo(f, i)
  /\ Len(c.items) = Cardinality(KeptUpTo(f, i))
  /\ \A j \in KeptUpTo(f, i) :
       LET place == Cardinality(KeptUpTo(f, j)) IN place \in 1..Len(c.items) /\ c.items[place] = f[j]
  /\ Len(c.items) <= i /\ (Len(c.items) < i <=> Overflows(c))
  /\ c.errors # 0 <=> \E n \in 1..Len(c.items) : IsError(c.items[n])

LEMMA KeepsOneMore ==
  ASSUME NEW f \in Seq(Diagnostic), NEW i \in 1..Len(f), NEW c \in Collection, KeepsFirst(f, i - 1, c)
  PROVE  KeepsFirst(f, i, diag_add(c, f[i]))
<1> DEFINE d == diag_add(c, f[i])
           x == f[i]
           kept == ~IsError(f[i]) \/ MaxErrors = 0 \/ ErrorsUpTo(f, i) <= MaxErrors
<1>0. i \in Nat /\ i - 1 \in Nat /\ i > 0 /\ x \in Diagnostic /\ MaxErrors \in Nat /\ c.errors \in Nat /\ c.items \in Seq(Diagnostic)
      /\ Len(c.items) \in Nat
  BY ElementOfSeq, LenProperties, ErrorLimitAssumption DEF Collection
<1>1. /\ d.errors = IF IsError(x) THEN c.errors + 1 ELSE c.errors
      /\ IsError(x) /\ Overflows(d) => d.items = c.items
      /\ ~(IsError(x) /\ Overflows(d)) => d.items = Append(c.items, x)
  BY <1>0, AddIs
<1>2. /\ ErrorsUpTo(f, i) = IF IsError(x) THEN ErrorsUpTo(f, i - 1) + 1 ELSE ErrorsUpTo(f, i - 1)
      /\ KeptUpTo(f, i) = IF kept THEN KeptUpTo(f, i - 1) \cup {i} ELSE KeptUpTo(f, i - 1)
      /\ Cardinality(KeptUpTo(f, i)) = IF kept THEN Cardinality(KeptUpTo(f, i - 1)) + 1 ELSE Cardinality(KeptUpTo(f, i - 1))
      /\ Cardinality(KeptUpTo(f, i - 1)) \in Nat
  BY <1>0, CountsGrow
<1> HIDE DEF d
<1>3. d.errors = ErrorsUpTo(f, i) /\ (kept <=> ~(IsError(x) /\ Overflows(d)))
  BY <1>0, <1>1, <1>2 DEF KeepsFirst, Overflows
<1>4. CASE kept
  <2>1. /\ d.items = Append(c.items, x) /\ Len(d.items) = Len(c.items) + 1 /\ d.items[Len(c.items) + 1] = x
        /\ \A n \in 1..Len(c.items) : d.items[n] = c.items[n]
    BY <1>0, <1>1, <1>3, <1>4, AppendProperties
  <2>2. Len(d.items) = Cardinality(KeptUpTo(f, i)) /\ KeptUpTo(f, i) = KeptUpTo(f, i - 1) \cup {i}
    BY <1>2, <1>4, <2>1 DEF KeepsFirst
  <2>3. ASSUME NEW j \in KeptUpTo(f, i)
        PROVE  LET place == Cardinality(KeptUpTo(f, j)) IN place \in 1..Len(d.items) /\ d.items[place] = f[j]
    <3>1. CASE j = i
      <4>1. Cardinality(KeptUpTo(f, j)) = Len(c.items) + 1
        BY <2>1, <2>2, <3>1
      <4>2. Len(c.items) + 1 \in 1..Len(d.items) /\ d.items[Len(c.items) + 1] = f[j]
        BY <1>0, <2>1, <3>1
      <4> QED  BY <4>1, <4>2
    <3>2. CASE j \in KeptUpTo(f, i - 1)
      <4>1. PICK place : place = Cardinality(KeptUpTo(f, j)) /\ place \in 1..Len(c.items) /\ c.items[place] = f[j]
        BY <3>2 DEF KeepsFirst
      <4>2. place \in 1..Len(d.items) /\ d.items[place] = f[j]
        BY <1>0, <2>1, <4>1
      <4> QED  BY <4>1, <4>2
    <3> QED  BY <2>2, <3>1, <3>2
  <2>4. Len(d.items) <= i /\ (Len(d.items) < i <=> Overflows(d))
    <3>1. Overflows(d) <=> Overflows(c)
      BY <1>0, <1>1, <1>3, <1>4 DEF Overflows
    <3>2. Len(c.items) <= i - 1 /\ (Len(c.items) < i - 1 <=> Overflows(c))
      BY DEF KeepsFirst
    <3> QED  BY <1>0, <2>1, <3>1, <3>2
  <2>5. d.errors # 0 <=> \E n \in 1..Len(d.items) : IsError(d.items[n])
    <3>1. c.errors # 0 <=> \E n \in 1..Len(c.items) : IsError(c.items[n])
      BY DEF KeepsFirst
    <3>2. (\E n \in 1..Len(d.items) : IsError(d.items[n])) <=> IsError(x) \/ \E n \in 1..Len(c.items) : IsError(c.items[n])
      <4>1. 1..Len(d.items) = (1..Len(c.items)) \cup {Len(c.items) + 1}
        BY <1>0, <2>1
      <4> QED  BY <2>1, <4>1
    <3>3. d.errors # 0 <=> IsError(x) \/ c.errors # 0
      BY <1>0, <1>1
    <3> QED  BY <3>1, <3>2, <3>3, Zenon
  <2> QED  BY <1>3, <2>2, <2>3, <2>4, <2>5 DEF KeepsFirst, d
<1>5. CASE ~kept
  <2>1. d.items = c.items /\ IsError(x) /\ Overflows(d) /\ KeptUpTo(f, i) = KeptUpTo(f, i - 1)
    BY <1>1, <1>2, <1>3, <1>5
  <2>2. Len(c.items) <= i - 1 /\ Len(d.items) <= i /\ Len(d.items) < i
    BY <1>0, <2>1 DEF KeepsFirst
  <2>3. d.errors # 0 /\ \E n \in 1..Len(d.items) : IsError(d.items[n])
    <3>1. c.errors # 0 /\ d.errors # 0
      BY <1>0, <1>1, <2>1 DEF Overflows
    <3> QED  BY <2>1, <3>1 DEF KeepsFirst
  <2> QED  BY <1>2, <1>3, <1>5, <2>1, <2>2, <2>3 DEF KeepsFirst, d
<1> QED  BY <1>4, <1>5

LEMMA KeepsAll ==
  ASSUME NEW f \in Seq(Diagnostic)
  PROVE  KeepsFirst(f, Len(f), Added(NoDiags, f))
<1>0. Len(f) \in Nat /\ MaxErrors \in Nat
  BY LenProperties, ErrorLimitAssumption
<1>1. NoDiags \in Collection /\ NoDiags.items = <<>> /\ NoDiags.errors = 0 /\ Len(NoDiags.items) = 0
  BY EmptySeq DEF NoDiags, Collection
<1>2. PICK a : /\ a[0] = NoDiags /\ a[Len(f)] = Added(NoDiags, f)
               /\ \A i \in 1..Len(f) : a[i] = diag_add(a[i - 1], f[i])
               /\ \A i \in 0..Len(f) : a[i] \in Collection
  BY <1>1, AddedIs
<1> DEFINE P == {i \in Nat : KeepsFirst(f, i, a[i])}
<1>3. 0 \in P
  <2>1. ErrorsUpTo(f, 0) = 0 /\ KeptUpTo(f, 0) = {} /\ Cardinality(KeptUpTo(f, 0)) = 0
    BY CountsGrow
  <2>2. KeepsFirst(f, 0, NoDiags)
    BY <1>0, <1>1, <2>1 DEF KeepsFirst, Overflows
  <2> QED  BY <1>2, <2>2
<1>4. ASSUME NEW i \in 0 + 1 .. Len(f), i - 1 \in P PROVE i \in P
  <2>1. i \in 1..Len(f) /\ i - 1 \in 0..Len(f) /\ i \in Nat
    BY <1>0
  <2>2. KeepsFirst(f, i - 1, a[i - 1]) /\ a[i - 1] \in Collection /\ a[i] = diag_add(a[i - 1], f[i])
    BY <1>2, <1>4, <2>1
  <2>3. KeepsFirst(f, i, a[i])
    BY <2>1, <2>2, KeepsOneMore
  <2> QED  BY <2>1, <2>3
<1> HIDE DEF P
<1>5. \A i \in 0 .. Len(f) : i \in P
  BY <1>0, <1>3, <1>4, Along
<1>6. Len(f) \in P
  BY <1>0, <1>5
<1> QED  BY <1>2, <1>6 DEF P

-----------------------------------------------------------------------------
(* What was found, and the names of the files.                             *)

LEMMA CheckedType ==
  ASSUME inv \in Invocations
  PROVE  SemaCheck(inv.source.decls) # Nothing /\ SemaCheck(inv.source.decls).ds \in Seq(Diagnostic)
<1>1. Levels \X STRING \subseteq Diagnostic
  BY DEF Diagnostic, Messages
<1>2. Seq(Levels \X STRING) \subseteq Seq(Diagnostic)
  BY <1>1, SeqMonotonic
<1>3. inv.source.decls \in {i.source.decls : i \in Invocations}
  OBVIOUS
<1>4. SemaCheck(inv.source.decls) # Nothing /\ SemaCheck(inv.source.decls).ds \in Seq(Levels \X STRING)
  BY <1>3, CheckAssumption, Zenon
<1> QED  BY <1>2, <1>4

LEMMA FoundType ==
  ASSUME TypeInv
  PROVE  FoundByLexer \in Seq(Diagnostic) /\ FoundByParser \in Seq(Diagnostic) /\ Found \in Seq(Diagnostic)
<1>1. inv.source.lexical \in Nat /\ inv.source.syntax \in Nat
  BY InvocationAssumption DEF TypeInv
<1>2. FoundByLexer \in Seq(Diagnostic) /\ FoundByParser \in Seq(Diagnostic)
  <2>1. ASSUME NEW n \in Nat, NEW what \in Messages
        PROVE  Errors(n, what) \in Seq(Diagnostic)
    <3>1. Errors(n, what) \in UNION {[1..m -> Diagnostic] : m \in Nat}
      BY DEF Errors, Diagnostic, Levels
    <3> QED  BY <3>1, SeqDef, Zenon
  <2>2. "lexical" \in Messages /\ "syntax" \in Messages
    BY DEF Messages
  <2> QED  BY <1>1, <2>1, <2>2 DEF FoundByLexer, FoundByParser
<1>3. FoundByLexer \o FoundByParser \in Seq(Diagnostic)
  BY <1>2, ConcatProperties
<1>4. (IF prog = Nothing THEN <<>> ELSE prog.ds) \in Seq(Diagnostic)
  BY CheckedType, EmptySeq DEF TypeInv
<1>5. FoundByLexer \o FoundByParser \o (IF prog = Nothing THEN <<>> ELSE prog.ds) \in Seq(Diagnostic)
  BY <1>3, <1>4, ConcatProperties
<1> QED  BY <1>2, <1>3, <1>5 DEF Found, LastPass

\* Three names, once parse_args has found an input.
LEMMA NamesDiffer ==
  ASSUME TypeInv, ArgInv, opts.input # NULL
  PROVE  Output # IlPath /\ Output # AsmPath /\ IlPath # AsmPath
<1>1. Output \in OutputNames(inv)
  BY DEF TypeInv, ArgInv, Output, OutputNames
<1> QED  BY <1>1, EndingAssumption DEF TypeInv, IlPath, AsmPath

LEMMA WriteMine ==
  ASSUME NEW path, Write(path)
  PROVE  /\ DOMAIN disk' = DOMAIN disk \cup {path}
         /\ \A p \in DOMAIN disk' : disk'[p] = IF p = path THEN "mine" ELSE disk[p]
BY DEF Write

LEMMA RemovedGone ==
  ASSUME NEW paths, Removed(paths)
  PROVE  DOMAIN disk' = DOMAIN disk \ paths /\ \A p \in DOMAIN disk' : disk'[p] = disk[p]
BY DEF Removed

-----------------------------------------------------------------------------
(* Sequences and what is printed.                                          *)

LEMMA SecondOfSeq ==
  ASSUME NEW S, NEW s \in Seq(S), Len(s) > 1
  PROVE  /\ s[2] \in S /\ 2 \in DOMAIN s
         /\ Tail(Tail(s)) \in Seq(S)
         /\ \A n \in DOMAIN Tail(Tail(s)) : n + 2 \in DOMAIN s /\ Tail(Tail(s))[n] = s[n + 2]
<1> DEFINE t == Tail(s)
<1>1. Len(s) \in Nat /\ DOMAIN s = 1..Len(s) /\ s # <<>>
  BY LenProperties, EmptySeq
<1>2. s[2] \in S /\ 2 \in DOMAIN s
  BY <1>1, ElementOfSeq
<1>3. t \in Seq(S) /\ Len(t) = Len(s) - 1 /\ \A n \in 1..Len(t) : t[n] = s[n + 1]
  BY <1>1, HeadTailProperties
<1> HIDE DEF t
<1>4. t # <<>>
  BY <1>1, <1>3, EmptySeq
<1>5. Tail(t) \in Seq(S) /\ Len(Tail(t)) = Len(t) - 1 /\ \A n \in 1..Len(Tail(t)) : Tail(t)[n] = t[n + 1]
  BY <1>3, <1>4, HeadTailProperties
<1> DEFINE u == Tail(t)
<1>6. u \in Seq(S) /\ Len(u) = Len(t) - 1 /\ \A n \in 1..Len(u) : u[n] = t[n + 1]
  BY <1>5
<1> HIDE DEF u
<1>7. DOMAIN u = 1..Len(u)
  BY <1>6, LenProperties
<1>8. \A n \in DOMAIN u : n + 2 \in DOMAIN s /\ u[n] = s[n + 2]
  BY <1>1, <1>3, <1>6, <1>7
<1> QED  BY <1>2, <1>6, <1>8 DEF u, t

\* What one message behind what is there makes of it.
LEMMA AppendParts ==
  ASSUME NEW S, NEW s \in Seq(S), NEW e
  PROVE  /\ Append(s, e) # <<>> /\ Append(s, e) # s
         /\ Len(s) \in Nat /\ Len(Append(s, e)) = Len(s) + 1
         /\ DOMAIN s = 1..Len(s) /\ DOMAIN Append(s, e) = 1..(Len(s) + 1)
         /\ Append(s, e)[Len(s) + 1] = e
         /\ \A n \in 1..Len(s) : Append(s, e)[n] = s[n]
<1> DEFINE T == S \cup {e}
           a == Append(s, e)
<1>1. s \in Seq(T) /\ e \in T
  BY SeqMonotonic
<1>2. a \in Seq(T) /\ Len(a) = Len(s) + 1 /\ (\A n \in 1..Len(s) : a[n] = s[n]) /\ a[Len(s) + 1] = e /\ a # <<>>
  BY <1>1, AppendProperties
<1> HIDE DEF a
<1>3. Len(s) \in Nat /\ DOMAIN s = 1..Len(s) /\ DOMAIN a = 1..Len(a)
  BY <1>1, <1>2, LenProperties
<1>4. a # s
  BY <1>2, <1>3
<1> QED  BY <1>2, <1>3, <1>4 DEF a

\* What is printed first, and what is said last.
LEMMA PrintsFirst ==
  ASSUME stdout = <<>>, NEW what, NEW text, Prints(what, text)
  PROVE  Printed(what)' /\ Len(stdout') = 1 /\ stdout'[1].text = text
<1>1. stdout \in Seq({}) /\ Len(stdout) = 0
  BY EmptySeq
<1>2. Len(stdout') = 1 /\ DOMAIN stdout' = 1..1 /\ stdout'[1] = [what |-> what, text |-> text]
  BY <1>1, AppendParts DEF Prints
<1> QED  BY <1>2 DEF Printed

LEMMA SaysLast ==
  ASSUME NEW S, stderr \in Seq(S), NEW what, Say(what)
  PROVE  /\ stderr' = Append(stderr, <<"rivelc", what>>) /\ stderr' # <<>>
         /\ stderr'[Len(stderr')] = <<"rivelc", what>>
         /\ \E n \in DOMAIN stderr' : stderr'[n][1] = "rivelc"
<1>1. /\ stderr' = Append(stderr, <<"rivelc", what>>) /\ stderr' # <<>>
      /\ Len(stderr) \in Nat /\ Len(stderr') = Len(stderr) + 1 /\ DOMAIN stderr' = 1..(Len(stderr) + 1)
      /\ stderr'[Len(stderr) + 1] = <<"rivelc", what>>
  BY AppendParts DEF Say
<1>2. Len(stderr') \in DOMAIN stderr' /\ stderr'[Len(stderr')][1] = "rivelc"
  BY <1>1
<1> QED  BY <1>1, <1>2

-----------------------------------------------------------------------------
(* What is shown of what was found.                                        *)

LEMMA NoDiagsIs ==
  NoDiags \in Collection /\ diags_ok(NoDiags) /\ NoDiags.items = <<>> /\ NoDiags.errors = 0 /\ Listing(NoDiags) = <<>>
<1>1. NoDiags \in Collection /\ NoDiags.items = <<>> /\ NoDiags.errors = 0
  BY EmptySeq DEF NoDiags, Collection
<1>2. ~(MaxErrors # 0 /\ NoDiags.errors > MaxErrors)
  BY <1>1, ErrorLimitAssumption
<1>3. Listing(NoDiags) = <<>> \o <<>>
  BY <1>1, <1>2 DEF Listing
<1>4. <<>> \in Seq(Diagnostic)
  BY EmptySeq
<1>5. <<>> \o <<>> = <<>>
  BY <1>4, ConcatEmptySeq
<1> QED  BY <1>1, <1>3, <1>5 DEF diags_ok

\* The listing of a collection: its diagnostics, and a line behind them when there were
\* more errors.
LEMMA ListingIs ==
  ASSUME NEW c \in Collection
  PROVE  /\ ~Overflows(c) => Listing(c) = c.items
         /\ Overflows(c) => Listing(c) = Append(c.items, TooMany)
         /\ c.items \in Seq(Diagnostic) /\ TooMany \in Diagnostic /\ Listing(c) \in Seq(Diagnostic)
<1>1. c.items \in Seq(Diagnostic) /\ TooMany \in Diagnostic
  BY DEF Collection, TooMany, Diagnostic, Levels, Messages
<1>2. c.items \o <<>> = c.items
  BY <1>1, ConcatEmptySeq
<1>3. c.items \o <<TooMany>> = Append(c.items, TooMany) /\ Append(c.items, TooMany) \in Seq(Diagnostic)
  BY <1>1, AppendProperties, AppendIsConcat
<1>4. Listing(c) = IF Overflows(c) THEN c.items \o <<TooMany>> ELSE c.items \o <<>>
  BY Zenon DEF Listing, Overflows
<1> QED  BY <1>1, <1>2, <1>3, <1>4

LEMMA KeptType ==
  ASSUME TypeInv
  PROVE  Kept \in Collection /\ Shown \in Seq(Diagnostic)
BY FoundType, NoDiagsIs, AddedType, ListingIs DEF Kept, Shown

\* What is kept, and then the line, in the words of the property.
LEMMA ShownParts ==
  ASSUME TypeInv
  PROVE  /\ NumberKept \in Nat /\ Len(Kept.items) = NumberKept /\ ShowsFound(Kept.items)
         /\ ShowsFound(Shown)
         /\ NumberKept < Len(Found) => Len(Shown) = NumberKept + 1 /\ Shown[NumberKept + 1] = TooMany
         /\ ~(NumberKept < Len(Found)) => Len(Shown) = NumberKept
         /\ ~diags_ok(Kept) <=> \E n \in 1..Len(Shown) : IsError(Shown[n])
<1> DEFINE items == Kept.items
           more == NumberKept < Len(Found)
<1>1. Kept \in Collection /\ Found \in Seq(Diagnostic)
  BY KeptType, FoundType
<1>2. KeepsFirst(Found, Len(Found), Kept)
  BY <1>1, KeepsAll DEF Kept
<1>3. items \in Seq(Diagnostic) /\ Len(items) \in Nat /\ DOMAIN items = 1..Len(items) /\ Kept.errors \in Nat /\ MaxErrors \in Nat
  BY <1>1, LenProperties, ErrorLimitAssumption DEF Collection
<1>4. Len(items) = NumberKept /\ (more <=> Overflows(Kept)) /\ (~diags_ok(Kept) <=> \E n \in 1..Len(items) : IsError(items[n]))
  BY <1>2 DEF KeepsFirst, NumberKept, diags_ok
<1>5. /\ ~Overflows(Kept) => Shown = items
      /\ Overflows(Kept) => Shown = Append(items, TooMany)
      /\ TooMany \in Diagnostic /\ Shown \in Seq(Diagnostic)
  BY <1>1, ListingIs DEF Shown
<1>6. ShowsFound(items)
  BY <1>2, <1>3 DEF KeepsFirst, ShowsFound
<1> HIDE DEF items
<1>7. CASE more
  <2>1. Shown = Append(items, TooMany)
    BY <1>4, <1>5, <1>7
  <2>2. /\ Len(Shown) = Len(items) + 1 /\ Shown[Len(items) + 1] = TooMany /\ DOMAIN Shown = 1..(Len(items) + 1)
        /\ \A n \in 1..Len(items) : Shown[n] = items[n]
    BY <1>3, <2>1, AppendParts
  <2>3. ShowsFound(Shown)
    <3>1. \A n \in DOMAIN items : n \in DOMAIN Shown /\ Shown[n] = items[n]
      BY <1>3, <2>2
    <3> QED  BY <1>6, <3>1 DEF ShowsFound
  <2>4. ~diags_ok(Kept) /\ \E n \in 1..Len(Shown) : IsError(Shown[n])
    <3>1. Kept.errors # 0
      BY <1>3, <1>4, <1>7 DEF Overflows
    <3>2. Len(items) + 1 \in 1..Len(Shown) /\ IsError(Shown[Len(items) + 1])
      BY <1>3, <2>2 DEF IsError, TooMany
    <3> QED  BY <3>1, <3>2 DEF diags_ok
  <2> QED  BY <1>3, <1>4, <1>6, <1>7, <2>2, <2>3, <2>4 DEF items
<1>8. CASE ~more
  <2>1. Shown = items
    BY <1>4, <1>5, <1>8
  <2> QED  BY <1>3, <1>4, <1>6, <1>8, <2>1 DEF items
<1> QED  BY <1>7, <1>8

\* Nothing is shown only if nothing was kept.
ShowsNothing == Shown = <<>>
KeepsNothing == Kept = NoDiags
LEMMA NothingShown ==
  ASSUME TypeInv, ShowsNothing
  PROVE  KeepsNothing
<1>1. Kept \in Collection /\ Shown \in Seq(Diagnostic) /\ Len(Shown) = 0
  BY KeptType, EmptySeq DEF ShowsNothing
<1>2. Len(Kept.items) = 0 /\ diags_ok(Kept)
  BY <1>1, ShownParts
<1>3. Kept.items = <<>> /\ Kept.errors = 0
  BY <1>1, <1>2, EmptySeq DEF diags_ok, Collection
<1> QED  BY <1>1, <1>3 DEF KeepsNothing, NoDiags, Collection

LEMMA NothingShownNext ==
  ASSUME TypeInv', Shown' = <<>>
  PROVE  Kept' = NoDiags
<1>1. TypeInv' /\ ShowsNothing' => KeepsNothing'
  BY NothingShown, PTL
<1> QED  BY <1>1 DEF ShowsNothing, KeepsNothing

-----------------------------------------------------------------------------
(* Types                                                                   *)

LEMMA InitInv == Init => DInv
<1> SUFFICES ASSUME Init PROVE DInv  OBVIOUS
<1> USE DEF Init
<1>1. TypeInv
  <2>1. argv \in Seq(STRING) /\ inv \in Invocations
    BY InvocationAssumption
  <2>2. opts \in Options
    <3>1. <<>> \in Seq(STRING)
      BY EmptySeq
    <3>2. {} \in SUBSET Flags /\ -1 \in {-1, 0, 2}
      OBVIOUS
    <3> QED  BY <3>1, <3>2 DEF Options, Names, NoOptions
  <2>3. diags \in Collection
    BY NoDiagsIs
  <2> QED  BY <2>1, <2>2, <2>3 DEF TypeInv, Early
<1>2. ArgInv
  <2>1. opts.input = NULL /\ opts.output = NULL /\ opts.exit = -1
    BY DEF NoOptions
  <2>2. {argv[n] : n \in DOMAIN argv} \subseteq ToSet(inv.args)
    BY DEF ToSet
  <2>3. {opts.input, opts.output} \subseteq ToSet(inv.args) \cup {NULL}
    BY <2>1
  <2>4. pc = "start" /\ opts.exit # 0 /\ opts.exit # 2
    BY <2>1
  <2> QED  BY <2>1, <2>2, <2>3, <2>4, Zenon DEF ArgInv
<1>3. PassInv
  BY DEF PassInv, Early, Tools
<1>4. StatusInv
  BY DEF StatusInv, Early, Tools
<1>5. DiskInv
  BY InvocationAssumption DEF DiskInv, Early, MineIsIn
<1> QED  BY <1>1, <1>2, <1>3, <1>4, <1>5 DEF DInv

LEMMA TypeStep ==
  ASSUME TypeInv, [Next]_vars
  PROVE  TypeInv'
<1> USE DEF TypeInv, Early, Tools
<1>1. CASE ParseArgs
  <2> USE <1>1 DEF UnchangedByArgs, Quiet, EndsWith, Exit
  <2>0. inv' \in Invocations /\ diags' \in Collection /\ prog' \in {Nothing, SemaCheck(inv'.source.decls)}
    BY DEF ParseArgs, StartArgs, TakeRunArgs, ShowUsage, TakeValue, SetFlag, TakeInput, RefuseArgs, EndArgs
  <2>1. argv # <<>> => Head(argv) \in STRING /\ Tail(argv) \in Seq(STRING) /\ Len(Tail(argv)) = Len(argv) - 1
    BY HeadTailProperties
  <2>2. ASSUME NEW o \in {opts}, NEW x
        PROVE  /\ x \in BOOLEAN => [o EXCEPT !.run = x] \in Options
               /\ x \in Seq(STRING) => [o EXCEPT !.run_argv = x] \in Options
               /\ x \in {-1, 0, 2} => [o EXCEPT !.exit = x] \in Options
               /\ x \in STRING => [o EXCEPT !.output = x] \in Options /\ [o EXCEPT !.target = x] \in Options
               /\ x \in STRING => [o EXCEPT !.input = x] \in Options
               /\ x \in Flags => [o EXCEPT !.flags = @ \cup {x}] \in Options
    BY DEF Options, Names
  <2>3. CASE StartArgs
    BY <2>0, <2>1, <2>2, <2>3 DEF StartArgs
  <2>4. CASE TakeRunArgs
    BY <2>0, <2>2, <2>4, EmptySeq DEF TakeRunArgs
  <2>5. CASE ShowUsage
    BY <2>0, <2>2, <2>5 DEF ShowUsage
  <2>6. CASE TakeValue
    <3>1. argv # <<>> /\ Len(argv) > 1
      BY <2>6 DEF TakeValue, Reading
    <3>2. argv[2] \in STRING /\ Tail(Tail(argv)) \in Seq(STRING)
      BY <3>1, SecondOfSeq
    <3> QED  BY <2>0, <2>2, <2>6, <3>2 DEF TakeValue, Reading
  <2>7. CASE SetFlag
    BY <2>0, <2>1, <2>2, <2>7 DEF SetFlag, Reading
  <2>8. CASE TakeInput
    BY <2>0, <2>1, <2>2, <2>8 DEF TakeInput, Reading, NextArg
  <2>9. CASE RefuseArgs
    BY <2>0, <2>2, <2>9 DEF RefuseArgs, Reading
  <2>10. CASE EndArgs
    BY <2>0, <2>10 DEF EndArgs
  <2> QED  BY <2>3, <2>4, <2>5, <2>6, <2>7, <2>8, <2>9, <2>10 DEF ParseArgs
<1>2. CASE Lex \/ Parse
  BY <1>2, FoundType, AddedType DEF Lex, Parse, Pass, Finish
<1>3. CASE Check
  <2>1. CASE diags_ok(diags) \/ Analyzing
    <3>1. prog' = SemaCheck(inv.source.decls) /\ diags' = Added(diags, prog'.ds)
      BY <1>3, <2>1 DEF Check
    <3>2. TypeInv' <=> diags' \in Collection
      BY <1>3, <3>1 DEF Check
    <3>3. SemaCheck(inv.source.decls).ds \in Seq(Diagnostic)
      BY CheckedType
    <3> QED  BY <3>1, <3>2, <3>3, AddedType
  <2> QED  BY <1>3, <2>1 DEF Check
<1>4. CASE Load \/ Analyze \/ Lower \/ PrintWarnings
  BY <1>4, NoDiagsIs DEF Load, Analyze, Lower, PrintWarnings, Exit, Finish
<1>5. CASE Build
  BY <1>5 DEF Build, WriteIl, CannotWriteIl, NoBackend, Backend, BackendFails, NoRuntime, Link, LinkFails, Cleanup,
              UnchangedByBuild, Fail, Finish
<1>6. CASE RunProgram \/ CannotRun \/ Done \/ Exited \/ UNCHANGED vars
  BY <1>6 DEF RunProgram, CannotRun, Done, Exited, Finish, vars
<1> QED  BY <1>1, <1>2, <1>3, <1>4, <1>5, <1>6 DEF Next, Compile

-----------------------------------------------------------------------------
(* The command line                                                        *)

Later == Compile \/ Build \/ RunProgram \/ CannotRun \/ Done

LEMMA AfterArgs ==
  ASSUME Later
  PROVE  UNCHANGED <<inv, argv, opts>> /\ pc \notin {"start", "args", "exited"} /\ pc' \notin {"start", "args"}
<1>1. CASE Compile
  BY <1>1 DEF Compile, Load, Lex, Parse, Pass, Check, Analyze, Lower, PrintWarnings, Exit, Finish
<1>2. CASE Build
  BY <1>2 DEF Build, WriteIl, CannotWriteIl, NoBackend, Backend, BackendFails, NoRuntime, Link, LinkFails, Cleanup,
              UnchangedByBuild, Fail, Finish
<1>3. CASE RunProgram \/ CannotRun \/ Done
  BY <1>3 DEF RunProgram, CannotRun, Done, Finish
<1> QED  BY <1>1, <1>2, <1>3 DEF Later

LEMMA Stutter ==
  ASSUME DInv, UNCHANGED vars
  PROVE  DInv'
<1> USE DEF DInv, vars
<1>1. TypeInv' /\ ArgInv'
  BY DEF TypeInv, ArgInv, Printed
<1>2. UNCHANGED <<Output, IlPath, AsmPath, FoundByLexer, FoundByParser, LastPass, Analyzing, Found, Wanted, WasRead, Asked>>
  BY DEF Output, IlPath, AsmPath, FoundByLexer, FoundByParser, LastPass, Analyzing, Flag, Found, Wanted, WasRead,
         source_from_file, FromStdin, Asked, Printed, Mine, Exists
<1>2a. UNCHANGED <<Kept, Shown>>
  BY <1>2 DEF Kept, Shown
<1>3. PassInv'
  BY <1>2, <1>2a DEF PassInv, Complained, Said, Flag
<1>4. StatusInv' /\ DiskInv'
  BY <1>2, <1>2a DEF StatusInv, Complained, Said, StatusTellsTheTruth, DiskInv, MineIsIn, Mine, Exists, Flag
<1> QED  BY <1>1, <1>3, <1>4

LEMMA ArgStep ==
  ASSUME TypeInv, ArgInv, PassInv, Next
  PROVE  ArgInv'
<1>1. CASE ParseArgs
  <2> USE <1>1 DEF UnchangedByArgs, Quiet, EndsWith, Exit
  <2> DEFINE Given(o, a) == /\ {a[n] : n \in DOMAIN a} \subseteq ToSet(inv.args)
                            /\ {o.input, o.output} \subseteq ToSet(inv.args) \cup {NULL}
  <2>0. /\ Given(opts, argv) /\ opts \in Options /\ argv \in Seq(STRING) /\ opts.exit = -1 /\ inv' = inv
        /\ stderr = <<>> /\ stdout = <<>> /\ pc \in {"start", "args"}
    BY DEF ParseArgs, StartArgs, TakeRunArgs, ShowUsage, TakeValue, SetFlag, TakeInput, RefuseArgs, EndArgs, Reading,
           TypeInv, ArgInv, PassInv, Early
  <2>1. ASSUME argv # <<>>
        PROVE  Head(argv) \in ToSet(inv.args) /\ {Tail(argv)[n] : n \in DOMAIN Tail(argv)} \subseteq ToSet(inv.args)
    <3>1. Tail(argv) \in Seq(STRING) /\ Len(Tail(argv)) = Len(argv) - 1 /\ \A n \in 1..Len(Tail(argv)) : Tail(argv)[n] = argv[n + 1]
      BY <2>0, <2>1, HeadTailProperties
    <3> DEFINE t == Tail(argv)
    <3>2. t \in Seq(STRING) /\ Len(t) = Len(argv) - 1 /\ \A n \in 1..Len(t) : t[n] = argv[n + 1]
      BY <3>1
    <3>3. Head(argv) = argv[1] /\ Len(argv) \in Nat \ {0} /\ DOMAIN argv = 1..Len(argv)
      <4>1. Len(argv) \in Nat /\ DOMAIN argv = 1..Len(argv)
        BY <2>0, LenProperties
      <4>2. Head(argv) = argv[1]
        BY <2>0, <2>1, HeadTailProperties
      <4>3. Len(argv) # 0
        BY <2>0, <2>1, EmptySeq
      <4> QED  BY <4>1, <4>2, <4>3
    <3> HIDE DEF t
    <3>4. DOMAIN t = 1..Len(t)
      BY <3>2, LenProperties
    <3>5. \A n \in DOMAIN t : n + 1 \in DOMAIN argv /\ t[n] = argv[n + 1]
      BY <3>2, <3>3, <3>4
    <3>6. {t[n] : n \in DOMAIN t} \subseteq ToSet(inv.args) /\ argv[1] \in ToSet(inv.args)
      BY <2>0, <3>3, <3>5
    <3> QED  BY <3>3, <3>6 DEF t
  <2>2. CASE StartArgs
    <3>1. argv' = argv \/ (argv # <<>> /\ argv' = Tail(argv))
      BY <2>2 DEF StartArgs
    <3>2. opts'.input = opts.input /\ opts'.output = opts.output /\ opts'.exit = -1 /\ pc' = "args"
      BY <2>0, <2>2 DEF StartArgs, Options
    <3>3. Given(opts', argv')
      BY <2>0, <2>1, <3>1, <3>2
    <3> QED  BY <2>0, <3>2, <3>3 DEF ArgInv
  <2>3. CASE TakeRunArgs
    <3>1. opts'.input = opts.input /\ opts'.output = opts.output /\ opts'.exit = -1 /\ pc' = "args" /\ argv' = <<>>
      BY <2>0, <2>3 DEF TakeRunArgs, Options
    <3> QED  BY <2>0, <3>1 DEF ArgInv
  <2>4. CASE ShowUsage
    <3>1. opts'.input = opts.input /\ opts'.output = opts.output /\ opts'.exit = 0 /\ pc' = "exited" /\ argv' = argv
      BY <2>0, <2>4 DEF ShowUsage, Options
    <3>2. Prints("usage or version", <<>>) /\ status' = 0 /\ stderr' = <<>>
      BY <2>0, <2>4 DEF ShowUsage
    <3>3. Printed("usage or version")'
      BY <2>0, <3>2, PrintsFirst
    <3>4. Given(opts', argv') /\ inv' = inv /\ opts'.exit # -1 /\ opts'.exit # 2
      BY <2>0, <3>1
    <3> QED  BY <3>1, <3>2, <3>3, <3>4, Zenon DEF ArgInv
  <2>5. CASE TakeValue
    <3>1. argv # <<>> /\ Len(argv) > 1 /\ argv' = Tail(Tail(argv)) /\ pc' = "args"
      BY <2>5 DEF TakeValue, Reading
    <3>2. argv[2] \in ToSet(inv.args) /\ {argv'[n] : n \in DOMAIN argv'} \subseteq ToSet(inv.args)
      BY <2>0, <3>1, SecondOfSeq
    <3>3. opts'.input = opts.input /\ opts'.output \in {opts.output, argv[2]} /\ opts'.exit = -1
      BY <2>0, <2>5 DEF TakeValue, Options
    <3> QED  BY <2>0, <3>1, <3>2, <3>3 DEF ArgInv
  <2>6. CASE SetFlag
    <3>1. argv # <<>> /\ argv' = Tail(argv) /\ pc' = "args"
      BY <2>6 DEF SetFlag, Reading
    <3>2. opts'.input = opts.input /\ opts'.output = opts.output /\ opts'.exit = -1
      BY <2>0, <2>6 DEF SetFlag, Options
    <3> QED  BY <2>0, <2>1, <3>1, <3>2 DEF ArgInv
  <2>7. CASE TakeInput
    <3>1. argv # <<>> /\ argv' = Tail(argv) /\ pc' = "args"
      BY <2>7 DEF TakeInput, Reading
    <3>2. opts'.input = Head(argv) /\ opts'.output = opts.output /\ opts'.exit = -1
      BY <2>0, <2>7 DEF TakeInput, NextArg, Options
    <3> QED  BY <2>0, <2>1, <3>1, <3>2 DEF ArgInv
  <2>8. CASE RefuseArgs
    <3>1. opts'.input = opts.input /\ opts'.output = opts.output /\ opts'.exit = 2 /\ pc' = "exited" /\ argv' = argv /\ status' = 2
      BY <2>0, <2>8 DEF RefuseArgs, Options
    <3>2. \E n \in DOMAIN stderr' : stderr'[n][1] = "rivelc"
      <4>1. stderr \in Seq({}) /\ Say("usage")
        BY <2>0, <2>8, EmptySeq DEF RefuseArgs
      <4> QED  BY <4>1, SaysLast
    <3> QED  BY <2>0, <3>1, <3>2 DEF ArgInv
  <2>9. CASE EndArgs
    BY <2>0, <2>9 DEF EndArgs, ArgInv
  <2> QED  BY <2>2, <2>3, <2>4, <2>5, <2>6, <2>7, <2>8, <2>9 DEF ParseArgs
<1>2. CASE Later
  <2>1. UNCHANGED <<inv, argv, opts>> /\ pc \notin {"start", "args", "exited"} /\ pc' \notin {"start", "args"}
    BY <1>2, AfterArgs
  <2>2. opts.exit = -1
    BY <2>1 DEF ArgInv
  <2> QED  BY <2>1, <2>2 DEF ArgInv
<1>3. CASE Exited
  BY <1>3 DEF Exited, vars, ArgInv, Printed
<1> QED  BY <1>1, <1>2, <1>3 DEF Next, Later

-----------------------------------------------------------------------------
(* What is kept is printed once.                                           *)

\* What is found depends on these alone.
LEMMA SameFound ==
  ASSUME UNCHANGED <<inv, opts, prog>>
  PROVE  Found' = Found /\ Kept' = Kept /\ Shown' = Shown /\ LastPass' = LastPass /\ Analyzing' = Analyzing
<1>1. Found' = Found /\ LastPass' = LastPass /\ Analyzing' = Analyzing
  BY DEF Found, LastPass, Analyzing, Flag, FoundByLexer, FoundByParser
<1> QED  BY <1>1 DEF Kept, Shown

LEMMA FoundIs ==
  ASSUME TypeInv, prog = Nothing
  PROVE  /\ LastPass = "lex" => Found = FoundByLexer
         /\ LastPass # "lex" => Found = FoundByLexer \o FoundByParser
<1>1. FoundByLexer \o FoundByParser \in Seq(Diagnostic)
  BY FoundType, ConcatProperties
<1>2. FoundByLexer \o FoundByParser \o <<>> = FoundByLexer \o FoundByParser
  BY <1>1, ConcatEmptySeq
<1> QED  BY <1>2 DEF Found

\* A message behind what is shown.
LEMMA SaysBehind ==
  ASSUME TypeInv, stderr = Shown, UNCHANGED <<inv, opts, prog>>, NEW what
  PROVE  /\ Say(what) => Complained'
         /\ stderr' = Append(stderr, <<"program", what>>) => Said("program")'
<1>1. Shown' = Shown /\ stderr \in Seq(Diagnostic)
  BY SameFound, KeptType
<1>2. ASSUME NEW who, stderr' = Append(stderr, <<who, what>>)
      PROVE  Said(who)'
  <2> DEFINE a == Append(stderr, <<who, what>>)
  <2>1. a # <<>> /\ a[Len(a)] = <<who, what>>
    BY <1>1, AppendParts
  <2>2. a = Append(Shown, <<who, a[Len(a)][2]>>)
    BY <2>1
  <2>3. stderr' # <<>> /\ stderr' = Append(Shown', <<who, stderr'[Len(stderr')][2]>>)
    BY <1>1, <1>2, <2>1, <2>2
  <2> QED  BY <2>3 DEF Said
<1>3. stderr' = Append(stderr, <<"rivelc", what>>) => Said("rivelc")'
  BY <1>2
<1>4. stderr' = Append(stderr, <<"program", what>>) => Said("program")'
  BY <1>2
<1> QED  BY <1>3, <1>4 DEF Say, Complained

LEMMA SaidIsSeq ==
  ASSUME TypeInv, NEW who, Said(who)
  PROVE  \E S : stderr \in Seq(S)
<1> DEFINE what == stderr[Len(stderr)][2]
           S == Diagnostic \cup {<<who, what>>}
<1>1. Shown \in Seq(S) /\ <<who, what>> \in S
  BY KeptType, SeqMonotonic
<1>2. Append(Shown, <<who, what>>) \in Seq(S)
  BY <1>1, AppendProperties
<1> QED  BY <1>2 DEF Said

LEMMA PassInvOfPasses ==
  ASSUME DInv, Compile
  PROVE  PassInv'
<1> USE DEF DInv, Early, Tools
<1>0. UNCHANGED <<inv, opts>> /\ Analyzing' = Analyzing /\ LastPass' = LastPass
  BY AfterArgs DEF Later, Analyzing, LastPass, Flag
<1>1. \A f : Flag(f)' <=> Flag(f)
  BY <1>0 DEF Flag
<1>2. CASE Load
  BY <1>0, <1>1, <1>2 DEF Load, PassInv, Exit, WasRead, source_from_file, FromStdin, Analyzing
<1>3. CASE Lex
  <2>1. FoundByLexer' = FoundByLexer /\ Kept' = Kept /\ (LastPass = "lex" => Kept = Added(NoDiags, FoundByLexer))
    BY <1>0, <1>3, SameFound, FoundIs DEF Lex, Pass, FoundByLexer, PassInv, Kept
  <2>2. diags' = Added(NoDiags, FoundByLexer)
    BY <1>3 DEF Lex, Pass, PassInv
  <2>3. LastPass = "lex" <=> Flag("--dump-tokens") /\ ~Analyzing
    BY DEF LastPass
  <2> QED  BY <1>0, <1>1, <1>3, <2>1, <2>2, <2>3 DEF Lex, Pass, Finish, PassInv
<1>4. CASE Parse
  <2>1. /\ FoundByLexer' = FoundByLexer /\ FoundByParser' = FoundByParser /\ Kept' = Kept
        /\ LastPass # "lex" /\ Kept = Added(NoDiags, FoundByLexer \o FoundByParser)
    BY <1>0, <1>4, SameFound, FoundIs DEF Parse, Pass, FoundByLexer, FoundByParser, PassInv, Kept
  <2>2. diags' = Added(NoDiags, FoundByLexer \o FoundByParser)
    <3>1. diags = Added(NoDiags, FoundByLexer) /\ diags' = Added(diags, FoundByParser)
      BY <1>4 DEF Parse, Pass, PassInv
    <3> QED  BY <3>1, FoundType, NoDiagsIs, AddedTwice
  <2>3. LastPass = "check" <=> ~(Flag("--dump-ast") /\ ~Analyzing)
    BY <2>1 DEF LastPass
  <2> QED  BY <1>0, <1>1, <1>4, <2>1, <2>2, <2>3 DEF Parse, Pass, Finish, PassInv
<1>5. CASE Check
  <2>1. diags = Added(NoDiags, FoundByLexer \o FoundByParser) /\ LastPass = "check" /\ prog = Nothing /\ FoundByLexer' = FoundByLexer /\ FoundByParser' = FoundByParser
    BY <1>0, <1>5 DEF Check, PassInv, FoundByLexer, FoundByParser
  <2>2. CASE diags_ok(diags) \/ Analyzing
    <3>1. prog' = SemaCheck(inv.source.decls) /\ diags' = Added(diags, prog'.ds)
      BY <1>5, <2>2 DEF Check
    <3>2. prog' # Nothing
      BY <3>1, CheckedType DEF TypeInv
    <3>3. diags' = Kept'
      <4> DEFINE before == FoundByLexer \o FoundByParser
      <4>1. before \in Seq(Diagnostic) /\ prog'.ds \in Seq(Diagnostic)
        BY <3>1, FoundType, CheckedType, ConcatProperties DEF TypeInv
      <4>2. diags' = Added(NoDiags, before \o prog'.ds)
        <5> HIDE DEF before
        <5>1. diags' = Added(Added(NoDiags, before), prog'.ds)
          BY <2>1, <3>1 DEF before
        <5> QED  BY <4>1, <5>1, NoDiagsIs, AddedTwice
      <4>3. Found' = before \o prog'.ds
        BY <1>0, <2>1, <3>1, <3>2 DEF Found
      <4> QED  BY <4>2, <4>3 DEF Kept
    <3>4. diags_ok(diags') => diags_ok(Kept)'
      BY <3>3 DEF diags_ok
    <3> QED  BY <1>0, <1>1, <1>5, <2>1, <2>2, <3>2, <3>3, <3>4 DEF Check, PassInv
  <2>3. CASE ~(diags_ok(diags) \/ Analyzing)
    <3>1. prog' = Nothing /\ diags' = diags /\ pc' = "done" /\ Kept = diags
      BY <1>5, <2>1, <2>3, FoundIs DEF Check, Kept
    <3>2. Kept' = Kept
      BY <1>0, <2>1, <3>1, SameFound
    <3> QED  BY <1>0, <1>1, <1>5, <2>1, <2>3, <3>1, <3>2 DEF Check, PassInv
  <2> QED  BY <2>2, <2>3
<1>6. CASE Analyze
  <2>1. Kept' = Kept
    BY <1>0, <1>6, SameFound DEF Analyze
  <2>2. Len(stdout') = 1 /\ stdout'[1].text.diagnostics = diags.items
    <3> DEFINE text == [diagnostics |-> diags.items, index |-> ModuleIndex(prog, inv.source.decls)]
    <3>1. stdout = <<>> /\ Prints("analysis", text) /\ text.diagnostics = diags.items
      BY <1>6 DEF Analyze, PassInv
    <3> HIDE DEF text
    <3> QED  BY <3>1, PrintsFirst
  <2> QED  BY <1>0, <1>1, <1>6, <2>1, <2>2 DEF Analyze, PassInv, Exit
<1>7. CASE Lower
  <2>1. Kept' = Kept /\ Shown' = Shown /\ (diags_ok(Kept)' <=> diags_ok(Kept))
    BY <1>0, <1>7, SameFound DEF Lower, diags_ok
  <2> QED  BY <1>0, <1>1, <1>7, <2>1 DEF Lower, PassInv, Finish
<1>8. CASE PrintWarnings
  <2>1. Kept' = Kept /\ Shown' = Shown /\ (diags_ok(Kept)' <=> diags_ok(Kept))
    BY <1>0, <1>8, SameFound DEF PrintWarnings, diags_ok
  <2>2. stderr' = Shown
    BY <1>8, KeptType, ConcatEmptySeq DEF PrintWarnings, PassInv, diags_print, Shown
  <2> QED  BY <1>0, <1>1, <1>8, <2>1, <2>2 DEF PrintWarnings, PassInv
<1> QED  BY <1>2, <1>3, <1>4, <1>5, <1>6, <1>7, <1>8 DEF Compile

LEMMA PassInvOfTools ==
  ASSUME DInv, Build \/ RunProgram \/ CannotRun \/ Done
  PROVE  PassInv'
<1> USE DEF DInv, Early, Tools
<1>0. UNCHANGED <<inv, opts, prog>>
  BY DEF Build, WriteIl, CannotWriteIl, NoBackend, Backend, BackendFails, NoRuntime, Link, LinkFails, Cleanup,
         UnchangedByBuild, RunProgram, CannotRun, Done
<1>1. /\ Kept' = Kept /\ Shown' = Shown /\ LastPass' = LastPass /\ Analyzing' = Analyzing /\ \A f : Flag(f)' <=> Flag(f)
      /\ (diags_ok(Kept)' <=> diags_ok(Kept)) /\ (WasRead' <=> WasRead)
  BY <1>0, SameFound DEF Flag, diags_ok, WasRead, source_from_file, FromStdin
<1>2. stderr' = stderr => (Complained' <=> Complained) /\ (Said("program")' <=> Said("program"))
  BY <1>1 DEF Complained, Said
<1>3. CASE Build
  <2>1. UNCHANGED <<diags, machine, stdout>>
    BY <1>3 DEF Build, WriteIl, CannotWriteIl, NoBackend, Backend, BackendFails, NoRuntime, Link, LinkFails, Cleanup, UnchangedByBuild
  <2>2. CASE Cleanup
    <3>1. pc = "cleanup" /\ stderr' = stderr /\ status' = status /\ ((pc' = "run" /\ status = 0) \/ pc' = "done")
      BY <2>2 DEF Cleanup, Finish
    <3> QED  BY <1>0, <1>1, <1>2, <2>1, <3>1 DEF PassInv
  <2>3. CASE WriteIl \/ Backend \/ Link
    <3>1. /\ pc \in {"write_il", "qbe", "link"} /\ pc' \in {"qbe", "link", "cleanup"} /\ stderr' = stderr
          /\ pc' = "cleanup" => status' = 0
      BY <2>3 DEF WriteIl, Backend, Link
    <3> QED  BY <1>0, <1>1, <1>2, <2>1, <3>1 DEF PassInv
  <2>4. CASE CannotWriteIl \/ NoBackend \/ BackendFails \/ NoRuntime \/ LinkFails
    <3>1. pc \in {"write_il", "qbe", "link"} /\ \E what : Fail(what)
      BY <2>4, Zenon DEF CannotWriteIl, NoBackend, BackendFails, NoRuntime, LinkFails
    <3>2. PICK what : Fail(what)
      BY <3>1
    <3>3. pc' = "cleanup" /\ status' = status /\ status # 0 /\ stderr = Shown
      BY <3>1, <3>2 DEF Fail, PassInv, StatusInv
    <3>4. Complained'
      BY <1>0, <3>2, <3>3, SaysBehind DEF Fail
    <3> QED  BY <1>0, <1>1, <1>2, <2>1, <3>1, <3>3, <3>4 DEF PassInv
  <2> QED  BY <1>3, <2>2, <2>3, <2>4 DEF Build
<1>4. CASE RunProgram \/ CannotRun
  <2>1. pc = "run" /\ pc' = "done" /\ UNCHANGED <<diags, stdout>>
    BY <1>4 DEF RunProgram, CannotRun, Finish
  <2>2. \/ stderr' = stderr \/ (\E what : stderr' = Append(stderr, <<"program", what>>)) \/ (\E what : Say(what))
    BY <1>4 DEF RunProgram, CannotRun
  <2>3. stderr' = Shown \/ Said("program")' \/ Complained'
    BY <1>0, <2>1, <2>2, SaysBehind DEF PassInv
  <2> QED  BY <1>0, <1>1, <2>1, <2>3 DEF PassInv
<1>5. CASE Done
  <2>1. stderr' = stderr \o Listing(diags) /\ pc = "done" /\ pc' = "exited" /\ UNCHANGED <<diags, machine, stdout>>
    BY <1>5 DEF Done, diags_print
  <2>2. CASE stderr = <<>> /\ diags = Kept
    <3>1. stderr' = Shown'
      BY <1>1, <2>1, <2>2, KeptType, ConcatEmptySeq DEF Shown
    <3> QED  BY <1>1, <2>1, <3>1 DEF PassInv
  <2>3. CASE diags = NoDiags /\ (stderr = Shown \/ Said("program") \/ Complained)
    <3>1. \E S : stderr \in Seq(S)
      BY <2>3, SaidIsSeq, KeptType DEF Complained
    <3>2. stderr' = stderr
      BY <2>1, <2>3, <3>1, ConcatEmptySeq, NoDiagsIs
    <3> QED  BY <1>1, <1>2, <2>1, <2>3, <3>2 DEF PassInv
  <2> QED  BY <2>1, <2>2, <2>3 DEF PassInv
<1> QED  BY <1>3, <1>4, <1>5

LEMMA PassStep ==
  ASSUME DInv, Next
  PROVE  PassInv'
<1>1. CASE ParseArgs
  <2>1. /\ stderr = <<>> /\ stdout = <<>> /\ machine = <<>> /\ prog = Nothing /\ diags = NoDiags /\ opts.exit = -1 /\ opts \in Options
        /\ UNCHANGED <<machine, prog, diags>>
    BY <1>1 DEF DInv, PassInv, ArgInv, TypeInv, Early, Tools, ParseArgs, StartArgs, TakeRunArgs, ShowUsage, TakeValue, SetFlag,
                TakeInput, RefuseArgs, EndArgs, Reading, UnchangedByArgs
  <2>2. CASE ShowUsage \/ RefuseArgs
    <3>1. pc' = "exited" /\ opts'.exit # -1
      <4>1. EndsWith(0) \/ EndsWith(2)
        BY <2>2 DEF ShowUsage, RefuseArgs
      <4> QED  BY <2>1, <4>1 DEF EndsWith, Exit, Options
    <3> QED  BY <2>1, <3>1 DEF PassInv, WasRead, Early, Tools
  <2>3. CASE StartArgs \/ TakeRunArgs \/ TakeValue \/ SetFlag \/ TakeInput \/ EndArgs
    <3>1. pc' \in {"args", "load"} /\ UNCHANGED <<stderr, stdout>>
      BY <2>3 DEF StartArgs, TakeRunArgs, TakeValue, SetFlag, TakeInput, EndArgs, Reading, Quiet
    <3> QED  BY <2>1, <3>1 DEF PassInv, Early, Tools
  <2> QED  BY <1>1, <2>2, <2>3 DEF ParseArgs
<1>2. CASE Compile
  BY <1>2, PassInvOfPasses
<1>3. CASE Build \/ RunProgram \/ CannotRun \/ Done
  BY <1>3, PassInvOfTools
<1>4. CASE Exited
  BY <1>4, Stutter DEF Exited, DInv
<1> QED  BY <1>1, <1>2, <1>3, <1>4 DEF Next

-----------------------------------------------------------------------------
(* The status                                                              *)

\* What is shown has no message of the driver in it, and an error only if it is not
\* well with it.
LEMMA ShownLevels ==
  ASSUME TypeInv, diags_ok(Kept)
  PROVE  \A n \in DOMAIN Shown : Shown[n][1] \notin {"error", "rivelc", "program"}
<1>1. DOMAIN Shown = 1..Len(Shown) /\ \A n \in 1..Len(Shown) : Shown[n] \in Diagnostic
  BY KeptType, LenProperties, ElementOfSeq
<1>2. \A n \in DOMAIN Shown : Shown[n][1] \in Levels
  BY <1>1 DEF Diagnostic
<1>3. \A n \in DOMAIN Shown : Shown[n][1] # "error"
  BY <1>1, ShownParts DEF IsError
<1> QED  BY <1>2, <1>3 DEF Levels

LEMMA SaidParts ==
  ASSUME TypeInv, NEW who, Said(who)
  PROVE  /\ stderr # Shown
         /\ DOMAIN Shown = 1..Len(Shown) /\ DOMAIN stderr = 1..(Len(Shown) + 1) /\ Len(Shown) \in Nat /\ Len(stderr) = Len(Shown) + 1
         /\ \A n \in DOMAIN Shown : stderr[n] = Shown[n]
         /\ stderr[Len(Shown) + 1][1] = who
<1> DEFINE what == stderr[Len(stderr)][2]
           a == Append(Shown, <<who, what>>)
<1>1. /\ a # Shown /\ Len(Shown) \in Nat /\ Len(a) = Len(Shown) + 1
      /\ DOMAIN Shown = 1..Len(Shown) /\ DOMAIN a = 1..(Len(Shown) + 1)
      /\ a[Len(Shown) + 1] = <<who, what>> /\ \A n \in 1..Len(Shown) : a[n] = Shown[n]
  BY KeptType, AppendParts
<1>2. stderr = a
  BY DEF Said
<1> HIDE DEF a
<1> QED  BY <1>1, <1>2

\* One voice at the most is behind what is shown.
LEMMA OneVoice ==
  ASSUME TypeInv, Said("program") \/ stderr = Shown \/ (stderr = <<>>)
  PROVE  ~Complained
<1>1. Said("program") => ~Said("rivelc")
  <2> SUFFICES ASSUME Said("program"), Said("rivelc") PROVE FALSE
    OBVIOUS
  <2>1. stderr[Len(Shown) + 1][1] = "program" /\ stderr[Len(Shown) + 1][1] = "rivelc"
    BY SaidParts
  <2> QED  BY <2>1
<1>2. stderr = Shown => ~Said("rivelc")
  BY SaidParts
<1> QED  BY <1>1, <1>2 DEF Complained, Said

LEMMA OneVoiceNext ==
  ASSUME TypeInv', (Said("program") \/ stderr = Shown \/ (stderr = <<>>))'
  PROVE  ~Complained'
BY OneVoice, PTL

LEMMA StatusOfPasses ==
  ASSUME DInv, Compile, TypeInv', PassInv'
  PROVE  StatusInv'
<1> USE DEF DInv, Early, Tools
<1>0. UNCHANGED <<inv, opts>> /\ Analyzing' = Analyzing /\ LastPass' = LastPass /\ opts.exit = -1
  BY AfterArgs DEF Later, Analyzing, LastPass, Flag, ArgInv
<1>1. \A f : Flag(f)' <=> Flag(f)
  BY <1>0 DEF Flag
<1>2. CASE Load
  <2>1. CASE pc' = "lex"
    <3>1. status' = status /\ status \in {-1, 1}
      BY <1>2, <2>1 DEF Load, Exit, StatusInv
    <3> QED  BY <2>1, <3>1 DEF StatusInv
  <2>2. CASE pc' # "lex"
    <3>1. pc' = "exited" /\ status' = 2 /\ stderr = <<>>
      BY <1>2, <2>2 DEF Load, Exit, PassInv
    <3>2. \E what : Say(what)
      BY <1>2, <2>2, Zenon DEF Load
    <3>3. \E n \in DOMAIN stderr' : stderr'[n][1] = "rivelc"
      BY <3>1, <3>2, SaysLast, EmptySeq
    <3> QED  BY <3>1, <3>3 DEF StatusInv, StatusTellsTheTruth
  <2> QED  BY <2>1, <2>2
<1>3. ASSUME NEW next \in Early, NEW flag, NEW what, NEW text, NEW found,
             pc \in {"lex", "parse"}, Pass(next, flag, what, text, found),
             (flag = "--dump-tokens" /\ what = "tokens") \/ (~Flag("--dump-tokens") /\ flag = "--dump-ast" /\ what = "tree")
      PROVE  StatusInv'
  <2>1. CASE Flag(flag) /\ ~Analyzing
    <3>1. pc' = "done" /\ status' = (IF diags_ok(diags') THEN 0 ELSE 1) /\ Prints(what, text) /\ stdout = <<>> /\ stderr' = <<>>
          /\ UNCHANGED <<disk, machine, prog>>
      BY <1>3, <2>1 DEF Pass, Finish, PassInv
    <3>2. Printed(what)'
      BY <3>1, PrintsFirst
    <3>3. Asked'
      BY <1>0, <1>1, <1>3, <2>1, <3>2 DEF Asked
    <3>4. ~Complained'
      BY <3>1 DEF Complained, Said
    <3>5. diags' = Kept'
      <4>1. pc' = "done" => ((stderr' = <<>> /\ diags' = Kept') \/ (diags' = NoDiags /\ (stderr' = Shown' \/ Said("program")' \/ Complained')))
        BY <3>1 DEF PassInv
      <4> QED  BY <1>3, <3>1, <3>4, <4>1, NothingShownNext DEF Said
    <3>6. diags_ok(diags') <=> diags_ok(Kept)'
      BY <3>5 DEF diags_ok
    <3> QED  BY <3>1, <3>3, <3>4, <3>6 DEF StatusInv
  <2>2. CASE ~(Flag(flag) /\ ~Analyzing)
    <3>1. pc' = next /\ status' = status /\ status \in {-1, 1}
      BY <1>3, <2>2 DEF Pass, StatusInv
    <3> QED  BY <3>1 DEF StatusInv
  <2> QED  BY <2>1, <2>2
<1>4. CASE Lex
  BY <1>3, <1>4 DEF Lex
<1>5. CASE Parse
  <2>1. ~(Flag("--dump-tokens") /\ ~Analyzing)
    BY <1>5 DEF Parse, PassInv, LastPass
  <2>2. CASE ~Flag("--dump-tokens")
    BY <1>3, <1>5, <2>2 DEF Parse
  <2>3. CASE Analyzing
    <3>1. pc' = "check" /\ status' = status /\ status \in {-1, 1}
      BY <1>5, <2>3 DEF Parse, Pass, StatusInv
    <3> QED  BY <3>1 DEF StatusInv
  <2> QED  BY <2>1, <2>2, <2>3
<1>6. CASE Check
  <2>1. pc' \in {"index", "lower", "done"} /\ status' = status /\ status \in {-1, 1} /\ stderr' = <<>>
        /\ (pc' = "done" => ~diags_ok(diags'))
    BY <1>6 DEF Check, StatusInv, PassInv
  <2>2. pc' = "done" => ~diags_ok(Kept)'
    <3>1. pc' = "done" => diags' = Kept'
      BY <2>1, NothingShownNext DEF PassInv, Said, Complained
    <3> QED  BY <2>1, <3>1 DEF diags_ok
  <2> QED  BY <2>1, <2>2 DEF StatusInv
<1>7. CASE Analyze
  <2> DEFINE text == [diagnostics |-> diags.items, index |-> ModuleIndex(prog, inv.source.decls)]
  <2>1. pc' = "exited" /\ status' = 0 /\ Prints("analysis", text) /\ stdout = <<>> /\ stderr' = <<>> /\ Analyzing
    BY <1>7 DEF Analyze, Exit, PassInv
  <2> HIDE DEF text
  <2>2. Printed("analysis")'
    BY <2>1, PrintsFirst
  <2>3. opts'.exit # 0
    BY <1>0
  <2>4. Asked'
    BY <1>0, <2>1, <2>2, <2>3 DEF Asked
  <2> QED  BY <2>1, <2>4 DEF StatusInv, StatusTellsTheTruth
<1>8. CASE Lower
  <2>1. CASE Flag("--dump-ir")
    <3> DEFINE text == IrDump(ir')
    <3>1. /\ pc' = "done" /\ status' = 0 /\ Prints("ir", text) /\ stdout = <<>> /\ stderr' = <<>>
          /\ ~Analyzing /\ LastPass = "check" /\ diags_ok(Kept) /\ UNCHANGED prog
      BY <1>8, <2>1 DEF Lower, Finish, PassInv
    <3> HIDE DEF text
    <3>2. Printed("ir")'
      BY <3>1, PrintsFirst
    <3>3. ~Flag("--dump-tokens") /\ ~Flag("--dump-ast") /\ opts'.exit # 0
      BY <1>0, <3>1 DEF LastPass
    <3>4. Asked'
      BY <1>0, <1>1, <2>1, <3>1, <3>2, <3>3 DEF Asked
    <3>5. diags_ok(Kept)'
      BY <1>0, <3>1, SameFound DEF diags_ok
    <3> QED  BY <3>1, <3>4, <3>5 DEF StatusInv, Complained, Said
  <2>2. CASE ~Flag("--dump-ir")
    BY <1>8, <2>2 DEF Lower, StatusInv
  <2> QED  BY <2>1, <2>2
<1>9. CASE PrintWarnings
  BY <1>9 DEF PrintWarnings, StatusInv
<1> QED  BY <1>2, <1>4, <1>5, <1>6, <1>7, <1>8, <1>9 DEF Compile

LEMMA StatusOfTools ==
  ASSUME DInv, Build \/ RunProgram \/ CannotRun, TypeInv', PassInv'
  PROVE  StatusInv'
<1> USE DEF DInv, Early, Tools
<1>0. UNCHANGED <<inv, opts, prog>>
  BY DEF Build, WriteIl, CannotWriteIl, NoBackend, Backend, BackendFails, NoRuntime, Link, LinkFails, Cleanup,
         UnchangedByBuild, RunProgram, CannotRun
<1>1. /\ \A f : Flag(f)' <=> Flag(f)
      /\ Analyzing' = Analyzing /\ (diags_ok(Kept)' <=> diags_ok(Kept))
      /\ Output' = Output /\ IlPath' = IlPath /\ AsmPath' = AsmPath
  BY <1>0, SameFound DEF Flag, diags_ok, Output, IlPath, AsmPath, default_output
<1>2. pc \in Tools
  BY DEF Build, WriteIl, CannotWriteIl, NoBackend, Backend, BackendFails, NoRuntime, Link, LinkFails, Cleanup, RunProgram, CannotRun
<1>3. /\ opts.exit = -1 /\ ~Analyzing /\ ~Flag("--dump-tokens") /\ ~Flag("--dump-ast") /\ ~Flag("--dump-ir") /\ diags_ok(Kept)
      /\ Output # IlPath /\ Output # AsmPath /\ IlPath # AsmPath
  BY <1>2, NamesDiffer DEF ArgInv, PassInv, LastPass
<1>4. CASE WriteIl \/ Backend \/ Link
  BY <1>4 DEF WriteIl, Backend, Link, StatusInv
<1>5. CASE CannotWriteIl \/ NoBackend \/ BackendFails \/ NoRuntime \/ LinkFails
  BY <1>5 DEF CannotWriteIl, NoBackend, BackendFails, NoRuntime, LinkFails, Fail, StatusInv
<1>6. CASE Cleanup
  <2>1. pc = "cleanup" /\ UNCHANGED <<machine, stdout, stderr>> /\ Removed(Unwanted) /\ status' = status
    BY <1>6 DEF Cleanup, Finish, UnchangedByBuild
  <2>2. CASE status = 0 /\ opts.run
    BY <1>0, <1>6, <2>2 DEF Cleanup, StatusInv
  <2>3. CASE status = 0 /\ ~opts.run
    <3>1. pc' = "done" /\ stderr' = Shown'
      BY <1>0, <1>6, <2>1, <2>3, SameFound DEF Cleanup, Finish, PassInv
    <3> DEFINE path == IF Flag("--emit-il") THEN IlPath ELSE IF Flag("--emit-asm") THEN AsmPath ELSE Output
    <3>2. Mine(path) /\ path \notin Unwanted
      BY <1>3, <2>1, <2>3 DEF DiskInv, Unwanted
    <3> HIDE DEF path
    <3>3. path \in DOMAIN disk' /\ disk'[path] = "mine"
      BY <2>1, <3>2, RemovedGone DEF Mine, Exists
    <3>4. Asked'
      BY <1>0, <1>1, <1>3, <2>3, <3>3 DEF Asked, Mine, Exists, path
    <3>5. ~Complained'
      BY <3>1, OneVoiceNext
    <3> QED  BY <1>1, <1>3, <2>1, <2>3, <3>1, <3>4, <3>5 DEF StatusInv
  <2>4. CASE status # 0
    <3>1. pc' = "done" /\ Complained'
      BY <1>0, <1>6, <2>1, <2>4, SameFound DEF Cleanup, Finish, PassInv, Complained, Said
    <3> QED  BY <2>1, <2>4, <3>1 DEF StatusInv
  <2> QED  BY <2>2, <2>3, <2>4
<1>7. CASE RunProgram
  <2>1. pc = "run" /\ pc' = "done" /\ machine' # <<>> /\ opts.run
    BY <1>7 DEF RunProgram, Finish, StatusInv
  <2>2. stderr = Shown /\ (stderr' = stderr \/ \E what : stderr' = Append(stderr, <<"program", what>>))
    BY <1>7, <2>1 DEF RunProgram, PassInv
  <2>3. stderr' = Shown' \/ Said("program")'
    BY <1>0, <2>2, SameFound, SaysBehind
  <2>4. ~Complained'
    BY <2>3, OneVoiceNext
  <2>5. Asked'
    BY <1>0, <1>1, <1>3, <2>1 DEF Asked
  <2> QED  BY <1>1, <1>3, <2>1, <2>4, <2>5 DEF StatusInv
<1>8. CASE CannotRun
  <2>1. pc = "run" /\ pc' = "done" /\ status' = 1 /\ stderr = Shown
    BY <1>8 DEF CannotRun, Finish, PassInv
  <2>2. \E what : Say(what)
    BY <1>8, Zenon DEF CannotRun
  <2>3. Complained'
    BY <1>0, <2>1, <2>2, SaysBehind
  <2> QED  BY <2>1, <2>3 DEF StatusInv
<1> QED  BY <1>4, <1>5, <1>6, <1>7, <1>8 DEF Build

LEMMA StatusOfDone ==
  ASSUME DInv, Done, TypeInv', PassInv'
  PROVE  StatusInv'
<1> USE DEF DInv, Early, Tools
<1>1. pc = "done" /\ pc' = "exited" /\ stderr' = stderr \o Listing(diags) /\ UNCHANGED <<inv, opts, disk, diags, prog, machine, stdout, status>>
  BY DEF Done, diags_print
<1>2. Asked' <=> Asked
  BY <1>1 DEF Asked, Printed, Analyzing, Flag, Mine, Exists, Output, IlPath, AsmPath, default_output
<1>3. /\ Kept' = Kept /\ Shown' = Shown /\ Shown \in Seq(Diagnostic) /\ Len(Shown) \in Nat /\ DOMAIN Shown = 1..Len(Shown)
  BY <1>1, SameFound, KeptType, LenProperties
<1>4. ~Analyzing' /\ ~Analyzing
  BY <1>1 DEF PassInv, Analyzing, Flag
<1>5. stderr' = Shown \/ (stderr' = stderr /\ (Said("program") \/ Complained))
  <2>1. CASE stderr = <<>> /\ diags = Kept
    BY <1>1, <1>3, <2>1, ConcatEmptySeq DEF Shown
  <2>2. CASE diags = NoDiags /\ stderr = Shown
    BY <1>1, <1>3, <2>2, ConcatEmptySeq, NoDiagsIs
  <2>3. CASE diags = NoDiags /\ (Said("program") \/ Complained)
    BY <1>1, <2>3, SaidIsSeq, ConcatEmptySeq, NoDiagsIs DEF Complained
  <2> QED  BY <1>1, <2>1, <2>2, <2>3 DEF PassInv
<1>6. CASE status = 0
  <2>1. Asked /\ diags_ok(Kept) /\ ~Complained
    BY <1>1, <1>6 DEF StatusInv
  <2>2. \A n \in DOMAIN Shown : Shown[n][1] \notin {"error", "rivelc"}
    BY <2>1, ShownLevels
  <2>3. \A n \in DOMAIN stderr' : stderr'[n][1] \notin {"error", "rivelc"}
    <3>1. CASE stderr' = Shown
      BY <2>2, <3>1
    <3>2. CASE stderr' = stderr /\ Said("program")
      <4>1. /\ DOMAIN stderr = 1..(Len(Shown) + 1) /\ stderr[Len(Shown) + 1][1] = "program"
            /\ \A n \in DOMAIN Shown : stderr[n] = Shown[n]
        BY <3>2, SaidParts
      <4>2. \A n \in DOMAIN stderr : n \in DOMAIN Shown \/ n = Len(Shown) + 1
        BY <1>3, <4>1
      <4> QED  BY <2>2, <3>2, <4>1, <4>2
    <3> QED  BY <1>5, <2>1, <3>1, <3>2
  <2> QED  BY <1>1, <1>2, <1>6, <2>1, <2>3 DEF StatusInv, StatusTellsTheTruth
<1>7. CASE status # 0
  <2>1. CASE machine # <<>>
    BY <1>1, <1>7, <2>1 DEF StatusInv, StatusTellsTheTruth
  <2>2. CASE ~diags_ok(Kept)
    <3>1. PICK n \in DOMAIN Shown : Shown[n][1] = "error"
      BY <1>3, <2>2, ShownParts DEF IsError
    <3>2. n \in DOMAIN stderr' /\ stderr'[n] = Shown[n]
      <4>1. CASE stderr' = Shown
        BY <4>1
      <4>2. CASE stderr' = stderr /\ (Said("program") \/ Complained)
        <5>1. /\ DOMAIN stderr = 1..(Len(Shown) + 1) /\ \A k \in DOMAIN Shown : stderr[k] = Shown[k]
          BY <4>2, SaidParts DEF Complained
        <5> QED  BY <1>3, <4>2, <5>1
      <4> QED  BY <1>5, <4>1, <4>2
    <3>3. \E k \in DOMAIN stderr' : stderr'[k][1] \in {"error", "rivelc"}
      BY <3>1, <3>2
    <3> QED  BY <1>1, <1>7, <3>3 DEF StatusInv, StatusTellsTheTruth
  <2>3. CASE Complained
    <3>1. /\ stderr # Shown /\ DOMAIN stderr = 1..(Len(Shown) + 1) /\ stderr[Len(Shown) + 1][1] = "rivelc"
      BY <2>3, SaidParts DEF Complained
    <3>2. Len(Shown) + 1 \in DOMAIN stderr
      BY <1>3, <3>1
    <3>3. stderr' = stderr
      BY <1>1, <2>3, SaidIsSeq, ConcatEmptySeq, NoDiagsIs DEF PassInv, Complained, Said
    <3> QED  BY <1>1, <1>7, <3>1, <3>2, <3>3 DEF StatusInv, StatusTellsTheTruth
  <2> QED  BY <1>1, <1>7, <2>1, <2>2, <2>3 DEF StatusInv
<1> QED  BY <1>6, <1>7

LEMMA StatusStep ==
  ASSUME DInv, Next, TypeInv', ArgInv', PassInv'
  PROVE  StatusInv'
<1>1. CASE ParseArgs
  <2>1. pc \in {"start", "args"} /\ status \in {-1, 1}
    BY <1>1 DEF DInv, StatusInv, Early, ParseArgs, StartArgs, TakeRunArgs, ShowUsage, TakeValue, SetFlag, TakeInput, RefuseArgs, EndArgs,
                Reading
  <2>2. CASE ShowUsage \/ RefuseArgs
    <3>1. pc' = "exited" /\ opts'.exit \in {0, 2}
      <4>1. EndsWith(0) \/ EndsWith(2)
        BY <2>2 DEF ShowUsage, RefuseArgs
      <4> QED  BY <4>1 DEF EndsWith, Exit, DInv, TypeInv, Options
    <3>2. CASE opts'.exit = 0
      <4>1. status' = 0 /\ stderr' = <<>> /\ Asked'
        BY <3>2 DEF ArgInv, Asked
      <4> QED  BY <3>1, <4>1 DEF StatusInv, StatusTellsTheTruth, Early, Tools
    <3>3. CASE opts'.exit = 2
      <4>1. status' = 2 /\ \E n \in DOMAIN stderr' : stderr'[n][1] = "rivelc"
        BY <3>3 DEF ArgInv
      <4> QED  BY <3>1, <4>1 DEF StatusInv, StatusTellsTheTruth, Early, Tools
    <3> QED  BY <3>1, <3>2, <3>3
  <2>3. CASE StartArgs \/ TakeRunArgs \/ TakeValue \/ SetFlag \/ TakeInput \/ EndArgs
    <3>1. pc' \in {"start", "args", "load"} /\ status' \in {status, 1}
      BY <2>1, <2>3 DEF StartArgs, TakeRunArgs, TakeValue, SetFlag, TakeInput, EndArgs, Reading, Quiet
    <3> QED  BY <2>1, <3>1 DEF StatusInv, Early, Tools
  <2> QED  BY <1>1, <2>2, <2>3 DEF ParseArgs
<1>2. CASE Compile
  BY <1>2, StatusOfPasses
<1>3. CASE Build \/ RunProgram \/ CannotRun
  BY <1>3, StatusOfTools
<1>4. CASE Done
  BY <1>4, StatusOfDone
<1>5. CASE Exited
  BY <1>5, Stutter DEF Exited, DInv
<1> QED  BY <1>1, <1>2, <1>3, <1>4, <1>5 DEF Next

-----------------------------------------------------------------------------
(* The files                                                               *)

LEMMA DiskStep ==
  ASSUME DInv, Next, StatusInv'
  PROVE  DiskInv'
<1> USE DEF DInv, Early, Tools
<1>1. CASE ParseArgs \/ Compile
  <2>1. /\ pc \in Early /\ disk' = disk
        /\ pc' \in Early \cup {"write_il", "done", "exited"}
    <3>1. CASE ParseArgs
      BY <3>1 DEF ParseArgs, StartArgs, TakeRunArgs, ShowUsage, TakeValue, SetFlag, TakeInput, RefuseArgs, EndArgs, Reading,
                  UnchangedByArgs, Quiet, EndsWith, Exit
    <3>2. CASE Compile
      BY <3>2 DEF Compile, Load, Lex, Parse, Pass, Check, Analyze, Lower, PrintWarnings, Exit, Finish
    <3> QED  BY <1>1, <3>1, <3>2
  <2>2. MineIsIn({})'
    BY <2>1 DEF DiskInv, MineIsIn
  <2> QED  BY <2>1, <2>2 DEF DiskInv, MineIsIn
<1>2. CASE Build \/ RunProgram \/ CannotRun
  <2>0. UNCHANGED <<inv, opts>>
    BY <1>2 DEF Build, WriteIl, CannotWriteIl, NoBackend, Backend, BackendFails, NoRuntime, Link, LinkFails, Cleanup,
           UnchangedByBuild, RunProgram, CannotRun
  <2>1. /\ \A f : Flag(f)' <=> Flag(f)
        /\ Output' = Output /\ IlPath' = IlPath /\ AsmPath' = AsmPath /\ Wanted' = Wanted
    BY <2>0 DEF Flag, Output, IlPath, AsmPath, default_output, Wanted
  <2>2. Output # IlPath /\ Output # AsmPath /\ IlPath # AsmPath
    <3>1. pc \in Tools
      BY <1>2 DEF Build, WriteIl, CannotWriteIl, NoBackend, Backend, BackendFails, NoRuntime, Link, LinkFails, Cleanup,
                  RunProgram, CannotRun
    <3> QED  BY <3>1, NamesDiffer DEF ArgInv
  <2>3. CASE WriteIl \/ CannotWriteIl
    <3>1. /\ pc = "write_il" /\ (disk' = disk \/ Write(IlPath)) /\ pc' \in {"qbe", "cleanup"}
          /\ (pc' = "qbe" => ~Flag("--emit-il") /\ Write(IlPath))
          /\ (pc' = "cleanup" /\ status' = 0 => Flag("--emit-il") /\ Write(IlPath))
      BY <2>3 DEF WriteIl, CannotWriteIl, Fail, StatusInv
    <3>2. MineIsIn({})
      BY <3>1 DEF DiskInv
    <3>3. MineIsIn({IlPath})' /\ (Write(IlPath) => Mine(IlPath)')
      BY <2>1, <3>1, <3>2, WriteMine DEF MineIsIn, Mine, Exists
    <3> QED  BY <2>1, <3>1, <3>3 DEF DiskInv, MineIsIn, Mine, Exists
  <2>4. CASE NoBackend \/ Backend \/ BackendFails
    <3>1. /\ pc = "qbe" /\ (disk' = disk \/ Write(AsmPath)) /\ pc' \in {"link", "cleanup"}
          /\ (pc' = "link" => ~Flag("--emit-asm") /\ Write(AsmPath))
          /\ (pc' = "cleanup" /\ status' = 0 => Flag("--emit-asm") /\ Write(AsmPath))
      BY <2>4 DEF NoBackend, Backend, BackendFails, Fail, StatusInv
    <3>2. MineIsIn({IlPath}) /\ ~Flag("--emit-il")
      BY <3>1 DEF DiskInv
    <3>3. MineIsIn({IlPath, AsmPath})' /\ (Write(AsmPath) => Mine(AsmPath)')
      BY <2>1, <3>1, <3>2, WriteMine DEF MineIsIn, Mine, Exists
    <3> QED  BY <2>1, <3>1, <3>2, <3>3 DEF DiskInv, MineIsIn, Mine, Exists
  <2>5. CASE NoRuntime \/ Link \/ LinkFails
    <3>1. /\ pc = "link" /\ pc' = "cleanup"
          /\ \/ disk' = disk /\ status' # 0
             \/ Removed({Output}) /\ status' # 0
             \/ Write(Output) /\ status' = 0
      BY <2>5 DEF NoRuntime, Link, LinkFails, Fail, StatusInv
    <3>2. MineIsIn({IlPath, AsmPath}) /\ ~Flag("--emit-il") /\ ~Flag("--emit-asm")
      BY <3>1 DEF DiskInv
    <3>3. CASE Write(Output) /\ status' = 0
      <4>1. MineIsIn({IlPath, AsmPath, Output})' /\ Mine(Output)'
        BY <2>1, <3>2, <3>3, WriteMine DEF MineIsIn, Mine, Exists
      <4> QED  BY <2>1, <3>1, <3>2, <3>3, <4>1 DEF DiskInv, MineIsIn, Mine, Exists
    <3>4. CASE status' # 0
      <4>1. MineIsIn({IlPath, AsmPath})'
        BY <2>1, <3>1, <3>2, <3>4, RemovedGone DEF MineIsIn
      <4> QED  BY <2>1, <3>1, <3>2, <3>4, <4>1 DEF DiskInv, MineIsIn
    <3> QED  BY <3>1, <3>3, <3>4
  <2>6. CASE Cleanup
    <3>1. /\ pc = "cleanup" /\ Removed(Unwanted)
          /\ (status = 0 /\ opts.run /\ pc' = "run") \/ (~(status = 0 /\ opts.run) /\ pc' = "done")
      BY <2>6 DEF Cleanup, Finish
    <3>2. \A p \in DOMAIN disk' : disk'[p] = "mine" =>
            /\ p \in {IlPath} \cup (IF Flag("--emit-il") THEN {} ELSE {AsmPath})
                 \cup (IF Flag("--emit-il") \/ Flag("--emit-asm") \/ status # 0 THEN {} ELSE {Output})
            /\ p \notin Unwanted
      BY <3>1, RemovedGone DEF DiskInv, MineIsIn
    <3>3. CASE status = 0 /\ opts.run /\ pc' = "run"
      <4>1. MineIsIn(Wanted \cup {Output})'
        BY <2>1, <2>2, <3>2, <3>3 DEF MineIsIn, Wanted, Unwanted
      <4> QED  BY <2>1, <3>3, <4>1 DEF DiskInv, MineIsIn
    <3>4. CASE ~(status = 0 /\ opts.run) /\ pc' = "done"
      <4>1. MineIsIn(Wanted)'
        BY <2>1, <2>2, <3>2, <3>4 DEF MineIsIn, Wanted, Unwanted
      <4> QED  BY <2>1, <3>4, <4>1 DEF DiskInv, MineIsIn
    <3> QED  BY <3>1, <3>3, <3>4
  <2>7. CASE RunProgram \/ CannotRun
    <3>1. pc = "run" /\ pc' = "done" /\ Removed({Output})
      BY <2>7 DEF RunProgram, CannotRun, Finish
    <3>2. MineIsIn(Wanted)'
      <4>1. MineIsIn(Wanted \cup {Output})
        BY <3>1 DEF DiskInv
      <4>2. \A p \in DOMAIN disk' : p # Output /\ p \in DOMAIN disk /\ disk'[p] = disk[p]
        BY <3>1, RemovedGone
      <4> QED  BY <2>1, <4>1, <4>2 DEF MineIsIn
    <3> QED  BY <3>1, <3>2 DEF DiskInv, MineIsIn
  <2> QED  BY <1>2, <2>3, <2>4, <2>5, <2>6, <2>7 DEF Build
<1>3. CASE Done
  <2>1. pc = "done" /\ pc' = "exited" /\ UNCHANGED <<inv, opts, disk>>
    BY <1>3 DEF Done
  <2>2. Wanted' = Wanted
    BY <2>1 DEF Flag, Output, IlPath, AsmPath, default_output, Wanted
  <2> QED  BY <2>1, <2>2 DEF DiskInv, MineIsIn
<1>4. CASE Exited
  BY <1>4, Stutter DEF Exited
<1> QED  BY <1>1, <1>2, <1>3, <1>4 DEF Next

-----------------------------------------------------------------------------
(* The theorems                                                            *)

\* What the driver knows before each of its steps.
THEOREM Invariance == Spec => []DInv
<1>1. DInv /\ [Next]_vars => DInv'
  <2> SUFFICES ASSUME DInv, [Next]_vars PROVE DInv'
    OBVIOUS
  <2>1. CASE UNCHANGED vars
    BY <2>1, Stutter
  <2>2. CASE Next
    <3>1. TypeInv'
      BY TypeStep DEF DInv
    <3>2. ArgInv'
      BY <2>2, ArgStep DEF DInv
    <3>3. PassInv'
      BY <2>2, PassStep
    <3>4. StatusInv'
      BY <2>2, <3>1, <3>2, <3>3, StatusStep
    <3> QED  BY <2>2, <3>1, <3>2, <3>3, <3>4, DiskStep DEF DInv
  <2> QED  BY <2>1, <2>2
<1> QED  BY InitInv, <1>1, PTL DEF Spec

\* driver_main: status 0 means that what was asked for is there, and any other status
\* is the program's own or comes with a message.
THEOREM StatusTruth == Spec => []StatusTellsTheTruth
<1>1. DInv => StatusTellsTheTruth
  BY DEF DInv, StatusInv, StatusTellsTheTruth
<1> QED  BY Invariance, <1>1, PTL

\* What a step takes away nobody asked for.
LEMMA WantedStaysStep ==
  ASSUME DInv, [Next]_vars
  PROVE  WantedStays
<1> USE DEF DInv, Early, Tools
<1>1. CASE disk' = disk
  BY <1>1 DEF WantedStays, Mine, Exists
<1>2. ASSUME NEW path, Write(path) PROVE WantedStays
  BY <1>2, WriteMine DEF WantedStays, Mine, Exists
<1>3. ASSUME NEW paths, Removed(paths), \A p \in paths : p \in Wanted => ~Mine(p) PROVE WantedStays
  <2>1. DOMAIN disk' = DOMAIN disk \ paths /\ \A p \in DOMAIN disk' : disk'[p] = disk[p]
    BY <1>3, RemovedGone
  <2> QED  BY <1>3, <2>1 DEF WantedStays, Mine, Exists
<1>4. ASSUME pc \in Tools
      PROVE  Output # IlPath /\ Output # AsmPath /\ IlPath # AsmPath
  BY <1>4, NamesDiffer DEF ArgInv
<1>5. CASE ParseArgs \/ Compile \/ Done \/ Exited \/ UNCHANGED vars
  <2>1. disk' = disk
    BY <1>5 DEF ParseArgs, StartArgs, TakeRunArgs, ShowUsage, TakeValue, SetFlag, TakeInput, RefuseArgs, EndArgs, UnchangedByArgs,
                Compile, Load, Lex, Parse, Pass, Check, Analyze, Lower, PrintWarnings, Done, Exited, vars
  <2> QED  BY <1>1, <2>1
<1>6. CASE WriteIl \/ CannotWriteIl \/ NoBackend \/ Backend \/ BackendFails \/ NoRuntime \/ Link
  <2>1. disk' = disk \/ Write(IlPath) \/ Write(AsmPath) \/ Write(Output)
    BY <1>6 DEF WriteIl, CannotWriteIl, NoBackend, Backend, BackendFails, NoRuntime, Link
  <2> QED  BY <1>1, <1>2, <2>1
<1>7. CASE LinkFails
  <2>1. pc = "link" /\ (disk' = disk \/ Removed({Output}))
    BY <1>7 DEF LinkFails
  <2>2. ~Mine(Output)
    BY <1>4, <2>1 DEF DiskInv, MineIsIn, Mine, Exists
  <2> QED  BY <1>1, <1>3, <2>1, <2>2
<1>8. CASE Cleanup
  <2>1. pc = "cleanup" /\ Removed(Unwanted)
    BY <1>8 DEF Cleanup
  <2>2. \A p \in Unwanted : p \notin Wanted
    BY <1>4, <2>1 DEF Unwanted, Wanted
  <2> QED  BY <1>3, <2>1, <2>2
<1>9. CASE RunProgram \/ CannotRun
  <2>1. pc = "run" /\ opts.run /\ Removed({Output})
    BY <1>9 DEF RunProgram, CannotRun, StatusInv
  <2>2. Output \notin Wanted
    BY <1>4, <2>1 DEF Wanted
  <2> QED  BY <1>3, <2>1, <2>2
<1> QED  BY <1>5, <1>6, <1>7, <1>8, <1>9 DEF Next, Build

\* build_native, run_program: what is left on the disk was asked for, and what was asked
\* for and written is not taken away.
THEOREM FilesLeft == Spec => FilesAsAsked
<1>1. DInv => OnlyWantedIsLeft
  BY DEF DInv, DiskInv, MineIsIn, OnlyWantedIsLeft
<1>2. DInv /\ [Next]_vars => WantedStays
  BY WantedStaysStep
<1>3. Spec => []OnlyWantedIsLeft
  BY Invariance, <1>1, PTL
<1>4. Spec => [][WantedStays]_vars
  BY Invariance, <1>2, PTL DEF Spec
<1> QED  BY <1>3, <1>4 DEF FilesAsAsked

\* driver_main, diags_print: the warnings and as many errors as the limit lets through
\* are shown once, in their order, before anything else, and a line tells when errors
\* were left out.
THEOREM DiagnosticsAreShown == Spec => []DiagnosticsReachTheUser
<1>1. ASSUME DInv PROVE DiagnosticsReachTheUser
  <2>1. TypeInv /\ PassInv
    BY <1>1 DEF DInv
  <2> DEFINE n == NumberKept
             total == Len(Found)
  <2>2. /\ n \in Nat /\ Len(Kept.items) = n /\ ShowsFound(Kept.items) /\ ShowsFound(Shown)
        /\ n < total => Len(Shown) = n + 1 /\ Shown[n + 1] = TooMany
        /\ ~(n < total) => Len(Shown) = n
    BY <2>1, ShownParts
  <2>3. DOMAIN Shown = 1..Len(Shown)
    BY <2>1, KeptType, LenProperties
  <2> HIDE DEF n, total
  <2> DEFINE After(s) == /\ ShowsFound(s)
                         /\ n < total <=> n < Len(s) /\ s[n + 1] = TooMany
                         /\ \A i \in n + 1 .. Len(s) : s[i][1] \in {"rivelc", "program"} \/ (i = n + 1 /\ s[i] = TooMany)
  <2>4. After(Shown)
    <3>1. n < total <=> n < Len(Shown) /\ Shown[n + 1] = TooMany
      BY <2>2
    <3>2. \A i \in n + 1 .. Len(Shown) : i = n + 1 /\ Shown[i] = TooMany
      BY <2>2
    <3> QED  BY <2>2, <3>1, <3>2
  <2>5. ASSUME NEW who \in {"rivelc", "program"}, Said(who)
        PROVE  After(stderr)
    <3>1. /\ DOMAIN stderr = 1..(Len(Shown) + 1) /\ Len(stderr) = Len(Shown) + 1 /\ Len(Shown) \in Nat
          /\ \A i \in DOMAIN Shown : stderr[i] = Shown[i]
          /\ stderr[Len(Shown) + 1][1] = who
      BY <2>1, <2>5, SaidParts
    <3>2. ShowsFound(stderr)
      <4>1. \A i \in DOMAIN Shown : i \in DOMAIN stderr /\ stderr[i] = Shown[i]
        BY <2>3, <3>1
      <4> QED  BY <2>2, <4>1 DEF ShowsFound
    <3>3. n < total <=> n < Len(stderr) /\ stderr[n + 1] = TooMany
      <4>1. CASE n < total
        <5>1. n + 1 \in DOMAIN Shown /\ n < Len(stderr)
          BY <2>2, <2>3, <3>1, <4>1
        <5> QED  BY <2>2, <3>1, <4>1, <5>1
      <4>2. CASE ~(n < total)
        <5>1. stderr[n + 1][1] = who
          BY <2>2, <3>1, <4>2
        <5>2. stderr[n + 1] # TooMany
          BY <2>5, <5>1 DEF TooMany
        <5> QED  BY <4>2, <5>2
      <4> QED  BY <4>1, <4>2
    <3>4. ASSUME NEW i \in n + 1 .. Len(stderr)
          PROVE  stderr[i][1] \in {"rivelc", "program"} \/ (i = n + 1 /\ stderr[i] = TooMany)
      <4>1. CASE i = Len(Shown) + 1
        BY <2>5, <3>1, <4>1
      <4>2. CASE i # Len(Shown) + 1
        <5>1. i \in Int /\ n + 1 <= i /\ i <= Len(Shown)
          BY <2>2, <3>1, <4>2
        <5>2. n < total /\ Len(Shown) = n + 1
          BY <2>2, <5>1
        <5>3. i = n + 1 /\ i \in DOMAIN Shown
          BY <2>2, <2>3, <5>1, <5>2
        <5> QED  BY <2>2, <3>1, <5>2, <5>3
      <4> QED  BY <4>1, <4>2
    <3> QED  BY <3>2, <3>3, <3>4
  <2> HIDE DEF After
  <2>6. pc = "exited" /\ WasRead /\ ~Analyzing => After(stderr)
    BY <2>1, <2>4, <2>5 DEF PassInv, Complained
  <2>7. pc = "exited" /\ WasRead /\ Analyzing => stderr = <<>> /\ Len(stdout) = 1 /\ stdout[1].text.diagnostics = Kept.items
    BY <2>1 DEF PassInv
  <2> QED  BY <2>2, <2>6, <2>7 DEF DiagnosticsReachTheUser, After, n, total
<1> QED  BY Invariance, <1>1, PTL

=============================================================================
