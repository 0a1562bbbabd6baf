-------------------------- MODULE NarrowingProofs --------------------------
(* What Narrowing does for all programs: nothing runs that the checker warns
   of as unreachable, a function that must return a value does, and a program
   that keeps its assignments where its tests are never reads a null as a T.  *)
EXTENDS Narrowing, SequenceTheorems, WellFoundedInduction, TLAPS

----------------------------------------------------------------------------
(* Recursion over trees.                                                      *)

(* A set of naturals that has a member has a least one.                       *)
LEMMA LeastElement ==
  ASSUME NEW T \in SUBSET Nat, T # {}
  PROVE  \E x \in T : \A y \in T : x <= y
<1> DEFINE R == {p \in Nat \X Nat : p[1] < p[2]}
<1>1. IsWellFoundedOn(R, Nat)
  BY NatLessThanWellFounded DEF OpToRel
<1>2. \A x, y \in Nat : <<y, x>> \notin R => x <= y
  OBVIOUS
<1> HIDE DEF R
<1>3. PICK x \in T : \A y \in T : ~(<<y, x>> \in R)
  BY <1>1, WFMin
<1>4. QED
  BY <1>2, <1>3

(* What holds of a tree when it holds of every lower one holds of all.        *)
LEMMA TreeInduction ==
  ASSUME NEW S, NEW h \in [S -> Nat], NEW P,
         \A s \in S : (\A t \in S : h[t] < h[s] => t \in P) => s \in P
  PROVE  \A s \in S : s \in P
<1> DEFINE Bad == {n \in Nat : \E s \in S : s \notin P /\ n = h[s]}
<1>1. SUFFICES ASSUME NEW s \in S, s \notin P PROVE FALSE
  OBVIOUS
<1>2. h[s] \in Bad
  BY <1>1
<1>3. PICK n \in Bad : \A m \in Bad : n <= m
  BY <1>2, LeastElement
<1>4. PICK t \in S : t \notin P /\ n = h[t]
  BY <1>3
<1>5. \A u \in S : h[u] < h[t] => u \in P
  BY <1>3, <1>4
<1>6. QED
  BY <1>4, <1>5

(* A definition that looks only at lower trees is one of a function.          *)
Descends(S, V, h, H) ==
    /\ h \in [S -> Nat] /\ H \in [[S -> V] -> [S -> V]]
    /\ \A f, g \in [S -> V] : \A s \in S :
          (\A t \in S : h[t] < h[s] => f[t] = g[t]) => H[f][s] = H[g][s]

Solved(S, V, H) == \E f \in [S -> V] : f = H[f]

LEMMA Recursion ==
  ASSUME NEW S, NEW V, NEW h, NEW H, V # {}, Descends(S, V, h, H)
  PROVE  Solved(S, V, H)
<1> USE DEF Descends
<1> DEFINE Solves(f, n) == \A s \in S : h[s] < n => f[s] = H[f][s]
<1>1. ASSUME NEW f \in [S -> V], NEW g \in [S -> V], NEW n \in Nat, Solves(f, n), Solves(g, n)
      PROVE  \A s \in S : h[s] < n => f[s] = g[s]
  <2> DEFINE P == {s \in S : h[s] < n => f[s] = g[s]}
  <2>1. \A s \in S : (\A t \in S : h[t] < h[s] => t \in P) => s \in P
    <3> SUFFICES ASSUME NEW s \in S, \A t \in S : h[t] < h[s] => t \in P, h[s] < n PROVE f[s] = g[s]
      OBVIOUS
    <3>1. \A t \in S : h[t] < h[s] => f[t] = g[t]
      <4> SUFFICES ASSUME NEW t \in S, h[t] < h[s] PROVE f[t] = g[t]
        OBVIOUS
      <4>1. t \in P /\ h[t] < n
        OBVIOUS
      <4>2. QED
        BY <4>1
    <3>2. H[f][s] = H[g][s]
      BY <3>1
    <3>3. QED
      BY <1>1, <3>2
  <2> HIDE DEF P
  <2>2. \A s \in S : s \in P
    BY <2>1, TreeInduction
  <2>3. QED
    BY <2>2 DEF P
<1>2. \A n \in Nat : \E f \in [S -> V] : Solves(f, n)
  <2> DEFINE Bad == {n \in Nat : ~ \E f \in [S -> V] : Solves(f, n)}
  <2>1. SUFFICES ASSUME Bad # {} PROVE FALSE
    OBVIOUS
  <2>2. PICK n \in Bad : \A m \in Bad : n <= m
    BY <2>1, LeastElement
  <2>3. n # 0
    <3>1. PICK v \in V : TRUE
      OBVIOUS
    <3>2. [s \in S |-> v] \in [S -> V]
      BY <3>1
    <3>3. Solves([s \in S |-> v], 0)
      OBVIOUS
    <3>4. QED
      BY <3>2, <3>3
  <2>4. n - 1 \in Nat /\ n - 1 \notin Bad
    BY <2>2, <2>3
  <2>5. PICK f \in [S -> V] : Solves(f, n - 1)
    BY <2>4
  <2>6. H[f] \in [S -> V]
    OBVIOUS
  <2>7. Solves(H[f], n)
    <3> SUFFICES ASSUME NEW s \in S, h[s] < n PROVE H[f][s] = H[H[f]][s]
      OBVIOUS
    <3>1. \A t \in S : h[t] < h[s] => f[t] = H[f][t]
      BY <2>5
    <3>2. QED
      BY <2>6, <3>1
  <2>8. QED
    BY <2>2, <2>6, <2>7
<1> DEFINE F == [n \in Nat |-> CHOOSE f \in [S -> V] : Solves(f, n)]
           G == [s \in S |-> F[h[s] + 1][s]]
<1>3. \A n \in Nat : F[n] \in [S -> V] /\ Solves(F[n], n)
  <2> SUFFICES ASSUME NEW n \in Nat PROVE F[n] \in [S -> V] /\ Solves(F[n], n)
    OBVIOUS
  <2>1. F[n] = CHOOSE f \in [S -> V] : Solves(f, n)
    OBVIOUS
  <2> HIDE DEF F, Solves
  <2>2. QED
    BY <1>2, <2>1
<1> HIDE DEF F
<1>4. G \in [S -> V]
  BY <1>3
<1>5. \A s \in S : G[s] = H[G][s]
  <2> SUFFICES ASSUME NEW s \in S PROVE G[s] = H[G][s]
    OBVIOUS
  <2> DEFINE n == h[s] + 1
  <2>1. \A t \in S : h[t] < h[s] => G[t] = F[n][t]
    <3> SUFFICES ASSUME NEW t \in S, h[t] < h[s] PROVE G[t] = F[n][t]
      OBVIOUS
    <3>1. h[t] + 1 \in Nat /\ n \in Nat /\ h[t] + 1 <= n
      OBVIOUS
    <3>2. Solves(F[n], h[t] + 1) /\ Solves(F[h[t] + 1], h[t] + 1)
      BY <1>3, <3>1
    <3>3. F[n] \in [S -> V] /\ F[h[t] + 1] \in [S -> V]
      BY <1>3, <3>1
    <3>4. F[h[t] + 1][t] = F[n][t]
      <4> HIDE DEF Solves, n
      <4>1. h[t] < h[t] + 1
        OBVIOUS
      <4>2. QED
        BY <1>1, <3>1, <3>2, <3>3, <4>1
    <3>5. QED
      BY <3>4
  <2>2. n \in Nat /\ h[s] < n
    OBVIOUS
  <2>3. F[n] \in [S -> V] /\ F[n][s] = H[F[n]][s]
    BY <1>3, <2>2
  <2>4. G[s] = F[n][s]
    OBVIOUS
  <2> HIDE DEF G, n, Solves
  <2>5. H[G][s] = H[F[n]][s]
    BY <1>4, <2>1, <2>3
  <2>6. QED
    BY <2>3, <2>4, <2>5
<1> HIDE DEF G
<1>6. G = H[G]
  <2>1. H[G] \in [S -> V]
    BY <1>4
  <2>2. QED
    BY <1>4, <1>5, <2>1
<1>7. QED
  BY <1>4, <1>6 DEF Solved

----------------------------------------------------------------------------
(* Statements, and what the control flow of one says.                         *)

StatementRank == [s \in Statements |-> Height(s)]

LEMMA StatementRankType == StatementRank \in [Statements -> Nat]
BY TreesAssumption DEF StatementRank

(* A statement has the parts of its kind, which are lower.                    *)
PartsIn(s, b) ==
    /\ b \in Seq(Statements)
    /\ \A i \in DOMAIN b : b[i] \in Statements /\ StatementRank[b[i]] < StatementRank[s]

LEMMA StatementParts ==
  ASSUME NEW s \in Statements
  PROVE  /\ s.k \in {"use", "bump", "set", "if", "while", "for", "block", "break", "continue", "return", "panic"}
         /\ s.k \in {"use", "bump", "set"} => s.v \in Vars
         /\ s.k = "set" => s.to \in {"null", "some"}
         /\ s.k \in {"if", "while"} => s.cond \in Conditions
         /\ s.k = "if" => PartsIn(s, s.then) /\ PartsIn(s, s.else)
         /\ s.k \in {"while", "for", "block"} => PartsIn(s, s.body)
<1>1. IsStatement(s) /\ \A p \in Inner(s) : Height(p) < Height(s)
  BY TreesAssumption
<1>2. ASSUME NEW b, b \in Blocks, Range(b) \subseteq Inner(s)
      PROVE  PartsIn(s, b)
  <2>1. b \in Seq(Statements)
    BY <1>2 DEF Blocks
  <2>2. ASSUME NEW i \in DOMAIN b PROVE b[i] \in Statements /\ StatementRank[b[i]] < StatementRank[s]
    <3>1. b[i] \in Statements
      BY <2>1, <2>2
    <3>2. b[i] \in Range(b)
      BY <2>2 DEF Range
    <3>3. Height(b[i]) < Height(s)
      BY <1>1, <1>2, <3>2
    <3>4. QED
      BY <3>1, <3>3 DEF StatementRank
  <2>3. QED
    BY <2>1, <2>2 DEF PartsIn
<1>3. CASE s \in [k : {"use", "bump"}, v : Vars]
  BY <1>3
<1>4. CASE s \in [k : {"set"}, v : Vars, to : {"null", "some"}]
  BY <1>4
<1>5. CASE s \in [k : {"if"}, cond : Conditions, then : Blocks, else : Blocks]
  <2>1. s.k = "if" /\ s.cond \in Conditions /\ s.then \in Blocks /\ s.else \in Blocks
    BY <1>5
  <2>2. Inner(s) = Range(s.then) \cup Range(s.else)
    BY <2>1 DEF Inner
  <2>3. PartsIn(s, s.then) /\ PartsIn(s, s.else)
    BY <1>2, <2>1, <2>2
  <2>4. QED
    BY <2>1, <2>3
<1>6. CASE s \in [k : {"while"}, cond : Conditions, body : Blocks]
  <2>1. s.k = "while" /\ s.cond \in Conditions /\ s.body \in Blocks
    BY <1>6
  <2>2. Inner(s) = Range(s.body)
    BY <2>1 DEF Inner
  <2>3. PartsIn(s, s.body)
    BY <1>2, <2>1, <2>2
  <2>4. QED
    BY <2>1, <2>3
<1>7. CASE s \in [k : {"for", "block"}, body : Blocks]
  <2>1. s.k \in {"for", "block"} /\ s.body \in Blocks
    BY <1>7
  <2>2. Inner(s) = Range(s.body)
    BY <2>1 DEF Inner
  <2>3. PartsIn(s, s.body)
    BY <1>2, <2>1, <2>2
  <2>4. QED
    BY <2>1, <2>3
<1>8. CASE s \in [k : {"break", "continue", "return", "panic"}]
  BY <1>8
<1>9. QED
  BY <1>1, <1>3, <1>4, <1>5, <1>6, <1>7, <1>8 DEF IsStatement

(* The functions are what their definitions say.                              *)
LEMMA HasBreakUnfolds ==
  /\ StmtHasBreak \in [Statements -> BOOLEAN]
  /\ \A s \in Statements : StmtHasBreak[s] = HasBreak(StmtHasBreak, s)
<1> DEFINE H == [f \in [Statements -> BOOLEAN] |-> [s \in Statements |-> HasBreak(f, s)]]
<1>1. H \in [[Statements -> BOOLEAN] -> [Statements -> BOOLEAN]]
  BY DEF HasBreak, SomeIn
<1>2. ASSUME NEW f \in [Statements -> BOOLEAN], NEW g \in [Statements -> BOOLEAN], NEW s \in Statements,
             \A t \in Statements : StatementRank[t] < StatementRank[s] => f[t] = g[t]
      PROVE  H[f][s] = H[g][s]
  <2>1. ASSUME NEW b, PartsIn(s, b) PROVE SomeIn(f, b) = SomeIn(g, b)
    BY <1>2, <2>1 DEF SomeIn, PartsIn
  <2>2. HasBreak(f, s) = HasBreak(g, s)
    BY <2>1, StatementParts DEF HasBreak
  <2>3. QED
    BY <2>2
<1>3. \E f \in [Statements -> BOOLEAN] : f = H[f]
  <2> HIDE DEF H
  <2>1. BOOLEAN # {}
    OBVIOUS
  <2>2. Descends(Statements, BOOLEAN, StatementRank, H)
    BY <1>1, <1>2, StatementRankType DEF Descends
  <2>3. Solved(Statements, BOOLEAN, H)
    BY <2>1, <2>2, Recursion, Zenon
  <2>4. QED
    BY <2>3 DEF Solved
<1>4. \E f : f = [s \in Statements |-> HasBreak(f, s)]
  BY <1>3
<1>5. StmtHasBreak = [s \in Statements |-> HasBreak(StmtHasBreak, s)]
  BY <1>4, Zenon DEF StmtHasBreak
<1>6. ASSUME NEW s \in Statements PROVE HasBreak(StmtHasBreak, s) \in BOOLEAN
  BY DEF HasBreak
<1>7. QED
  BY <1>5, <1>6, Zenon

LEMMA FallsThroughUnfolds ==
  /\ StmtFallsThrough \in [Statements -> BOOLEAN]
  /\ \A s \in Statements : StmtFallsThrough[s] = FallsThrough(StmtFallsThrough, s)
<1> DEFINE H == [f \in [Statements -> BOOLEAN] |-> [s \in Statements |-> FallsThrough(f, s)]]
<1>1. H \in [[Statements -> BOOLEAN] -> [Statements -> BOOLEAN]]
  BY DEF FallsThrough, AllIn
<1>2. ASSUME NEW f \in [Statements -> BOOLEAN], NEW g \in [Statements -> BOOLEAN], NEW s \in Statements,
             \A t \in Statements : StatementRank[t] < StatementRank[s] => f[t] = g[t]
      PROVE  H[f][s] = H[g][s]
  <2>1. ASSUME NEW b, PartsIn(s, b) PROVE AllIn(f, b) = AllIn(g, b)
    BY <1>2, <2>1 DEF AllIn, PartsIn
  <2>2. FallsThrough(f, s) = FallsThrough(g, s)
    BY <2>1, StatementParts DEF FallsThrough
  <2>3. QED
    BY <2>2
<1>3. \E f \in [Statements -> BOOLEAN] : f = H[f]
  <2> HIDE DEF H
  <2>1. BOOLEAN # {}
    OBVIOUS
  <2>2. Descends(Statements, BOOLEAN, StatementRank, H)
    BY <1>1, <1>2, StatementRankType DEF Descends
  <2>3. Solved(Statements, BOOLEAN, H)
    BY <2>1, <2>2, Recursion, Zenon
  <2>4. QED
    BY <2>3 DEF Solved
<1>4. \E f : f = [s \in Statements |-> FallsThrough(f, s)]
  BY <1>3
<1>5. StmtFallsThrough = [s \in Statements |-> FallsThrough(StmtFallsThrough, s)]
  BY <1>4, Zenon DEF StmtFallsThrough
<1>6. ASSUME NEW s \in Statements PROVE FallsThrough(StmtFallsThrough, s) \in BOOLEAN
  BY DEF FallsThrough
<1>7. QED
  BY <1>5, <1>6, Zenon

----------------------------------------------------------------------------
(* The control stack.  Below the top, the statement before next is the one     *)
(* that runs, in the frame above.                                              *)

BlockFrames == [k : {"block"}, block : Blocks, next : Nat \ {0}]
LoopFrames == [k : {"loop"}, stmt : Statements]

Running(frame) == frame.block[frame.next - 1]

Holds(s, b) == (s.k = "if" /\ b \in {s.then, s.else}) \/ (s.k = "block" /\ b = s.body)

RunsIn(upper, lower) ==
    IF lower.k = "loop" THEN upper.k = "block" /\ upper.block = lower.stmt.body
    ELSE /\ lower.next > 1
         /\ IF upper.k = "loop" THEN Running(lower) = upper.stmt ELSE Holds(Running(lower), upper.block)

Passed(frame, n) == \A j \in 1 .. n - 1 : StmtFallsThrough[frame.block[j]]

Stacked(fs, p) ==
    /\ fs \in Seq(BlockFrames \cup LoopFrames)
    /\ \A i \in 1 .. Len(fs) : fs[i].k = "block" =>
          /\ fs[i].next <= Len(fs[i].block) + 1
          /\ Passed(fs[i], IF i = 1 THEN fs[i].next ELSE fs[i].next - 1)
    /\ \A i \in 1 .. Len(fs) : fs[i].k = "loop" => fs[i].stmt.k \in {"while", "for"}
    /\ \A i \in 1 .. Len(fs) - 1 : RunsIn(fs[i], fs[i + 1])
    /\ fs # <<>> => fs[Len(fs)].k = "block" /\ fs[Len(fs)].block = p

FlowInv ==
    /\ TypeOK
    /\ Stacked(frames, prog)
    /\ outcome = "ended" => BlockFallsThrough(prog)

LEMMA FrameShape ==
  ASSUME NEW f \in BlockFrames \cup LoopFrames
  PROVE  /\ f.k \in {"block", "loop"}
         /\ f.k = "block" => f \in BlockFrames /\ f.block \in Seq(Statements) /\ f.next \in Nat \ {0}
         /\ f.k = "loop" => f \in LoopFrames /\ f.stmt \in Statements
BY DEF BlockFrames, LoopFrames, Blocks

(* A block frame that starts, and one that goes on.                            *)
LEMMA NewFrame ==
  ASSUME NEW b \in Blocks
  PROVE  BlockFrame(b) \in BlockFrames /\ BlockFrame(b).k = "block" /\ BlockFrame(b).block = b /\ BlockFrame(b).next = 1
BY DEF BlockFrame, BlockFrames

LEMMA RestOfFrames ==
  ASSUME frames \in Seq(BlockFrames \cup LoopFrames), frames # <<>>, Top.k = "block"
  PROVE  /\ Rest \in Seq(BlockFrames \cup LoopFrames) /\ Len(Rest) = Len(frames)
         /\ Rest[1].k = "block" /\ Rest[1].block = Top.block /\ Rest[1].next = Top.next + 1
         /\ \A i \in 2 .. Len(frames) : Rest[i] = frames[i]
<1>1. Len(frames) \in Nat \ {0} /\ DOMAIN frames = 1 .. Len(frames) /\ Top = frames[1]
  BY DEF Top
<1>2. frames[1] \in BlockFrames
  BY <1>1, FrameShape
<1>3. [frames[1] EXCEPT !.next = @ + 1] \in BlockFrames
  BY <1>2 DEF BlockFrames
<1>4. Rest = [frames EXCEPT ![1] = [frames[1] EXCEPT !.next = @ + 1]]
  BY <1>1, <1>2 DEF Rest, BlockFrames
<1>5. Rest \in Seq(BlockFrames \cup LoopFrames) /\ Len(Rest) = Len(frames) /\ Rest[1] = [frames[1] EXCEPT !.next = @ + 1]
  BY <1>1, <1>3, <1>4
<1>6. \A i \in 2 .. Len(frames) : Rest[i] = frames[i]
  BY <1>1, <1>4
<1>7. QED
  BY <1>1, <1>2, <1>5, <1>6 DEF BlockFrames

(* What is left of a stack when its first frames end.                          *)
LEMMA Popped ==
  ASSUME NEW fs, NEW p, Stacked(fs, p), NEW m \in 2 .. Len(fs),
         fs[m].k = "block" => StmtFallsThrough[Running(fs[m])]
  PROVE  Stacked(SubSeq(fs, m, Len(fs)), p) /\ SubSeq(fs, m, Len(fs)) # <<>>
<1> DEFINE rest == SubSeq(fs, m, Len(fs))
<1>1. fs \in Seq(BlockFrames \cup LoopFrames) /\ Len(fs) \in Nat
  BY DEF Stacked
<1>2. rest \in Seq(BlockFrames \cup LoopFrames) /\ Len(rest) = Len(fs) - m + 1
  BY <1>1
<1>3. \A i \in 1 .. Len(rest) : rest[i] = fs[i + m - 1] /\ i + m - 1 \in 2 .. Len(fs)
  BY <1>1
<1> HIDE DEF rest
<1>4. ASSUME NEW i \in 1 .. Len(rest), rest[i].k = "block"
      PROVE  /\ rest[i].next <= Len(rest[i].block) + 1
             /\ Passed(rest[i], IF i = 1 THEN rest[i].next ELSE rest[i].next - 1)
  <2>1. PICK f \in BlockFrames \cup LoopFrames : f = rest[i] /\ f = fs[i + m - 1]
    BY <1>1, <1>3
  <2>2. f.next \in Nat \ {0} /\ f.next <= Len(f.block) + 1 /\ Passed(f, f.next - 1)
    BY <1>3, <1>4, <2>1, FrameShape DEF Stacked
  <2>3. CASE i # 1
    BY <2>1, <2>2, <2>3
  <2>4. CASE i = 1
    <3>1. f = fs[m] /\ StmtFallsThrough[f.block[f.next - 1]]
      BY <1>4, <2>1, <2>4 DEF Running
    <3>2. Passed(f, f.next)
      BY <2>2, <3>1 DEF Passed
    <3>3. QED
      BY <2>1, <2>2, <2>4, <3>2
  <2>5. QED
    BY <2>3, <2>4
<1>5. \A i \in 1 .. Len(rest) : rest[i].k = "loop" => rest[i].stmt.k \in {"while", "for"}
  BY <1>3 DEF Stacked
<1>6. ASSUME NEW i \in 1 .. Len(rest) - 1 PROVE RunsIn(rest[i], rest[i + 1])
  <2>1. i \in 1 .. Len(rest) /\ i + 1 \in 1 .. Len(rest)
    BY <1>2
  <2>2. rest[i] = fs[i + m - 1] /\ rest[i + 1] = fs[i + 1 + m - 1]
    BY <1>3, <2>1
  <2>3. i + m - 1 \in 1 .. Len(fs) - 1 /\ i + 1 + m - 1 = (i + m - 1) + 1
    BY <1>2
  <2>4. QED
    BY <2>2, <2>3 DEF Stacked
<1>7. rest # <<>> /\ rest[Len(rest)] = fs[Len(fs)]
  <2>1. Len(rest) \in 1 .. Len(rest) /\ Len(rest) + m - 1 = Len(fs)
    BY <1>1, <1>2
  <2>2. rest[Len(rest)] = fs[Len(rest) + m - 1]
    BY <1>3, <2>1
  <2>3. rest # <<>>
    BY <1>2, <2>1
  <2>4. QED
    BY <2>1, <2>2, <2>3
<1>8. fs[Len(fs)].k = "block" /\ fs[Len(fs)].block = p
  BY <1>1 DEF Stacked
<1>9. QED
  BY <1>2, <1>4, <1>5, <1>6, <1>7, <1>8 DEF Stacked, rest

(* A stack with one more frame on it.                                          *)
LEMMA Pushed ==
  ASSUME NEW p, NEW fs, fs \in Seq(BlockFrames \cup LoopFrames), NEW f \in BlockFrames \cup LoopFrames, fs # <<>>,
         RunsIn(f, fs[1]),
         f.k = "block" => f.next = 1,
         f.k = "loop" => f.stmt.k \in {"while", "for"},
         \A i \in 1 .. Len(fs) : fs[i].k = "block" =>
             fs[i].next <= Len(fs[i].block) + 1 /\ Passed(fs[i], fs[i].next - 1),
         \A i \in 1 .. Len(fs) : fs[i].k = "loop" => fs[i].stmt.k \in {"while", "for"},
         \A i \in 1 .. Len(fs) - 1 : RunsIn(fs[i], fs[i + 1]),
         fs[Len(fs)].k = "block" /\ fs[Len(fs)].block = p
  PROVE  Stacked(<<f>> \o fs, p)
<1> DEFINE all == <<f>> \o fs
<1>1. all \in Seq(BlockFrames \cup LoopFrames) /\ Len(all) = Len(fs) + 1 /\ Len(fs) \in Nat \ {0}
  OBVIOUS
<1>2. all[1] = f /\ \A i \in 1 .. Len(fs) : all[i + 1] = fs[i]
  OBVIOUS
<1> HIDE DEF all
<1>3. \A i \in 2 .. Len(all) : i - 1 \in 1 .. Len(fs) /\ all[i] = fs[i - 1]
  BY <1>1, <1>2
<1>4. ASSUME NEW i \in 1 .. Len(all), all[i].k = "block"
      PROVE  /\ all[i].next <= Len(all[i].block) + 1
             /\ Passed(all[i], IF i = 1 THEN all[i].next ELSE all[i].next - 1)
  <2>1. CASE i = 1
    <3>1. Len(f.block) \in Nat
      BY <1>2, <1>4, <2>1, FrameShape
    <3>2. Passed(f, f.next)
      BY <1>2, <1>4, <2>1 DEF Passed
    <3>3. QED
      BY <1>2, <1>4, <2>1, <3>1, <3>2
  <2>2. CASE i # 1
    <3>1. i \in 2 .. Len(all)
      BY <1>1, <2>2
    <3>2. i - 1 \in 1 .. Len(fs) /\ all[i] = fs[i - 1]
      BY <1>3, <3>1
    <3>3. fs[i - 1].next <= Len(fs[i - 1].block) + 1 /\ Passed(fs[i - 1], fs[i - 1].next - 1)
      BY <1>4, <3>2
    <3>4. QED
      BY <2>2, <3>2, <3>3
  <2>3. QED
    BY <2>1, <2>2
<1>5. \A i \in 1 .. Len(all) : all[i].k = "loop" => all[i].stmt.k \in {"while", "for"}
  BY <1>1, <1>2, <1>3
<1>6. ASSUME NEW i \in 1 .. Len(all) - 1 PROVE RunsIn(all[i], all[i + 1])
  <2>1. CASE i = 1
    BY <1>1, <1>2, <2>1
  <2>2. CASE i # 1
    <3>1. i - 1 \in 1 .. Len(fs) - 1 /\ all[i] = fs[i - 1] /\ all[i + 1] = fs[i]
      BY <1>1, <1>2, <1>3, <2>2
    <3>2. RunsIn(fs[i - 1], fs[i - 1 + 1]) /\ i - 1 + 1 = i
      BY <3>1
    <3>3. QED
      BY <3>1, <3>2
  <2>3. QED
    BY <2>1, <2>2
<1>7. all # <<>> /\ all[Len(all)] = fs[Len(fs)]
  BY <1>1, <1>2
<1>8. QED
  BY <1>1, <1>4, <1>5, <1>6, <1>7 DEF Stacked, all

----------------------------------------------------------------------------
(* Conditions, and how they come out.                                         *)

ConditionRank == [c \in Conditions |-> Height(c)]

LEMMA ConditionRankType == ConditionRank \in [Conditions -> Nat]
BY TreesAssumption DEF ConditionRank

(* A condition has the parts of its kind, which are lower.                    *)
Below(c, p) == p \in Conditions /\ ConditionRank[p] < ConditionRank[c]

LEMMA ConditionParts ==
  ASSUME NEW c \in Conditions
  PROVE  /\ c.k \in {"ne", "eq", "read", "true", "opaque", "not", "and", "or"}
         /\ c.k \in {"ne", "eq", "read"} => c.v \in Vars
         /\ c.k = "not" => Below(c, c.e)
         /\ c.k \in {"and", "or"} => Below(c, c.l) /\ Below(c, c.r)
<1>1. IsCondition(c) /\ \A p \in Operands(c) : Height(p) < Height(c)
  BY TreesAssumption
<1>2. ASSUME NEW p \in Operands(c), p \in Conditions PROVE Below(c, p)
  BY <1>1, <1>2 DEF Below, ConditionRank
<1>3. CASE c \in [k : {"ne", "eq", "read"}, v : Vars]
  BY <1>3
<1>4. CASE c \in [k : {"true", "opaque"}]
  BY <1>4
<1>5. CASE c \in [k : {"not"}, e : Conditions]
  <2>1. c.k = "not" /\ c.e \in Conditions
    BY <1>5
  <2>2. c.e \in Operands(c)
    BY <2>1 DEF Operands
  <2>3. QED
    BY <1>2, <2>1, <2>2
<1>6. CASE c \in [k : {"and", "or"}, l : Conditions, r : Conditions]
  <2>1. c.k \in {"and", "or"} /\ c.l \in Conditions /\ c.r \in Conditions
    BY <1>6
  <2>2. c.l \in Operands(c) /\ c.r \in Operands(c)
    BY <2>1 DEF Operands
  <2>3. QED
    BY <1>2, <2>1, <2>2
<1>7. QED
  BY <1>1, <1>3, <1>4, <1>5, <1>6 DEF IsCondition

Endings == {"yes", "no", "null"}

LEMMA OutcomesUnfolds ==
  /\ Outcomes \in [Conditions -> SUBSET Endings]
  /\ \A c \in Conditions : Outcomes[c] = Outcome(Outcomes, c)
<1> DEFINE V == SUBSET Endings
           H == [f \in [Conditions -> V] |-> [c \in Conditions |-> Outcome(f, c)]]
<1>1. ASSUME NEW f, NEW c \in Conditions,
             \A t \in Conditions : ConditionRank[t] < ConditionRank[c] => f[t] \in V
      PROVE  Outcome(f, c) \in V
  <2>1. c.k = "not" => f[c.e] \in V
    BY <1>1, ConditionParts DEF Below
  <2>2. c.k \in {"and", "or"} => f[c.l] \in V /\ f[c.r] \in V
    BY <1>1, ConditionParts DEF Below
  <2>3. QED
    BY <2>1, <2>2, ConditionParts DEF Outcome, Endings
<1>2. H \in [[Conditions -> V] -> [Conditions -> V]]
  BY <1>1
<1>3. ASSUME NEW f \in [Conditions -> V], NEW g \in [Conditions -> V], NEW c \in Conditions,
             \A t \in Conditions : ConditionRank[t] < ConditionRank[c] => f[t] = g[t]
      PROVE  H[f][c] = H[g][c]
  <2>1. c.k = "not" => f[c.e] = g[c.e]
    BY <1>3, ConditionParts DEF Below
  <2>2. c.k \in {"and", "or"} => f[c.l] = g[c.l] /\ f[c.r] = g[c.r]
    BY <1>3, ConditionParts DEF Below
  <2>3. Outcome(f, c) = Outcome(g, c)
    BY <2>1, <2>2, ConditionParts DEF Outcome
  <2>4. QED
    BY <2>3
<1>4. \E f \in [Conditions -> V] : f = H[f]
  <2> HIDE DEF H
  <2>1. V # {}
    OBVIOUS
  <2> HIDE DEF V
  <2>2. Descends(Conditions, V, ConditionRank, H)
    BY <1>2, <1>3, ConditionRankType DEF Descends
  <2>3. Solved(Conditions, V, H)
    BY <2>1, <2>2, Recursion, Zenon
  <2>4. QED
    BY <2>3 DEF Solved
<1>5. \E f : f = [c \in Conditions |-> Outcome(f, c)]
  BY <1>4
<1>6. Outcomes = [c \in Conditions |-> Outcome(Outcomes, c)]
  BY <1>5, Zenon DEF Outcomes
<1>7. \A c \in Conditions : Outcomes[c] \in V
  <2> DEFINE P == {c \in Conditions : Outcomes[c] \in V}
  <2>1. \A c \in Conditions : (\A t \in Conditions : ConditionRank[t] < ConditionRank[c] => t \in P) => c \in P
    <3> SUFFICES ASSUME NEW c \in Conditions, \A t \in Conditions : ConditionRank[t] < ConditionRank[c] => t \in P
                 PROVE  Outcomes[c] \in V
      OBVIOUS
    <3>1. Outcome(Outcomes, c) \in V
      BY <1>1
    <3>2. Outcomes[c] = Outcome(Outcomes, c)
      BY <1>6, Zenon
    <3>3. QED
      BY <3>1, <3>2
  <2> HIDE DEF P
  <2>2. \A c \in Conditions : c \in P
    BY <2>1, ConditionRankType, TreeInduction
  <2>3. QED
    BY <2>2 DEF P
<1>8. Outcomes \in [Conditions -> V]
  BY <1>6, <1>7, Zenon
<1>9. QED
  BY <1>6, <1>8, Zenon

----------------------------------------------------------------------------
(* Steps.                                                                     *)

LEMMA BlockFallsThroughIn ==
  ASSUME NEW b
  PROVE  BlockFallsThrough(b) <=> \A i \in DOMAIN b : StmtFallsThrough[b[i]]
BY DEF BlockFallsThrough, AllIn

(* A statement whose block can be left at its end can be left.                *)
LEMMA EndOfPart ==
  ASSUME NEW s \in Statements, NEW b, Holds(s, b), BlockFallsThrough(b)
  PROVE  StmtFallsThrough[s]
BY FallsThroughUnfolds DEF Holds, FallsThrough, BlockFallsThrough

(* As long as it runs, a program is on a stack.                               *)
LEMMA RunningStack ==
  ASSUME FlowInv, outcome = "running"
  PROVE  /\ frames \in Seq(BlockFrames \cup LoopFrames) /\ frames # <<>>
         /\ Len(frames) \in Nat \ {0} /\ Top = frames[1] /\ Top \in BlockFrames \cup LoopFrames
         /\ Stacked(frames, prog) /\ prog \in Blocks
<1>1. frames \in Seq(BlockFrames \cup LoopFrames) /\ frames # <<>> /\ Stacked(frames, prog)
  BY DEF FlowInv, TypeOK, Stacked
<1>2. Len(frames) \in Nat \ {0} /\ Top = frames[1] /\ Top \in BlockFrames \cup LoopFrames
  BY <1>1 DEF Top
<1>3. prog \in Blocks
  BY ProgramsAssumption DEF FlowInv, TypeOK, AcceptedPrograms
<1>4. QED
  BY <1>1, <1>2, <1>3

LEMMA CurrentStatement ==
  ASSUME FlowInv, AtStmt
  PROVE  /\ Top \in BlockFrames /\ Top.block \in Seq(Statements) /\ Top.next \in DOMAIN Top.block
         /\ Cur \in Statements /\ Passed(Top, Top.next)
<1>1. Top \in BlockFrames /\ Top.block \in Seq(Statements) /\ Top.next \in Nat \ {0} /\ Top.next <= Len(Top.block)
  BY RunningStack, FrameShape DEF AtStmt
<1>2. Passed(Top, Top.next)
  BY RunningStack DEF AtStmt, Stacked
<1>3. QED
  BY <1>1, <1>2 DEF Cur

(* The frames from which the current statement has been taken.                *)
LEMMA BelowCurrent ==
  ASSUME FlowInv, AtStmt
  PROVE  /\ Rest \in Seq(BlockFrames \cup LoopFrames) /\ Rest # <<>> /\ Len(Rest) = Len(frames)
         /\ Rest[1].k = "block" /\ Rest[1].next > 1 /\ Running(Rest[1]) = Cur
         /\ \A i \in 1 .. Len(Rest) : Rest[i].k = "block" =>
               Rest[i].next <= Len(Rest[i].block) + 1 /\ Passed(Rest[i], Rest[i].next - 1)
         /\ \A i \in 1 .. Len(Rest) : Rest[i].k = "loop" => Rest[i].stmt.k \in {"while", "for"}
         /\ \A i \in 1 .. Len(Rest) - 1 : RunsIn(Rest[i], Rest[i + 1])
         /\ Rest[Len(Rest)].k = "block" /\ Rest[Len(Rest)].block = prog
<1>1. /\ frames \in Seq(BlockFrames \cup LoopFrames) /\ frames # <<>> /\ Len(frames) \in Nat \ {0}
      /\ Top = frames[1] /\ Stacked(frames, prog) /\ Top.k = "block"
  BY RunningStack DEF AtStmt
<1>2. /\ Top \in BlockFrames /\ Top.block \in Seq(Statements) /\ Top.next \in DOMAIN Top.block
      /\ Passed(Top, Top.next)
  BY CurrentStatement
<1>3. /\ Rest \in Seq(BlockFrames \cup LoopFrames) /\ Len(Rest) = Len(frames)
      /\ Rest[1].k = "block" /\ Rest[1].block = Top.block /\ Rest[1].next = Top.next + 1
      /\ \A i \in 2 .. Len(frames) : Rest[i] = frames[i]
  BY <1>1, RestOfFrames
<1> DEFINE r == Rest
<1> HIDE DEF r
<1>4. /\ r \in Seq(BlockFrames \cup LoopFrames) /\ Len(r) = Len(frames)
      /\ r[1].k = "block" /\ r[1].block = Top.block /\ r[1].next = Top.next + 1
      /\ \A i \in 2 .. Len(frames) : r[i] = frames[i]
  BY <1>3 DEF r
<1>5. Top.next \in Nat \ {0} /\ Top.next <= Len(Top.block) /\ Len(Top.block) \in Nat
  BY <1>2
<1>6. Running(r[1]) = Cur
  BY <1>4, <1>5 DEF Running, Cur
<1>7. ASSUME NEW i \in 1 .. Len(r), r[i].k = "block"
      PROVE  r[i].next <= Len(r[i].block) + 1 /\ Passed(r[i], r[i].next - 1)
  <2>1. CASE i = 1
    <3>1. r[1].next - 1 = Top.next
      BY <1>4, <1>5
    <3>2. Passed(r[1], Top.next)
      BY <1>2, <1>4 DEF Passed
    <3>3. QED
      BY <1>4, <1>5, <2>1, <3>1, <3>2
  <2>2. CASE i # 1
    <3>1. i \in 2 .. Len(frames) /\ i \in 1 .. Len(frames)
      BY <1>1, <1>4, <2>2
    <3>2. r[i] = frames[i]
      BY <1>4, <3>1
    <3>3. QED
      BY <1>1, <1>7, <2>2, <3>1, <3>2 DEF Stacked
  <2>3. QED
    BY <2>1, <2>2
<1>8. ASSUME NEW i \in 1 .. Len(r), r[i].k = "loop" PROVE r[i].stmt.k \in {"while", "for"}
  <2>1. i # 1
    BY <1>4, <1>8
  <2>2. i \in 2 .. Len(frames) /\ i \in 1 .. Len(frames)
    BY <1>1, <1>4, <2>1
  <2>3. QED
    BY <1>1, <1>4, <1>8, <2>2 DEF Stacked
<1>9. ASSUME NEW i \in 1 .. Len(r) - 1 PROVE RunsIn(r[i], r[i + 1])
  <2>1. i \in 1 .. Len(frames) - 1 /\ i + 1 \in 2 .. Len(frames)
    BY <1>1, <1>4
  <2>2. RunsIn(frames[i], frames[i + 1]) /\ r[i + 1] = frames[i + 1]
    BY <1>1, <1>4, <2>1 DEF Stacked
  <2>3. CASE i = 1
    BY <1>1, <1>4, <2>2, <2>3 DEF RunsIn, Holds
  <2>4. CASE i # 1
    <3>1. i \in 2 .. Len(frames)
      BY <2>1, <2>4
    <3>2. QED
      BY <1>4, <2>2, <3>1
  <2>5. QED
    BY <2>3, <2>4
<1>10. r[Len(r)].k = "block" /\ r[Len(r)].block = prog
  <2>1. frames[Len(frames)].k = "block" /\ frames[Len(frames)].block = prog
    BY <1>1 DEF Stacked
  <2>2. CASE Len(frames) = 1
    BY <1>1, <1>4, <2>1, <2>2
  <2>3. CASE Len(frames) # 1
    <3>1. Len(frames) \in 2 .. Len(frames)
      <4>1. \A n \in Nat \ {0} : n # 1 => n \in 2 .. n
        OBVIOUS
      <4>2. QED
        BY <1>1, <2>3, <4>1, Zenon
    <3>2. QED
      BY <1>4, <2>1, <3>1
  <2>4. QED
    BY <2>2, <2>3
<1>11. r # <<>> /\ r[1].next > 1
  BY <1>1, <1>4, <1>5
<1>12. QED
  BY <1>4, <1>6, <1>7, <1>8, <1>9, <1>10, <1>11 DEF r

(* After a statement that falls through.                                      *)
LEMMA Passing ==
  ASSUME FlowInv, AtStmt, StmtFallsThrough[Cur]
  PROVE  Stacked(Rest, prog) /\ Rest # <<>>
<1> DEFINE r == Rest
<1> HIDE DEF r
<1>1. /\ r \in Seq(BlockFrames \cup LoopFrames) /\ r # <<>> /\ Len(r) = Len(frames)
      /\ r[1].k = "block" /\ r[1].next > 1 /\ Running(r[1]) = Cur
      /\ \A i \in 1 .. Len(r) : r[i].k = "block" =>
            r[i].next <= Len(r[i].block) + 1 /\ Passed(r[i], r[i].next - 1)
      /\ \A i \in 1 .. Len(r) : r[i].k = "loop" => r[i].stmt.k \in {"while", "for"}
      /\ \A i \in 1 .. Len(r) - 1 : RunsIn(r[i], r[i + 1])
      /\ r[Len(r)].k = "block" /\ r[Len(r)].block = prog
  BY BelowCurrent DEF r
<1>2. r[1] \in BlockFrames /\ 1 \in 1 .. Len(r)
  BY <1>1, FrameShape
<1>3. Passed(r[1], r[1].next)
  <2>1. Passed(r[1], r[1].next - 1) /\ r[1].next \in Nat
    BY <1>1, <1>2, FrameShape
  <2>2. StmtFallsThrough[r[1].block[r[1].next - 1]]
    BY <1>1 DEF Running
  <2>3. QED
    BY <2>1, <2>2 DEF Passed
<1>4. \A i \in 1 .. Len(r) : r[i].k = "block" =>
         r[i].next <= Len(r[i].block) + 1 /\ Passed(r[i], IF i = 1 THEN r[i].next ELSE r[i].next - 1)
  BY <1>1, <1>3
<1>5. Stacked(r, prog)
  BY <1>1, <1>4 DEF Stacked
<1>6. QED
  BY <1>1, <1>5 DEF r

(* Into a part of the current statement.                                      *)
LEMMA Entering ==
  ASSUME FlowInv, AtStmt, NEW f \in BlockFrames \cup LoopFrames,
         f.k = "block" => f.next = 1 /\ Holds(Cur, f.block),
         f.k = "loop" => f.stmt = Cur /\ Cur.k \in {"while", "for"}
  PROVE  Stacked(<<f>> \o Rest, prog) /\ <<f>> \o Rest # <<>>
<1> DEFINE r == Rest
<1> HIDE DEF r
<1>1. /\ r \in Seq(BlockFrames \cup LoopFrames) /\ r # <<>> /\ Len(r) = Len(frames)
      /\ r[1].k = "block" /\ r[1].next > 1 /\ Running(r[1]) = Cur
      /\ \A i \in 1 .. Len(r) : r[i].k = "block" =>
            r[i].next <= Len(r[i].block) + 1 /\ Passed(r[i], r[i].next - 1)
      /\ \A i \in 1 .. Len(r) : r[i].k = "loop" => r[i].stmt.k \in {"while", "for"}
      /\ \A i \in 1 .. Len(r) - 1 : RunsIn(r[i], r[i + 1])
      /\ r[Len(r)].k = "block" /\ r[Len(r)].block = prog
  BY BelowCurrent DEF r
<1>2. RunsIn(f, r[1])
  BY <1>1, FrameShape DEF RunsIn
<1>3. Stacked(<<f>> \o r, prog)
  BY <1>1, <1>2, Pushed
<1>4. <<f>> \o r # <<>>
  BY <1>1
<1>5. QED
  BY <1>3, <1>4 DEF r

(* The statements from a break to the end of the innermost loop hold a break. *)
LEMMA BreakInside ==
  ASSUME FlowInv, AtStmt, Cur.k = "break", NEW m \in 1 .. Len(frames), frames[m].k = "loop",
         \A i \in 1 .. m - 1 : frames[i].k = "block"
  PROVE  m > 1 /\ BlockHasBreak(frames[m].stmt.body)
<1>1. /\ frames \in Seq(BlockFrames \cup LoopFrames) /\ Len(frames) \in Nat \ {0}
      /\ Top = frames[1] /\ Stacked(frames, prog) /\ Top.k = "block"
  BY RunningStack DEF AtStmt
<1>2. m > 1
  BY <1>1
<1> DEFINE Without == {i \in Nat : i \in 1 .. m - 1 /\ ~ BlockHasBreak(frames[i].block)}
<1>3. Without = {}
  <2>1. SUFFICES ASSUME Without # {} PROVE FALSE
    OBVIOUS
  <2>2. PICK i \in Without : \A j \in Without : i <= j
    BY <2>1, LeastElement
  <2>3. i # 1
    <3>1. StmtHasBreak[Cur]
      BY CurrentStatement, HasBreakUnfolds DEF HasBreak
    <3>2. BlockHasBreak(Top.block)
      BY <3>1, CurrentStatement DEF BlockHasBreak, SomeIn, Cur
    <3>3. QED
      BY <1>1, <2>2, <3>2
  <2>4. i - 1 \in 1 .. m - 1 /\ i \in 1 .. m - 1 /\ i - 1 \notin Without
    BY <2>2, <2>3
  <2>5. BlockHasBreak(frames[i - 1].block)
    BY <2>4
  <2> HIDE DEF Without
  <2>6. i - 1 \in 1 .. Len(frames) - 1 /\ (i - 1) + 1 = i /\ i \in 1 .. Len(frames)
    BY <1>1, <2>4
  <2>7. RunsIn(frames[i - 1], frames[i])
    BY <1>1, <2>6 DEF Stacked
  <2>8. frames[i - 1].k = "block" /\ frames[i].k = "block"
    BY <2>4
  <2>9. PICK f \in BlockFrames : f = frames[i]
    BY <1>1, <2>6, <2>8, FrameShape
  <2>10. f.next > 1 /\ f.next <= Len(f.block) + 1 /\ f.block \in Seq(Statements) /\ f.next \in Nat
    BY <1>1, <2>6, <2>7, <2>8, <2>9, FrameShape DEF RunsIn, Stacked
  <2>11. f.next - 1 \in DOMAIN f.block /\ Running(f) \in Statements /\ Holds(Running(f), frames[i - 1].block)
    BY <2>7, <2>8, <2>9, <2>10 DEF Running, RunsIn
  <2>12. StmtHasBreak[Running(f)]
    BY <2>5, <2>11, HasBreakUnfolds DEF HasBreak, Holds, BlockHasBreak
  <2>13. BlockHasBreak(f.block)
    BY <2>11, <2>12 DEF BlockHasBreak, SomeIn, Running
  <2>14. QED
    BY <2>2, <2>4, <2>9, <2>13 DEF Without
<1>4. BlockHasBreak(frames[m - 1].block)
  BY <1>2, <1>3
<1>5. RunsIn(frames[m - 1], frames[(m - 1) + 1]) /\ (m - 1) + 1 = m
  BY <1>1, <1>2 DEF Stacked
<1>6. QED
  BY <1>2, <1>4, <1>5 DEF RunsIn

LEMMA Stopping ==
  ASSUME FlowInv, NEW how \in {"left", "ended", "nullRead", "lost"}, Stop(how),
         how = "ended" => BlockFallsThrough(prog)
  PROVE  FlowInv'
<1>1. Stacked(<<>>, prog)
  BY DEF Stacked
<1>2. frames' = <<>> /\ outcome' = how /\ prog' = prog /\ val' = val
  BY DEF Stop
<1>3. Stacked(frames', prog')
  BY <1>1, <1>2
<1>4. TypeOK'
  BY <1>2 DEF FlowInv, TypeOK
<1>5. outcome' = "ended" => BlockFallsThrough(prog')
  BY <1>2
<1>6. QED
  BY <1>3, <1>4, <1>5 DEF FlowInv

LEMMA Going ==
  ASSUME FlowInv, outcome = "running", NEW fs, Continue(fs), Stacked(fs, prog), fs # <<>>,
         val' \in [Vars -> {"null", "some"}]
  PROVE  FlowInv'
<1>1. frames' = fs /\ outcome' = "running" /\ prog' = prog
  BY DEF Continue
<1>2. Stacked(frames', prog')
  BY <1>1
<1>3. TypeOK'
  BY <1>1 DEF FlowInv, TypeOK
<1>4. outcome' # "ended"
  BY <1>1
<1>5. QED
  BY <1>2, <1>3, <1>4 DEF FlowInv

(* What a header lets go on falls through.                                    *)
LEMMA HeaderPasses ==
  ASSUME FlowInv, NEW s \in Statements, s.k \in {"while", "for"},
         s.k = "while" => "no" \in Outcomes[s.cond]
  PROVE  StmtFallsThrough[s]
<1>1. s.k = "while" => s.cond.k # "true"
  <2> SUFFICES ASSUME s.k = "while", s.cond.k = "true" PROVE FALSE
    OBVIOUS
  <2>1. s.cond \in Conditions
    BY StatementParts
  <2>2. Outcomes[s.cond] = {"yes"}
    BY <2>1, OutcomesUnfolds DEF Outcome
  <2>3. QED
    BY <2>2
<1>2. QED
  BY <1>1, FallsThroughUnfolds DEF FallsThrough

(* Where the innermost loop is.                                               *)
LEMMA Innermost ==
  ASSUME FlowInv, outcome = "running", Loops # {}
  PROVE  /\ InnermostLoop \in 1 .. Len(frames) /\ frames[InnermostLoop].k = "loop"
         /\ \A i \in 1 .. InnermostLoop - 1 : frames[i].k = "block"
         /\ InnermostLoop < Len(frames)
<1>1. frames \in Seq(BlockFrames \cup LoopFrames) /\ Len(frames) \in Nat \ {0} /\ DOMAIN frames = 1 .. Len(frames)
  BY RunningStack
<1>2. Loops \in SUBSET Nat
  BY <1>1 DEF Loops
<1>3. PICK m \in Loops : \A j \in Loops : m <= j
  BY <1>2, LeastElement
<1>4. InnermostLoop \in Loops /\ \A j \in Loops : InnermostLoop <= j
  BY <1>3, Zenon DEF InnermostLoop
<1> DEFINE n == InnermostLoop
<1> HIDE DEF n
<1>5. n \in Loops /\ \A j \in Loops : n <= j
  BY <1>4 DEF n
<1>6. n \in 1 .. Len(frames) /\ frames[n].k = "loop"
  BY <1>1, <1>5 DEF Loops
<1>7. \A i \in 1 .. n - 1 : i \in DOMAIN frames /\ i \notin Loops
  BY <1>1, <1>5, <1>6
<1>8. \A i \in 1 .. n - 1 : frames[i].k = "block"
  BY <1>1, <1>7, FrameShape DEF Loops
<1>9. n # Len(frames)
  <2>1. frames[Len(frames)].k = "block"
    BY RunningStack DEF Stacked
  <2>2. QED
    BY <1>6, <2>1, Zenon
<1>10. n < Len(frames)
  <2>1. \A top \in Nat \ {0} : \A i \in 1 .. top : i # top => i < top
    OBVIOUS
  <2>2. QED
    BY <1>1, <1>6, <1>9, <2>1, Zenon
<1>11. QED
  BY <1>6, <1>8, <1>10, Zenon DEF n

(* The frames below a loop, whose statement falls through.                    *)
LEMMA LeavingLoop ==
  ASSUME FlowInv, outcome = "running", NEW m \in 1 .. Len(frames), frames[m].k = "loop", m < Len(frames),
         StmtFallsThrough[frames[m].stmt]
  PROVE  Stacked(SubSeq(frames, m + 1, Len(frames)), prog) /\ SubSeq(frames, m + 1, Len(frames)) # <<>>
<1>1. m + 1 \in 2 .. Len(frames) /\ m \in 1 .. Len(frames) - 1 /\ Stacked(frames, prog)
  BY RunningStack
<1>2. RunsIn(frames[m], frames[m + 1])
  BY <1>1 DEF Stacked
<1>3. frames[m + 1].k = "block" => Running(frames[m + 1]) = frames[m].stmt
  BY <1>2 DEF RunsIn
<1>4. frames[m + 1].k = "block" => StmtFallsThrough[Running(frames[m + 1])]
  BY <1>3
<1>5. QED
  BY <1>1, <1>4, Popped

LEMMA TailOfFrames ==
  ASSUME NEW S, NEW fs \in Seq(S), fs # <<>>
  PROVE  Tail(fs) = SubSeq(fs, 2, Len(fs))
OBVIOUS

LEMMA FlowNext ==
  ASSUME FlowInv, Next
  PROVE  FlowInv'
<1>0. val \in [Vars -> {"null", "some"}]
  BY DEF FlowInv, TypeOK
<1>1. CASE LowerName
  <2>1. AtStmt /\ Cur.k \in {"use", "bump"} /\ outcome = "running"
    BY <1>1 DEF LowerName, AtStmt
  <2>2. CASE Stop("nullRead")
    BY <2>2, Stopping
  <2>3. CASE Continue(Rest) /\ UNCHANGED val
    <3>1. StmtFallsThrough[Cur]
      BY <2>1, CurrentStatement, FallsThroughUnfolds DEF FallsThrough
    <3>2. Stacked(Rest, prog) /\ Rest # <<>>
      BY <2>1, <3>1, Passing
    <3>3. QED
      BY <1>0, <2>1, <2>3, <3>2, Going
  <2>4. QED
    BY <1>1, <2>2, <2>3 DEF LowerName
<1>2. CASE LowerAssign
  <2>1. AtStmt /\ Cur.k = "set" /\ outcome = "running"
    BY <1>2 DEF LowerAssign, AtStmt
  <2>2. StmtFallsThrough[Cur]
    BY <2>1, CurrentStatement, FallsThroughUnfolds DEF FallsThrough
  <2>3. Stacked(Rest, prog) /\ Rest # <<>>
    BY <2>1, <2>2, Passing
  <2>4. Cur.to \in {"null", "some"}
    BY <2>1, CurrentStatement, StatementParts
  <2>5. val' \in [Vars -> {"null", "some"}]
    BY <1>0, <1>2, <2>4 DEF LowerAssign
  <2>6. QED
    BY <1>2, <2>1, <2>3, <2>5, Going DEF LowerAssign
<1>3. CASE LowerIf
  <2>1. AtStmt /\ Cur.k = "if" /\ outcome = "running"
    BY <1>3 DEF LowerIf, AtStmt
  <2>2. CASE Stop("nullRead")
    BY <2>2, Stopping
  <2>3. ASSUME NEW o, Continue(<<BlockFrame(IF o = "yes" THEN Cur.then ELSE Cur.else)>> \o Rest), UNCHANGED val
        PROVE  FlowInv'
    <3> DEFINE b == IF o = "yes" THEN Cur.then ELSE Cur.else
    <3>1. b \in Blocks /\ Holds(Cur, b)
      BY <2>1, CurrentStatement, StatementParts DEF PartsIn, Blocks, Holds
    <3> HIDE DEF b
    <3>2. BlockFrame(b) \in BlockFrames \cup LoopFrames /\ BlockFrame(b).k = "block"
          /\ BlockFrame(b).block = b /\ BlockFrame(b).next = 1
      BY <3>1, NewFrame
    <3>3. Stacked(<<BlockFrame(b)>> \o Rest, prog) /\ <<BlockFrame(b)>> \o Rest # <<>>
      BY <2>1, <3>1, <3>2, Entering
    <3>4. Continue(<<BlockFrame(b)>> \o Rest)
      BY <2>3 DEF b
    <3>5. QED
      BY <1>0, <2>1, <2>3, <3>3, <3>4, Going
  <2>4. QED
    BY <1>3, <2>2, <2>3 DEF LowerIf
<1>4. CASE LowerBlock
  <2>1. AtStmt /\ Cur.k = "block" /\ outcome = "running"
    BY <1>4 DEF LowerBlock, AtStmt
  <2> DEFINE b == Cur.body
  <2>2. b \in Blocks /\ Holds(Cur, b)
    BY <2>1, CurrentStatement, StatementParts DEF PartsIn, Blocks, Holds
  <2> HIDE DEF b
  <2>3. BlockFrame(b) \in BlockFrames \cup LoopFrames /\ BlockFrame(b).k = "block"
        /\ BlockFrame(b).block = b /\ BlockFrame(b).next = 1
    BY <2>2, NewFrame
  <2>4. Stacked(<<BlockFrame(b)>> \o Rest, prog) /\ <<BlockFrame(b)>> \o Rest # <<>>
    BY <2>1, <2>2, <2>3, Entering
  <2>5. Continue(<<BlockFrame(b)>> \o Rest) /\ UNCHANGED val
    BY <1>4 DEF LowerBlock, b
  <2>6. QED
    BY <1>0, <2>1, <2>4, <2>5, Going
<1>5. CASE EnterLoop
  <2>1. AtStmt /\ Cur.k \in {"while", "for"} /\ outcome = "running"
    BY <1>5 DEF EnterLoop, AtStmt
  <2>2. LoopFrame(Cur) \in BlockFrames \cup LoopFrames /\ LoopFrame(Cur).k = "loop" /\ LoopFrame(Cur).stmt = Cur
    BY <2>1, CurrentStatement DEF LoopFrame, LoopFrames
  <2>3. Stacked(<<LoopFrame(Cur)>> \o Rest, prog) /\ <<LoopFrame(Cur)>> \o Rest # <<>>
    BY <2>1, <2>2, Entering
  <2>4. Continue(<<LoopFrame(Cur)>> \o Rest) /\ UNCHANGED val
    BY <1>5 DEF EnterLoop
  <2>5. QED
    BY <1>0, <2>1, <2>3, <2>4, Going
<1>6. CASE LoopHeader
  <2>1. /\ outcome = "running" /\ Top.k = "loop" /\ Top = frames[1] /\ Top.stmt \in Statements
        /\ Top.stmt.k \in {"while", "for"} /\ Stacked(frames, prog) /\ frames # <<>>
        /\ frames \in Seq(BlockFrames \cup LoopFrames) /\ Len(frames) \in Nat \ {0}
    BY <1>6, RunningStack, FrameShape DEF LoopHeader, AtLoop, Stacked
  <2>2. CASE Stop("nullRead")
    BY <2>2, Stopping
  <2>3. CASE Continue(<<BlockFrame(Top.stmt.body)>> \o frames) /\ UNCHANGED val
    <3> DEFINE b == Top.stmt.body
    <3>1. b \in Blocks
      BY <2>1, StatementParts DEF PartsIn, Blocks
    <3> HIDE DEF b
    <3>2. BlockFrame(b) \in BlockFrames \cup LoopFrames /\ BlockFrame(b).k = "block"
          /\ BlockFrame(b).block = b /\ BlockFrame(b).next = 1
      BY <3>1, NewFrame
    <3>3. RunsIn(BlockFrame(b), frames[1])
      BY <2>1, <3>2 DEF RunsIn, b
    <3>4. ASSUME NEW i \in 1 .. Len(frames), frames[i].k = "block"
          PROVE  frames[i].next <= Len(frames[i].block) + 1 /\ Passed(frames[i], frames[i].next - 1)
      <4>1. i # 1
        BY <2>1, <3>4
      <4>2. QED
        BY <2>1, <3>4, <4>1 DEF Stacked
    <3>5. /\ \A i \in 1 .. Len(frames) : frames[i].k = "loop" => frames[i].stmt.k \in {"while", "for"}
          /\ \A i \in 1 .. Len(frames) - 1 : RunsIn(frames[i], frames[i + 1])
          /\ frames[Len(frames)].k = "block" /\ frames[Len(frames)].block = prog
      BY <2>1 DEF Stacked
    <3>6. Stacked(<<BlockFrame(b)>> \o frames, prog)
      BY <2>1, <3>2, <3>3, <3>4, <3>5, Pushed
    <3>7. <<BlockFrame(b)>> \o frames # <<>>
      BY <2>1
    <3>8. Continue(<<BlockFrame(b)>> \o frames)
      BY <2>3 DEF b
    <3>9. QED
      BY <1>0, <2>1, <2>3, <3>6, <3>7, <3>8, Going
  <2>4. ASSUME Continue(Tail(frames)), UNCHANGED val, Top.stmt.k = "while" => "no" \in Outcomes[Top.stmt.cond]
        PROVE  FlowInv'
    <3>1. StmtFallsThrough[frames[1].stmt]
      BY <2>1, <2>4, HeaderPasses
    <3>2. 1 \in 1 .. Len(frames) /\ 1 < Len(frames)
      <4>1. frames[Len(frames)].k = "block"
        BY <2>1 DEF Stacked
      <4>2. QED
        BY <2>1, <4>1
    <3>3. Stacked(SubSeq(frames, 1 + 1, Len(frames)), prog) /\ SubSeq(frames, 1 + 1, Len(frames)) # <<>>
      BY <2>1, <3>1, <3>2, LeavingLoop
    <3>4. Tail(frames) = SubSeq(frames, 1 + 1, Len(frames))
      BY <2>1, TailOfFrames
    <3>5. QED
      BY <1>0, <2>1, <2>4, <3>3, <3>4, Going
  <2>5. QED
    <3>1. PICK o \in IF Top.stmt.k = "while" THEN Outcomes[Top.stmt.cond] ELSE {"yes", "no"} :
             IF o = "null" THEN Stop("nullRead")
             ELSE /\ Continue(IF o = "yes" THEN <<BlockFrame(Top.stmt.body)>> \o frames ELSE Tail(frames))
                  /\ UNCHANGED val
      BY <1>6 DEF LoopHeader
    <3>2. o \in {"yes", "no", "null"}
      <4>1. Top.stmt.k = "while" => Top.stmt.cond \in Conditions
        BY <2>1, StatementParts
      <4>2. QED
        BY <3>1, <4>1, OutcomesUnfolds DEF Endings
    <3>3. CASE o = "yes"
      BY <2>3, <3>1, <3>3
    <3>4. CASE o = "no"
      BY <2>4, <3>1, <3>4
    <3>5. CASE o = "null"
      BY <2>2, <3>1, <3>5
    <3>6. QED
      BY <3>2, <3>3, <3>4, <3>5
<1>7. CASE LowerBreak
  <2>1. AtStmt /\ Cur.k = "break" /\ outcome = "running"
    BY <1>7 DEF LowerBreak, AtStmt
  <2>2. CASE Loops = {}
    BY <1>7, <2>2, Stopping DEF LowerBreak
  <2>3. CASE Loops # {}
    <3> DEFINE m == InnermostLoop
    <3>1. /\ m \in 1 .. Len(frames) /\ frames[m].k = "loop" /\ m < Len(frames)
          /\ \A i \in 1 .. m - 1 : frames[i].k = "block"
      BY <2>1, <2>3, Innermost
    <3>2. Continue(SubSeq(frames, m + 1, Len(frames))) /\ UNCHANGED val
      BY <1>7, <2>3 DEF LowerBreak
    <3> HIDE DEF m
    <3>3. BlockHasBreak(frames[m].stmt.body)
      BY <2>1, <3>1, BreakInside
    <3>4. frames[m].stmt \in Statements /\ frames[m].stmt.k \in {"while", "for"}
      BY <2>1, <3>1, RunningStack, FrameShape DEF Stacked
    <3>5. StmtFallsThrough[frames[m].stmt]
      BY <3>3, <3>4, FallsThroughUnfolds DEF FallsThrough
    <3>6. Stacked(SubSeq(frames, m + 1, Len(frames)), prog) /\ SubSeq(frames, m + 1, Len(frames)) # <<>>
      BY <2>1, <3>1, <3>5, LeavingLoop
    <3>7. QED
      BY <1>0, <2>1, <3>2, <3>6, Going
  <2>4. QED
    BY <2>2, <2>3
<1>8. CASE LowerContinue
  <2>1. AtStmt /\ Cur.k = "continue" /\ outcome = "running"
    BY <1>8 DEF LowerContinue, AtStmt
  <2>2. CASE Loops = {}
    BY <1>8, <2>2, Stopping DEF LowerContinue
  <2>3. CASE Loops # {}
    <3> DEFINE m == InnermostLoop
    <3>1. /\ m \in 1 .. Len(frames) /\ frames[m].k = "loop" /\ m < Len(frames)
      BY <2>1, <2>3, Innermost
    <3>2. Continue(SubSeq(frames, m, Len(frames))) /\ UNCHANGED val
      BY <1>8, <2>3 DEF LowerContinue
    <3> HIDE DEF m
    <3>3. m \in 2 .. Len(frames) /\ Stacked(frames, prog)
      <4>1. m # 1
        BY <2>1, <3>1, RunningStack DEF AtStmt
      <4>2. QED
        BY <2>1, <3>1, <4>1, RunningStack
    <3>4. Stacked(SubSeq(frames, m, Len(frames)), prog) /\ SubSeq(frames, m, Len(frames)) # <<>>
      BY <3>1, <3>3, Popped
    <3>5. QED
      BY <1>0, <2>1, <3>2, <3>4, Going
  <2>4. QED
    BY <2>2, <2>3
<1>9. CASE LowerReturn
  BY <1>9, Stopping DEF LowerReturn
<1>10. CASE BlockEnd
  <2>1. /\ outcome = "running" /\ Top.k = "block" /\ Top = frames[1] /\ Stacked(frames, prog)
        /\ frames \in Seq(BlockFrames \cup LoopFrames) /\ Len(frames) \in Nat \ {0} /\ frames # <<>>
    BY <1>10, RunningStack DEF BlockEnd
  <2>2. Top.block \in Seq(Statements) /\ Top.next \in Nat \ {0} /\ Top.next > Len(Top.block)
    BY <1>10, <2>1, RunningStack, FrameShape DEF BlockEnd
  <2>3. BlockFallsThrough(Top.block)
    <3>1. Passed(Top, Top.next)
      BY <2>1 DEF Stacked
    <3>2. QED
      BY <2>2, <3>1, BlockFallsThroughIn DEF Passed
  <2>4. CASE Len(frames) = 1
    <3>1. Top.block = prog
      BY <2>1, <2>4 DEF Stacked
    <3>2. Stop("ended")
      BY <1>10, <2>4 DEF BlockEnd
    <3>3. QED
      BY <2>3, <3>1, <3>2, Stopping
  <2>5. CASE Len(frames) # 1
    <3>1. Continue(Tail(frames)) /\ UNCHANGED val
      BY <1>10, <2>5 DEF BlockEnd
    <3>2. 2 \in 2 .. Len(frames) /\ 1 \in 1 .. Len(frames) - 1
      <4>1. \A n \in Nat \ {0} : n # 1 => 2 \in 2 .. n /\ 1 \in 1 .. n - 1
        OBVIOUS
      <4>2. Len(frames) \in Nat \ {0}
        BY <2>1
      <4>3. QED
        BY <2>5, <4>1, <4>2, Zenon
    <3>3. RunsIn(frames[1], frames[1 + 1])
      BY <2>1, <3>2 DEF Stacked
    <3>4. ASSUME frames[2].k = "block" PROVE StmtFallsThrough[Running(frames[2])]
      <4>1. frames[2].next > 1 /\ Holds(Running(frames[2]), Top.block)
        BY <2>1, <3>3, <3>4 DEF RunsIn
      <4>2. Running(frames[2]) \in Statements
        <5>1. PICK f \in BlockFrames : f = frames[2]
          BY <2>1, <3>2, <3>4, FrameShape
        <5>2. f.block \in Seq(Statements) /\ f.next \in Nat /\ f.next <= Len(f.block) + 1
          BY <2>1, <3>2, <3>4, <5>1, FrameShape DEF Stacked
        <5>3. QED
          BY <4>1, <5>1, <5>2 DEF Running
      <4>3. QED
        BY <2>3, <4>1, <4>2, EndOfPart
    <3>5. Stacked(SubSeq(frames, 2, Len(frames)), prog) /\ SubSeq(frames, 2, Len(frames)) # <<>>
      BY <2>1, <3>2, <3>4, Popped
    <3>6. Tail(frames) = SubSeq(frames, 2, Len(frames))
      BY <2>1, TailOfFrames
    <3>7. QED
      BY <1>0, <2>1, <3>1, <3>5, <3>6, Going
  <2>6. QED
    BY <2>4, <2>5
<1>11. QED
  BY <1>1, <1>2, <1>3, <1>4, <1>5, <1>6, <1>7, <1>8, <1>9, <1>10 DEF Next

LEMMA FlowInit == Init => FlowInv
<1> SUFFICES ASSUME Init PROVE FlowInv
  OBVIOUS
<1>1. prog \in Blocks
  BY ProgramsAssumption DEF Init, AcceptedPrograms
<1>2. BlockFrame(prog) \in BlockFrames /\ BlockFrame(prog).k = "block" /\ BlockFrame(prog).block = prog /\ BlockFrame(prog).next = 1
  BY <1>1, NewFrame
<1> DEFINE f == BlockFrame(prog)
<1> HIDE DEF f
<1>3. frames = <<f>> /\ f \in BlockFrames \cup LoopFrames /\ f.k = "block" /\ f.block = prog /\ f.next = 1
  BY <1>2 DEF Init, f
<1>4. Passed(f, 1) /\ 1 <= Len(f.block) + 1
  BY <1>1, <1>3 DEF Passed, Blocks
<1>5. Stacked(frames, prog)
  BY <1>3, <1>4 DEF Stacked
<1>6. TypeOK
  BY <1>3 DEF Init, TypeOK
<1>7. QED
  BY <1>5, <1>6 DEF FlowInv, Init

THEOREM FlowInvariance == Spec => []FlowInv
<1>1. FlowInv /\ [Next]_vars => FlowInv'
  <2> SUFFICES ASSUME FlowInv, [Next]_vars PROVE FlowInv'
    OBVIOUS
  <2>1. CASE Next
    BY <2>1, FlowNext
  <2>2. CASE UNCHANGED vars
    BY <2>2 DEF vars, FlowInv, TypeOK
  <2>3. QED
    BY <2>1, <2>2
<1>2. QED
  BY <1>1, FlowInit, PTL DEF Spec

(* What the checker warns of as unreachable never runs.                       *)
THEOREM NothingUnreachableRuns == Spec => []UnreachableNeverRuns
<1>1. FlowInv => UnreachableNeverRuns
  <2> SUFFICES ASSUME FlowInv, AtStmt PROVE BlockFallsThrough(SubSeq(Top.block, 1, Top.next - 1))
    BY DEF UnreachableNeverRuns
  <2>1. Top.block \in Seq(Statements) /\ Top.next \in DOMAIN Top.block /\ Passed(Top, Top.next)
    BY CurrentStatement
  <2> DEFINE before == SubSeq(Top.block, 1, Top.next - 1)
  <2>2. DOMAIN before = 1 .. Top.next - 1 /\ \A i \in 1 .. Top.next - 1 : before[i] = Top.block[i]
    BY <2>1
  <2> HIDE DEF before
  <2>3. \A i \in DOMAIN before : StmtFallsThrough[before[i]]
    BY <2>1, <2>2 DEF Passed
  <2>4. BlockFallsThrough(before)
    BY <2>3, BlockFallsThroughIn
  <2>5. QED
    BY <2>4 DEF before
<1>2. QED
  BY <1>1, FlowInvariance, PTL

(* A function that must return a value does not run off its end.              *)
THEOREM ReturnIsReached == Spec => []ValueIsReturned
<1>1. FlowInv => ValueIsReturned
  BY DEF FlowInv, ValueIsReturned, MustReturn
<1>2. QED
  BY <1>1, FlowInvariance, PTL

----------------------------------------------------------------------------
(* What the checker knows.  The effective type of a variable is that of its    *)
(* last entry; a condition adds entries only for what it tests, and they are   *)
(* true when it comes out the way they are made for.  Statements with parts    *)
(* drop the entries of the parts, so that the checker comes back to what it    *)
(* knew.                                                                      *)

LEMMA TreeTyped ==
  ASSUME NEW S, NEW V, NEW h \in [S -> Nat], NEW F,
         \A s \in S : (\A t \in S : h[t] < h[s] => F[t] \in V) => F[s] \in V
  PROVE  \A s \in S : F[s] \in V
<1> DEFINE P == {s \in S : F[s] \in V}
<1>1. \A s \in S : (\A t \in S : h[t] < h[s] => t \in P) => s \in P
  OBVIOUS
<1> HIDE DEF P
<1>2. \A s \in S : s \in P
  BY <1>1, TreeInduction
<1>3. QED
  BY <1>2 DEF P

Entries == [sym : Vars, type : {"optional", "value"}]

LEMMA CheckerShape ==
  ASSUME NEW C \in Checkers
  PROVE  /\ C.narrows \in Seq(Entries) /\ C.depth \in Nat /\ C.ok \in BOOLEAN /\ Len(C.narrows) \in Nat
         /\ DOMAIN C.narrows = 1 .. Len(C.narrows)
         /\ \A i \in 1 .. Len(C.narrows) : C.narrows[i].sym \in Vars /\ C.narrows[i].type \in {"optional", "value"}
<1>1. C.narrows \in Seq(Entries) /\ C.depth \in Nat /\ C.ok \in BOOLEAN
  BY DEF Checkers, Entries
<1>2. DOMAIN C.narrows = 1 .. Len(C.narrows) /\ Len(C.narrows) \in Nat
  BY <1>1
<1>3. \A i \in 1 .. Len(C.narrows) : C.narrows[i] \in Entries
  BY <1>1
<1>4. QED
  BY <1>1, <1>2, <1>3 DEF Entries

LEMMA WithNarrows ==
  ASSUME NEW C \in Checkers, NEW ns \in Seq(Entries)
  PROVE  LET D == [C EXCEPT !.narrows = ns]
         IN  D \in Checkers /\ D.narrows = ns /\ D.depth = C.depth /\ D.ok = C.ok
BY DEF Checkers, Entries

(* Where the last entry for a variable stands.                                *)
LastAt(ns, v, i) ==
    /\ i \in 1 .. Len(ns) /\ ns[i].sym = v
    /\ \A j \in 1 .. Len(ns) : ns[j].sym = v => j <= i

LEMMA LastExists ==
  ASSUME NEW C \in Checkers, NEW v, NEW m \in 1 .. Len(C.narrows), C.narrows[m].sym = v
  PROVE  \E i : LastAt(C.narrows, v, i)
<1> DEFINE n == Len(C.narrows)
           T == {d \in Nat : \E i \in 1 .. n : C.narrows[i].sym = v /\ d = n - i}
<1>1. n \in Nat
  BY CheckerShape
<1> HIDE DEF n
<1>2. n - m \in T
  BY <1>1 DEF n
<1>3. PICK d \in T : \A e \in T : d <= e
  BY <1>2, LeastElement
<1>4. PICK i \in 1 .. n : C.narrows[i].sym = v /\ d = n - i
  BY <1>3
<1>5. ASSUME NEW j \in 1 .. n, C.narrows[j].sym = v PROVE j <= i
  <2>1. n - j \in T
    BY <1>1, <1>5
  <2>2. n - i <= n - j
    BY <1>3, <1>4, <2>1
  <2>3. QED
    BY <1>1, <1>4, <2>2
<1>6. QED
  BY <1>4, <1>5 DEF LastAt, n

LEMMA EffectiveIs ==
  ASSUME NEW C \in Checkers, NEW v
  PROVE  /\ \A i : LastAt(C.narrows, v, i) => EffectiveType(C, v) = C.narrows[i].type
         /\ (\A i \in 1 .. Len(C.narrows) : C.narrows[i].sym # v) => EffectiveType(C, v) = "optional"
<1> DEFINE facts == {i \in DOMAIN C.narrows : C.narrows[i].sym = v}
<1>1. EffectiveType(C, v) = IF facts = {} THEN "optional" ELSE C.narrows[Max(facts)].type
  BY DEF EffectiveType
<1>2. \A i : i \in facts <=> i \in 1 .. Len(C.narrows) /\ C.narrows[i].sym = v
  BY CheckerShape
<1> HIDE DEF facts
<1>3. ASSUME NEW i, LastAt(C.narrows, v, i) PROVE EffectiveType(C, v) = C.narrows[i].type
  <2>1. i \in facts /\ i \in Nat /\ \A j \in facts : j \in Nat /\ i >= j
    BY <1>2, <1>3, CheckerShape DEF LastAt
  <2>2. Max(facts) \in facts /\ \A j \in facts : Max(facts) >= j
    BY <2>1, Zenon DEF Max
  <2> DEFINE m == Max(facts)
  <2> HIDE DEF m
  <2>3. m \in facts /\ \A j \in facts : m >= j
    BY <2>2 DEF m
  <2>4. m = i
    BY <2>1, <2>3
  <2>5. QED
    BY <1>1, <2>1, <2>4 DEF m
<1>4. ASSUME \A i \in 1 .. Len(C.narrows) : C.narrows[i].sym # v PROVE EffectiveType(C, v) = "optional"
  BY <1>1, <1>2, <1>4
<1>5. QED
  BY <1>3, <1>4

LEMMA EffectiveTyped ==
  ASSUME NEW C \in Checkers, NEW v
  PROVE  EffectiveType(C, v) \in {"optional", "value"}
<1>1. CASE \E i \in 1 .. Len(C.narrows) : C.narrows[i].sym = v
  <2>1. PICK i : LastAt(C.narrows, v, i)
    BY <1>1, LastExists
  <2>2. QED
    BY <2>1, EffectiveIs, CheckerShape DEF LastAt
<1>2. CASE \A i \in 1 .. Len(C.narrows) : C.narrows[i].sym # v
  BY <1>2, EffectiveIs
<1>3. QED
  BY <1>1, <1>2

(* A pushed entry decides for its variable, and for no other.                 *)
LEMMA PushDecides ==
  ASSUME NEW C \in Checkers, NEW w \in Vars, NEW type \in {"optional", "value"}, NEW v
  PROVE  /\ NarrowPush(C, w, type) \in Checkers
         /\ EffectiveType(NarrowPush(C, w, type), v) = IF v = w THEN type ELSE EffectiveType(C, v)
<1> DEFINE D == NarrowPush(C, w, type)
           n == Len(C.narrows)
<1>1. n \in Nat /\ C.narrows \in Seq(Entries)
  BY CheckerShape
<1>2. PICK e \in Entries : e = [sym |-> w, type |-> type]
  BY DEF Entries
<1>3. PICK ns \in Seq(Entries) : ns = Append(C.narrows, e)
  <2>1. \A q \in Seq(Entries), x \in Entries : Append(q, x) \in Seq(Entries)
    OBVIOUS
  <2>2. QED
    BY <1>1, <2>1, Zenon
<1>4. D = [C EXCEPT !.narrows = ns]
  BY <1>2, <1>3, Zenon DEF D, NarrowPush
<1>5. D \in Checkers /\ D.narrows = ns /\ D.depth = C.depth /\ D.ok = C.ok
  BY <1>4, WithNarrows
<1>6. /\ Len(ns) = n + 1 /\ ns[n + 1].sym = w /\ ns[n + 1].type = type
      /\ \A i \in 1 .. n : ns[i] = C.narrows[i]
  <2>1. \A q \in Seq(Entries), x \in Entries :
           /\ Len(Append(q, x)) = Len(q) + 1 /\ Append(q, x)[Len(q) + 1] = x
           /\ \A i \in 1 .. Len(q) : Append(q, x)[i] = q[i]
    OBVIOUS
  <2>2. Len(ns) = n + 1 /\ ns[n + 1] = e /\ \A i \in 1 .. n : ns[i] = C.narrows[i]
    BY <1>1, <1>3, <2>1, Zenon
  <2>3. QED
    BY <1>2, <2>2
<1> HIDE DEF D, n
<1>7. /\ Len(D.narrows) = n + 1 /\ D.narrows[n + 1].sym = w /\ D.narrows[n + 1].type = type
      /\ \A i \in 1 .. n : D.narrows[i] = C.narrows[i]
  BY <1>5, <1>6
<1>8. CASE v = w
  <2>1. LastAt(D.narrows, v, n + 1)
    BY <1>1, <1>7, <1>8 DEF LastAt
  <2>2. QED
    BY <1>5, <1>7, <1>8, <2>1, EffectiveIs DEF D
<1>9. CASE v # w /\ \E i \in 1 .. n : C.narrows[i].sym = v
  <2>1. PICK i : LastAt(C.narrows, v, i)
    BY <1>9, LastExists DEF n
  <2>2. LastAt(D.narrows, v, i) /\ D.narrows[i] = C.narrows[i]
    <3>1. i \in 1 .. n /\ C.narrows[i].sym = v /\ \A j \in 1 .. n : C.narrows[j].sym = v => j <= i
      BY <2>1 DEF LastAt, n
    <3>2. \A j \in 1 .. n + 1 : j \in 1 .. n \/ j = n + 1
      BY <1>1
    <3>3. QED
      BY <1>1, <1>7, <1>9, <3>1, <3>2 DEF LastAt
  <2>3. EffectiveType(D, v) = EffectiveType(C, v)
    BY <1>5, <2>1, <2>2, EffectiveIs
  <2>4. QED
    BY <1>5, <1>9, <2>3 DEF D
<1>10. CASE v # w /\ \A i \in 1 .. n : C.narrows[i].sym # v
  <2>1. \A j \in 1 .. Len(D.narrows) : D.narrows[j].sym # v
    BY <1>1, <1>7, <1>10
  <2>2. EffectiveType(D, v) = "optional" /\ EffectiveType(C, v) = "optional"
    BY <1>5, <1>10, <2>1, EffectiveIs DEF n
  <2>3. QED
    BY <1>5, <1>10, <2>2 DEF D
<1>11. QED
  BY <1>8, <1>9, <1>10

Values(C) == {v \in Vars : EffectiveType(C, v) = "value"}

LEMMA ValuesOfNarrows ==
  ASSUME NEW C, NEW D, C.narrows = D.narrows
  PROVE  Values(C) = Values(D)
BY DEF Values, EffectiveType

LEMMA ValuesAfterPush ==
  ASSUME NEW C \in Checkers, NEW v \in Vars
  PROVE  /\ NarrowPush(C, v, "value") \in Checkers /\ NarrowPush(C, v, "optional") \in Checkers
         /\ Values(NarrowPush(C, v, "value")) = Values(C) \cup {v}
         /\ Values(NarrowPush(C, v, "optional")) = Values(C) \ {v}
BY PushDecides DEF Values

(* A checker that has gone on from another, and one that has come back to it. *)
Extends(C, D) ==
    /\ Len(C.narrows) <= Len(D.narrows)
    /\ \A i \in 1 .. Len(C.narrows) : D.narrows[i] = C.narrows[i]

GoesOn(C, D) == Extends(C, D) /\ D.depth = C.depth /\ (D.ok => C.ok)

LEMMA GoingOn ==
  /\ \A C \in Checkers : GoesOn(C, C)
  /\ \A C, D, E \in Checkers : GoesOn(C, D) /\ GoesOn(D, E) => GoesOn(C, E)
<1>1. ASSUME NEW C \in Checkers PROVE GoesOn(C, C)
  BY CheckerShape DEF GoesOn, Extends
<1>2. ASSUME NEW C \in Checkers, NEW D \in Checkers, NEW E \in Checkers, GoesOn(C, D), GoesOn(D, E)
      PROVE  GoesOn(C, E)
  <2>1. Len(C.narrows) \in Nat /\ Len(D.narrows) \in Nat /\ Len(E.narrows) \in Nat
    BY CheckerShape
  <2>2. QED
    BY <1>2, <2>1 DEF GoesOn, Extends
<1>3. QED
  BY <1>1, <1>2

LEMMA GoesOnByPush ==
  ASSUME NEW C \in Checkers, NEW v \in Vars, NEW type \in {"optional", "value"}
  PROVE  GoesOn(C, NarrowPush(C, v, type)) /\ NarrowPush(C, v, type).ok = C.ok
<1> DEFINE e == [sym |-> v, type |-> type]
<1>1. e \in Entries
  BY DEF Entries
<1> HIDE DEF e
<1>2. C.narrows \in Seq(Entries) /\ Len(C.narrows) \in Nat
  BY CheckerShape
<1> DEFINE ns == Append(C.narrows, e)
<1>3. ns \in Seq(Entries) /\ Len(ns) = Len(C.narrows) + 1 /\ \A i \in 1 .. Len(C.narrows) : ns[i] = C.narrows[i]
  <2>1. \A q \in Seq(Entries), x \in Entries :
           /\ Append(q, x) \in Seq(Entries) /\ Len(Append(q, x)) = Len(q) + 1
           /\ \A i \in 1 .. Len(q) : Append(q, x)[i] = q[i]
    OBVIOUS
  <2>2. QED
    BY <1>1, <1>2, <2>1, Zenon
<1>4. NarrowPush(C, v, type) = [C EXCEPT !.narrows = ns]
  BY Zenon DEF NarrowPush, e
<1> HIDE DEF ns
<1> DEFINE D == NarrowPush(C, v, type)
<1> HIDE DEF D
<1>5. D.narrows = ns /\ D.depth = C.depth /\ D.ok = C.ok
  BY <1>3, <1>4, WithNarrows DEF D
<1>6. GoesOn(C, D) /\ D.ok = C.ok
  BY <1>2, <1>3, <1>5 DEF GoesOn, Extends
<1>7. QED
  BY <1>6 DEF D

LEMMA Truncated ==
  ASSUME NEW C \in Checkers, NEW D \in Checkers, Extends(C, D)
  PROVE  LET T == Truncate(D, Len(C.narrows))
         IN  T \in Checkers /\ T.narrows = C.narrows /\ T.depth = D.depth /\ T.ok = D.ok
<1> DEFINE T == Truncate(D, Len(C.narrows))
           ns == SubSeq(D.narrows, 1, Len(C.narrows))
<1>1. /\ C.narrows \in Seq(Entries) /\ Len(C.narrows) \in Nat
      /\ D.narrows \in Seq(Entries) /\ Len(D.narrows) \in Nat
  BY CheckerShape
<1>2. ns = C.narrows
  BY <1>1 DEF Extends
<1>3. T = [D EXCEPT !.narrows = ns]
  BY Zenon DEF Truncate
<1> HIDE DEF ns, T
<1>4. ns \in Seq(Entries)
  BY <1>1, <1>2
<1>5. T \in Checkers /\ T.narrows = ns /\ T.depth = D.depth /\ T.ok = D.ok
  BY <1>3, <1>4, WithNarrows
<1>6. QED
  BY <1>2, <1>5 DEF T

LEMMA Required ==
  ASSUME NEW C \in Checkers, NEW p \in BOOLEAN
  PROVE  /\ Require(C, p) \in Checkers /\ Require(C, p).narrows = C.narrows /\ Require(C, p).depth = C.depth
         /\ Require(C, p).ok <=> (C.ok /\ p)
BY DEF Require, Checkers

LEMMA Deeper ==
  ASSUME NEW C \in Checkers
  PROVE  LET D == [C EXCEPT !.depth = @ + 1]
         IN  D \in Checkers /\ D.narrows = C.narrows /\ D.depth = C.depth + 1 /\ D.ok = C.ok
BY DEF Checkers

LEMMA Shallower ==
  ASSUME NEW C \in Checkers, C.depth > 0
  PROVE  LET D == [C EXCEPT !.depth = @ - 1]
         IN  D \in Checkers /\ D.narrows = C.narrows /\ D.depth = C.depth - 1 /\ D.ok = C.ok
BY DEF Checkers

----------------------------------------------------------------------------
(* The facts of a condition.                                                  *)

FactMakers == {m \in [Checkers -> Checkers] : \A C \in Checkers :
                 GoesOn(C, m[C]) /\ m[C].ok = C.ok /\ Values(C) \subseteq Values(m[C])}

LEMMA CollectMakes ==
  ASSUME NEW f, NEW c \in Conditions,
         \A t \in Conditions : ConditionRank[t] < ConditionRank[c] => f[t] \in [BOOLEAN -> FactMakers],
         NEW w \in BOOLEAN, NEW C \in Checkers
  PROVE  LET D == Collect(f, C, c, w)
         IN  D \in Checkers /\ GoesOn(C, D) /\ D.ok = C.ok /\ Values(C) \subseteq Values(D)
<1> DEFINE Made(A, D) == D \in Checkers /\ GoesOn(A, D) /\ D.ok = A.ok /\ Values(A) \subseteq Values(D)
<1>1. ASSUME NEW t, Below(c, t), NEW u \in BOOLEAN, NEW A \in Checkers PROVE Made(A, f[t][u][A])
  <2>1. f[t][u] \in FactMakers
    BY <1>1 DEF Below
  <2>2. QED
    BY <2>1 DEF FactMakers
<1>2. CASE c.k = "not"
  <2>1. Made(C, f[c.e][~w][C])
    BY <1>1, <1>2, ConditionParts
  <2>2. Collect(f, C, c, w) = f[c.e][~w][C]
    BY <1>2 DEF Collect
  <2>3. QED
    BY <2>1, <2>2
<1>3. CASE c.k \in {"and", "or"} /\ ((c.k = "and" /\ w) \/ (c.k = "or" /\ ~w))
  <2>1. PICK L : L = f[c.l][w][C]
    OBVIOUS
  <2>2. PICK R : R = f[c.r][w][L]
    OBVIOUS
  <2>3. Made(C, L)
    BY <1>1, <1>3, <2>1, ConditionParts
  <2>4. Made(L, R)
    BY <1>1, <1>3, <2>2, <2>3, ConditionParts
  <2>5. Collect(f, C, c, w) = R
    BY <1>3, <2>1, <2>2 DEF Collect
  <2>6. GoesOn(C, R) /\ R \in Checkers /\ R.ok = C.ok /\ Values(C) \subseteq Values(R)
    BY <2>3, <2>4, GoingOn
  <2>7. QED
    BY <2>5, <2>6
<1>4. CASE c.k \in {"ne", "eq"} /\ NarrowableVar(C, c.v) /\ (c.k = "ne") = w
  <2>1. c.v \in Vars
    BY <1>4, ConditionParts
  <2>2. Collect(f, C, c, w) = NarrowPush(C, c.v, "value")
    BY <1>4 DEF Collect
  <2>3. QED
    BY <2>1, <2>2, ValuesAfterPush, GoesOnByPush
<1>5. CASE Collect(f, C, c, w) = C
  BY <1>5, GoingOn
<1>6. QED
  <2>1. \/ c.k = "not"
        \/ c.k \in {"and", "or"} /\ ((c.k = "and" /\ w) \/ (c.k = "or" /\ ~w))
        \/ c.k \in {"ne", "eq"} /\ NarrowableVar(C, c.v) /\ (c.k = "ne") = w
        \/ Collect(f, C, c, w) = C
    BY DEF Collect
  <2>2. QED
    BY <1>2, <1>3, <1>4, <1>5, <2>1

LEMMA FactsOfUnfolds ==
  /\ FactsOf \in [Conditions -> [BOOLEAN -> FactMakers]]
  /\ \A c \in Conditions, w \in BOOLEAN, C \in Checkers : CollectFacts(C, c, w) = Collect(FactsOf, C, c, w)
<1> DEFINE V == [BOOLEAN -> FactMakers]
           B(f, c) == [w \in BOOLEAN |-> [C \in Checkers |-> Collect(f, C, c, w)]]
           H == [f \in [Conditions -> V] |-> [c \in Conditions |-> B(f, c)]]
<1>1. ASSUME NEW f, NEW c \in Conditions,
             \A t \in Conditions : ConditionRank[t] < ConditionRank[c] => f[t] \in V
      PROVE  B(f, c) \in V
  <2>1. ASSUME NEW w \in BOOLEAN PROVE [C \in Checkers |-> Collect(f, C, c, w)] \in FactMakers
    <3>1. \A C \in Checkers : LET D == Collect(f, C, c, w)
                              IN  D \in Checkers /\ GoesOn(C, D) /\ D.ok = C.ok /\ Values(C) \subseteq Values(D)
      BY <1>1, CollectMakes
    <3>2. QED
      BY <3>1 DEF FactMakers
  <2>2. QED
    BY <2>1
<1>2. H \in [[Conditions -> V] -> [Conditions -> V]]
  BY <1>1
<1>3. ASSUME NEW f \in [Conditions -> V], NEW g \in [Conditions -> V], NEW c \in Conditions,
             \A t \in Conditions : ConditionRank[t] < ConditionRank[c] => f[t] = g[t]
      PROVE  H[f][c] = H[g][c]
  <2>1. c.k = "not" => f[c.e] = g[c.e]
    BY <1>3, ConditionParts DEF Below
  <2>2. c.k \in {"and", "or"} => f[c.l] = g[c.l] /\ f[c.r] = g[c.r]
    BY <1>3, ConditionParts DEF Below
  <2>3. \A w \in BOOLEAN, C \in Checkers : Collect(f, C, c, w) = Collect(g, C, c, w)
    BY <2>1, <2>2, ConditionParts DEF Collect
  <2>4. QED
    BY <2>3
<1>4. \E f \in [Conditions -> V] : f = H[f]
  <2> HIDE DEF H
  <2>1. V # {}
    <3>1. [C \in Checkers |-> C] \in FactMakers
      BY GoingOn DEF FactMakers
    <3>2. [w \in BOOLEAN |-> [C \in Checkers |-> C]] \in V
      BY <3>1
    <3>3. QED
      BY <3>2
  <2> HIDE DEF V
  <2>2. Descends(Conditions, V, ConditionRank, H)
    BY <1>2, <1>3, ConditionRankType DEF Descends
  <2>3. Solved(Conditions, V, H)
    BY <2>1, <2>2, Recursion, Zenon
  <2>4. QED
    BY <2>3 DEF Solved
<1>5. \E f : f = [c \in Conditions |-> B(f, c)]
  BY <1>4
<1>6. FactsOf = [c \in Conditions |-> B(FactsOf, c)]
  BY <1>5, Zenon DEF FactsOf
<1>7. \A c \in Conditions : FactsOf[c] \in V
  <2>1. \A c \in Conditions :
           (\A t \in Conditions : ConditionRank[t] < ConditionRank[c] => FactsOf[t] \in V) => FactsOf[c] \in V
    <3> SUFFICES ASSUME NEW c \in Conditions,
                        \A t \in Conditions : ConditionRank[t] < ConditionRank[c] => FactsOf[t] \in V
                 PROVE  FactsOf[c] \in V
      OBVIOUS
    <3>1. B(FactsOf, c) \in V
      BY <1>1
    <3>2. FactsOf[c] = B(FactsOf, c)
      BY <1>6, Zenon
    <3>3. QED
      BY <3>1, <3>2, Zenon
  <2> HIDE DEF V
  <2>2. QED
    BY <2>1, ConditionRankType, TreeTyped
<1>8. FactsOf \in [Conditions -> V]
  BY <1>6, <1>7, Zenon
<1>9. \A c \in Conditions, w \in BOOLEAN, C \in Checkers : CollectFacts(C, c, w) = Collect(FactsOf, C, c, w)
  <2> SUFFICES ASSUME NEW c \in Conditions, NEW w \in BOOLEAN, NEW C \in Checkers
               PROVE  FactsOf[c][w][C] = Collect(FactsOf, C, c, w)
    BY Zenon DEF CollectFacts
  <2>1. FactsOf[c] = B(FactsOf, c)
    BY <1>6, Zenon
  <2>2. B(FactsOf, c)[w][C] = Collect(FactsOf, C, c, w)
    OBVIOUS
  <2>3. QED
    BY <2>1, <2>2, Zenon
<1>10. QED
  BY <1>8, <1>9, Zenon

LEMMA Facts ==
  ASSUME NEW C \in Checkers, NEW c \in Conditions, NEW w \in BOOLEAN
  PROVE  LET D == CollectFacts(C, c, w)
         IN  D \in Checkers /\ GoesOn(C, D) /\ D.ok = C.ok /\ Values(C) \subseteq Values(D)
<1>1. FactsOf[c][w] \in FactMakers
  BY FactsOfUnfolds
<1>2. QED
  BY <1>1 DEF CollectFacts, FactMakers

LEMMA TestedUnfolds ==
  /\ Tested \in [Conditions -> SUBSET Vars]
  /\ \A c \in Conditions : Tested[c] = Tests(Tested, c)
<1> DEFINE V == SUBSET Vars
           H == [f \in [Conditions -> V] |-> [c \in Conditions |-> Tests(f, c)]]
<1>1. ASSUME NEW f, NEW c \in Conditions,
             \A t \in Conditions : ConditionRank[t] < ConditionRank[c] => f[t] \in V
      PROVE  Tests(f, c) \in V
  <2>1. c.k = "not" => f[c.e] \in V
    BY <1>1, ConditionParts DEF Below
  <2>2. c.k \in {"and", "or"} => f[c.l] \in V /\ f[c.r] \in V
    BY <1>1, ConditionParts DEF Below
  <2>3. QED
    BY <2>1, <2>2, ConditionParts DEF Tests
<1>2. H \in [[Conditions -> V] -> [Conditions -> V]]
  BY <1>1
<1>3. ASSUME NEW f \in [Conditions -> V], NEW g \in [Conditions -> V], NEW c \in Conditions,
             \A t \in Conditions : ConditionRank[t] < ConditionRank[c] => f[t] = g[t]
      PROVE  H[f][c] = H[g][c]
  <2>1. c.k = "not" => f[c.e] = g[c.e]
    BY <1>3, ConditionParts DEF Below
  <2>2. c.k \in {"and", "or"} => f[c.l] = g[c.l] /\ f[c.r] = g[c.r]
    BY <1>3, ConditionParts DEF Below
  <2>3. Tests(f, c) = Tests(g, c)
    BY <2>1, <2>2, ConditionParts DEF Tests
  <2>4. QED
    BY <2>3
<1>4. \E f \in [Conditions -> V] : f = H[f]
  <2> HIDE DEF H
  <2>1. V # {}
    OBVIOUS
  <2> HIDE DEF V
  <2>2. Descends(Conditions, V, ConditionRank, H)
    BY <1>2, <1>3, ConditionRankType DEF Descends
  <2>3. Solved(Conditions, V, H)
    BY <2>1, <2>2, Recursion, Zenon
  <2>4. QED
    BY <2>3 DEF Solved
<1>5. \E f : f = [c \in Conditions |-> Tests(f, c)]
  BY <1>4
<1>6. Tested = [c \in Conditions |-> Tests(Tested, c)]
  BY <1>5, Zenon DEF Tested
<1>7. \A c \in Conditions : Tested[c] \in V
  <2>1. \A c \in Conditions :
           (\A t \in Conditions : ConditionRank[t] < ConditionRank[c] => Tested[t] \in V) => Tested[c] \in V
    BY <1>1, <1>6
  <2> HIDE DEF V
  <2>2. QED
    BY <2>1, ConditionRankType, TreeTyped
<1>8. Tested \in [Conditions -> V]
  BY <1>6, <1>7, Zenon
<1>9. QED
  BY <1>6, <1>8, Zenon

(* A condition makes facts of what it tests only.                             *)
LEMMA FactsAreTested ==
  \A c \in Conditions : \A w \in BOOLEAN, C \in Checkers :
     Values(CollectFacts(C, c, w)) \subseteq Values(C) \cup Tested[c]
<1> DEFINE P == {c \in Conditions : \A w \in BOOLEAN, C \in Checkers :
                   Values(CollectFacts(C, c, w)) \subseteq Values(C) \cup Tested[c]}
<1>1. \A c \in Conditions : (\A t \in Conditions : ConditionRank[t] < ConditionRank[c] => t \in P) => c \in P
  <2> SUFFICES ASSUME NEW c \in Conditions, \A t \in Conditions : ConditionRank[t] < ConditionRank[c] => t \in P,
                      NEW w \in BOOLEAN, NEW C \in Checkers
               PROVE  Values(CollectFacts(C, c, w)) \subseteq Values(C) \cup Tested[c]
    OBVIOUS
  <2>1. CollectFacts(C, c, w) = Collect(FactsOf, C, c, w) /\ Tested[c] = Tests(Tested, c)
    BY FactsOfUnfolds, TestedUnfolds
  <2>2. ASSUME NEW t, Below(c, t), NEW u \in BOOLEAN, NEW A \in Checkers
        PROVE  /\ CollectFacts(A, t, u) \in Checkers
               /\ Values(CollectFacts(A, t, u)) \subseteq Values(A) \cup Tested[t]
    BY <2>2, Facts DEF Below
  <2> HIDE DEF P
  <2>3. CASE c.k = "not"
    <3>1. Below(c, c.e) /\ CollectFacts(C, c, w) = CollectFacts(C, c.e, ~w) /\ Tested[c] = Tested[c.e]
      BY <2>1, <2>3, ConditionParts DEF Collect, CollectFacts, Tests
    <3>2. QED
      BY <2>2, <3>1
  <2>4. CASE c.k \in {"and", "or"} /\ ((c.k = "and" /\ w) \/ (c.k = "or" /\ ~w))
    <3>1. Below(c, c.l) /\ Below(c, c.r) /\ Tested[c] = Tested[c.l] \cup Tested[c.r]
      BY <2>1, <2>4, ConditionParts DEF Tests
    <3>2. PICK L : L = CollectFacts(C, c.l, w)
      OBVIOUS
    <3>3. CollectFacts(C, c, w) = CollectFacts(L, c.r, w)
      BY <2>1, <2>4, <3>2 DEF Collect, CollectFacts
    <3>4. L \in Checkers /\ Values(L) \subseteq Values(C) \cup Tested[c.l]
      BY <2>2, <3>1, <3>2
    <3>5. Values(CollectFacts(L, c.r, w)) \subseteq Values(L) \cup Tested[c.r]
      BY <2>2, <3>1, <3>4
    <3>6. QED
      BY <3>1, <3>3, <3>4, <3>5
  <2>5. CASE c.k \in {"ne", "eq"} /\ NarrowableVar(C, c.v) /\ (c.k = "ne") = w
    <3>1. c.v \in Vars /\ Tested[c] = {c.v}
      BY <2>1, <2>5, ConditionParts DEF Tests
    <3>2. CollectFacts(C, c, w) = NarrowPush(C, c.v, "value")
      BY <2>1, <2>5 DEF Collect
    <3>3. QED
      BY <3>1, <3>2, ValuesAfterPush
  <2>6. CASE CollectFacts(C, c, w) = C
    BY <2>6
  <2>7. QED
    <3>1. \/ c.k = "not"
          \/ c.k \in {"and", "or"} /\ ((c.k = "and" /\ w) \/ (c.k = "or" /\ ~w))
          \/ c.k \in {"ne", "eq"} /\ NarrowableVar(C, c.v) /\ (c.k = "ne") = w
          \/ CollectFacts(C, c, w) = C
      BY <2>1 DEF Collect
    <3>2. QED
      BY <2>3, <2>4, <2>5, <2>6, <3>1
<1> HIDE DEF P
<1>2. \A c \in Conditions : c \in P
  BY <1>1, ConditionRankType, TreeInduction
<1>3. QED
  BY <1>2 DEF P

----------------------------------------------------------------------------
(* Checking a condition.                                                      *)

Testers == {m \in [Checkers -> Checkers] : \A C \in Checkers :
              m[C].narrows = C.narrows /\ m[C].depth = C.depth /\ (m[C].ok => C.ok)}

LEMMA BinaryTests ==
  ASSUME NEW f, NEW c \in Conditions, c.k \in {"and", "or"}, f[c.l] \in Testers, f[c.r] \in Testers,
         NEW C \in Checkers
  PROVE  LET L == CollectFacts(f[c.l][C], c.l, c.k = "and")
             D == CheckBinary(f, C, c)
         IN  /\ D \in Checkers /\ D.narrows = C.narrows /\ D.depth = C.depth /\ (D.ok => C.ok)
             /\ f[c.l][C] \in Checkers /\ f[c.l][C].narrows = C.narrows
             /\ L \in Checkers /\ L.ok = f[c.l][C].ok
             /\ D.ok = f[c.r][L].ok /\ (f[c.r][L].ok => L.ok)
<1>1. PICK l : l = f[c.l][C]
  OBVIOUS
<1>2. l \in Checkers /\ l.narrows = C.narrows /\ l.depth = C.depth /\ (l.ok => C.ok)
  BY <1>1 DEF Testers
<1>3. PICK L : L = CollectFacts(l, c.l, c.k = "and")
  OBVIOUS
<1>4. L \in Checkers /\ GoesOn(l, L) /\ L.ok = l.ok
  <2>1. c.l \in Conditions /\ (c.k = "and") \in BOOLEAN
    BY ConditionParts DEF Below
  <2>2. QED
    BY <1>2, <1>3, <2>1, Facts
<1>5. PICK r : r = f[c.r][L]
  OBVIOUS
<1>6. r \in Checkers /\ r.narrows = L.narrows /\ r.depth = L.depth /\ (r.ok => L.ok)
  BY <1>4, <1>5 DEF Testers
<1>7. Extends(C, r)
  BY <1>2, <1>4, <1>6 DEF GoesOn, Extends
<1>8. PICK D : D = Truncate(r, Len(C.narrows))
  OBVIOUS
<1>9. D \in Checkers /\ D.narrows = C.narrows /\ D.depth = r.depth /\ D.ok = r.ok
  BY <1>6, <1>7, <1>8, Truncated
<1>10. D = CheckBinary(f, C, c)
  BY <1>1, <1>3, <1>5, <1>8, Zenon DEF CheckBinary
<1>11. D.depth = C.depth /\ (D.ok => C.ok)
  BY <1>2, <1>4, <1>6, <1>9 DEF GoesOn
<1>12. QED
  BY <1>1, <1>2, <1>3, <1>4, <1>5, <1>6, <1>9, <1>10, <1>11

LEMMA CheckPartsTests ==
  ASSUME NEW f, NEW c \in Conditions,
         \A t \in Conditions : ConditionRank[t] < ConditionRank[c] => f[t] \in Testers,
         NEW C \in Checkers
  PROVE  LET D == CheckParts(f, C, c)
         IN  D \in Checkers /\ D.narrows = C.narrows /\ D.depth = C.depth /\ (D.ok => C.ok)
<1>1. CASE c.k \in {"and", "or"}
  <2>1. f[c.l] \in Testers /\ f[c.r] \in Testers
    BY <1>1, ConditionParts DEF Below
  <2>2. CheckParts(f, C, c) = CheckBinary(f, C, c)
    BY <1>1 DEF CheckParts
  <2>3. QED
    BY <1>1, <2>1, <2>2, BinaryTests
<1>2. CASE c.k = "not"
  <2>1. f[c.e] \in Testers
    BY <1>2, ConditionParts DEF Below
  <2>2. CheckParts(f, C, c) = f[c.e][C]
    BY <1>2 DEF CheckParts
  <2>3. QED
    BY <2>1, <2>2 DEF Testers
<1>3. CASE c.k \in {"read", "ne", "eq"}
  <2>1. PICK p \in BOOLEAN : CheckParts(f, C, c) = Require(C, p)
    BY <1>3 DEF CheckParts
  <2>2. QED
    BY <2>1, Required
<1>4. CASE c.k \notin {"and", "or", "not", "read", "ne", "eq"}
  BY <1>4 DEF CheckParts
<1>5. QED
  BY <1>1, <1>2, <1>3, <1>4

LEMMA CheckExprUnfolds ==
  /\ CheckExpr \in [Conditions -> Testers]
  /\ \A c \in Conditions, C \in Checkers : CheckExpr[c][C] = CheckParts(CheckExpr, C, c)
<1> DEFINE V == Testers
           B(f, c) == [C \in Checkers |-> CheckParts(f, C, c)]
           H == [f \in [Conditions -> V] |-> [c \in Conditions |-> B(f, c)]]
<1>1. ASSUME NEW f, NEW c \in Conditions,
             \A t \in Conditions : ConditionRank[t] < ConditionRank[c] => f[t] \in V
      PROVE  B(f, c) \in V
  <2>1. \A C \in Checkers : LET D == CheckParts(f, C, c)
                            IN  D \in Checkers /\ D.narrows = C.narrows /\ D.depth = C.depth /\ (D.ok => C.ok)
    BY <1>1, CheckPartsTests
  <2>2. QED
    BY <2>1 DEF Testers
<1>2. H \in [[Conditions -> V] -> [Conditions -> V]]
  BY <1>1
<1>3. ASSUME NEW f \in [Conditions -> V], NEW g \in [Conditions -> V], NEW c \in Conditions,
             \A t \in Conditions : ConditionRank[t] < ConditionRank[c] => f[t] = g[t]
      PROVE  H[f][c] = H[g][c]
  <2>1. c.k = "not" => f[c.e] = g[c.e]
    BY <1>3, ConditionParts DEF Below
  <2>2. c.k \in {"and", "or"} => f[c.l] = g[c.l] /\ f[c.r] = g[c.r]
    BY <1>3, ConditionParts DEF Below
  <2>3. \A C \in Checkers : CheckParts(f, C, c) = CheckParts(g, C, c)
    BY <2>1, <2>2, ConditionParts DEF CheckParts, CheckBinary
  <2>4. QED
    BY <2>3
<1>4. \E f \in [Conditions -> V] : f = H[f]
  <2> HIDE DEF H
  <2>1. V # {}
    <3>1. [C \in Checkers |-> C] \in V
      BY DEF Testers
    <3>2. QED
      BY <3>1
  <2> HIDE DEF V
  <2>2. Descends(Conditions, V, ConditionRank, H)
    BY <1>2, <1>3, ConditionRankType DEF Descends
  <2>3. Solved(Conditions, V, H)
    BY <2>1, <2>2, Recursion, Zenon
  <2>4. QED
    BY <2>3 DEF Solved
<1>5. \E f : f = [c \in Conditions |-> B(f, c)]
  BY <1>4
<1>6. CheckExpr = [c \in Conditions |-> B(CheckExpr, c)]
  BY <1>5, Zenon DEF CheckExpr
<1>7. \A c \in Conditions : CheckExpr[c] \in V
  <2>1. \A c \in Conditions :
           (\A t \in Conditions : ConditionRank[t] < ConditionRank[c] => CheckExpr[t] \in V) => CheckExpr[c] \in V
    <3> SUFFICES ASSUME NEW c \in Conditions,
                        \A t \in Conditions : ConditionRank[t] < ConditionRank[c] => CheckExpr[t] \in V
                 PROVE  CheckExpr[c] \in V
      OBVIOUS
    <3>1. B(CheckExpr, c) \in V
      BY <1>1
    <3>2. CheckExpr[c] = B(CheckExpr, c)
      BY <1>6, Zenon
    <3>3. QED
      BY <3>1, <3>2, Zenon
  <2> HIDE DEF V
  <2>2. QED
    BY <2>1, ConditionRankType, TreeTyped
<1>8. CheckExpr \in [Conditions -> V]
  BY <1>6, <1>7, Zenon
<1>9. \A c \in Conditions, C \in Checkers : CheckExpr[c][C] = CheckParts(CheckExpr, C, c)
  <2> SUFFICES ASSUME NEW c \in Conditions, NEW C \in Checkers
               PROVE  CheckExpr[c][C] = CheckParts(CheckExpr, C, c)
    OBVIOUS
  <2>1. CheckExpr[c] = B(CheckExpr, c)
    BY <1>6, Zenon
  <2>2. B(CheckExpr, c)[C] = CheckParts(CheckExpr, C, c)
    OBVIOUS
  <2>3. QED
    BY <2>1, <2>2, Zenon
<1>10. QED
  BY <1>8, <1>9, Zenon

(* The facts are true of the slots.                                           *)
Known(slots, C) == \A v \in Values(C) : slots[v] = "some"

(* What comes out of a condition tells that its facts are true.               *)
LEMMA FactsAreKnown ==
  \A c \in Conditions : \A w \in BOOLEAN, C \in Checkers :
     Known(val, C) /\ (IF w THEN "yes" ELSE "no") \in Outcomes[c] => Known(val, CollectFacts(C, c, w))
<1> DEFINE Word(w) == IF w THEN "yes" ELSE "no"
           P == {c \in Conditions : \A w \in BOOLEAN, C \in Checkers :
                   Known(val, C) /\ Word(w) \in Outcomes[c] => Known(val, CollectFacts(C, c, w))}
<1>1. \A c \in Conditions : (\A t \in Conditions : ConditionRank[t] < ConditionRank[c] => t \in P) => c \in P
  <2> SUFFICES ASSUME NEW c \in Conditions, \A t \in Conditions : ConditionRank[t] < ConditionRank[c] => t \in P,
                      NEW w \in BOOLEAN, NEW C \in Checkers, Known(val, C), Word(w) \in Outcomes[c]
               PROVE  Known(val, CollectFacts(C, c, w))
    OBVIOUS
  <2>1. CollectFacts(C, c, w) = Collect(FactsOf, C, c, w) /\ Outcomes[c] = Outcome(Outcomes, c)
    BY FactsOfUnfolds, OutcomesUnfolds
  <2>2. ASSUME NEW t, Below(c, t), NEW u \in BOOLEAN, NEW A \in Checkers, Known(val, A), Word(u) \in Outcomes[t]
        PROVE  Known(val, CollectFacts(A, t, u))
    BY <2>2 DEF Below
  <2> HIDE DEF P
  <2>3. CASE c.k = "not"
    <3>1. Below(c, c.e) /\ CollectFacts(C, c, w) = CollectFacts(C, c.e, ~w)
      BY <2>1, <2>3, ConditionParts DEF Collect, CollectFacts
    <3>2. Word(~w) \in Outcomes[c.e]
      <4>1. Outcomes[c] = {IF o = "yes" THEN "no" ELSE IF o = "no" THEN "yes" ELSE o : o \in Outcomes[c.e]}
        BY <2>1, <2>3 DEF Outcome
      <4>2. QED
        BY <4>1
    <3>3. QED
      BY <2>2, <3>1, <3>2
  <2>4. CASE c.k \in {"and", "or"} /\ ((c.k = "and" /\ w) \/ (c.k = "or" /\ ~w))
    <3>1. Below(c, c.l) /\ Below(c, c.r)
      BY <2>4, ConditionParts
    <3>2. PICK L : L = CollectFacts(C, c.l, w)
      OBVIOUS
    <3>3. CollectFacts(C, c, w) = CollectFacts(L, c.r, w)
      BY <2>1, <2>4, <3>2 DEF Collect, CollectFacts
    <3>4. Word(w) \in Outcomes[c.l] /\ Word(w) \in Outcomes[c.r]
      BY <2>1, <2>4 DEF Outcome
    <3>5. L \in Checkers /\ Known(val, L)
      BY <2>2, <3>1, <3>2, <3>4, Facts DEF Below
    <3>6. QED
      BY <2>2, <3>1, <3>3, <3>4, <3>5
  <2>5. CASE c.k \in {"ne", "eq"} /\ NarrowableVar(C, c.v) /\ (c.k = "ne") = w
    <3>1. c.v \in Vars
      BY <2>5, ConditionParts
    <3>2. CollectFacts(C, c, w) = NarrowPush(C, c.v, "value")
      BY <2>1, <2>5 DEF Collect
    <3>3. val[c.v] = "some"
      BY <2>1, <2>5 DEF Outcome
    <3>4. QED
      BY <3>1, <3>2, <3>3, ValuesAfterPush DEF Known
  <2>6. CASE CollectFacts(C, c, w) = C
    BY <2>6
  <2>7. QED
    <3>1. \/ c.k = "not"
          \/ c.k \in {"and", "or"} /\ ((c.k = "and" /\ w) \/ (c.k = "or" /\ ~w))
          \/ c.k \in {"ne", "eq"} /\ NarrowableVar(C, c.v) /\ (c.k = "ne") = w
          \/ CollectFacts(C, c, w) = C
      BY <2>1 DEF Collect
    <3>2. QED
      BY <2>3, <2>4, <2>5, <2>6, <3>1
<1> HIDE DEF P
<1>2. \A c \in Conditions : c \in P
  BY <1>1, ConditionRankType, TreeInduction
<1>3. QED
  BY <1>2 DEF P

(* A condition the checker accepts reads no null.                             *)
LEMMA CheckedReadsNoNull ==
  \A c \in Conditions : \A C \in Checkers :
     Known(val, C) /\ CheckExpr[c][C].ok => "null" \notin Outcomes[c]
<1> DEFINE P == {c \in Conditions : \A C \in Checkers :
                   Known(val, C) /\ CheckExpr[c][C].ok => "null" \notin Outcomes[c]}
<1>1. \A c \in Conditions : (\A t \in Conditions : ConditionRank[t] < ConditionRank[c] => t \in P) => c \in P
  <2> SUFFICES ASSUME NEW c \in Conditions, \A t \in Conditions : ConditionRank[t] < ConditionRank[c] => t \in P,
                      NEW C \in Checkers, Known(val, C), CheckExpr[c][C].ok
               PROVE  "null" \notin Outcomes[c]
    OBVIOUS
  <2>1. CheckExpr[c][C] = CheckParts(CheckExpr, C, c) /\ Outcomes[c] = Outcome(Outcomes, c)
    BY CheckExprUnfolds, OutcomesUnfolds
  <2>2. ASSUME NEW t, Below(c, t), NEW A \in Checkers, Known(val, A), CheckExpr[t][A].ok
        PROVE  "null" \notin Outcomes[t]
    BY <2>2 DEF Below
  <2> HIDE DEF P
  <2>3. CASE c.k = "not"
    <3>1. Below(c, c.e) /\ CheckExpr[c][C] = CheckExpr[c.e][C]
      BY <2>1, <2>3, ConditionParts DEF CheckParts
    <3>2. "null" \notin Outcomes[c.e]
      BY <2>2, <3>1
    <3>3. QED
      BY <2>1, <2>3, <3>2 DEF Outcome
  <2>4. CASE c.k \in {"and", "or"}
    <3>1. Below(c, c.l) /\ Below(c, c.r)
      BY <2>4, ConditionParts
    <3>2. CheckExpr[c.l] \in Testers /\ CheckExpr[c.r] \in Testers
      BY <3>1, CheckExprUnfolds DEF Below
    <3>3. PICK l : l = CheckExpr[c.l][C]
      OBVIOUS
    <3>4. PICK L : L = CollectFacts(l, c.l, c.k = "and")
      OBVIOUS
    <3>5. CheckExpr[c][C] = CheckBinary(CheckExpr, C, c)
      BY <2>1, <2>4 DEF CheckParts
    <3>6. /\ l \in Checkers /\ l.narrows = C.narrows /\ L \in Checkers
          /\ CheckExpr[c.r][L].ok /\ L.ok /\ l.ok
      BY <2>4, <3>2, <3>3, <3>4, <3>5, BinaryTests
    <3>7. "null" \notin Outcomes[c.l]
      BY <2>2, <3>1, <3>3, <3>6
    <3>8. Known(val, l)
      BY <3>6, ValuesOfNarrows DEF Known
    <3>9. (IF c.k = "and" THEN "yes" ELSE "no") \in Outcomes[c.l] => "null" \notin Outcomes[c.r]
      <4> SUFFICES ASSUME (IF c.k = "and" THEN "yes" ELSE "no") \in Outcomes[c.l] PROVE "null" \notin Outcomes[c.r]
        OBVIOUS
      <4>1. c.l \in Conditions /\ (c.k = "and") \in BOOLEAN
        BY <3>1 DEF Below
      <4>2. Known(val, L)
        BY <3>4, <3>6, <3>8, <4>1, FactsAreKnown
      <4>3. QED
        BY <2>2, <3>1, <3>6, <4>2
    <3>10. QED
      BY <2>1, <2>4, <3>7, <3>9 DEF Outcome
  <2>5. CASE c.k = "read"
    <3>1. CheckExpr[c][C] = Require(C, EffectiveType(C, c.v) = "value") /\ c.v \in Vars
      BY <2>1, <2>5, ConditionParts DEF CheckParts
    <3>2. PICK p \in BOOLEAN : p = (EffectiveType(C, c.v) = "value")
      OBVIOUS
    <3>3. EffectiveType(C, c.v) = "value"
      <4>1. CheckExpr[c][C] = Require(C, p)
        BY <3>1, <3>2
      <4>2. p
        BY <4>1, Required
      <4>3. QED
        BY <3>2, <4>2
    <3>4. val[c.v] = "some"
      BY <3>1, <3>3 DEF Known, Values
    <3>5. QED
      BY <2>1, <2>5, <3>4 DEF Outcome
  <2>6. CASE c.k \in {"ne", "eq", "true", "opaque"}
    BY <2>1, <2>6 DEF Outcome
  <2>7. QED
    BY <2>3, <2>4, <2>5, <2>6, ConditionParts
<1> HIDE DEF P
<1>2. \A c \in Conditions : c \in P
  BY <1>1, ConditionRankType, TreeInduction
<1>3. QED
  BY <1>2 DEF P

----------------------------------------------------------------------------
(* Checking statements.  A trace is what the checker knows after each one.    *)

Advances == {m \in [Checkers -> Checkers] : \A C \in Checkers :
               GoesOn(C, m[C]) /\ Values(m[C]) \subseteq Values(C)}

GuardTested(s) == IF s.k = "if" THEN Tested[s.cond] ELSE {}

LEMMA GuardGoesOn ==
  ASSUME NEW C \in Checkers, NEW s \in Statements
  PROVE  LET D == GuardFacts(C, s)
         IN  /\ D \in Checkers /\ GoesOn(C, D) /\ D.ok = C.ok
             /\ Values(D) \subseteq Values(C) \cup GuardTested(s)
<1>1. CASE GuardFacts(C, s) = C
  BY <1>1, GoingOn
<1>2. CASE s.k = "if" /\ GuardFacts(C, s) # C
  <2>1. s.cond \in Conditions
    BY <1>2, StatementParts
  <2>2. PICK w \in BOOLEAN : w = BlockFallsThrough(s.then)
    BY DEF BlockFallsThrough, AllIn
  <2>3. GuardFacts(C, s) = CollectFacts(C, s.cond, w)
    BY <1>2, <2>2 DEF GuardFacts
  <2>4. Values(CollectFacts(C, s.cond, w)) \subseteq Values(C) \cup GuardTested(s)
    BY <1>2, <2>1, FactsAreTested DEF GuardTested
  <2>5. QED
    BY <2>1, <2>3, <2>4, Facts
<1>3. QED
  BY <1>1, <1>2 DEF GuardFacts

After(t, f, C, b) ==
    [i \in 0 .. Len(b) |-> IF i = 0 THEN C ELSE GuardFacts(f[b[i]][t[i - 1]], b[i])]

IsTrace(t, f, C, b) == t \in [0 .. Len(b) -> Checkers] /\ t = After(t, f, C, b)

Checks(f, b) == b \in Seq(Statements) /\ \A i \in 1 .. Len(b) : f[b[i]] \in Advances

LEMMA AfterIsTyped ==
  ASSUME NEW f, NEW b, Checks(f, b), NEW C \in Checkers, NEW t \in [0 .. Len(b) -> Checkers]
  PROVE  After(t, f, C, b) \in [0 .. Len(b) -> Checkers]
<1>1. ASSUME NEW i \in 1 .. Len(b) PROVE GuardFacts(f[b[i]][t[i - 1]], b[i]) \in Checkers
  <2>1. i - 1 \in 0 .. Len(b) /\ b[i] \in Statements /\ f[b[i]] \in Advances
    BY DEF Checks
  <2>2. f[b[i]][t[i - 1]] \in Checkers
    BY <2>1 DEF Advances
  <2>3. QED
    BY <2>1, <2>2, GuardGoesOn
<1>2. \A i \in 0 .. Len(b) : i = 0 \/ i \in 1 .. Len(b)
  BY DEF Checks
<1>3. QED
  BY <1>1, <1>2 DEF After

LEMMA TraceExists ==
  ASSUME NEW f, NEW b, Checks(f, b), NEW C \in Checkers
  PROVE  \E t : IsTrace(t, f, C, b) /\ CheckStmts(f, C, b) = t[Len(b)]
<1> DEFINE S == 0 .. Len(b)
           h == [i \in S |-> i]
           H == [t \in [S -> Checkers] |-> After(t, f, C, b)]
<1>0. Len(b) \in Nat
  BY DEF Checks
<1>1. H \in [[S -> Checkers] -> [S -> Checkers]]
  BY AfterIsTyped
<1>2. ASSUME NEW t \in [S -> Checkers], NEW u \in [S -> Checkers], NEW i \in S,
             \A j \in S : h[j] < h[i] => t[j] = u[j]
      PROVE  H[t][i] = H[u][i]
  <2>1. i # 0 => i - 1 \in S /\ h[i - 1] < h[i]
    BY <1>0
  <2>2. i # 0 => t[i - 1] = u[i - 1]
    BY <1>2, <2>1
  <2>3. QED
    BY <2>2 DEF After
<1>3. h \in [S -> Nat]
  BY <1>0
<1>4. Solved(S, Checkers, H)
  <2> HIDE DEF H, h
  <2>1. Checkers # {}
    OBVIOUS
  <2>2. Descends(S, Checkers, h, H)
    BY <1>1, <1>2, <1>3 DEF Descends
  <2> HIDE DEF S
  <2>3. QED
    BY <2>1, <2>2, Recursion, Zenon
<1>5. \E t \in [S -> Checkers] : t = After(t, f, C, b)
  BY <1>4 DEF Solved
<1> DEFINE u == CHOOSE t : t = After(t, f, C, b)
<1>6. u = After(u, f, C, b)
  BY <1>5
<1>7. CheckStmts(f, C, b) = u[Len(b)]
  BY DEF CheckStmts, After
<1> HIDE DEF u
<1>8. ASSUME NEW i \in S, \A j \in S : h[j] < h[i] => u[j] \in Checkers
      PROVE  u[i] \in Checkers
  <2>1. CASE i = 0
    BY <1>6, <2>1 DEF After
  <2>2. CASE i # 0
    <3>1. i \in 1 .. Len(b) /\ i - 1 \in S /\ h[i - 1] < h[i]
      BY <1>0, <2>2
    <3>2. u[i] = GuardFacts(f[b[i]][u[i - 1]], b[i])
      BY <1>6, <2>2 DEF After
    <3>3. b[i] \in Statements /\ f[b[i]] \in Advances
      BY <3>1 DEF Checks
    <3>4. f[b[i]][u[i - 1]] \in Checkers
      BY <1>8, <3>1, <3>3 DEF Advances
    <3>5. QED
      BY <3>2, <3>3, <3>4, GuardGoesOn
  <2>3. QED
    BY <2>1, <2>2
<1>9. \A i \in S : u[i] \in Checkers
  <2> HIDE DEF S, h
  <2>1. QED
    BY <1>3, <1>8, TreeTyped
<1>10. u \in [S -> Checkers]
  BY <1>6, <1>9 DEF After
<1>11. QED
  BY <1>6, <1>7, <1>10 DEF IsTrace

LEMMA TraceIsOne ==
  ASSUME NEW f, NEW b, Checks(f, b), NEW C \in Checkers, NEW t, IsTrace(t, f, C, b), NEW u, IsTrace(u, f, C, b)
  PROVE  t = u
<1> DEFINE S == 0 .. Len(b)
           h == [i \in S |-> i]
           P == {i \in S : t[i] = u[i]}
<1>0. Len(b) \in Nat
  BY DEF Checks
<1>1. ASSUME NEW i \in S, \A j \in S : h[j] < h[i] => j \in P PROVE i \in P
  <2>1. CASE i = 0
    BY <2>1 DEF IsTrace, After
  <2>2. CASE i # 0
    <3>1. i - 1 \in S /\ h[i - 1] < h[i]
      BY <1>0, <2>2
    <3>2. t[i - 1] = u[i - 1]
      BY <1>1, <3>1
    <3>3. QED
      BY <2>2, <3>2 DEF IsTrace, After
  <2>3. QED
    BY <2>1, <2>2
<1>2. h \in [S -> Nat]
  BY <1>0
<1>3. \A i \in S : i \in P
  <2> HIDE DEF S, h, P
  <2>1. QED
    BY <1>1, <1>2, TreeInduction
<1>4. QED
  BY <1>3 DEF IsTrace

LEMMA SameChecks ==
  ASSUME NEW f, NEW g, NEW b, Checks(f, b), \A i \in 1 .. Len(b) : f[b[i]] = g[b[i]], NEW C \in Checkers
  PROVE  CheckStmts(f, C, b) = CheckStmts(g, C, b)
<1>1. Checks(g, b)
  BY DEF Checks
<1>2. PICK t : IsTrace(t, f, C, b) /\ CheckStmts(f, C, b) = t[Len(b)]
  BY TraceExists
<1>3. PICK u : IsTrace(u, g, C, b) /\ CheckStmts(g, C, b) = u[Len(b)]
  BY <1>1, TraceExists
<1>4. IsTrace(t, g, C, b)
  <2>1. \A i \in 0 .. Len(b) : i = 0 \/ i \in 1 .. Len(b)
    BY DEF Checks
  <2>2. After(t, f, C, b) = After(t, g, C, b)
    BY <2>1 DEF After
  <2>3. QED
    BY <1>2, <2>2 DEF IsTrace
<1>5. QED
  BY <1>1, <1>2, <1>3, <1>4, TraceIsOne

(* What holds along a trace.                                                  *)
LEMMA TraceSteps ==
  ASSUME NEW f, NEW b, Checks(f, b), NEW C \in Checkers, NEW t, IsTrace(t, f, C, b)
  PROVE  /\ t[0] = C /\ \A i \in 0 .. Len(b) : t[i] \in Checkers
         /\ \A i \in 1 .. Len(b) :
               /\ b[i] \in Statements /\ f[b[i]] \in Advances /\ t[i - 1] \in Checkers
               /\ t[i] = GuardFacts(f[b[i]][t[i - 1]], b[i])
               /\ GoesOn(t[i - 1], t[i])
               /\ (t[i].ok => f[b[i]][t[i - 1]].ok)
               /\ Values(t[i]) \subseteq Values(t[i - 1]) \cup GuardTested(b[i])
<1>1. t[0] = C /\ \A i \in 0 .. Len(b) : t[i] \in Checkers
  BY DEF IsTrace, After, Checks
<1>2. ASSUME NEW i \in 1 .. Len(b)
      PROVE  /\ b[i] \in Statements /\ f[b[i]] \in Advances /\ t[i - 1] \in Checkers
             /\ t[i] = GuardFacts(f[b[i]][t[i - 1]], b[i])
             /\ GoesOn(t[i - 1], t[i])
             /\ (t[i].ok => f[b[i]][t[i - 1]].ok)
             /\ Values(t[i]) \subseteq Values(t[i - 1]) \cup GuardTested(b[i])
  <2>1. /\ b[i] \in Statements /\ f[b[i]] \in Advances
        /\ i \in 0 .. Len(b) /\ i # 0 /\ i - 1 \in 0 .. Len(b)
    BY DEF Checks
  <2>2. t[i - 1] \in Checkers
    BY <1>1, <2>1
  <2>3. t[i] = GuardFacts(f[b[i]][t[i - 1]], b[i])
    BY <2>1 DEF IsTrace, After
  <2>4. PICK D : D = f[b[i]][t[i - 1]]
    OBVIOUS
  <2>5. D \in Checkers /\ GoesOn(t[i - 1], D) /\ Values(D) \subseteq Values(t[i - 1])
    BY <2>1, <2>2, <2>4 DEF Advances
  <2>6. /\ t[i] \in Checkers /\ GoesOn(D, t[i]) /\ t[i].ok = D.ok
        /\ Values(t[i]) \subseteq Values(D) \cup GuardTested(b[i])
    BY <2>1, <2>3, <2>4, <2>5, GuardGoesOn
  <2>7. GoesOn(t[i - 1], t[i])
    BY <2>2, <2>5, <2>6, GoingOn
  <2>8. QED
    BY <2>1, <2>2, <2>3, <2>4, <2>5, <2>6, <2>7
<1>3. QED
  BY <1>1, <1>2

LEMMA TraceGoesOn ==
  ASSUME NEW f, NEW b, Checks(f, b), NEW C \in Checkers, NEW t, IsTrace(t, f, C, b)
  PROVE  \A j \in 0 .. Len(b) : \A i \in 0 .. j : GoesOn(t[i], t[j])
<1> DEFINE S == 0 .. Len(b)
           h == [i \in S |-> i]
           P == {j \in S : \A i \in 0 .. j : GoesOn(t[i], t[j])}
<1>0. Len(b) \in Nat
  BY DEF Checks
<1>1. ASSUME NEW j \in S, \A k \in S : h[k] < h[j] => k \in P PROVE j \in P
  <2> SUFFICES ASSUME NEW i \in 0 .. j PROVE GoesOn(t[i], t[j])
    OBVIOUS
  <2>1. i \in S /\ t[i] \in Checkers /\ t[j] \in Checkers
    BY <1>0, TraceSteps
  <2>2. CASE i = j
    BY <2>1, <2>2, GoingOn
  <2>3. CASE i # j
    <3>1. j \in 1 .. Len(b) /\ j - 1 \in S /\ h[j - 1] < h[j] /\ i \in 0 .. j - 1
      BY <1>0, <2>3
    <3>2. GoesOn(t[i], t[j - 1])
      BY <1>1, <3>1
    <3>3. GoesOn(t[j - 1], t[j]) /\ t[j - 1] \in Checkers
      BY <3>1, TraceSteps
    <3>4. QED
      BY <2>1, <3>2, <3>3, GoingOn
  <2>4. QED
    BY <2>2, <2>3
<1>2. h \in [S -> Nat]
  BY <1>0
<1>3. \A j \in S : j \in P
  <2> HIDE DEF S, h, P
  <2>1. QED
    BY <1>1, <1>2, TreeInduction
<1>4. QED
  BY <1>3

(* A trace knows what it began with and what the ifs it has passed test.      *)
LEMMA TraceSeen ==
  ASSUME NEW f, NEW b, Checks(f, b), NEW C \in Checkers, NEW t, IsTrace(t, f, C, b),
         NEW outer, Values(C) \subseteq outer
  PROVE  \A i \in 0 .. Len(b) : Values(t[i]) \subseteq Seen(b, i + 1, outer)
<1> DEFINE S == 0 .. Len(b)
           h == [i \in S |-> i]
           P == {i \in S : Values(t[i]) \subseteq Seen(b, i + 1, outer)}
<1>0. Len(b) \in Nat
  BY DEF Checks
<1>1. ASSUME NEW i \in S, \A k \in S : h[k] < h[i] => k \in P PROVE i \in P
  <2>1. CASE i = 0
    BY <2>1, TraceSteps DEF Seen
  <2>2. CASE i # 0
    <3>1. i \in 1 .. Len(b) /\ i - 1 \in S /\ h[i - 1] < h[i] /\ (i - 1) + 1 = i
      BY <1>0, <2>2
    <3>2. Values(t[i - 1]) \subseteq Seen(b, i, outer)
      BY <1>1, <3>1
    <3>3. Values(t[i]) \subseteq Values(t[i - 1]) \cup GuardTested(b[i])
      BY <3>1, TraceSteps
    <3>4. Seen(b, i, outer) \cup GuardTested(b[i]) \subseteq Seen(b, i + 1, outer)
      <4>1. (i + 1) - 1 = i /\ i \in 1 .. i /\ \A j \in 1 .. i - 1 : j \in 1 .. i
        BY <3>1
      <4>2. QED
        BY <4>1 DEF Seen, GuardTested
    <3>5. QED
      BY <3>2, <3>3, <3>4
  <2>3. QED
    BY <2>1, <2>2
<1>2. h \in [S -> Nat]
  BY <1>0
<1>3. \A i \in S : i \in P
  <2> HIDE DEF S, h, P
  <2>1. QED
    BY <1>1, <1>2, TreeInduction
<1>4. QED
  BY <1>3

----------------------------------------------------------------------------
(* Checking a statement.                                                      *)

LEMMA StmtsGoOn ==
  ASSUME NEW f, NEW b, Checks(f, b), NEW C \in Checkers
  PROVE  CheckStmts(f, C, b) \in Checkers /\ GoesOn(C, CheckStmts(f, C, b))
<1>1. PICK t : IsTrace(t, f, C, b) /\ CheckStmts(f, C, b) = t[Len(b)]
  BY TraceExists
<1>2. Len(b) \in 0 .. Len(b) /\ 0 \in 0 .. Len(b)
  BY DEF Checks
<1>3. t[Len(b)] \in Checkers /\ t[0] = C /\ GoesOn(t[0], t[Len(b)])
  BY <1>1, <1>2, TraceSteps, TraceGoesOn
<1>4. QED
  BY <1>1, <1>3

(* A checker that has come back to where it was.                              *)
Back(C, D) == D \in Checkers /\ D.narrows = C.narrows /\ D.depth = C.depth /\ (D.ok => C.ok)

LEMMA BlockBack ==
  ASSUME NEW f, NEW b, Checks(f, b), NEW C \in Checkers
  PROVE  Back(C, CheckBlock(f, C, b)) /\ CheckBlock(f, C, b).ok = CheckStmts(f, C, b).ok
<1>1. PICK D : D = CheckStmts(f, C, b)
  OBVIOUS
<1>2. D \in Checkers /\ GoesOn(C, D)
  BY <1>1, StmtsGoOn
<1>3. PICK T : T = Truncate(D, Len(C.narrows))
  OBVIOUS
<1>4. T \in Checkers /\ T.narrows = C.narrows /\ T.depth = D.depth /\ T.ok = D.ok
  BY <1>2, <1>3, Truncated DEF GoesOn
<1>5. CheckBlock(f, C, b) = T
  BY <1>1, <1>3, Zenon DEF CheckBlock
<1>6. QED
  BY <1>1, <1>2, <1>4, <1>5 DEF GoesOn, Back

Inside(C) == [C EXCEPT !.depth = @ + 1]

LEMMA LoopBack ==
  ASSUME NEW f, NEW b, Checks(f, b), NEW C \in Checkers
  PROVE  /\ Inside(C) \in Checkers /\ Inside(C).narrows = C.narrows
         /\ Back(C, CheckLoop(f, C, b)) /\ CheckLoop(f, C, b).ok = CheckStmts(f, Inside(C), b).ok
<1>1. PICK I : I = Inside(C)
  OBVIOUS
<1>2. I \in Checkers /\ I.narrows = C.narrows /\ I.depth = C.depth + 1 /\ I.ok = C.ok
  BY <1>1, Deeper DEF Inside
<1>3. PICK B : B = CheckBlock(f, I, b)
  OBVIOUS
<1>4. Back(I, B) /\ B.ok = CheckStmts(f, I, b).ok
  BY <1>2, <1>3, BlockBack
<1>5. B \in Checkers /\ B.depth = C.depth + 1 /\ B.depth > 0 /\ C.depth \in Nat
  BY <1>2, <1>4, CheckerShape DEF Back
<1>6. PICK D : D = [B EXCEPT !.depth = @ - 1]
  OBVIOUS
<1>7. D \in Checkers /\ D.narrows = B.narrows /\ D.depth = B.depth - 1 /\ D.ok = B.ok
  BY <1>5, <1>6, Shallower
<1>8. CheckLoop(f, C, b) = D
  BY <1>1, <1>3, <1>6, Zenon DEF CheckLoop, Inside
<1>9. D.depth = C.depth
  BY <1>5, <1>7
<1>10. QED
  BY <1>1, <1>2, <1>4, <1>7, <1>8, <1>9 DEF Back

(* What a branch, or the body of a while, is checked with.                    *)
IfTrue(C, c) == CollectFacts(CheckExpr[c][C], c, TRUE)

LEMMA TestBack ==
  ASSUME NEW c \in Conditions, NEW C \in Checkers
  PROVE  /\ Back(C, CheckExpr[c][C])
         /\ IfTrue(C, c) \in Checkers /\ Extends(C, IfTrue(C, c)) /\ IfTrue(C, c).depth = C.depth
         /\ IfTrue(C, c).ok = CheckExpr[c][C].ok
<1>1. PICK E : E = CheckExpr[c][C]
  OBVIOUS
<1>2. E \in Checkers /\ E.narrows = C.narrows /\ E.depth = C.depth /\ (E.ok => C.ok)
  <2>1. CheckExpr[c] \in Testers
    BY CheckExprUnfolds
  <2>2. QED
    BY <1>1, <2>1 DEF Testers
<1>3. PICK A : A = CollectFacts(E, c, TRUE)
  OBVIOUS
<1>4. A \in Checkers /\ GoesOn(E, A) /\ A.ok = E.ok
  BY <1>2, <1>3, Facts
<1>5. IfTrue(C, c) = A
  BY <1>1, <1>3, Zenon DEF IfTrue
<1>6. QED
  BY <1>1, <1>2, <1>4, <1>5 DEF GoesOn, Extends, Back

LEMMA WhileBack ==
  ASSUME NEW f, NEW s \in Statements, s.k = "while", Checks(f, s.body), NEW C \in Checkers
  PROVE  LET D == CheckWhile(f, C, s)
         IN  Back(C, D) /\ (D.ok => CheckExpr[s.cond][C].ok /\ CheckStmts(f, Inside(IfTrue(C, s.cond)), s.body).ok)
<1>1. s.cond \in Conditions
  BY StatementParts
<1>2. PICK A : A = IfTrue(C, s.cond)
  OBVIOUS
<1>3. /\ Back(C, CheckExpr[s.cond][C]) /\ A \in Checkers /\ Extends(C, A) /\ A.depth = C.depth
      /\ A.ok = CheckExpr[s.cond][C].ok
  BY <1>1, <1>2, TestBack
<1>4. PICK L : L = CheckLoop(f, A, s.body)
  OBVIOUS
<1>5. Back(A, L) /\ L.ok = CheckStmts(f, Inside(A), s.body).ok
  BY <1>3, <1>4, LoopBack
<1>6. L \in Checkers /\ Extends(C, L) /\ L.depth = C.depth /\ (L.ok => A.ok)
  BY <1>3, <1>5 DEF Back, Extends
<1>7. PICK D : D = Truncate(L, Len(C.narrows))
  OBVIOUS
<1>8. D \in Checkers /\ D.narrows = C.narrows /\ D.depth = L.depth /\ D.ok = L.ok
  BY <1>6, <1>7, Truncated
<1>9. CheckWhile(f, C, s) = D
  BY <1>2, <1>4, <1>7, Zenon DEF CheckWhile, IfTrue
<1>10. QED
  BY <1>2, <1>3, <1>5, <1>6, <1>8, <1>9 DEF Back

(* What the else is checked with.                                             *)
IfFalse(f, C, s) ==
    CollectFacts(Truncate(CheckBlock(f, IfTrue(C, s.cond), s.then), Len(C.narrows)), s.cond, FALSE)

LEMMA IfBack ==
  ASSUME NEW f, NEW s \in Statements, s.k = "if", Checks(f, s.then), Checks(f, s.else), NEW C \in Checkers
  PROVE  LET D == CheckIf(f, C, s)
             T == Truncate(CheckBlock(f, IfTrue(C, s.cond), s.then), Len(C.narrows))
         IN  /\ Back(C, D) /\ T \in Checkers /\ T.narrows = C.narrows /\ IfFalse(f, C, s) \in Checkers
             /\ D.ok => /\ CheckExpr[s.cond][C].ok
                        /\ CheckStmts(f, IfTrue(C, s.cond), s.then).ok
                        /\ CheckStmts(f, IfFalse(f, C, s), s.else).ok
<1>1. s.cond \in Conditions
  BY StatementParts
<1>2. PICK A : A = IfTrue(C, s.cond)
  OBVIOUS
<1>3. /\ Back(C, CheckExpr[s.cond][C]) /\ A \in Checkers /\ Extends(C, A) /\ A.depth = C.depth
      /\ A.ok = CheckExpr[s.cond][C].ok
  BY <1>1, <1>2, TestBack
<1>4. PICK B : B = CheckBlock(f, A, s.then)
  OBVIOUS
<1>5. Back(A, B) /\ B.ok = CheckStmts(f, A, s.then).ok
  BY <1>3, <1>4, BlockBack
<1>6. B \in Checkers /\ Extends(C, B) /\ B.depth = C.depth /\ (B.ok => A.ok)
  BY <1>3, <1>5 DEF Back, Extends
<1>7. PICK T : T = Truncate(B, Len(C.narrows))
  OBVIOUS
<1>8. T \in Checkers /\ T.narrows = C.narrows /\ T.depth = C.depth /\ T.ok = B.ok
  BY <1>6, <1>7, Truncated
<1>9. PICK N : N = CollectFacts(T, s.cond, FALSE)
  OBVIOUS
<1>10. N \in Checkers /\ GoesOn(T, N) /\ N.ok = T.ok
  BY <1>1, <1>8, <1>9, Facts
<1>11. PICK L : L = CheckStmts(f, N, s.else)
  OBVIOUS
<1>12. L \in Checkers /\ GoesOn(N, L)
  BY <1>10, <1>11, StmtsGoOn
<1>13. GoesOn(T, L)
  BY <1>8, <1>10, <1>12, GoingOn
<1>14. Extends(C, L) /\ L.depth = C.depth /\ (L.ok => T.ok)
  BY <1>8, <1>13 DEF GoesOn, Extends
<1>15. PICK D : D = Truncate(L, Len(C.narrows))
  OBVIOUS
<1>16. D \in Checkers /\ D.narrows = C.narrows /\ D.depth = L.depth /\ D.ok = L.ok
  BY <1>12, <1>14, <1>15, Truncated
<1>17. CheckIf(f, C, s) = D
  BY <1>2, <1>4, <1>7, <1>9, <1>11, <1>15, Zenon DEF CheckIf, IfTrue
<1>18. IfFalse(f, C, s) = N
  BY <1>2, <1>4, <1>7, <1>9, Zenon DEF IfFalse
<1>19. QED
  BY <1>2, <1>3, <1>4, <1>5, <1>6, <1>7, <1>8, <1>10, <1>11, <1>14, <1>16, <1>17, <1>18 DEF Back

LEMMA PartsCheck ==
  ASSUME NEW f, NEW s \in Statements, NEW b, PartsIn(s, b),
         \A t \in Statements : StatementRank[t] < StatementRank[s] => f[t] \in Advances
  PROVE  Checks(f, b)
<1>1. b \in Seq(Statements) /\ DOMAIN b = 1 .. Len(b)
  BY DEF PartsIn
<1>2. QED
  BY <1>1 DEF PartsIn, Checks

LEMMA BackAdvances ==
  ASSUME NEW C \in Checkers, NEW D, Back(C, D)
  PROVE  D \in Checkers /\ GoesOn(C, D) /\ Values(D) \subseteq Values(C)
<1>1. Values(D) = Values(C)
  BY ValuesOfNarrows DEF Back
<1>2. GoesOn(C, D)
  BY CheckerShape DEF Back, GoesOn, Extends
<1>3. QED
  BY <1>1, <1>2 DEF Back

LEMMA CheckAdvances ==
  ASSUME NEW f, NEW s \in Statements,
         \A t \in Statements : StatementRank[t] < StatementRank[s] => f[t] \in Advances,
         NEW C \in Checkers
  PROVE  LET D == Check(f, C, s)
         IN  D \in Checkers /\ GoesOn(C, D) /\ Values(D) \subseteq Values(C)
<1>1. CASE s.k \in {"set", "bump"}
  <2>1. s.v \in Vars
    BY <1>1, StatementParts
  <2>2. PICK E : E = IF s.k = "bump" THEN Require(C, EffectiveType(C, s.v) = "value") ELSE C
    OBVIOUS
  <2>3. Back(C, E)
    <3>1. PICK p \in BOOLEAN : p = (EffectiveType(C, s.v) = "value")
      OBVIOUS
    <3>2. E = Require(C, p) \/ E = C
      BY <2>2, <3>1
    <3>3. QED
      BY <3>2, Required DEF Back
  <2>4. E \in Checkers /\ GoesOn(C, E) /\ Values(E) \subseteq Values(C)
    BY <2>3, BackAdvances
  <2>5. PICK D : D = NarrowPush(E, s.v, "optional")
    OBVIOUS
  <2>6. D \in Checkers /\ GoesOn(E, D) /\ Values(D) = Values(E) \ {s.v}
    BY <2>1, <2>4, <2>5, ValuesAfterPush, GoesOnByPush
  <2>7. Check(f, C, s) = D
    BY <1>1, <2>2, <2>5 DEF Check, CheckAssign
  <2>8. QED
    BY <2>4, <2>6, <2>7, GoingOn
<1>2. ASSUME Back(C, Check(f, C, s))
      PROVE  LET D == Check(f, C, s)
             IN  D \in Checkers /\ GoesOn(C, D) /\ Values(D) \subseteq Values(C)
  BY <1>2, BackAdvances
<1>3. CASE s.k \in {"use", "break", "continue"}
  <2>1. CASE s.k = "use"
    <3>1. PICK p \in BOOLEAN : p = (EffectiveType(C, s.v) = "value")
      OBVIOUS
    <3>2. Check(f, C, s) = Require(C, p)
      BY <2>1, <3>1 DEF Check
    <3>3. QED
      BY <1>2, <3>2, Required DEF Back
  <2>2. CASE s.k \in {"break", "continue"}
    <3>1. Check(f, C, s) = [C EXCEPT !.ok = @ /\ C.depth > 0]
      BY <2>2 DEF Check, Require
    <3>2. Back(C, Check(f, C, s))
      BY <3>1 DEF Back, Checkers
    <3>3. QED
      BY <1>2, <3>2
  <2>3. QED
    BY <1>3, <2>1, <2>2
<1>4. CASE s.k = "if"
  <2>1. Checks(f, s.then) /\ Checks(f, s.else)
    BY <1>4, StatementParts, PartsCheck
  <2>2. Back(C, CheckIf(f, C, s))
    BY <1>4, <2>1, IfBack
  <2>3. QED
    BY <1>2, <1>4, <2>2 DEF Check
<1>5. CASE s.k = "while"
  <2>1. Checks(f, s.body)
    BY <1>5, StatementParts, PartsCheck
  <2>2. Back(C, CheckWhile(f, C, s))
    BY <1>5, <2>1, WhileBack
  <2>3. QED
    BY <1>2, <1>5, <2>2 DEF Check
<1>6. CASE s.k = "for"
  <2>1. Checks(f, s.body)
    BY <1>6, StatementParts, PartsCheck
  <2>2. Back(C, CheckLoop(f, C, s.body))
    BY <2>1, LoopBack
  <2>3. QED
    BY <1>2, <1>6, <2>2 DEF Check, CheckFor
<1>7. CASE s.k = "block"
  <2>1. Checks(f, s.body)
    BY <1>7, StatementParts, PartsCheck
  <2>2. Back(C, CheckBlock(f, C, s.body))
    BY <2>1, BlockBack
  <2>3. QED
    BY <1>2, <1>7, <2>2 DEF Check
<1>8. CASE s.k \in {"return", "panic"}
  <2>1. Back(C, C)
    BY DEF Back
  <2>2. Check(f, C, s) = C
    BY <1>8 DEF Check
  <2>3. QED
    BY <1>2, <2>1, <2>2
<1>9. QED
  BY <1>1, <1>3, <1>4, <1>5, <1>6, <1>7, <1>8, StatementParts

LEMMA SameCheck ==
  ASSUME NEW f, NEW g, NEW s \in Statements,
         \A t \in Statements : StatementRank[t] < StatementRank[s] => f[t] \in Advances /\ f[t] = g[t],
         NEW C \in Checkers
  PROVE  Check(f, C, s) = Check(g, C, s)
<1>1. ASSUME NEW b, PartsIn(s, b), NEW A \in Checkers
      PROVE  /\ CheckStmts(f, A, b) = CheckStmts(g, A, b) /\ CheckBlock(f, A, b) = CheckBlock(g, A, b)
             /\ CheckBlock(f, A, b) \in Checkers /\ Checks(f, b)
  <2>1. Checks(f, b)
    BY <1>1, PartsCheck
  <2>2. \A i \in 1 .. Len(b) : f[b[i]] = g[b[i]]
    BY <1>1 DEF PartsIn
  <2>3. CheckStmts(f, A, b) = CheckStmts(g, A, b)
    BY <2>1, <2>2, SameChecks
  <2>4. CheckBlock(f, A, b) = CheckBlock(g, A, b)
    BY <2>3 DEF CheckBlock
  <2>5. QED
    BY <2>1, <2>3, <2>4, BlockBack DEF Back
<1>2. ASSUME NEW b, PartsIn(s, b), NEW A \in Checkers PROVE CheckLoop(f, A, b) = CheckLoop(g, A, b)
  <2>1. [A EXCEPT !.depth = @ + 1] \in Checkers
    BY Deeper
  <2>2. QED
    BY <1>1, <1>2, <2>1 DEF CheckLoop
<1>3. CASE s.k = "if"
  <2>1. PartsIn(s, s.then) /\ PartsIn(s, s.else) /\ s.cond \in Conditions
    BY <1>3, StatementParts
  <2>2. PICK A : A = IfTrue(C, s.cond)
    OBVIOUS
  <2>3. A \in Checkers
    BY <2>1, <2>2, TestBack
  <2>4. IfFalse(f, C, s) = IfFalse(g, C, s)
    BY <1>1, <2>1, <2>2, <2>3 DEF IfFalse
  <2>5. IfFalse(f, C, s) \in Checkers
    BY <1>1, <1>3, <2>1, <2>3, IfBack
  <2>6. CheckIf(f, C, s) = Truncate(CheckStmts(f, IfFalse(f, C, s), s.else), Len(C.narrows))
    BY Zenon DEF CheckIf, IfFalse, IfTrue
  <2>7. CheckIf(g, C, s) = Truncate(CheckStmts(g, IfFalse(g, C, s), s.else), Len(C.narrows))
    BY Zenon DEF CheckIf, IfFalse, IfTrue
  <2>8. CheckIf(f, C, s) = CheckIf(g, C, s)
    BY <1>1, <2>1, <2>4, <2>5, <2>6, <2>7
  <2>9. QED
    BY <1>3, <2>8 DEF Check
<1>4. CASE s.k = "while"
  <2>1. PartsIn(s, s.body) /\ s.cond \in Conditions
    BY <1>4, StatementParts
  <2>2. PICK A : A = IfTrue(C, s.cond)
    OBVIOUS
  <2>3. A \in Checkers
    BY <2>1, <2>2, TestBack
  <2>4. CheckLoop(f, A, s.body) = CheckLoop(g, A, s.body)
    BY <1>2, <2>1, <2>3
  <2>5. CheckWhile(f, C, s) = CheckWhile(g, C, s)
    BY <2>2, <2>4 DEF CheckWhile, IfTrue
  <2>6. QED
    BY <1>4, <2>5 DEF Check
<1>5. CASE s.k \in {"for", "block"}
  <2>1. PartsIn(s, s.body)
    BY <1>5, StatementParts
  <2>2. QED
    BY <1>1, <1>2, <1>5, <2>1 DEF Check, CheckFor
<1>6. CASE s.k \notin {"if", "while", "for", "block"}
  BY <1>6 DEF Check, CheckAssign
<1>7. QED
  BY <1>3, <1>4, <1>5, <1>6

LEMMA CheckStmtUnfolds ==
  /\ CheckStmt \in [Statements -> Advances]
  /\ \A s \in Statements, C \in Checkers : CheckStmt[s][C] = Check(CheckStmt, C, s)
<1> DEFINE V == Advances
           B(f, s) == [C \in Checkers |-> Check(f, C, s)]
           H == [f \in [Statements -> V] |-> [s \in Statements |-> B(f, s)]]
<1>1. ASSUME NEW f, NEW s \in Statements,
             \A t \in Statements : StatementRank[t] < StatementRank[s] => f[t] \in V
      PROVE  B(f, s) \in V
  <2>1. \A C \in Checkers : LET D == Check(f, C, s)
                            IN  D \in Checkers /\ GoesOn(C, D) /\ Values(D) \subseteq Values(C)
    BY <1>1, CheckAdvances
  <2>2. QED
    BY <2>1 DEF Advances
<1>2. H \in [[Statements -> V] -> [Statements -> V]]
  BY <1>1
<1>3. ASSUME NEW f \in [Statements -> V], NEW g \in [Statements -> V], NEW s \in Statements,
             \A t \in Statements : StatementRank[t] < StatementRank[s] => f[t] = g[t]
      PROVE  H[f][s] = H[g][s]
  <2>1. \A C \in Checkers : Check(f, C, s) = Check(g, C, s)
    BY <1>3, SameCheck
  <2>2. QED
    BY <2>1
<1>4. \E f \in [Statements -> V] : f = H[f]
  <2> HIDE DEF H
  <2>1. V # {}
    <3>1. [C \in Checkers |-> C] \in V
      BY GoingOn DEF Advances
    <3>2. QED
      BY <3>1
  <2> HIDE DEF V
  <2>2. Descends(Statements, V, StatementRank, H)
    BY <1>2, <1>3, StatementRankType DEF Descends
  <2>3. Solved(Statements, V, H)
    BY <2>1, <2>2, Recursion, Zenon
  <2>4. QED
    BY <2>3 DEF Solved
<1>5. \E f : f = [s \in Statements |-> B(f, s)]
  BY <1>4
<1>6. CheckStmt = [s \in Statements |-> B(CheckStmt, s)]
  BY <1>5, Zenon DEF CheckStmt
<1>7. \A s \in Statements : CheckStmt[s] \in V
  <2>1. \A s \in Statements :
           (\A t \in Statements : StatementRank[t] < StatementRank[s] => CheckStmt[t] \in V) => CheckStmt[s] \in V
    <3> SUFFICES ASSUME NEW s \in Statements,
                        \A t \in Statements : StatementRank[t] < StatementRank[s] => CheckStmt[t] \in V
                 PROVE  CheckStmt[s] \in V
      OBVIOUS
    <3>1. B(CheckStmt, s) \in V
      BY <1>1
    <3>2. CheckStmt[s] = B(CheckStmt, s)
      BY <1>6, Zenon
    <3>3. QED
      BY <3>1, <3>2, Zenon
  <2> HIDE DEF V
  <2>2. QED
    BY <2>1, StatementRankType, TreeTyped
<1>8. CheckStmt \in [Statements -> V]
  BY <1>6, <1>7, Zenon
<1>9. \A s \in Statements, C \in Checkers : CheckStmt[s][C] = Check(CheckStmt, C, s)
  <2> SUFFICES ASSUME NEW s \in Statements, NEW C \in Checkers
               PROVE  CheckStmt[s][C] = Check(CheckStmt, C, s)
    OBVIOUS
  <2>1. CheckStmt[s] = B(CheckStmt, s)
    BY <1>6, Zenon
  <2>2. B(CheckStmt, s)[C] = Check(CheckStmt, C, s)
    OBVIOUS
  <2>3. QED
    BY <2>1, <2>2, Zenon
<1>10. QED
  BY <1>8, <1>9, Zenon

----------------------------------------------------------------------------
(* What a statement assigns, and whether it keeps to what is its own.         *)

LEMMA AssignedUnfolds ==
  /\ Assigned \in [Statements -> SUBSET Vars]
  /\ \A s \in Statements : Assigned[s] = Assigns(Assigned, s)
<1> DEFINE V == SUBSET Vars
           H == [f \in [Statements -> V] |-> [s \in Statements |-> Assigns(f, s)]]
<1>1. ASSUME NEW f, NEW s \in Statements,
             \A t \in Statements : StatementRank[t] < StatementRank[s] => f[t] \in V
      PROVE  Assigns(f, s) \in V
  <2>1. ASSUME NEW b, PartsIn(s, b) PROVE AssignedIn(f, b) \in V
    BY <1>1, <2>1 DEF AssignedIn, PartsIn
  <2>2. QED
    BY <2>1, StatementParts DEF Assigns
<1>2. H \in [[Statements -> V] -> [Statements -> V]]
  BY <1>1
<1>3. ASSUME NEW f \in [Statements -> V], NEW g \in [Statements -> V], NEW s \in Statements,
             \A t \in Statements : StatementRank[t] < StatementRank[s] => f[t] = g[t]
      PROVE  H[f][s] = H[g][s]
  <2>1. ASSUME NEW b, PartsIn(s, b) PROVE AssignedIn(f, b) = AssignedIn(g, b)
    BY <1>3, <2>1 DEF AssignedIn, PartsIn
  <2>2. CASE s.k = "if"
    <3>1. AssignedIn(f, s.then) = AssignedIn(g, s.then) /\ AssignedIn(f, s.else) = AssignedIn(g, s.else)
      BY <2>1, <2>2, StatementParts
    <3>2. QED
      BY <2>2, <3>1 DEF Assigns
  <2>3. CASE s.k \in {"while", "for", "block"}
    <3>1. AssignedIn(f, s.body) = AssignedIn(g, s.body)
      BY <2>1, <2>3, StatementParts
    <3>2. QED
      BY <2>3, <3>1 DEF Assigns
  <2>4. CASE s.k \notin {"if", "while", "for", "block"}
    BY <2>4 DEF Assigns
  <2>5. QED
    BY <2>2, <2>3, <2>4
<1>4. \E f \in [Statements -> V] : f = H[f]
  <2> HIDE DEF H
  <2>1. V # {}
    OBVIOUS
  <2> HIDE DEF V
  <2>2. Descends(Statements, V, StatementRank, H)
    BY <1>2, <1>3, StatementRankType DEF Descends
  <2>3. Solved(Statements, V, H)
    BY <2>1, <2>2, Recursion, Zenon
  <2>4. QED
    BY <2>3 DEF Solved
<1>5. \E f : f = [s \in Statements |-> Assigns(f, s)]
  BY <1>4
<1>6. Assigned = [s \in Statements |-> Assigns(Assigned, s)]
  BY <1>5, Zenon DEF Assigned
<1>7. \A s \in Statements : Assigned[s] \in V
  <2>1. \A s \in Statements :
           (\A t \in Statements : StatementRank[t] < StatementRank[s] => Assigned[t] \in V) => Assigned[s] \in V
    BY <1>1, <1>6
  <2> HIDE DEF V
  <2>2. QED
    BY <2>1, StatementRankType, TreeTyped
<1>8. Assigned \in [Statements -> V]
  BY <1>6, <1>7, Zenon
<1>9. QED
  BY <1>6, <1>8, Zenon

LEMMA ConfinedUnfolds ==
  \A s \in Statements, outer \in SUBSET Vars :
     StmtConfined[s][outer] <=> Confines(StmtConfined, s, outer)
<1> DEFINE V == [SUBSET Vars -> BOOLEAN]
           B(f, s) == [outer \in SUBSET Vars |-> Confines(f, s, outer)]
           H == [f \in [Statements -> V] |-> [s \in Statements |-> B(f, s)]]
<1>1. ASSUME NEW f, NEW s \in Statements PROVE B(f, s) \in V
  BY DEF Confines
<1>2. H \in [[Statements -> V] -> [Statements -> V]]
  BY <1>1
<1>3. ASSUME NEW f \in [Statements -> V], NEW g \in [Statements -> V], NEW s \in Statements,
             \A t \in Statements : StatementRank[t] < StatementRank[s] => f[t] = g[t]
      PROVE  H[f][s] = H[g][s]
  <2>1. ASSUME NEW b, PartsIn(s, b), NEW o PROVE ConfinedIn(f, b, o) = ConfinedIn(g, b, o)
    BY <1>3, <2>1 DEF ConfinedIn, PartsIn
  <2>2. \A outer \in SUBSET Vars : Confines(f, s, outer) = Confines(g, s, outer)
    BY <2>1, StatementParts DEF Confines
  <2>3. QED
    BY <2>2
<1>4. \E f \in [Statements -> V] : f = H[f]
  <2> HIDE DEF H
  <2>1. V # {}
    <3>1. [outer \in SUBSET Vars |-> TRUE] \in V
      OBVIOUS
    <3>2. QED
      BY <3>1
  <2> HIDE DEF V
  <2>2. Descends(Statements, V, StatementRank, H)
    BY <1>2, <1>3, StatementRankType DEF Descends
  <2>3. Solved(Statements, V, H)
    BY <2>1, <2>2, Recursion, Zenon
  <2>4. QED
    BY <2>3 DEF Solved
<1>5. \E f : f = [s \in Statements |-> B(f, s)]
  BY <1>4
<1>6. StmtConfined = [s \in Statements |-> B(StmtConfined, s)]
  BY <1>5, Zenon DEF StmtConfined
<1>7. QED
  <2> SUFFICES ASSUME NEW s \in Statements, NEW outer \in SUBSET Vars
               PROVE  StmtConfined[s][outer] <=> Confines(StmtConfined, s, outer)
    OBVIOUS
  <2>1. StmtConfined[s] = B(StmtConfined, s)
    BY <1>6, Zenon
  <2>2. B(StmtConfined, s)[outer] = Confines(StmtConfined, s, outer)
    OBVIOUS
  <2>3. QED
    BY <2>1, <2>2

LEMMA SeenType ==
  ASSUME NEW b \in Seq(Statements), NEW i \in Nat, NEW outer \in SUBSET Vars, i <= Len(b) + 1
  PROVE  Seen(b, i, outer) \in SUBSET Vars
<1>1. \A j \in {h \in 1 .. i - 1 : b[h].k = "if"} : Tested[b[j].cond] \in SUBSET Vars
  <2> SUFFICES ASSUME NEW j \in 1 .. i - 1, b[j].k = "if" PROVE Tested[b[j].cond] \in SUBSET Vars
    OBVIOUS
  <2>1. b[j] \in Statements
    OBVIOUS
  <2>2. b[j].cond \in Conditions
    BY <2>1, StatementParts
  <2>3. QED
    BY <2>2, TestedUnfolds
<1>2. QED
  BY <1>1 DEF Seen

----------------------------------------------------------------------------
(* What the checker knew of a block that runs.                                *)

LEMMA CheckStmtChecks ==
  ASSUME NEW b \in Seq(Statements)
  PROVE  Checks(CheckStmt, b)
<1>1. \A i \in 1 .. Len(b) : b[i] \in Statements
  OBVIOUS
<1>2. QED
  BY <1>1, CheckStmtUnfolds DEF Checks

LEMMA PartsAreBlocks ==
  ASSUME NEW s \in Statements
  PROVE  /\ s.k = "if" => s.then \in Seq(Statements) /\ s.else \in Seq(Statements)
         /\ s.k \in {"while", "for", "block"} => s.body \in Seq(Statements)
BY StatementParts DEF PartsIn

Compound == {"if", "while", "for", "block"}

LEMMA CompoundBack ==
  ASSUME NEW s \in Statements, s.k \in Compound, NEW C \in Checkers
  PROVE  Back(C, CheckStmt[s][C])
<1>1. CheckStmt[s][C] = Check(CheckStmt, C, s)
  BY CheckStmtUnfolds
<1>2. CASE s.k = "if"
  <2>1. Checks(CheckStmt, s.then) /\ Checks(CheckStmt, s.else)
    BY <1>2, PartsAreBlocks, CheckStmtChecks
  <2>2. Back(C, CheckIf(CheckStmt, C, s))
    BY <1>2, <2>1, IfBack
  <2>3. QED
    BY <1>1, <1>2, <2>2 DEF Check
<1>3. CASE s.k = "while"
  <2>1. Checks(CheckStmt, s.body)
    BY <1>3, PartsAreBlocks, CheckStmtChecks
  <2>2. Back(C, CheckWhile(CheckStmt, C, s))
    BY <1>3, <2>1, WhileBack
  <2>3. QED
    BY <1>1, <1>3, <2>2 DEF Check
<1>4. CASE s.k = "for"
  <2>1. Checks(CheckStmt, s.body)
    BY <1>4, PartsAreBlocks, CheckStmtChecks
  <2>2. Back(C, CheckLoop(CheckStmt, C, s.body))
    BY <2>1, LoopBack
  <2>3. QED
    BY <1>1, <1>4, <2>2 DEF Check, CheckFor
<1>5. CASE s.k = "block"
  <2>1. Checks(CheckStmt, s.body)
    BY <1>5, PartsAreBlocks, CheckStmtChecks
  <2>2. Back(C, CheckBlock(CheckStmt, C, s.body))
    BY <2>1, BlockBack
  <2>3. QED
    BY <1>1, <1>5, <2>2 DEF Check
<1>6. QED
  BY <1>2, <1>3, <1>4, <1>5 DEF Compound

(* t is the trace with which b was checked, and outer what may have been known *)
(* before b.                                                                  *)
Accounted(t, outer, b) ==
    /\ outer \in SUBSET Vars /\ t[0] \in Checkers /\ IsTrace(t, CheckStmt, t[0], b) /\ t[Len(b)].ok
    /\ Values(t[0]) \subseteq outer /\ ConfinedIn(StmtConfined, b, outer)

LEMMA AccountedStep ==
  ASSUME NEW b \in Seq(Statements), NEW t, NEW outer, Accounted(t, outer, b), NEW i \in 1 .. Len(b)
  PROVE  /\ b[i] \in Statements /\ t[i - 1] \in Checkers /\ t[i] \in Checkers
         /\ CheckStmt[b[i]][t[i - 1]].ok
         /\ CheckStmt[b[i]][t[i - 1]] = Check(CheckStmt, t[i - 1], b[i])
         /\ t[i] = GuardFacts(CheckStmt[b[i]][t[i - 1]], b[i])
         /\ Values(t[i]) \subseteq Values(t[i - 1]) \cup GuardTested(b[i])
         /\ Values(t[i - 1]) \subseteq Seen(b, i, outer) /\ Seen(b, i, outer) \in SUBSET Vars
         /\ Confines(StmtConfined, b[i], Seen(b, i, outer))
<1>1. PICK C \in Checkers : C = t[0]
  BY DEF Accounted
<1>2. Checks(CheckStmt, b) /\ IsTrace(t, CheckStmt, C, b)
  BY <1>1, CheckStmtChecks DEF Accounted
<1>3. Len(b) \in Nat /\ i \in 0 .. Len(b) /\ i - 1 \in 0 .. Len(b) /\ Len(b) \in 0 .. Len(b) /\ (i - 1) + 1 = i
  OBVIOUS
<1>4. GoesOn(t[i], t[Len(b)])
  BY <1>2, <1>3, TraceGoesOn
<1>5. t[i].ok
  BY <1>4 DEF GoesOn, Accounted
<1>6. Values(t[i - 1]) \subseteq Seen(b, (i - 1) + 1, outer)
  BY <1>1, <1>2, <1>3, TraceSeen DEF Accounted
<1>7. Seen(b, i, outer) \in SUBSET Vars
  BY <1>3, SeenType DEF Accounted
<1>8. b[i] \in Statements /\ StmtConfined[b[i]][Seen(b, i, outer)]
  BY DEF Accounted, ConfinedIn
<1>9. Confines(StmtConfined, b[i], Seen(b, i, outer))
  BY <1>7, <1>8, ConfinedUnfolds
<1>10. /\ t[i - 1] \in Checkers /\ t[i] \in Checkers
       /\ t[i] = GuardFacts(CheckStmt[b[i]][t[i - 1]], b[i])
       /\ (t[i].ok => CheckStmt[b[i]][t[i - 1]].ok)
       /\ Values(t[i]) \subseteq Values(t[i - 1]) \cup GuardTested(b[i])
  BY <1>2, <1>3, TraceSteps
<1>11. CheckStmt[b[i]][t[i - 1]] = Check(CheckStmt, t[i - 1], b[i])
  BY <1>8, <1>10, CheckStmtUnfolds
<1>12. QED
  BY <1>3, <1>5, <1>6, <1>7, <1>8, <1>9, <1>10, <1>11

(* What a statement with parts assigns is known neither before nor after it.  *)
LEMMA Untouched ==
  ASSUME NEW b \in Seq(Statements), NEW t, NEW outer, Accounted(t, outer, b), NEW i \in 1 .. Len(b),
         b[i].k \in Compound
  PROVE  Assigned[b[i]] \cap Values(t[i - 1]) = {} /\ Assigned[b[i]] \cap Values(t[i]) = {}
<1> DEFINE s == b[i]
<1>1. /\ s \in Statements /\ t[i - 1] \in Checkers
      /\ t[i] = GuardFacts(CheckStmt[s][t[i - 1]], s)
      /\ Values(t[i]) \subseteq Values(t[i - 1]) \cup GuardTested(s)
      /\ Values(t[i - 1]) \subseteq Seen(b, i, outer)
      /\ Confines(StmtConfined, s, Seen(b, i, outer))
  BY AccountedStep
<1>2. Assigned[s] \cap Seen(b, i, outer) = {}
  BY <1>1 DEF Confines, Compound
<1>3. Assigned[s] \cap Values(t[i - 1]) = {}
  BY <1>1, <1>2
<1>4. CASE s.k = "if" /\ BlockFallsThrough(s.then) # BlockFallsThrough(s.else)
  <2>1. Assigned[s] \cap Tested[s.cond] = {}
    BY <1>1, <1>4 DEF Confines
  <2>2. QED
    BY <1>1, <1>3, <1>4, <2>1 DEF GuardTested
<1>5. CASE ~ (s.k = "if" /\ BlockFallsThrough(s.then) # BlockFallsThrough(s.else))
  <2>1. t[i] = CheckStmt[s][t[i - 1]]
    BY <1>1, <1>5 DEF GuardFacts
  <2>2. Values(t[i]) = Values(t[i - 1])
    BY <1>1, <2>1, CompoundBack, ValuesOfNarrows DEF Back
  <2>3. QED
    BY <1>3, <2>2
<1>6. QED
  BY <1>3, <1>4, <1>5

(* What was known before a statement with parts, none of whose branches        *)
(* guards what follows, is known after it.                                    *)
LEMMA StaysKnown ==
  ASSUME NEW b \in Seq(Statements), NEW t, NEW outer, Accounted(t, outer, b), NEW i \in 1 .. Len(b),
         b[i].k \in Compound, NEW slots, Known(slots, t[i - 1]),
         b[i].k = "if" => BlockFallsThrough(b[i].then) = BlockFallsThrough(b[i].else)
  PROVE  Known(slots, t[i])
<1> DEFINE s == b[i]
<1>1. s \in Statements /\ t[i - 1] \in Checkers /\ t[i] = GuardFacts(CheckStmt[s][t[i - 1]], s)
  BY AccountedStep
<1>2. t[i] = CheckStmt[s][t[i - 1]]
  BY <1>1 DEF GuardFacts
<1>3. Values(t[i]) = Values(t[i - 1])
  BY <1>1, <1>2, CompoundBack, ValuesOfNarrows DEF Back
<1>4. QED
  BY <1>3 DEF Known

(* A block that starts.                                                       *)
Starts(slots, b) == \E t, outer : Accounted(t, outer, b) /\ Known(slots, t[0])

LEMMA Starting ==
  ASSUME NEW b \in Seq(Statements), NEW C \in Checkers, CheckStmts(CheckStmt, C, b).ok,
         NEW outer \in SUBSET Vars, Values(C) \subseteq outer, ConfinedIn(StmtConfined, b, outer),
         NEW slots, Known(slots, C)
  PROVE  Starts(slots, b)
<1>1. Checks(CheckStmt, b)
  BY CheckStmtChecks
<1>2. PICK t : IsTrace(t, CheckStmt, C, b) /\ CheckStmts(CheckStmt, C, b) = t[Len(b)]
  BY <1>1, TraceExists
<1>3. t[0] = C
  BY <1>1, <1>2, TraceSteps
<1>4. Accounted(t, outer, b)
  BY <1>2, <1>3 DEF Accounted
<1>5. QED
  BY <1>3, <1>4 DEF Starts

LEMMA EnteringIf ==
  ASSUME NEW b \in Seq(Statements), NEW t, NEW outer, Accounted(t, outer, b), NEW i \in 1 .. Len(b),
         b[i].k = "if", Known(val, t[i - 1])
  PROVE  /\ "null" \notin Outcomes[b[i].cond]
         /\ "yes" \in Outcomes[b[i].cond] =>
               Starts(val, b[i].then) /\ (BlockFallsThrough(b[i].then) => Known(val, t[i]))
         /\ "no" \in Outcomes[b[i].cond] =>
               Starts(val, b[i].else) /\ (BlockFallsThrough(b[i].else) => Known(val, t[i]))
<1>1. PICK s, C, seen : s = b[i] /\ C = t[i - 1] /\ seen = Seen(b, i, outer)
  OBVIOUS
<1>2. /\ s \in Statements /\ C \in Checkers /\ s.k = "if"
      /\ CheckStmt[s][C].ok /\ CheckStmt[s][C] = Check(CheckStmt, C, s)
      /\ t[i] = GuardFacts(CheckStmt[s][C], s)
      /\ Values(C) \subseteq seen /\ seen \in SUBSET Vars /\ Confines(StmtConfined, s, seen) /\ Known(val, C)
  BY <1>1, AccountedStep
<1>3. /\ s.cond \in Conditions /\ s.then \in Seq(Statements) /\ s.else \in Seq(Statements)
      /\ Checks(CheckStmt, s.then) /\ Checks(CheckStmt, s.else)
  BY <1>2, StatementParts, PartsAreBlocks, CheckStmtChecks
<1>4. PICK T, A, N : /\ T = Truncate(CheckBlock(CheckStmt, IfTrue(C, s.cond), s.then), Len(C.narrows))
                     /\ A = IfTrue(C, s.cond) /\ N = IfFalse(CheckStmt, C, s)
  OBVIOUS
<1>5. /\ Back(C, CheckIf(CheckStmt, C, s)) /\ T \in Checkers /\ T.narrows = C.narrows /\ N \in Checkers
      /\ CheckIf(CheckStmt, C, s).ok => /\ CheckExpr[s.cond][C].ok
                                        /\ CheckStmts(CheckStmt, A, s.then).ok
                                        /\ CheckStmts(CheckStmt, N, s.else).ok
  BY <1>2, <1>3, <1>4, IfBack
<1>6. CheckStmt[s][C] = CheckIf(CheckStmt, C, s)
  BY <1>2 DEF Check
<1>7. PICK D : D = CheckStmt[s][C]
  OBVIOUS
<1>8. /\ D \in Checkers /\ D.narrows = C.narrows /\ t[i] = GuardFacts(D, s)
      /\ CheckExpr[s.cond][C].ok /\ CheckStmts(CheckStmt, A, s.then).ok /\ CheckStmts(CheckStmt, N, s.else).ok
  BY <1>2, <1>5, <1>6, <1>7 DEF Back
<1>9. "null" \notin Outcomes[s.cond]
  BY <1>2, <1>3, <1>8, CheckedReadsNoNull
<1>10. seen \cup Tested[s.cond] \in SUBSET Vars
  BY <1>2, <1>3, TestedUnfolds
<1>11. /\ ConfinedIn(StmtConfined, s.then, seen \cup Tested[s.cond])
       /\ ConfinedIn(StmtConfined, s.else, seen \cup Tested[s.cond])
  BY <1>2 DEF Confines
<1>12. Known(val, D) /\ Known(val, T) /\ Values(T) = Values(C)
  BY <1>2, <1>5, <1>8, ValuesOfNarrows DEF Known
<1>13. ASSUME "yes" \in Outcomes[s.cond] PROVE Starts(val, s.then) /\ (BlockFallsThrough(s.then) => Known(val, t[i]))
  <2>1. PICK E : E = CheckExpr[s.cond][C]
    OBVIOUS
  <2>2. E \in Checkers /\ Values(E) = Values(C) /\ A = CollectFacts(E, s.cond, TRUE) /\ A \in Checkers
    BY <1>2, <1>3, <1>4, <2>1, TestBack, ValuesOfNarrows DEF Back, IfTrue
  <2>3. Known(val, E)
    BY <1>2, <2>2 DEF Known
  <2>4. Known(val, A)
    BY <1>3, <1>13, <2>2, <2>3, FactsAreKnown
  <2>5. Values(A) \subseteq seen \cup Tested[s.cond]
    BY <1>2, <1>3, <2>2, FactsAreTested
  <2>6. Starts(val, s.then)
    BY <1>3, <1>8, <1>10, <1>11, <2>2, <2>4, <2>5, Starting
  <2>7. ASSUME BlockFallsThrough(s.then) PROVE Known(val, t[i])
    <3>1. CASE BlockFallsThrough(s.else)
      BY <1>2, <1>8, <1>12, <2>7, <3>1 DEF GuardFacts, BlockFallsThrough, AllIn
    <3>2. CASE ~ BlockFallsThrough(s.else)
      <4>1. PICK w \in BOOLEAN : w = BlockFallsThrough(s.then)
        BY DEF BlockFallsThrough, AllIn
      <4>2. w = TRUE
        BY <2>7, <4>1
      <4>3. t[i] = CollectFacts(D, s.cond, w)
        BY <1>2, <1>8, <2>7, <3>2, <4>1 DEF GuardFacts
      <4>4. QED
        BY <1>3, <1>8, <1>12, <1>13, <4>2, <4>3, FactsAreKnown
    <3>3. QED
      BY <3>1, <3>2
  <2>8. QED
    BY <2>6, <2>7
<1>14. ASSUME "no" \in Outcomes[s.cond] PROVE Starts(val, s.else) /\ (BlockFallsThrough(s.else) => Known(val, t[i]))
  <2>1. N = CollectFacts(T, s.cond, FALSE)
    BY <1>4 DEF IfFalse
  <2>2. Known(val, N)
    BY <1>3, <1>5, <1>12, <1>14, <2>1, FactsAreKnown
  <2>3. Values(N) \subseteq seen \cup Tested[s.cond]
    BY <1>2, <1>3, <1>5, <1>12, <2>1, FactsAreTested
  <2>4. Starts(val, s.else)
    BY <1>3, <1>5, <1>8, <1>10, <1>11, <2>2, <2>3, Starting
  <2>5. ASSUME BlockFallsThrough(s.else) PROVE Known(val, t[i])
    <3>1. CASE BlockFallsThrough(s.then)
      BY <1>2, <1>8, <1>12, <2>5, <3>1 DEF GuardFacts, BlockFallsThrough, AllIn
    <3>2. CASE ~ BlockFallsThrough(s.then)
      <4>1. PICK w \in BOOLEAN : w = BlockFallsThrough(s.then)
        BY DEF BlockFallsThrough, AllIn
      <4>2. w = FALSE
        BY <3>2, <4>1
      <4>3. t[i] = CollectFacts(D, s.cond, w)
        BY <1>2, <1>8, <2>5, <3>2, <4>1 DEF GuardFacts
      <4>4. QED
        BY <1>3, <1>8, <1>12, <1>14, <4>2, <4>3, FactsAreKnown
    <3>3. QED
      BY <3>1, <3>2
  <2>6. QED
    BY <2>4, <2>5
<1>15. QED
  BY <1>1, <1>9, <1>13, <1>14

LEMMA EnteringBlock ==
  ASSUME NEW b \in Seq(Statements), NEW t, NEW outer, Accounted(t, outer, b), NEW i \in 1 .. Len(b),
         b[i].k = "block", NEW slots, Known(slots, t[i - 1])
  PROVE  Starts(slots, b[i].body) /\ Known(slots, t[i])
<1>1. PICK s, C, seen : s = b[i] /\ C = t[i - 1] /\ seen = Seen(b, i, outer)
  OBVIOUS
<1>2. /\ s \in Statements /\ C \in Checkers /\ s.k = "block"
      /\ CheckStmt[s][C].ok /\ CheckStmt[s][C] = Check(CheckStmt, C, s)
      /\ Values(C) \subseteq seen /\ seen \in SUBSET Vars /\ Confines(StmtConfined, s, seen) /\ Known(slots, C)
  BY <1>1, AccountedStep
<1>3. s.body \in Seq(Statements) /\ Checks(CheckStmt, s.body)
  BY <1>2, PartsAreBlocks, CheckStmtChecks
<1>4. CheckBlock(CheckStmt, C, s.body).ok
  BY <1>2 DEF Check
<1>5. CheckStmts(CheckStmt, C, s.body).ok
  BY <1>2, <1>3, <1>4, BlockBack
<1>6. ConfinedIn(StmtConfined, s.body, seen)
  BY <1>2 DEF Confines
<1>7. Starts(slots, s.body)
  BY <1>2, <1>3, <1>5, <1>6, Starting
<1>8. Known(slots, t[i])
  BY StaysKnown DEF Compound
<1>9. QED
  BY <1>1, <1>7, <1>8

LEMMA EnteringLoop ==
  ASSUME NEW b \in Seq(Statements), NEW t, NEW outer, Accounted(t, outer, b), NEW i \in 1 .. Len(b),
         b[i].k \in {"while", "for"}, Known(val, t[i - 1])
  PROVE  /\ Known(val, t[i])
         /\ b[i].k = "while" => "null" \notin Outcomes[b[i].cond]
         /\ (b[i].k = "while" => "yes" \in Outcomes[b[i].cond]) => Starts(val, b[i].body)
<1>1. PICK s, C, seen : s = b[i] /\ C = t[i - 1] /\ seen = Seen(b, i, outer)
  OBVIOUS
<1>2. /\ s \in Statements /\ C \in Checkers /\ s.k \in {"while", "for"}
      /\ CheckStmt[s][C].ok /\ CheckStmt[s][C] = Check(CheckStmt, C, s)
      /\ Values(C) \subseteq seen /\ seen \in SUBSET Vars /\ Confines(StmtConfined, s, seen) /\ Known(val, C)
  BY <1>1, AccountedStep
<1>3. s.body \in Seq(Statements) /\ Checks(CheckStmt, s.body)
  BY <1>2, PartsAreBlocks, CheckStmtChecks
<1>4. Known(val, t[i])
  BY StaysKnown DEF Compound
<1>5. CASE s.k = "for"
  <2>1. PICK I : I = Inside(C)
    OBVIOUS
  <2>2. CheckLoop(CheckStmt, C, s.body).ok
    BY <1>2, <1>5 DEF Check, CheckFor
  <2>3. I \in Checkers /\ I.narrows = C.narrows /\ CheckStmts(CheckStmt, I, s.body).ok
    BY <1>2, <1>3, <2>1, <2>2, LoopBack
  <2>4. Values(I) = Values(C)
    BY <2>3, ValuesOfNarrows
  <2>5. Known(val, I)
    BY <1>2, <2>4 DEF Known
  <2>6. ConfinedIn(StmtConfined, s.body, seen)
    BY <1>2, <1>5 DEF Confines
  <2>7. Starts(val, s.body)
    BY <1>2, <1>3, <2>3, <2>4, <2>5, <2>6, Starting
  <2>8. QED
    BY <1>1, <1>4, <1>5, <2>7
<1>6. CASE s.k = "while"
  <2>1. s.cond \in Conditions
    BY <1>2, <1>6, StatementParts
  <2>2. PICK E, A, I : E = CheckExpr[s.cond][C] /\ A = IfTrue(C, s.cond) /\ I = Inside(A)
    OBVIOUS
  <2>3. CheckWhile(CheckStmt, C, s).ok
    BY <1>2, <1>6 DEF Check
  <2>4. E.ok /\ CheckStmts(CheckStmt, I, s.body).ok
    BY <1>2, <1>3, <1>6, <2>2, <2>3, WhileBack
  <2>5. "null" \notin Outcomes[s.cond]
    BY <1>2, <2>1, <2>2, <2>4, CheckedReadsNoNull
  <2>6. ASSUME "yes" \in Outcomes[s.cond] PROVE Starts(val, s.body)
    <3>1. E \in Checkers /\ Values(E) = Values(C) /\ A = CollectFacts(E, s.cond, TRUE) /\ A \in Checkers
      BY <1>2, <2>1, <2>2, TestBack, ValuesOfNarrows DEF Back, IfTrue
    <3>2. Known(val, E)
      BY <1>2, <3>1 DEF Known
    <3>3. Known(val, A)
      BY <2>1, <2>6, <3>1, <3>2, FactsAreKnown
    <3>4. Values(A) \subseteq seen \cup Tested[s.cond] /\ seen \cup Tested[s.cond] \in SUBSET Vars
      BY <1>2, <2>1, <3>1, FactsAreTested, TestedUnfolds
    <3>5. I \in Checkers /\ I.narrows = A.narrows
      BY <1>3, <2>2, <3>1, LoopBack
    <3>6. Values(I) = Values(A)
      BY <3>5, ValuesOfNarrows
    <3>7. Known(val, I)
      BY <3>3, <3>6 DEF Known
    <3>8. ConfinedIn(StmtConfined, s.body, seen \cup Tested[s.cond])
      BY <1>2, <1>6 DEF Confines
    <3>9. QED
      BY <1>3, <2>4, <3>4, <3>5, <3>6, <3>7, <3>8, Starting
  <2>7. QED
    BY <1>1, <1>4, <1>6, <2>5, <2>6
<1>7. QED
  BY <1>2, <1>5, <1>6

----------------------------------------------------------------------------
(* What the checker knew of each block on the stack is true where it counts:   *)
(* before the next statement of the top; before the running statement of a     *)
(* lower block, and after it if what runs there can end.                       *)

Tells(slots, b, due) == \E t, outer : Accounted(t, outer, b) /\ \A m \in due : Known(slots, t[m])

AfterToo(f) == f.k = "block" /\ BlockFallsThrough(f.block)

DueBelow(f, lower) == {lower.next - 2} \cup {m \in {lower.next - 1} : AfterToo(f)}

SoundBelow(fs, slots) ==
    \A i \in 2 .. Len(fs) : fs[i].k = "block" => Tells(slots, fs[i].block, DueBelow(fs[i - 1], fs[i]))

Sound(fs, slots) ==
    /\ fs[1].k = "block" => Tells(slots, fs[1].block, {fs[1].next - 1})
    /\ SoundBelow(fs, slots)

LEMMA SoundPopped ==
  ASSUME NEW fs, fs \in Seq(BlockFrames \cup LoopFrames), NEW m \in 2 .. Len(fs), NEW slots, SoundBelow(fs, slots),
         fs[m].k = "block" => Tells(slots, fs[m].block, {fs[m].next - 1})
  PROVE  Sound(SubSeq(fs, m, Len(fs)), slots)
<1> DEFINE rest == SubSeq(fs, m, Len(fs))
<1>1. Len(rest) = Len(fs) - m + 1 /\ Len(fs) \in Nat /\ rest[1] = fs[m]
  OBVIOUS
<1>2. \A i \in 1 .. Len(rest) : rest[i] = fs[i + m - 1]
  OBVIOUS
<1> HIDE DEF rest
<1>3. ASSUME NEW i \in 2 .. Len(rest), rest[i].k = "block"
      PROVE  Tells(slots, rest[i].block, DueBelow(rest[i - 1], rest[i]))
  <2>1. i \in 1 .. Len(rest) /\ i - 1 \in 1 .. Len(rest)
    BY <1>1
  <2>2. PICK j \in 2 .. Len(fs) : j = i + m - 1 /\ j - 1 = (i - 1) + m - 1
    BY <1>1
  <2>3. rest[i] = fs[j] /\ rest[i - 1] = fs[j - 1]
    BY <1>2, <2>1, <2>2
  <2>4. QED
    BY <1>3, <2>3 DEF SoundBelow
<1>4. QED
  BY <1>1, <1>3 DEF Sound, SoundBelow, rest

LEMMA SoundPushed ==
  ASSUME NEW fs, fs \in Seq(BlockFrames \cup LoopFrames), fs # <<>>, NEW f, NEW slots, SoundBelow(fs, slots),
         f.k = "block" => f.next = 1 /\ Starts(slots, f.block),
         fs[1].k = "block" => Tells(slots, fs[1].block, DueBelow(f, fs[1]))
  PROVE  Sound(<<f>> \o fs, slots)
<1> DEFINE all == <<f>> \o fs
<1>1. Len(all) = Len(fs) + 1 /\ Len(fs) \in Nat \ {0} /\ all[1] = f
  OBVIOUS
<1>2. \A i \in 1 .. Len(fs) : all[i + 1] = fs[i]
  OBVIOUS
<1> HIDE DEF all
<1>3. f.k = "block" => Tells(slots, f.block, {f.next - 1})
  <2> SUFFICES ASSUME f.k = "block" PROVE Tells(slots, f.block, {f.next - 1})
    OBVIOUS
  <2>1. f.next - 1 = 0
    OBVIOUS
  <2>2. PICK t, outer : Accounted(t, outer, f.block) /\ Known(slots, t[0])
    BY DEF Starts
  <2>3. \A m \in {f.next - 1} : Known(slots, t[m])
    BY <2>1, <2>2
  <2>4. QED
    BY <2>2, <2>3 DEF Tells
<1>4. ASSUME NEW i \in 2 .. Len(all), all[i].k = "block"
      PROVE  Tells(slots, all[i].block, DueBelow(all[i - 1], all[i]))
  <2>1. PICK j \in 1 .. Len(fs) : i = j + 1 /\ i - 1 = j
    BY <1>1
  <2>2. all[i] = fs[j]
    BY <1>2, <2>1
  <2>3. CASE j = 1
    BY <1>1, <1>4, <2>1, <2>2, <2>3
  <2>4. CASE j # 1
    <3>1. j \in 2 .. Len(fs) /\ j - 1 \in 1 .. Len(fs) /\ (j - 1) + 1 = j
      BY <2>4
    <3>2. all[i - 1] = fs[j - 1]
      BY <1>2, <2>1, <3>1
    <3>3. QED
      BY <1>4, <2>2, <3>1, <3>2 DEF SoundBelow
  <2>5. QED
    BY <2>3, <2>4
<1>5. QED
  BY <1>1, <1>3, <1>4 DEF Sound, SoundBelow, all

(* The rest of the stack, with the top gone on by one statement.              *)
LEMMA SoundRest ==
  ASSUME FlowInv, AtStmt, NEW slots, SoundBelow(frames, slots)
  PROVE  /\ SoundBelow(Rest, slots)
         /\ Rest \in Seq(BlockFrames \cup LoopFrames) /\ Rest # <<>>
         /\ Rest[1].k = "block" /\ Rest[1].block = Top.block /\ Rest[1].next = Top.next + 1
<1>1. frames \in Seq(BlockFrames \cup LoopFrames) /\ frames # <<>> /\ Top = frames[1] /\ Top.k = "block"
      /\ Len(frames) \in Nat \ {0}
  BY RunningStack DEF AtStmt
<1> DEFINE r == Rest
<1>2. /\ r \in Seq(BlockFrames \cup LoopFrames) /\ Len(r) = Len(frames)
      /\ r[1].k = "block" /\ r[1].block = Top.block /\ r[1].next = Top.next + 1
      /\ \A i \in 2 .. Len(frames) : r[i] = frames[i]
  BY <1>1, RestOfFrames
<1> HIDE DEF r
<1>3. ASSUME NEW i \in 2 .. Len(r), r[i].k = "block"
      PROVE  Tells(slots, r[i].block, DueBelow(r[i - 1], r[i]))
  <2>1. r[i] = frames[i] /\ i \in 2 .. Len(frames)
    BY <1>2
  <2>2. Tells(slots, frames[i].block, DueBelow(frames[i - 1], frames[i]))
    BY <1>3, <2>1 DEF SoundBelow
  <2>3. AfterToo(r[i - 1]) = AfterToo(frames[i - 1])
    <3>1. CASE i = 2
      BY <1>1, <1>2, <3>1 DEF AfterToo
    <3>2. CASE i # 2
      <4>1. i - 1 \in 2 .. Len(frames)
        BY <2>1, <3>2
      <4>2. QED
        BY <1>2, <4>1
    <3>3. QED
      BY <3>1, <3>2
  <2>4. DueBelow(r[i - 1], r[i]) = DueBelow(frames[i - 1], frames[i])
    BY <2>1, <2>3 DEF DueBelow
  <2>5. QED
    BY <2>1, <2>2, <2>4
<1>4. r # <<>>
  BY <1>1, <1>2
<1>5. QED
  BY <1>2, <1>3, <1>4 DEF SoundBelow, r

LEMMA TopIsTold ==
  ASSUME FlowInv, AtStmt, Sound(frames, val)
  PROVE  \E t, outer : /\ Accounted(t, outer, Top.block) /\ Known(val, t[Top.next - 1])
                       /\ Top.block \in Seq(Statements) /\ Top.next \in 1 .. Len(Top.block) /\ Cur = Top.block[Top.next]
<1>1. Top = frames[1] /\ Top.k = "block"
  BY RunningStack DEF AtStmt
<1>2. Tells(val, Top.block, {Top.next - 1})
  BY <1>1 DEF Sound
<1>3. Top.block \in Seq(Statements) /\ Top.next \in 1 .. Len(Top.block) /\ Cur = Top.block[Top.next]
  BY CurrentStatement DEF Cur
<1>4. QED
  BY <1>2, <1>3 DEF Tells

(* The statement a lower block is at.                                         *)
LEMMA RunningBelow ==
  ASSUME FlowInv, outcome = "running", NEW i \in 2 .. Len(frames), frames[i].k = "block"
  PROVE  LET f == frames[i]
         IN  /\ f.block \in Seq(Statements) /\ f.next \in Nat /\ f.next - 1 \in 1 .. Len(f.block)
             /\ Running(f) = f.block[f.next - 1] /\ Running(f) \in Statements
             /\ Running(f).k \in Compound
             /\ frames[i - 1].k = "block" => Holds(Running(f), frames[i - 1].block)
             /\ frames[i - 1].k = "loop" => Running(f) = frames[i - 1].stmt
<1>1. /\ Stacked(frames, prog) /\ i \in 1 .. Len(frames) /\ i - 1 \in 1 .. Len(frames) - 1 /\ (i - 1) + 1 = i
      /\ frames[i] \in BlockFrames \cup LoopFrames /\ frames[i - 1] \in BlockFrames \cup LoopFrames
  BY RunningStack
<1>2. PICK f \in BlockFrames \cup LoopFrames, g \in BlockFrames \cup LoopFrames : f = frames[i] /\ g = frames[i - 1]
  BY <1>1
<1>3. f.block \in Seq(Statements) /\ f.next \in Nat /\ f.next <= Len(f.block) + 1
  BY <1>1, <1>2, FrameShape DEF Stacked
<1>4. RunsIn(g, f) /\ g.k \in {"block", "loop"} /\ f.k = "block"
  BY <1>1, <1>2, FrameShape DEF Stacked
<1>5. f.next > 1 /\ (g.k = "block" => Holds(Running(f), g.block)) /\ (g.k = "loop" => Running(f) = g.stmt)
  BY <1>4 DEF RunsIn
<1>6. f.next - 1 \in 1 .. Len(f.block)
  BY <1>3, <1>5
<1>7. Running(f) = f.block[f.next - 1] /\ Running(f) \in Statements
  BY <1>3, <1>6 DEF Running
<1>8. g.k = "loop" => g.stmt.k \in {"while", "for"}
  BY <1>1, <1>2 DEF Stacked
<1>9. Running(f).k \in Compound
  BY <1>4, <1>5, <1>8 DEF Holds, Compound
<1>10. QED
  BY <1>2, <1>3, <1>5, <1>6, <1>7, <1>9

(* A statement on the stack assigns what the current one does.                *)
Owner(f) == IF f.k = "loop" THEN f.stmt ELSE Running(f)

LEMMA PartAssigns ==
  ASSUME NEW b \in Seq(Statements), NEW j \in 1 .. Len(b), NEW s \in Statements,
         \/ Holds(s, b)
         \/ s.k \in {"while", "for"} /\ b = s.body
  PROVE  Assigned[b[j]] \subseteq Assigned[s]
<1>1. Assigned[b[j]] \subseteq AssignedIn(Assigned, b)
  BY DEF AssignedIn
<1>2. AssignedIn(Assigned, b) \subseteq Assigned[s]
  BY AssignedUnfolds DEF Assigns, Holds
<1>3. QED
  BY <1>1, <1>2

LEMMA AssignedBelow ==
  ASSUME FlowInv, AtStmt
  PROVE  \A i \in 2 .. Len(frames) : Assigned[Cur] \subseteq Assigned[Owner(frames[i])]
<1>1. /\ Stacked(frames, prog) /\ Len(frames) \in Nat \ {0} /\ Top = frames[1] /\ Top.k = "block"
      /\ frames \in Seq(BlockFrames \cup LoopFrames) /\ outcome = "running"
  BY RunningStack DEF AtStmt
<1> DEFINE Bad == {i \in Nat : i \in 2 .. Len(frames) /\ ~ (Assigned[Cur] \subseteq Assigned[Owner(frames[i])])}
<1>2. SUFFICES ASSUME Bad # {} PROVE FALSE
  OBVIOUS
<1>3. PICK i \in Bad : \A j \in Bad : i <= j
  BY <1>2, LeastElement
<1>4. i \in 2 .. Len(frames) /\ i - 1 \in 1 .. Len(frames) - 1 /\ i - 1 \in 1 .. Len(frames) /\ (i - 1) + 1 = i
  BY <1>1, <1>3
<1>5. i - 1 \notin Bad
  BY <1>3
<1>6. ASSUME NEW b \in Seq(Statements), NEW j \in 1 .. Len(b), Assigned[Cur] \subseteq Assigned[b[j]],
             frames[i - 1].k = "block", frames[i - 1].block = b
      PROVE  FALSE
  <2>1. CASE frames[i].k = "block"
    <3>1. Running(frames[i]) \in Statements /\ Holds(Running(frames[i]), b)
      BY <1>1, <1>4, <1>6, <2>1, RunningBelow
    <3>2. Assigned[b[j]] \subseteq Assigned[Running(frames[i])]
      BY <3>1, PartAssigns
    <3>3. QED
      BY <1>3, <1>4, <1>6, <2>1, <3>2 DEF Owner
  <2>2. CASE frames[i].k = "loop"
    <3>1. PICK s \in Statements : s = frames[i].stmt /\ s.k \in {"while", "for"}
      BY <1>1, <1>4, <2>2, FrameShape DEF Stacked
    <3>2. b = s.body
      BY <1>1, <1>4, <1>6, <2>2, <3>1 DEF Stacked, RunsIn
    <3>3. Assigned[b[j]] \subseteq Assigned[s]
      BY <3>1, <3>2, PartAssigns
    <3>4. QED
      BY <1>3, <1>4, <1>6, <2>2, <3>1, <3>3 DEF Owner
  <2>3. QED
    BY <1>1, <1>4, <2>1, <2>2, FrameShape
<1>7. CASE i = 2
  <2>1. Top.block \in Seq(Statements) /\ Top.next \in 1 .. Len(Top.block) /\ Cur = Top.block[Top.next]
    BY CurrentStatement DEF Cur
  <2>2. QED
    BY <1>1, <1>6, <1>7, <2>1
<1>8. CASE i # 2
  <2>1. i - 1 \in 2 .. Len(frames)
    BY <1>4, <1>8
  <2>2. Assigned[Cur] \subseteq Assigned[Owner(frames[i - 1])]
    BY <1>5, <2>1
  <2>3. CASE frames[i - 1].k = "block"
    <3>1. PICK f : f = frames[i - 1]
      OBVIOUS
    <3>2. f.block \in Seq(Statements) /\ f.next - 1 \in 1 .. Len(f.block) /\ Running(f) = f.block[f.next - 1]
      BY <1>1, <2>1, <2>3, <3>1, RunningBelow
    <3>3. QED
      BY <1>6, <2>2, <2>3, <3>1, <3>2 DEF Owner
  <2>4. CASE frames[i - 1].k = "loop"
    <3>1. frames[i].k = "block"
      BY <1>1, <1>4, <2>4, FrameShape DEF Stacked, RunsIn
    <3>2. Running(frames[i]) = frames[i - 1].stmt
      BY <1>1, <1>4, <2>4, <3>1, RunningBelow
    <3>3. QED
      BY <1>3, <1>4, <2>2, <2>4, <3>1, <3>2 DEF Owner
  <2>5. QED
    BY <1>1, <1>4, <2>3, <2>4, FrameShape
<1>9. QED
  BY <1>7, <1>8

(* The top goes on by one statement, alone or with a part of it on top.       *)
LEMMA RestTold ==
  ASSUME FlowInv, AtStmt, NEW slots, SoundBelow(frames, slots),
         NEW t, NEW outer, Accounted(t, outer, Top.block), Known(slots, t[Top.next])
  PROVE  Sound(Rest, slots)
<1> DEFINE r == Rest
<1>1. SoundBelow(r, slots) /\ r[1].block = Top.block /\ r[1].next = Top.next + 1
  BY SoundRest
<1> HIDE DEF r
<1>2. Top.next \in Nat
  BY CurrentStatement
<1>3. r[1].next - 1 = Top.next
  BY <1>1, <1>2
<1>4. \A m \in {r[1].next - 1} : Known(slots, t[m])
  BY <1>3
<1>5. Tells(slots, r[1].block, {r[1].next - 1})
  BY <1>1, <1>4 DEF Tells
<1>6. QED
  BY <1>1, <1>5 DEF Sound, r

LEMMA RestPushed ==
  ASSUME FlowInv, AtStmt, SoundBelow(frames, val),
         NEW f, f.k = "block" => f.next = 1 /\ Starts(val, f.block),
         NEW t, NEW outer, Accounted(t, outer, Top.block), Known(val, t[Top.next - 1]),
         AfterToo(f) => Known(val, t[Top.next])
  PROVE  Sound(<<f>> \o Rest, val)
<1> DEFINE r == Rest
<1>1. /\ SoundBelow(r, val) /\ r \in Seq(BlockFrames \cup LoopFrames) /\ r # <<>>
      /\ r[1].block = Top.block /\ r[1].next = Top.next + 1
  BY SoundRest
<1> HIDE DEF r
<1>2. Top.next \in Nat
  BY CurrentStatement
<1>3. r[1].next - 1 = Top.next /\ r[1].next - 2 = Top.next - 1
  BY <1>1, <1>2
<1>4. \A m \in DueBelow(f, r[1]) : Known(val, t[m])
  BY <1>3 DEF DueBelow
<1>5. Tells(val, r[1].block, DueBelow(f, r[1]))
  BY <1>1, <1>4 DEF Tells
<1>6. Sound(<<f>> \o r, val)
  BY <1>1, <1>5, SoundPushed
<1>7. QED
  BY <1>6 DEF r

(* A statement without parts lets at most its own variable in or out.          *)
LEMMA CheckedName ==
  ASSUME NEW b \in Seq(Statements), NEW t, NEW outer, Accounted(t, outer, b), NEW i \in 1 .. Len(b),
         b[i].k \in {"use", "bump"}, Known(val, t[i - 1])
  PROVE  val[b[i].v] = "some" /\ Known(val, t[i])
<1>1. PICK s, C : s = b[i] /\ C = t[i - 1]
  OBVIOUS
<1>2. /\ s \in Statements /\ C \in Checkers /\ s.k \in {"use", "bump"}
      /\ CheckStmt[s][C].ok /\ CheckStmt[s][C] = Check(CheckStmt, C, s)
      /\ t[i] = GuardFacts(CheckStmt[s][C], s) /\ Known(val, C)
  BY <1>1, AccountedStep
<1>3. s.v \in Vars
  BY <1>2, StatementParts
<1>4. t[i] = Check(CheckStmt, C, s)
  BY <1>2 DEF GuardFacts
<1>5. PICK p \in BOOLEAN : p = (EffectiveType(C, s.v) = "value")
  OBVIOUS
<1>6. PICK R : R = Require(C, p)
  OBVIOUS
<1>7. R \in Checkers /\ R.narrows = C.narrows /\ (R.ok => p)
  BY <1>2, <1>6, Required
<1>8. Values(R) = Values(C)
  BY <1>2, <1>7, ValuesOfNarrows
<1>9. CASE s.k = "use"
  <2>1. t[i] = R /\ CheckStmt[s][C] = R
    BY <1>2, <1>4, <1>5, <1>6, <1>9 DEF Check
  <2>2. s.v \in Values(C)
    BY <1>2, <1>3, <1>5, <1>7, <2>1 DEF Values
  <2>3. QED
    BY <1>1, <1>2, <1>8, <2>1, <2>2 DEF Known
<1>10. CASE s.k = "bump"
  <2>1. t[i] = NarrowPush(R, s.v, "optional") /\ CheckStmt[s][C] = NarrowPush(R, s.v, "optional")
    BY <1>2, <1>4, <1>5, <1>6, <1>10 DEF Check, CheckAssign
  <2>2. NarrowPush(R, s.v, "optional").ok = R.ok
    BY <1>7 DEF NarrowPush, Checkers
  <2>3. s.v \in Values(C)
    BY <1>2, <1>3, <1>5, <1>7, <2>1, <2>2 DEF Values
  <2>4. Values(t[i]) \subseteq Values(R)
    BY <1>3, <1>7, <2>1, ValuesAfterPush
  <2>5. QED
    BY <1>1, <1>2, <1>8, <2>3, <2>4 DEF Known
<1>11. QED
  BY <1>2, <1>9, <1>10

LEMMA CheckedSet ==
  ASSUME NEW b \in Seq(Statements), NEW t, NEW outer, Accounted(t, outer, b), NEW i \in 1 .. Len(b),
         b[i].k = "set", Known(val, t[i - 1]), NEW slots,
         \A v \in Vars \ {b[i].v} : slots[v] = val[v]
  PROVE  Known(slots, t[i])
<1>1. PICK s, C : s = b[i] /\ C = t[i - 1]
  OBVIOUS
<1>2. /\ s \in Statements /\ C \in Checkers /\ s.k = "set"
      /\ CheckStmt[s][C] = Check(CheckStmt, C, s)
      /\ t[i] = GuardFacts(CheckStmt[s][C], s) /\ Known(val, C)
  BY <1>1, AccountedStep
<1>3. s.v \in Vars
  BY <1>2, StatementParts
<1>4. t[i] = NarrowPush(C, s.v, "optional")
  BY <1>2 DEF GuardFacts, Check, CheckAssign
<1>5. Values(t[i]) = Values(C) \ {s.v}
  BY <1>2, <1>3, <1>4, ValuesAfterPush
<1>6. QED
  BY <1>1, <1>2, <1>5 DEF Known, Values

(* An assignment leaves what the blocks below it were told alone.             *)
LEMMA SetBelow ==
  ASSUME FlowInv, AtStmt, Cur.k = "set", SoundBelow(frames, val),
         NEW slots, \A v \in Vars \ {Cur.v} : slots[v] = val[v]
  PROVE  SoundBelow(frames, slots)
<1>1. outcome = "running"
  BY DEF AtStmt
<1>2. Cur.v \in Assigned[Cur]
  BY CurrentStatement, AssignedUnfolds DEF Assigns
<1>3. ASSUME NEW i \in 2 .. Len(frames), frames[i].k = "block"
      PROVE  Tells(slots, frames[i].block, DueBelow(frames[i - 1], frames[i]))
  <2>1. PICK f, due : f = frames[i] /\ due = DueBelow(frames[i - 1], frames[i])
    OBVIOUS
  <2>2. /\ f.block \in Seq(Statements) /\ f.next \in Nat /\ f.next - 1 \in 1 .. Len(f.block)
        /\ Running(f) = f.block[f.next - 1] /\ Running(f).k \in Compound
    BY <1>1, <1>3, <2>1, RunningBelow
  <2>3. Cur.v \in Assigned[Running(f)]
    <3>1. Assigned[Cur] \subseteq Assigned[Owner(frames[i])]
      BY AssignedBelow
    <3>2. QED
      BY <1>2, <1>3, <2>1, <3>1 DEF Owner
  <2>4. PICK t, outer : Accounted(t, outer, f.block) /\ \A m \in due : Known(val, t[m])
    BY <1>3, <2>1 DEF SoundBelow, Tells
  <2>5. (f.next - 1) - 1 = f.next - 2
    BY <2>2
  <2>6. Cur.v \notin Values(t[f.next - 2]) /\ Cur.v \notin Values(t[f.next - 1])
    <3>1. PICK j \in 1 .. Len(f.block) : j = f.next - 1 /\ j - 1 = f.next - 2
      BY <2>2, <2>5
    <3>2. f.block[j] = Running(f) /\ f.block[j].k \in Compound
      BY <2>2, <3>1
    <3>3. Assigned[f.block[j]] \cap Values(t[j - 1]) = {} /\ Assigned[f.block[j]] \cap Values(t[j]) = {}
      BY <2>2, <2>4, <3>2, Untouched
    <3>4. QED
      BY <2>3, <3>1, <3>2, <3>3
  <2>7. ASSUME NEW m \in due PROVE Known(slots, t[m])
    <3>1. m = f.next - 2 \/ m = f.next - 1
      BY <2>1, <2>7 DEF DueBelow
    <3>2. Cur.v \notin Values(t[m]) /\ Known(val, t[m])
      BY <2>4, <2>6, <2>7, <3>1
    <3>3. QED
      BY <3>2 DEF Known, Values
  <2>8. QED
    BY <2>1, <2>4, <2>7 DEF Tells
<1>4. QED
  BY <1>3 DEF SoundBelow

(* The block below a loop, when the loop is left.                             *)
LEMMA BelowLoop ==
  ASSUME FlowInv, outcome = "running", SoundBelow(frames, val),
         NEW m \in 1 .. Len(frames), frames[m].k = "loop", m < Len(frames)
  PROVE  Sound(SubSeq(frames, m + 1, Len(frames)), val)
<1>1. frames \in Seq(BlockFrames \cup LoopFrames) /\ Len(frames) \in Nat
  BY RunningStack
<1>2. PICK i \in 2 .. Len(frames) : i = m + 1 /\ i - 1 = m
  BY <1>1
<1>3. ASSUME frames[i].k = "block" PROVE Tells(val, frames[i].block, {frames[i].next - 1})
  <2>1. PICK f : f = frames[i]
    OBVIOUS
  <2>2. /\ f.block \in Seq(Statements) /\ f.next \in Nat /\ f.next - 1 \in 1 .. Len(f.block)
        /\ Running(f) = f.block[f.next - 1] /\ Running(f) \in Statements
        /\ Running(f).k \in Compound /\ Running(f) = frames[m].stmt
    BY <1>2, <1>3, <2>1, RunningBelow
  <2>3. frames[m].stmt.k \in {"while", "for"}
    BY RunningStack DEF Stacked
  <2>4. PICK j \in 1 .. Len(f.block) : j = f.next - 1 /\ j - 1 = f.next - 2
    BY <2>2
  <2>5. Tells(val, f.block, DueBelow(frames[m], f))
    BY <1>2, <1>3, <2>1 DEF SoundBelow
  <2>6. PICK t, outer : Accounted(t, outer, f.block) /\ Known(val, t[j - 1])
    BY <2>4, <2>5 DEF Tells, DueBelow
  <2>7. f.block[j].k \in Compound /\ f.block[j].k # "if"
    BY <2>2, <2>3, <2>4
  <2>8. Known(val, t[j])
    BY <2>2, <2>6, <2>7, StaysKnown
  <2>9. QED
    BY <2>1, <2>4, <2>6, <2>8 DEF Tells
<1>4. Sound(SubSeq(frames, i, Len(frames)), val)
  BY <1>1, <1>3, SoundPopped
<1>5. QED
  BY <1>2, <1>4

FactsTold == outcome = "running" /\ Confined(prog) => Sound(frames, val)

FactsInv == FlowInv /\ FactsTold /\ ConfinedNeverReadsNull

LEMMA FactsStep ==
  ASSUME FlowInv, Next, outcome = "running", Confined(prog), Sound(frames, val)
  PROVE  outcome' # "nullRead" /\ (outcome' = "running" => Sound(frames', val'))
<1>0. val \in [Vars -> {"null", "some"}] /\ SoundBelow(frames, val)
  BY DEF FlowInv, TypeOK, Sound
<1>1. CASE LowerName
  <2>1. AtStmt /\ Cur.k \in {"use", "bump"}
    BY <1>1 DEF LowerName
  <2>2. PICK t, outer : /\ Accounted(t, outer, Top.block) /\ Known(val, t[Top.next - 1])
                        /\ Top.block \in Seq(Statements) /\ Top.next \in 1 .. Len(Top.block) /\ Cur = Top.block[Top.next]
    BY <2>1, TopIsTold
  <2>3. val[Cur.v] = "some" /\ Known(val, t[Top.next])
    BY <2>1, <2>2, CheckedName
  <2>4. Continue(Rest) /\ UNCHANGED val
    BY <1>1, <2>3 DEF LowerName
  <2>5. Sound(Rest, val)
    BY <1>0, <2>1, <2>2, <2>3, RestTold
  <2>6. QED
    BY <2>4, <2>5 DEF Continue
<1>2. CASE LowerAssign
  <2>1. AtStmt /\ Cur.k = "set" /\ Continue(Rest) /\ val' = [val EXCEPT ![Cur.v] = Cur.to]
    BY <1>2 DEF LowerAssign
  <2>2. PICK t, outer : /\ Accounted(t, outer, Top.block) /\ Known(val, t[Top.next - 1])
                        /\ Top.block \in Seq(Statements) /\ Top.next \in 1 .. Len(Top.block) /\ Cur = Top.block[Top.next]
    BY <2>1, TopIsTold
  <2>3. PICK slots : slots = val'
    OBVIOUS
  <2>4. \A v \in Vars \ {Cur.v} : slots[v] = val[v]
    BY <1>0, <2>1, <2>3
  <2>5. Known(slots, t[Top.next])
    BY <2>1, <2>2, <2>4, CheckedSet
  <2>6. SoundBelow(frames, slots)
    BY <1>0, <2>1, <2>4, SetBelow
  <2>7. Sound(Rest, slots)
    BY <2>1, <2>2, <2>5, <2>6, RestTold
  <2>8. QED
    BY <2>1, <2>3, <2>7 DEF Continue
<1>3. CASE LowerIf
  <2>1. AtStmt /\ Cur.k = "if"
    BY <1>3 DEF LowerIf
  <2>2. PICK t, outer : /\ Accounted(t, outer, Top.block) /\ Known(val, t[Top.next - 1])
                        /\ Top.block \in Seq(Statements) /\ Top.next \in 1 .. Len(Top.block) /\ Cur = Top.block[Top.next]
    BY <2>1, TopIsTold
  <2>3. /\ "null" \notin Outcomes[Cur.cond]
        /\ "yes" \in Outcomes[Cur.cond] =>
              Starts(val, Cur.then) /\ (BlockFallsThrough(Cur.then) => Known(val, t[Top.next]))
        /\ "no" \in Outcomes[Cur.cond] =>
              Starts(val, Cur.else) /\ (BlockFallsThrough(Cur.else) => Known(val, t[Top.next]))
    BY <2>1, <2>2, EnteringIf
  <2>4. PICK o \in Outcomes[Cur.cond] :
           IF o = "null" THEN Stop("nullRead")
           ELSE /\ Continue(<<BlockFrame(IF o = "yes" THEN Cur.then ELSE Cur.else)>> \o Rest)
                /\ UNCHANGED val
    BY <1>3 DEF LowerIf
  <2>5. o \in {"yes", "no"}
    BY <2>1, <2>3, <2>4, CurrentStatement, StatementParts, OutcomesUnfolds DEF Endings
  <2>6. PICK b : b = IF o = "yes" THEN Cur.then ELSE Cur.else
    OBVIOUS
  <2>7. Starts(val, b) /\ (BlockFallsThrough(b) => Known(val, t[Top.next]))
    BY <2>3, <2>4, <2>5, <2>6
  <2>8. PICK f : f = BlockFrame(b)
    OBVIOUS
  <2>9. f.k = "block" /\ f.block = b /\ f.next = 1
    BY <2>8 DEF BlockFrame
  <2>10. Sound(<<f>> \o Rest, val)
    BY <1>0, <2>1, <2>2, <2>7, <2>9, RestPushed DEF AfterToo
  <2>11. Continue(<<f>> \o Rest) /\ UNCHANGED val
    BY <2>4, <2>5, <2>6, <2>8
  <2>12. QED
    BY <2>10, <2>11 DEF Continue
<1>4. CASE LowerBlock
  <2>1. AtStmt /\ Cur.k = "block" /\ Continue(<<BlockFrame(Cur.body)>> \o Rest) /\ UNCHANGED val
    BY <1>4 DEF LowerBlock
  <2>2. PICK t, outer : /\ Accounted(t, outer, Top.block) /\ Known(val, t[Top.next - 1])
                        /\ Top.block \in Seq(Statements) /\ Top.next \in 1 .. Len(Top.block) /\ Cur = Top.block[Top.next]
    BY <2>1, TopIsTold
  <2>3. Starts(val, Cur.body) /\ Known(val, t[Top.next])
    BY <2>1, <2>2, EnteringBlock
  <2>4. PICK f : f = BlockFrame(Cur.body)
    OBVIOUS
  <2>5. f.k = "block" /\ f.block = Cur.body /\ f.next = 1
    BY <2>4 DEF BlockFrame
  <2>6. Sound(<<f>> \o Rest, val)
    BY <1>0, <2>1, <2>2, <2>3, <2>5, RestPushed
  <2>7. QED
    BY <2>1, <2>4, <2>6 DEF Continue
<1>5. CASE EnterLoop
  <2>1. AtStmt /\ Continue(<<LoopFrame(Cur)>> \o Rest) /\ UNCHANGED val
    BY <1>5 DEF EnterLoop
  <2>2. PICK t, outer : Accounted(t, outer, Top.block) /\ Known(val, t[Top.next - 1])
    BY <2>1, TopIsTold
  <2>3. PICK f : f = LoopFrame(Cur)
    OBVIOUS
  <2>4. f.k = "loop"
    BY <2>3 DEF LoopFrame
  <2>5. ~ AfterToo(f) /\ f.k # "block"
    BY <2>4 DEF AfterToo
  <2>6. Sound(<<f>> \o Rest, val)
    BY <1>0, <2>1, <2>2, <2>5, RestPushed
  <2>7. QED
    BY <2>1, <2>3, <2>6 DEF Continue
<1>6. CASE LoopHeader
  <2>1. /\ Top.k = "loop" /\ Top = frames[1] /\ Top.stmt \in Statements /\ Top.stmt.k \in {"while", "for"}
        /\ Stacked(frames, prog) /\ frames # <<>> /\ frames \in Seq(BlockFrames \cup LoopFrames)
        /\ Len(frames) \in Nat \ {0}
    BY <1>6, RunningStack, FrameShape DEF LoopHeader, AtLoop, Stacked
  <2>2. 1 \in 1 .. Len(frames) /\ 1 < Len(frames) /\ 2 \in 2 .. Len(frames)
    <3>1. frames[Len(frames)].k = "block"
      BY <2>1 DEF Stacked
    <3>2. QED
      BY <2>1, <3>1
  <2>3. frames[2].k = "block"
    <3>1. RunsIn(frames[1], frames[1 + 1])
      BY <2>1, <2>2 DEF Stacked
    <3>2. frames[2] \in BlockFrames \cup LoopFrames
      BY <2>1, <2>2
    <3>3. QED
      BY <2>1, <3>1, <3>2, FrameShape DEF RunsIn
  <2>4. PICK g : g = frames[2]
    OBVIOUS
  <2>5. /\ g.block \in Seq(Statements) /\ g.next \in Nat /\ g.next - 1 \in 1 .. Len(g.block)
        /\ Running(g) = g.block[g.next - 1] /\ Running(g) = Top.stmt
    BY <2>1, <2>2, <2>3, <2>4, RunningBelow
  <2>6. PICK i \in 1 .. Len(g.block) : i = g.next - 1 /\ i - 1 = g.next - 2
    BY <2>5
  <2>7. Tells(val, g.block, DueBelow(frames[1], g))
    BY <1>0, <2>2, <2>3, <2>4 DEF SoundBelow
  <2>8. PICK t, outer : Accounted(t, outer, g.block) /\ Known(val, t[i - 1])
    BY <2>6, <2>7 DEF Tells, DueBelow
  <2>9. g.block[i] = Top.stmt
    BY <2>5, <2>6
  <2>10. /\ Top.stmt.k = "while" => "null" \notin Outcomes[Top.stmt.cond]
         /\ (Top.stmt.k = "while" => "yes" \in Outcomes[Top.stmt.cond]) => Starts(val, Top.stmt.body)
    BY <2>1, <2>5, <2>8, <2>9, EnteringLoop
  <2>11. PICK o \in IF Top.stmt.k = "while" THEN Outcomes[Top.stmt.cond] ELSE {"yes", "no"} :
             IF o = "null" THEN Stop("nullRead")
             ELSE /\ Continue(IF o = "yes" THEN <<BlockFrame(Top.stmt.body)>> \o frames ELSE Tail(frames))
                  /\ UNCHANGED val
    BY <1>6 DEF LoopHeader
  <2>12. o \in {"yes", "no"}
    <3>1. Top.stmt.k = "while" => Top.stmt.cond \in Conditions
      BY <2>1, StatementParts
    <3>2. QED
      BY <2>10, <2>11, <3>1, OutcomesUnfolds DEF Endings
  <2>13. CASE o = "yes"
    <3>1. PICK f : f = BlockFrame(Top.stmt.body)
      OBVIOUS
    <3>2. f.k = "block" /\ f.block = Top.stmt.body /\ f.next = 1
      BY <3>1 DEF BlockFrame
    <3>3. Starts(val, f.block)
      BY <2>10, <2>11, <2>13, <3>2
    <3>4. frames[1].k # "block"
      BY <2>1
    <3>5. Sound(<<f>> \o frames, val)
      BY <1>0, <2>1, <3>2, <3>3, <3>4, SoundPushed
    <3>6. Continue(<<f>> \o frames) /\ UNCHANGED val
      BY <2>11, <2>13, <3>1
    <3>7. QED
      BY <3>5, <3>6 DEF Continue
  <2>14. CASE o = "no"
    <3>1. Sound(SubSeq(frames, 1 + 1, Len(frames)), val)
      BY <1>0, <2>1, <2>2, BelowLoop
    <3>2. Tail(frames) = SubSeq(frames, 1 + 1, Len(frames))
      BY <2>1, TailOfFrames
    <3>3. Continue(Tail(frames)) /\ UNCHANGED val
      BY <2>11, <2>14
    <3>4. QED
      BY <3>1, <3>2, <3>3 DEF Continue
  <2>15. QED
    BY <2>12, <2>13, <2>14
<1>7. CASE LowerBreak
  <2>1. CASE Loops = {}
    BY <1>7, <2>1 DEF LowerBreak, Stop
  <2>2. CASE Loops # {}
    <3> DEFINE m == InnermostLoop
    <3>1. m \in 1 .. Len(frames) /\ frames[m].k = "loop" /\ m < Len(frames)
      BY <2>2, Innermost
    <3>2. Continue(SubSeq(frames, m + 1, Len(frames))) /\ UNCHANGED val
      BY <1>7, <2>2 DEF LowerBreak
    <3> HIDE DEF m
    <3>3. Sound(SubSeq(frames, m + 1, Len(frames)), val)
      BY <1>0, <3>1, BelowLoop
    <3>4. QED
      BY <3>2, <3>3 DEF Continue
  <2>3. QED
    BY <2>1, <2>2
<1>8. CASE LowerContinue
  <2>1. AtStmt
    BY <1>8 DEF LowerContinue
  <2>2. CASE Loops = {}
    BY <1>8, <2>2 DEF LowerContinue, Stop
  <2>3. CASE Loops # {}
    <3> DEFINE m == InnermostLoop
    <3>1. m \in 1 .. Len(frames) /\ frames[m].k = "loop" /\ m < Len(frames)
      BY <2>3, Innermost
    <3>2. Continue(SubSeq(frames, m, Len(frames))) /\ UNCHANGED val
      BY <1>8, <2>3 DEF LowerContinue
    <3> HIDE DEF m
    <3>3. m \in 2 .. Len(frames) /\ frames \in Seq(BlockFrames \cup LoopFrames)
      <4>1. m # 1
        BY <2>1, <3>1, RunningStack DEF AtStmt
      <4>2. QED
        BY <2>1, <3>1, <4>1, RunningStack
    <3>4. Sound(SubSeq(frames, m, Len(frames)), val)
      BY <1>0, <3>1, <3>3, SoundPopped
    <3>5. QED
      BY <3>2, <3>4 DEF Continue
  <2>4. QED
    BY <2>2, <2>3
<1>9. CASE LowerReturn
  BY <1>9 DEF LowerReturn, Stop
<1>10. CASE BlockEnd
  <2>1. /\ Top.k = "block" /\ Top = frames[1] /\ Stacked(frames, prog)
        /\ frames \in Seq(BlockFrames \cup LoopFrames) /\ Len(frames) \in Nat \ {0} /\ frames # <<>>
    BY <1>10, RunningStack DEF BlockEnd
  <2>2. BlockFallsThrough(Top.block)
    <3>1. Top.block \in Seq(Statements) /\ Top.next \in Nat \ {0} /\ Top.next > Len(Top.block)
      BY <1>10, <2>1, RunningStack, FrameShape DEF BlockEnd
    <3>2. Passed(Top, Top.next)
      BY <2>1 DEF Stacked
    <3>3. QED
      BY <3>1, <3>2, BlockFallsThroughIn DEF Passed
  <2>3. CASE Len(frames) = 1
    BY <1>10, <2>3 DEF BlockEnd, Stop
  <2>4. CASE Len(frames) # 1
    <3>1. Continue(Tail(frames)) /\ UNCHANGED val
      BY <1>10, <2>4 DEF BlockEnd
    <3>2. 2 \in 2 .. Len(frames)
      <4>1. \A n \in Nat \ {0} : n # 1 => 2 \in 2 .. n
        OBVIOUS
      <4>2. QED
        BY <2>1, <2>4, <4>1, Zenon
    <3>3. ASSUME frames[2].k = "block" PROVE Tells(val, frames[2].block, {frames[2].next - 1})
      <4>1. Tells(val, frames[2].block, DueBelow(frames[1], frames[2]))
        BY <1>0, <3>2, <3>3 DEF SoundBelow
      <4>2. AfterToo(frames[1])
        BY <2>1, <2>2 DEF AfterToo
      <4>3. {frames[2].next - 1} \subseteq DueBelow(frames[1], frames[2])
        BY <4>2 DEF DueBelow
      <4>4. QED
        BY <4>1, <4>3 DEF Tells
    <3>4. Sound(SubSeq(frames, 2, Len(frames)), val)
      BY <1>0, <2>1, <3>2, <3>3, SoundPopped
    <3>5. Tail(frames) = SubSeq(frames, 2, Len(frames))
      BY <2>1, TailOfFrames
    <3>6. QED
      BY <3>1, <3>4, <3>5 DEF Continue
  <2>5. QED
    BY <2>3, <2>4
<1>11. QED
  BY <1>1, <1>2, <1>3, <1>4, <1>5, <1>6, <1>7, <1>8, <1>9, <1>10 DEF Next

LEMMA FactsInit ==
  ASSUME Init
  PROVE  FactsTold /\ ConfinedNeverReadsNull
<1>1. prog \in Seq(Statements) /\ Accepted(prog)
  BY ProgramsAssumption DEF Init, AcceptedPrograms, Blocks
<1>2. ConfinedNeverReadsNull
  BY DEF Init, ConfinedNeverReadsNull
<1>3. ASSUME Confined(prog) PROVE Sound(frames, val)
  <2>1. PICK C : C = NewChecker
    OBVIOUS
  <2>2. C \in Checkers /\ C.narrows = <<>>
    BY <2>1 DEF NewChecker, Checkers
  <2>3. Checks(CheckStmt, prog)
    BY <1>1, CheckStmtChecks
  <2>4. CheckBlock(CheckStmt, C, prog).ok
    BY <1>1, <2>1 DEF Accepted
  <2>5. CheckStmts(CheckStmt, C, prog).ok
    BY <2>2, <2>3, <2>4, BlockBack
  <2>6. Values(C) = {}
    BY <2>2 DEF Values, EffectiveType
  <2>7. Known(val, C) /\ Values(C) \subseteq {} /\ {} \in SUBSET Vars
    BY <2>6 DEF Known
  <2>8. ConfinedIn(StmtConfined, prog, {})
    BY <1>3 DEF Confined
  <2>9. PICK t, outer : Accounted(t, outer, prog) /\ Known(val, t[0])
    BY <1>1, <2>2, <2>5, <2>7, <2>8, Starting DEF Starts
  <2>10. PICK f : f = BlockFrame(prog)
    OBVIOUS
  <2>11. f.k = "block" /\ f.block = prog /\ f.next = 1 /\ f.next - 1 = 0
    BY <2>10 DEF BlockFrame
  <2>12. frames = <<f>> /\ frames[1] = f /\ Len(frames) = 1
    BY <2>10 DEF Init
  <2>13. \A m \in {f.next - 1} : Known(val, t[m])
    BY <2>9, <2>11
  <2>14. Tells(val, f.block, {f.next - 1})
    BY <2>9, <2>11, <2>13 DEF Tells
  <2>15. SoundBelow(frames, val)
    BY <2>12 DEF SoundBelow
  <2>16. QED
    BY <2>12, <2>14, <2>15 DEF Sound
<1>4. QED
  BY <1>2, <1>3 DEF FactsTold

(* What the overlay holds of a variable is true wherever it is used: no        *)
(* confined program reads a null as a T.                                      *)
THEOREM NoNullIsRead == Spec => []ConfinedNeverReadsNull
<1>1. FactsInv /\ [Next]_vars => FactsInv'
  <2> SUFFICES ASSUME FactsInv, [Next]_vars PROVE FactsInv'
    OBVIOUS
  <2>1. CASE Next
    <3>1. FlowInv'
      BY <2>1, FlowNext DEF FactsInv
    <3>2. prog' = prog
      BY <2>1 DEF Next, LowerName, LowerAssign, LowerIf, LowerBlock, EnterLoop, LoopHeader,
                  LowerBreak, LowerContinue, LowerReturn, BlockEnd, Stop, Continue
    <3>3. outcome = "running"
      BY <2>1 DEF Next, LowerName, LowerAssign, LowerIf, LowerBlock, EnterLoop, LoopHeader,
                  LowerBreak, LowerContinue, LowerReturn, BlockEnd, AtStmt, AtLoop
    <3>4. Confined(prog) => outcome' # "nullRead" /\ (outcome' = "running" => Sound(frames', val'))
      BY <2>1, <3>3, FactsStep DEF FactsInv, FactsTold
    <3>5. FactsTold' /\ ConfinedNeverReadsNull'
      BY <3>2, <3>4 DEF FactsTold, ConfinedNeverReadsNull
    <3>6. QED
      BY <3>1, <3>5 DEF FactsInv
  <2>2. CASE UNCHANGED vars
    BY <2>2 DEF vars, FactsInv, FlowInv, TypeOK, FactsTold, ConfinedNeverReadsNull
  <2>3. QED
    BY <2>1, <2>2
<1>2. Init => FactsInv
  BY FlowInit, FactsInit DEF FactsInv
<1>3. FactsInv => ConfinedNeverReadsNull
  BY DEF FactsInv
<1>4. QED
  BY <1>1, <1>2, <1>3, PTL DEF Spec

=============================================================================
