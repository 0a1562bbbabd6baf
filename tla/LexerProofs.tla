---------------------------- MODULE LexerProofs ----------------------------
(***************************************************************************)
(* Proofs about Lexer, for every set of texts, of words and of letters,    *)
(* and every width of an int.                                              *)
(***************************************************************************)
EXTENDS Lexer, SequenceTheorems, FiniteSetTheorems, WellFoundedInduction, TLAPS

-----------------------------------------------------------------------------
(* Numbers and sequences.                                                  *)

(* Any set of natural numbers with an element has a least one.             *)
LEMMA LeastElement ==
  ASSUME NEW T \in SUBSET Nat, T # {}
  PROVE  \E x \in T : \A y \in T : x <= y
<1> DEFINE R == {p \in Nat \X Nat : p[1] < p[2]}
<1>1. IsWellFoundedOn(R, Nat)
  BY NatLessThanWellFounded DEF OpToRel
<1>2. \A x, y \in Nat : <<y, x>> \notin R => x <= y
  OBVIOUS
<1> HIDE DEF R
<1>3. PICK x \in T : \A y \in T : ~(<<y, x>> \in R)
  BY <1>1, WFMin
<1>4. QED
  BY <1>2, <1>3

IsSeq(s) == \E S : s \in Seq(S)

(* What Append makes of a sequence, whatever is appended.                  *)
LEMMA AppendSeq ==
  ASSUME NEW s, IsSeq(s), NEW t
  PROVE  /\ IsSeq(Append(s, t))
         /\ Len(s) \in Nat /\ Len(Append(s, t)) = Len(s) + 1
         /\ DOMAIN s = 1 .. Len(s) /\ DOMAIN Append(s, t) = 1 .. Len(s) + 1
         /\ \A i \in 1 .. Len(s) : Append(s, t)[i] = s[i]
         /\ Append(s, t)[Len(s) + 1] = t
<1>1. PICK S : s \in Seq(S)
  BY DEF IsSeq
<1>2. s \in Seq(S \cup {t}) /\ t \in S \cup {t}
  BY <1>1
<1>3. Append(s, t) \in Seq(S \cup {t})
  BY <1>2
<1>4. QED
  BY <1>2, <1>3 DEF IsSeq

(* What Front makes of a sequence that is not empty.                       *)
LEMMA FrontSeq ==
  ASSUME NEW s, IsSeq(s), Len(s) > 0
  PROVE  /\ IsSeq(Front(s)) /\ Len(Front(s)) = Len(s) - 1
         /\ DOMAIN Front(s) = 1 .. Len(s) - 1
         /\ \A i \in 1 .. Len(s) - 1 : Front(s)[i] = s[i]
<1>1. PICK S : s \in Seq(S)
  BY DEF IsSeq
<1>2. /\ Front(s) \in Seq(S) /\ Len(Front(s)) = Len(s) - 1
      /\ \A i \in 1 .. Len(s) - 1 : Front(s)[i] = s[i]
  <2>1. Len(s) \in Nat /\ \A i \in 1 .. Len(s) - 1 : s[i] \in S
    BY <1>1
  <2>2. Front(s) = SubSeq(s, 1, Len(s) - 1)
    BY Zenon DEF Front
  <2>3. /\ SubSeq(s, 1, Len(s) - 1) \in Seq(S)
        /\ Len(SubSeq(s, 1, Len(s) - 1)) = IF 1 <= Len(s) - 1 THEN Len(s) - 1 - 1 + 1 ELSE 0
        /\ \A i \in 1 .. Len(s) - 1 - 1 + 1 : SubSeq(s, 1, Len(s) - 1)[i] = s[1 + i - 1]
    <3>1. PICK n \in Int : n = Len(s) - 1
      BY <2>1
    <3>2. QED
      BY <2>1, <3>1, SubSeqProperties
  <2> DEFINE F == SubSeq(s, 1, Len(s) - 1)
  <2>4. /\ Front(s) = F /\ F \in Seq(S)
        /\ Len(F) = IF 1 <= Len(s) - 1 THEN Len(s) - 1 - 1 + 1 ELSE 0
        /\ \A i \in 1 .. Len(s) - 1 - 1 + 1 : F[i] = s[1 + i - 1]
    BY <2>2, <2>3
  <2> HIDE DEF F
  <2>5. PICK n \in Nat : n = Len(s) - 1
    BY <2>1
  <2>6. Len(F) = n /\ \A i \in 1 .. n : F[i] = s[i]
    BY <2>4, <2>5
  <2>7. QED
    BY <2>4, <2>5, <2>6, Zenon
<1>3. QED
  BY <1>1, <1>2 DEF IsSeq

-----------------------------------------------------------------------------
(* The fold of Open over the tokens is what the tokens do one by one.      *)

Opened(tokens) == FoldLeft(Open, Bottom, tokens)

(* f holds the stacks after each token.                                    *)
Traced(f, tokens) ==
  f[0] = Bottom /\ \A i \in 1 .. Len(tokens) : f[i] = Open(f[i - 1], tokens[i])

(* The fold of the library is such a trace's last stack.                   *)
LEMMA FoldIsTraced ==
  ASSUME NEW tokens, IsSeq(tokens)
  PROVE  \E f : Traced(f, tokens) /\ Opened(tokens) = f[Len(tokens)]
<1> DEFINE N == Len(tokens)
           Step(g, n) == [s \in SUBSET (1 .. n) |->
                            IF s = {} THEN Bottom
                            ELSE LET x == Max(s) IN Open(g[s \ {x}], tokens[x])]
           iter == CHOOSE g : g = Step(g, N)
<1>1. N \in Nat /\ DOMAIN tokens = 1 .. N
  BY AppendSeq
<1>2. Opened(tokens) = iter[1 .. N]
  <2>1. Opened(tokens) =
          LET fold[s \in SUBSET (DOMAIN tokens)] ==
                  IF s = {} THEN Bottom ELSE LET x == Max(s) IN Open(fold[s \ {x}], tokens[x])
          IN  fold[DOMAIN tokens]
    BY Zenon DEF Opened, FoldLeft, MapThenFoldSet
  <2>2. DOMAIN tokens = 1 .. N
    BY <1>1
  <2>3. QED
    BY <2>1, <2>2, Zenon
<1>3. ASSUME NEW n \in Nat, NEW s \in SUBSET (1 .. n), n \in s PROVE Max(s) = n
  <2>1. n \in s /\ \A y \in s : n >= y
    BY <1>3
  <2>2. \A x \in s : (\A y \in s : x >= y) => x = n
    BY <1>3
  <2>3. QED
    BY <2>1, <2>2 DEF Max
<1>4. \A n \in Nat : \E g : g = Step(g, n)
  <2> DEFINE Bad == {n \in Nat : ~ \E g : g = Step(g, n)}
  <2>1. SUFFICES ASSUME Bad # {} PROVE FALSE
    OBVIOUS
  <2>2. PICK n \in Bad : \A m \in Bad : n <= m
    <3>1. Bad \in SUBSET Nat
      OBVIOUS
    <3> HIDE DEF Bad
    <3>2. QED
      BY <2>1, <3>1, LeastElement
  <2>3. n # 0
    <3> DEFINE h == [s \in SUBSET (1 .. 0) |-> Bottom]
    <3>1. h = Step(h, 0)
      <4>1. \A s \in SUBSET (1 .. 0) : s = {}
        OBVIOUS
      <4>2. QED
        BY <4>1
    <3> HIDE DEF h, Step
    <3>2. QED
      BY <3>1
  <2>4. n \in Nat /\ n - 1 \in Nat /\ n - 1 \notin Bad
    <3>1. n \in Nat
      BY <2>2
    <3>2. n - 1 \in Nat /\ ~(n <= n - 1)
      BY <2>3, <3>1
    <3> HIDE DEF Bad
    <3>3. QED
      BY <2>2, <3>1, <3>2
  <2>5. PICK g : g = Step(g, n - 1)
    BY <2>4
  <2> DEFINE h == [s \in SUBSET (1 .. n) |->
                     IF n \in s THEN Open(g[s \ {n}], tokens[n]) ELSE g[s]]
  <2>6. ASSUME NEW s \in SUBSET (1 .. n)
        PROVE  h[s] = IF s = {} THEN Bottom ELSE LET x == Max(s) IN Open(h[s \ {x}], tokens[x])
    <3>1. CASE n \in s
      <4>1. Max(s) = n
        BY <1>3, <2>4, <3>1
      <4>2. h[s] = Open(g[s \ {n}], tokens[n]) /\ s \ {n} \in SUBSET (1 .. n) /\ n \notin s \ {n}
        BY <3>1
      <4>3. h[s \ {n}] = g[s \ {n}]
        BY <4>2
      <4> HIDE DEF h
      <4>4. QED
        BY <3>1, <4>1, <4>2, <4>3
    <3>2. CASE n \notin s
      <4>1. s \in SUBSET (1 .. n - 1)
        BY <2>4, <3>2
      <4>2. g[s] = IF s = {} THEN Bottom ELSE LET x == Max(s) IN Open(g[s \ {x}], tokens[x])
        <5>1. Step(g, n - 1)[s] = IF s = {} THEN Bottom ELSE LET x == Max(s) IN Open(g[s \ {x}], tokens[x])
          BY <4>1
        <5> HIDE DEF Step
        <5>2. QED
          BY <2>5, <5>1
      <4>3. h[s] = g[s] /\ \A x : h[s \ {x}] = g[s \ {x}]
        BY <3>2
      <4> HIDE DEF h
      <4>4. QED
        BY <4>2, <4>3
    <3>3. QED
      BY <3>1, <3>2
  <2>7. h = Step(h, n)
    <3>1. Step(h, n) = [s \in SUBSET (1 .. n) |-> h[s]]
      <4> HIDE DEF h
      <4>1. QED
        BY <2>6
    <3>2. QED
      BY <3>1
  <2> HIDE DEF h, Step
  <2>8. QED
    BY <2>2, <2>7
<1>5. iter = Step(iter, N)
  <2> HIDE DEF Step
  <2>1. QED
    BY <1>1, <1>4
<1> HIDE DEF iter
<1>6. ASSUME NEW s \in SUBSET (1 .. N)
      PROVE  iter[s] = IF s = {} THEN Bottom ELSE LET x == Max(s) IN Open(iter[s \ {x}], tokens[x])
  <2>1. iter[s] = Step(iter, N)[s]
    BY <1>5
  <2>2. QED
    BY <2>1
<1> HIDE DEF Step
<1> DEFINE f == [i \in 0 .. N |-> iter[1 .. i]]
<1>7. f[0] = Bottom
  <2>1. 1 .. 0 = {} /\ {} \in SUBSET (1 .. N)
    OBVIOUS
  <2>2. f[0] = iter[1 .. 0]
    BY <1>1
  <2> HIDE DEF f
  <2>3. iter[{}] = Bottom
    BY <1>6, <2>1
  <2>4. QED
    BY <2>1, <2>2, <2>3
<1>8. ASSUME NEW i \in 1 .. N PROVE f[i] = Open(f[i - 1], tokens[i])
  <2>1. /\ 1 .. i \in SUBSET (1 .. N) /\ 1 .. i # {} /\ (1 .. i) \ {i} = 1 .. i - 1
        /\ i \in Nat /\ i \in 1 .. i /\ i - 1 \in 0 .. N /\ i \in 0 .. N
    <3>1. PICK n \in Nat : n = N
      BY <1>1
    <3>2. i \in 1 .. n
      BY <3>1
    <3>3. i \in Nat /\ i \in 1 .. i /\ i - 1 \in 0 .. n /\ i \in 0 .. n
      BY <3>2
    <3>4. \A j \in 1 .. i : j \in 1 .. n
      BY <3>2
    <3>5. \A j : j \in (1 .. i) \ {i} <=> j \in 1 .. i - 1
      BY <3>3
    <3>6. QED
      BY <3>1, <3>3, <3>4, <3>5
  <2>2. Max(1 .. i) = i
    BY <1>3, <2>1
  <2>3. iter[1 .. i] = Open(iter[1 .. i - 1], tokens[i])
    <3>1. PICK s \in SUBSET (1 .. N) : s = 1 .. i
      BY <2>1
    <3>2. QED
      BY <1>6, <2>1, <2>2, <3>1
  <2>4. f[i] = iter[1 .. i] /\ f[i - 1] = iter[1 .. i - 1]
    BY <2>1
  <2> HIDE DEF f
  <2>5. QED
    BY <2>3, <2>4
<1>9. f[N] = iter[1 .. N]
  BY <1>1
<1> HIDE DEF f
<1>10. QED
  BY <1>2, <1>7, <1>8, <1>9 DEF Traced

(* Two traces that start with the same tokens agree on them.               *)
LEMMA TracesAgree ==
  ASSUME NEW n \in Nat, NEW f, NEW g, NEW s, NEW t, f[0] = g[0],
         \A i \in 1 .. n : s[i] = t[i] /\ f[i] = Open(f[i - 1], s[i]) /\ g[i] = Open(g[i - 1], t[i])
  PROVE  f[n] = g[n]
<1> DEFINE Bad == {i \in 0 .. n : f[i] # g[i]}
<1>1. SUFFICES ASSUME Bad # {} PROVE FALSE
  OBVIOUS
<1>2. PICK i \in Bad : \A j \in Bad : i <= j
  <2>1. Bad \in SUBSET Nat
    OBVIOUS
  <2> HIDE DEF Bad
  <2>2. QED
    BY <1>1, <2>1, LeastElement
<1>3. i # 0 /\ i \in 1 .. n /\ i - 1 \in 0 .. n /\ i - 1 \notin Bad
  BY <1>2
<1>4. f[i - 1] = g[i - 1]
  BY <1>3
<1>5. f[i] = g[i]
  BY <1>3, <1>4
<1>6. QED
  BY <1>2, <1>5

(* One more token opens or closes what Open says.                          *)
LEMMA OpenedAppend ==
  ASSUME NEW tokens, IsSeq(tokens), NEW tok
  PROVE  Opened(Append(tokens, tok)) = Open(Opened(tokens), tok)
<1> DEFINE more == Append(tokens, tok)
<1>1. /\ IsSeq(more) /\ Len(tokens) \in Nat /\ Len(more) = Len(tokens) + 1
      /\ \A i \in 1 .. Len(tokens) : more[i] = tokens[i]
      /\ more[Len(tokens) + 1] = tok
  BY AppendSeq
<1> HIDE DEF more
<1>2. PICK f : Traced(f, tokens) /\ Opened(tokens) = f[Len(tokens)]
  BY FoldIsTraced
<1>3. PICK g : Traced(g, more) /\ Opened(more) = g[Len(more)]
  BY <1>1, FoldIsTraced
<1>4. PICK n \in Nat : n = Len(tokens)
  BY <1>1
<1>5. f[n] = g[n]
  <2>1. \A i \in 1 .. n : more[i] = tokens[i] /\ g[i] = Open(g[i - 1], more[i]) /\ f[i] = Open(f[i - 1], tokens[i])
    BY <1>1, <1>2, <1>3, <1>4 DEF Traced
  <2>2. f[0] = g[0]
    BY <1>2, <1>3 DEF Traced
  <2>3. QED
    BY <2>1, <2>2, TracesAgree
<1>6. g[n + 1] = Open(g[n], tok)
  <2>1. n + 1 \in 1 .. Len(more) /\ n + 1 - 1 = n /\ more[n + 1] = tok
    BY <1>1, <1>4
  <2>2. QED
    BY <1>3, <2>1 DEF Traced
<1>7. Opened(Append(tokens, tok)) = Opened(more)
  BY DEF more
<1>8. QED
  BY <1>1, <1>2, <1>3, <1>4, <1>5, <1>6, <1>7

(* No token has opened anything yet.                                       *)
LEMMA OpenedNothing == Opened(<<>>) = Bottom
<1>1. <<>> \in Seq({}) /\ Len(<<>>) = 0
  OBVIOUS
<1>2. IsSeq(<<>>)
  BY <1>1 DEF IsSeq
<1>3. PICK f : Traced(f, <<>>) /\ Opened(<<>>) = f[Len(<<>>)]
  BY <1>2, FoldIsTraced
<1>4. QED
  BY <1>1, <1>3 DEF Traced

-----------------------------------------------------------------------------
(* Characters.                                                             *)

(* The terminator is none of the characters the lexer looks for.           *)
LEMMA Terminator ==
  /\ NUL \notin SimpleEscapes /\ NUL # "x" /\ NUL # "u" /\ NUL # "o" /\ NUL # "b" /\ NUL # "f"
  /\ NUL # LBRACE /\ NUL # RBRACE /\ NUL # QUOTE /\ NUL # "/" /\ NUL # "*" /\ NUL # "0" /\ NUL # NL
<1>1. NUL # QUOTE /\ NUL # BSLASH /\ NUL # "n" /\ NUL # "r" /\ NUL # "t" /\ NUL # "0"
  BY Zenon DEF NUL, QUOTE, BSLASH
<1>2. NUL # LBRACE /\ NUL # RBRACE /\ NUL # NL
  BY Zenon DEF NUL, LBRACE, RBRACE, NL
<1>3. NUL # "x" /\ NUL # "u" /\ NUL # "o" /\ NUL # "b" /\ NUL # "f" /\ NUL # "/" /\ NUL # "*"
  BY Zenon DEF NUL
<1>4. QED
  BY <1>1, <1>2, <1>3, Zenon DEF SimpleEscapes

(* The two braces and the quote are different characters.                  *)
LEMMA Marks == LBRACE # RBRACE /\ QUOTE # LBRACE /\ QUOTE # RBRACE /\ NL # LBRACE /\ NL # RBRACE
  BY Zenon DEF LBRACE, RBRACE, QUOTE, NL

(* What is not the terminator is inside the text.                          *)
LEMMA CharInside ==
  ASSUME Len(text) \in Nat, NEW i \in Nat, Char(text, i) # NUL
  PROVE  i + 1 <= Len(text)
  BY DEF Char

(* The digits of digit_value are characters of the text.                   *)
LEMMA DigitInside ==
  ASSUME NEW base, NEW c, DigitValue(c, base) # -1
  PROVE  c # NUL
<1>1. DOMAIN DigitNumber = Digit \cup HexLetter
  BY DEF DigitNumber
<1>2. c \in Digit \cup HexLetter
  BY <1>1 DEF DigitValue
<1>3. PICK i \in 1 .. 22 : c = DigitChars[i]
  BY <1>2 DEF Digit, HexLetter
<1>4. /\ DigitChars[1] # NUL /\ DigitChars[2] # NUL /\ DigitChars[3] # NUL /\ DigitChars[4] # NUL
      /\ DigitChars[5] # NUL /\ DigitChars[6] # NUL /\ DigitChars[7] # NUL /\ DigitChars[8] # NUL
      /\ DigitChars[9] # NUL /\ DigitChars[10] # NUL /\ DigitChars[11] # NUL /\ DigitChars[12] # NUL
      /\ DigitChars[13] # NUL /\ DigitChars[14] # NUL /\ DigitChars[15] # NUL /\ DigitChars[16] # NUL
      /\ DigitChars[17] # NUL /\ DigitChars[18] # NUL /\ DigitChars[19] # NUL /\ DigitChars[20] # NUL
      /\ DigitChars[21] # NUL /\ DigitChars[22] # NUL
  BY DEF DigitChars, NUL
<1>5. QED
  BY <1>3, <1>4

-----------------------------------------------------------------------------
(* Loops over characters end inside the text.                              *)

(* A search from p on for the first place where P holds, if it holds at    *)
(* the end of the text.                                                    *)
LEMMA FirstPlace ==
  ASSUME Len(text) \in Nat, NEW p \in 0 .. Len(text), NEW S, Len(text) \in S
  PROVE  \E q \in p .. Len(text) : q \in S /\ \A r \in p .. q - 1 : r \notin S
<1> DEFINE T == {q \in p .. Len(text) : q \in S}
<1>1. T \in SUBSET Nat /\ T # {}
  BY SMT
<1>2. PICK q \in T : \A r \in T : q <= r
  <2> HIDE DEF T
  <2>1. QED
    BY <1>1, LeastElement
<1>3. ASSUME NEW r \in p .. q - 1 PROVE r \notin S
  BY <1>2
<1>4. QED
  BY <1>2, <1>3

(* The loops of the code over a class of characters.                       *)
LEMMA RunEndInside ==
  ASSUME Len(text) \in Nat, NEW p \in 0 .. Len(text), NEW S
  PROVE  /\ RunEnd(p, S) \in p .. Len(text)
         /\ RunEnd(p, S) = Len(text) \/ Char(text, RunEnd(p, S)) \notin S
<1> DEFINE Ends == {q \in 0 .. Len(text) : q = Len(text) \/ Char(text, q) \notin S}
           Ok(q) == /\ \A r \in p .. q - 1 : Char(text, r) \in S
                    /\ q = Len(text) \/ Char(text, q) \notin S
<1>1. Len(text) \in Ends
  BY SMT
<1>2. PICK q \in p .. Len(text) : q \in Ends /\ \A r \in p .. q - 1 : r \notin Ends
  <2> HIDE DEF Ends
  <2>1. QED
    BY <1>1, FirstPlace
<1>3. \A r \in p .. q - 1 : r \in 0 .. Len(text)
  BY <1>2
<1>4. Ok(q)
  BY <1>2, <1>3
<1>5. RunEnd(p, S) = CHOOSE x \in p .. Len(text) : Ok(x)
  BY Zenon DEF RunEnd
<1>6. RunEnd(p, S) \in p .. Len(text) /\ Ok(RunEnd(p, S))
  <2> HIDE DEF Ok
  <2>1. QED
    BY <1>4, <1>5, Zenon
<1>7. QED
  BY <1>6

(* The digits of a code point end inside the text, too large or not.       *)
LEMMA CodePointInside ==
  ASSUME Len(text) \in Nat, NEW p \in 0 .. Len(text)
  PROVE  CodePoint(p).at \in p .. Len(text)
<1> DEFINE value[q \in p .. Len(text)] ==
             IF q = p THEN 0 ELSE value[q - 1] * 16 + DigitValue(Char(text, q - 1), 16)
           goesOn(q) == DigitValue(Char(text, q), 16) >= 0 /\ value[q] <= LastCodePoint
           Ok(q) == ~goesOn(q) /\ \A r \in p .. q - 1 : goesOn(r)
           Ends == {q \in 0 .. Len(text) : ~goesOn(q)}
<1>1. CodePoint(p).at = CHOOSE q \in p .. Len(text) : Ok(q)
  BY Zenon DEF CodePoint
<1> HIDE DEF value
<1>2. ~goesOn(Len(text))
  <2>1. Char(text, Len(text)) = NUL
    BY DEF Char
  <2>2. DigitValue(NUL, 16) = -1
    BY DigitInside
  <2>3. QED
    BY <2>1, <2>2
<1> HIDE DEF goesOn
<1>3. Len(text) \in Ends
  BY <1>2, SMT
<1>4. PICK q \in p .. Len(text) : q \in Ends /\ \A r \in p .. q - 1 : r \notin Ends
  <2> HIDE DEF Ends
  <2>1. QED
    BY <1>3, FirstPlace
<1>5. \A r \in p .. q - 1 : r \in 0 .. Len(text)
  BY <1>4
<1>6. Ok(q)
  BY <1>4, <1>5
<1> HIDE DEF Ok
<1>7. QED
  BY <1>1, <1>6, Zenon

(* An escape goes on behind its backslash and inside the text, and so does *)
(* the error it may report.                                                *)
Inside(r) == /\ r.at \in pos + 1 .. Len(text)
             /\ r.bad = -1 \/ r.bad \in pos + 1 .. Len(text)

LEMMA ReadInside ==
  ASSUME NEW p \in pos + 1 .. Len(text), NEW b
  PROVE  Inside(Read(p, b)) /\ Inside(Refuse(p))
  BY DEF Inside, Read, Refuse

LEMMA HexEscapeInside ==
  ASSUME Len(text) \in Nat, pos \in Nat, pos + 2 <= Len(text)
  PROVE  Inside(HexEscape(pos + 2))
<1>1. PICK p \in Nat : p = pos + 2
  OBVIOUS
<1> DEFINE hi  == DigitValue(Char(text, p), 16)
           low == DigitValue(Char(text, p + 1), 16)
<1>2. HexEscape(p) = IF hi < 0 \/ low < 0 THEN Refuse(p) ELSE Read(p + 2, <<hi * 16 + low>>)
  BY DEF HexEscape
<1>3. CASE hi < 0 \/ low < 0
  <2>1. HexEscape(p) = Refuse(p)
    BY <1>2, <1>3
  <2>2. p \in pos + 1 .. Len(text)
    BY <1>1
  <2>3. QED
    BY <1>1, <2>1, <2>2, ReadInside
<1>4. CASE ~(hi < 0 \/ low < 0)
  <2>1. PICK b : b = <<hi * 16 + low>>
    OBVIOUS
  <2>2. HexEscape(p) = Read(p + 2, b)
    BY <1>2, <1>4, <2>1
  <2>3. low # -1
    BY <1>4
  <2>4. Char(text, p + 1) # NUL
    BY <2>3, DigitInside
  <2>5. PICK i \in Nat : i = p + 1
    BY <1>1
  <2>6. i + 1 <= Len(text)
    BY <2>4, <2>5, CharInside
  <2>7. p + 2 \in pos + 1 .. Len(text)
    BY <1>1, <2>5, <2>6
  <2>8. QED
    BY <1>1, <2>2, <2>7, ReadInside
<1>5. QED
  BY <1>3, <1>4

LEMMA PointEscapeInside ==
  ASSUME Len(text) \in Nat, pos \in Nat, pos + 2 <= Len(text)
  PROVE  Inside(PointEscape(pos + 2))
<1>1. PICK p \in Nat : p = pos + 2
  OBVIOUS
<1> DEFINE u == CodePoint(p + 1)
           Wrong == \/ Char(text, u.at) # RBRACE \/ u.at = p + 1
                    \/ u.cp > LastCodePoint \/ u.cp \in 55296 .. 57343
<1>2. PointEscape(p) = IF Char(text, p) # LBRACE THEN Refuse(p)
                       ELSE IF Wrong THEN Refuse(u.at) ELSE Read(u.at + 1, PutUtf8(u.cp))
  BY DEF PointEscape
<1>3. CASE Char(text, p) # LBRACE
  <2>1. PointEscape(p) = Refuse(p)
    BY <1>2, <1>3
  <2>2. p \in pos + 1 .. Len(text)
    BY <1>1
  <2>3. QED
    BY <1>1, <2>1, <2>2, ReadInside
<1>4. CASE Char(text, p) = LBRACE
  <2>1. p + 1 \in 0 .. Len(text)
    BY <1>1, <1>4, CharInside, Terminator
  <2>2. u.at \in p + 1 .. Len(text)
    <3>1. PICK q \in 0 .. Len(text) : q = p + 1
      BY <2>1
    <3>2. QED
      BY <3>1, CodePointInside
  <2>3. PICK at \in Nat : at = u.at /\ at \in pos + 1 .. Len(text)
    BY <1>1, <2>2
  <2>4. CASE Wrong
    <3>1. PointEscape(p) = Refuse(at)
      BY <1>2, <1>4, <2>3, <2>4
    <3>2. QED
      BY <1>1, <2>3, <3>1, ReadInside
  <2>5. CASE ~Wrong
    <3>1. PICK b : b = PutUtf8(u.cp)
      OBVIOUS
    <3>2. PointEscape(p) = Read(at + 1, b)
      BY <1>2, <1>4, <2>3, <2>5, <3>1
    <3>3. Char(text, at) # NUL
      BY <2>3, <2>5, Terminator
    <3>4. at + 1 \in pos + 1 .. Len(text)
      BY <2>3, <3>3, CharInside
    <3>5. QED
      BY <1>1, <3>2, <3>4, ReadInside
  <2>6. QED
    BY <2>4, <2>5
<1>5. QED
  BY <1>3, <1>4

LEMMA EscapeInside ==
  ASSUME Len(text) \in Nat, pos \in 0 .. Len(text), ~AtEnd
  PROVE  Inside(Escape)
<1>1. pos \in Nat /\ pos + 1 \in pos + 1 .. Len(text)
  BY DEF AtEnd
<1>2. Peek(1) # NUL => pos + 2 \in pos + 1 .. Len(text)
  <2>1. PICK i \in Nat : i = pos + 1
    BY <1>1
  <2>2. Peek(1) # NUL => i + 1 <= Len(text)
    BY <2>1, CharInside DEF Peek
  <2>3. QED
    BY <1>1, <2>1, <2>2
<1>3. Peek(1) # NUL => /\ \A b : Inside(Read(pos + 2, b))
                       /\ Inside(Refuse(pos + 2)) /\ Inside(HexEscape(pos + 2)) /\ Inside(PointEscape(pos + 2))
  <2>1. SUFFICES ASSUME Peek(1) # NUL
                 PROVE  /\ \A b : Inside(Read(pos + 2, b))
                        /\ Inside(Refuse(pos + 2)) /\ Inside(HexEscape(pos + 2)) /\ Inside(PointEscape(pos + 2))
    OBVIOUS
  <2>2. pos + 2 \in pos + 1 .. Len(text) /\ pos + 2 <= Len(text)
    BY <1>1, <1>2, <2>1
  <2>3. Inside(HexEscape(pos + 2)) /\ Inside(PointEscape(pos + 2))
    BY <1>1, <2>2, HexEscapeInside, PointEscapeInside
  <2>4. ASSUME NEW b PROVE Inside(Read(pos + 2, b)) /\ Inside(Refuse(pos + 2))
    BY <2>2, ReadInside
  <2>5. QED
    BY <2>3, <2>4
<1>4. Inside(Refuse(pos + 1))
  BY <1>1, ReadInside
<1>5. /\ \A c \in SimpleEscapes : c # NUL
      /\ "x" # NUL /\ "u" # NUL
  BY Terminator
<1>6. Peek(1) \notin {NL, NUL} => Peek(1) # NUL
  OBVIOUS
<1>7. QED
  BY <1>3, <1>4, <1>5, <1>6, Zenon DEF Escape

-----------------------------------------------------------------------------
(* Operators.                                                              *)

(* A brace is an operator by itself and starts no other.                   *)
OpShape(op) ==
  \/ op = <<LBRACE>> \/ op = <<RBRACE>>
  \/ \E a : /\ a # LBRACE /\ a # RBRACE
            /\ op = <<a>> \/ (\E b : op = <<a, b>>) \/ (\E b, c : op = <<a, b, c>>)

LEMMA OpsShape == \A i \in DOMAIN Ops : OpShape(Ops[i])
<1> DEFINE One(i) == Ops[i] = <<LBRACE>> \/ Ops[i] = <<RBRACE>> \/ \E a : a # LBRACE /\ a # RBRACE /\ Ops[i] = <<a>>
           Two(i) == \E a, b : a # LBRACE /\ a # RBRACE /\ Ops[i] = <<a, b>>
<1>1. \E a, b, c : a # LBRACE /\ a # RBRACE /\ Ops[1] = <<a, b, c>>
  BY Zenon DEF Ops, LBRACE, RBRACE
<1>2. Two(2) /\ Two(3) /\ Two(4) /\ Two(5) /\ Two(6) /\ Two(7)
      /\ Two(8) /\ Two(9) /\ Two(10) /\ Two(11) /\ Two(12) /\ Two(13)
      /\ Two(14) /\ Two(15) /\ Two(16) /\ Two(17) /\ Two(18)
  BY Zenon DEF Ops, LBRACE, RBRACE
<1>3. One(19) /\ One(20) /\ One(21) /\ One(22) /\ One(23) /\ One(24)
      /\ One(25) /\ One(26) /\ One(27) /\ One(28) /\ One(29) /\ One(30)
      /\ One(31) /\ One(32) /\ One(33) /\ One(34) /\ One(35) /\ One(36)
      /\ One(37) /\ One(38) /\ One(39) /\ One(40) /\ One(41) /\ One(42)
  BY Zenon DEF Ops, LBRACE, RBRACE
<1>4. DOMAIN Ops = 1 .. 42
  BY SMT DEF Ops
<1> DEFINE P(i) == OpShape(Ops[i])
<1>5. \A i : One(i) \/ Two(i) => P(i)
  BY Zenon DEF OpShape
<1>6. P(1)
  BY <1>1, Zenon DEF OpShape
<1> HIDE DEF P, One, Two
<1>7. \A i \in 1 .. 42 : P(i)
  <2>1. \A i \in 2 .. 18 : Two(i)
    BY <1>2
  <2>2. \A i \in 19 .. 42 : One(i)
    BY <1>3
  <2>3. QED
    BY <1>5, <1>6, <2>1, <2>2
<1>8. QED
  BY <1>4, <1>7, Zenon DEF P

-----------------------------------------------------------------------------
(* The stack of modes.                                                     *)

Frame == [mode : Modes, braces : Nat]
Fresh(m) == [mode |-> m, braces |-> 0]

(* The code's modes: NORMAL at the bottom and nowhere else.                *)
StackOK(stack) ==
  /\ stack \in Seq(Frame) /\ Len(stack) > 0
  /\ \A i \in 1 .. Len(stack) : stack[i].mode = "NORMAL" <=> i = 1

(* The stack with n more braces open in its last expression.               *)
Braced(stack, n) ==
  IF Last(stack).mode # "FSTR_EXPR" THEN stack
  ELSE [stack EXCEPT ![Len(stack)].braces = @ + n]

LEMMA StackFacts ==
  ASSUME NEW stack, StackOK(stack)
  PROVE  /\ IsSeq(stack) /\ Len(stack) \in Nat /\ stack # <<>>
         /\ Last(stack) \in Frame /\ Last(stack).mode \in Modes /\ Last(stack).braces \in Nat
         /\ Last(stack).mode # "NORMAL" <=> Len(stack) > 1
<1>1. stack \in Seq(Frame) /\ Len(stack) \in Nat /\ Len(stack) \in 1 .. Len(stack)
  BY DEF StackOK
<1>2. stack[Len(stack)] \in Frame
  BY <1>1
<1>3. Last(stack) = stack[Len(stack)]
  BY DEF Last
<1>4. stack[Len(stack)].mode = "NORMAL" <=> Len(stack) = 1
  BY <1>1 DEF StackOK
<1>5. IsSeq(stack) /\ stack # <<>>
  BY <1>1 DEF IsSeq
<1>6. Last(stack) \in Frame /\ (Last(stack).mode # "NORMAL" <=> Len(stack) > 1)
  <2>1. PICK n \in Nat : n = Len(stack) /\ n > 0
    BY <1>1
  <2>2. n = 1 <=> ~(n > 1)
    BY <2>1
  <2>3. QED
    BY <1>2, <1>3, <1>4, <2>1, <2>2
<1>7. QED
  BY <1>1, <1>5, <1>6 DEF Frame

LEMMA StackPushed ==
  ASSUME NEW stack, StackOK(stack), NEW m \in {"FSTR_TEXT", "FSTR_EXPR"}
  PROVE  /\ StackOK(Append(stack, Fresh(m)))
         /\ Last(Append(stack, Fresh(m))) = Fresh(m) /\ Fresh(m).mode = m
<1> DEFINE more == Append(stack, Fresh(m))
<1>1. Fresh(m) \in Frame /\ Fresh(m).mode = m /\ m # "NORMAL"
  BY DEF Fresh, Frame, Modes
<1>2. more \in Seq(Frame)
  BY <1>1 DEF StackOK
<1>3. /\ Len(stack) \in Nat /\ Len(more) = Len(stack) + 1
      /\ \A i \in 1 .. Len(stack) : more[i] = stack[i]
      /\ more[Len(stack) + 1] = Fresh(m)
  BY StackFacts, AppendSeq
<1> HIDE DEF more
<1>4. \A i \in 1 .. Len(more) : more[i].mode = "NORMAL" <=> i = 1
  BY <1>1, <1>3 DEF StackOK
<1>5. StackOK(more) /\ Last(more) = Fresh(m)
  BY <1>2, <1>3, <1>4 DEF StackOK, Last
<1>6. QED
  BY <1>1, <1>5 DEF more

LEMMA StackPopped ==
  ASSUME NEW stack, StackOK(stack), Len(stack) > 1
  PROVE  StackOK(Front(stack))
<1>1. /\ Len(stack) \in Nat /\ Len(Front(stack)) = Len(stack) - 1
      /\ \A i \in 1 .. Len(stack) - 1 : Front(stack)[i] = stack[i]
  BY StackFacts, FrontSeq
<1>2. Front(stack) \in Seq(Frame)
  <2>1. SubSeq(stack, 1, Len(stack) - 1) \in Seq(Frame)
    BY <1>1 DEF StackOK
  <2>2. QED
    BY <2>1, Zenon DEF Front
<1>3. QED
  BY <1>1, <1>2 DEF StackOK

LEMMA StackBraced ==
  ASSUME NEW stack, StackOK(stack), NEW n \in Int, Last(stack).braces + n >= 0
  PROVE  /\ StackOK(Braced(stack, n))
         /\ Last(Braced(stack, n)).mode = Last(stack).mode
<1>1. CASE Last(stack).mode # "FSTR_EXPR"
  BY <1>1 DEF Braced
<1>2. CASE Last(stack).mode = "FSTR_EXPR"
  <2> DEFINE L == Len(stack)
             top == [stack[L] EXCEPT !.braces = @ + n]
             new == [stack EXCEPT ![L] = top]
  <2>1. stack \in Seq(Frame) /\ L \in Nat /\ L \in 1 .. L /\ Last(stack) = stack[L]
    BY StackFacts DEF StackOK, Last
  <2>2. stack[L] \in Frame
    BY <2>1
  <2>3. top \in Frame /\ top.mode = stack[L].mode
    BY <2>1, <2>2 DEF Frame
  <2>4. Braced(stack, n) = new
    BY <1>2 DEF Braced
  <2> HIDE DEF top
  <2>5. /\ new \in Seq(Frame) /\ Len(new) = L /\ new[L] = top
        /\ \A i \in 1 .. L : i # L => new[i] = stack[i]
    BY <2>1, <2>3
  <2> HIDE DEF new
  <2>6. \A i \in 1 .. L : new[i].mode = stack[i].mode
    BY <2>1, <2>3, <2>5
  <2>7. StackOK(new) /\ Last(new) = top
    BY <2>1, <2>5, <2>6 DEF StackOK, Last
  <2>8. QED
    BY <2>1, <2>3, <2>4, <2>7
<1>3. QED
  BY <1>1, <1>2

(* Kinds of tokens that open and close nothing.                            *)
Plain == {"KW", "IDENT", "INT", "FLOAT", "STRING", "EOF"}

(* What each kind of token does to a stack where it may come.              *)
LEMMA OpenCases ==
  ASSUME NEW stack, StackOK(stack), NEW kind, NEW from, NEW to, NEW val
  PROVE  /\ Last(stack).mode = "FSTR_TEXT" =>
              /\ kind = "FSTR_TEXT" => Open(stack, Tok(kind, from, to, val)) = stack
              /\ kind = "FSTR_EXPR_START" => Open(stack, Tok(kind, from, to, val)) = Append(stack, Fresh("FSTR_EXPR"))
              /\ kind = "FSTR_END" => Open(stack, Tok(kind, from, to, val)) = Front(stack)
         /\ Last(stack).mode # "FSTR_TEXT" =>
              /\ kind \in Plain => Open(stack, Tok(kind, from, to, val)) = stack
              /\ kind = "FSTR_START" => Open(stack, Tok(kind, from, to, val)) = Append(stack, Fresh("FSTR_TEXT"))
              /\ kind = "FSTR_EXPR_END" /\ Last(stack).mode = "FSTR_EXPR" =>
                   Open(stack, Tok(kind, from, to, val)) = Front(stack)
              /\ kind = "OP" =>
                   Open(stack, Tok(kind, from, to, val)) =
                     IF val = <<LBRACE>> THEN Braced(stack, 1)
                     ELSE IF val = <<RBRACE>> THEN Braced(stack, -1) ELSE stack
<1>1. PICK tok : tok = Tok(kind, from, to, val)
  OBVIOUS
<1>2. tok.kind = kind /\ tok.val = val
  BY <1>1 DEF Tok
<1>3. stack # Misfit /\ (Last(stack).mode # "NORMAL" <=> Len(stack) > 1)
  BY StackFacts DEF Misfit
<1> DEFINE within(m) == Len(stack) > 1 /\ Last(stack).mode = m
<1>4. Open(stack, tok) =
        IF tok.kind = "FSTR_TEXT" THEN IF within("FSTR_TEXT") THEN stack ELSE Misfit
        ELSE IF tok.kind = "FSTR_EXPR_START"
             THEN IF within("FSTR_TEXT") THEN Append(stack, Fresh("FSTR_EXPR")) ELSE Misfit
        ELSE IF tok.kind = "FSTR_EXPR_END" THEN IF within("FSTR_EXPR") THEN Front(stack) ELSE Misfit
        ELSE IF tok.kind = "FSTR_END" THEN IF within("FSTR_TEXT") THEN Front(stack) ELSE Misfit
        ELSE IF within("FSTR_TEXT") THEN Misfit
        ELSE IF tok.kind = "FSTR_START" THEN Append(stack, Fresh("FSTR_TEXT"))
        ELSE IF tok.kind = "OP" /\ tok.val = <<LBRACE>> THEN Braced(stack, 1)
        ELSE IF tok.kind = "OP" /\ tok.val = <<RBRACE>> THEN Braced(stack, -1)
        ELSE stack
  BY <1>3 DEF Open, Fresh, Braced
<1>5. PICK text_, expr_, front, up, down, other :
        /\ text_ = Append(stack, Fresh("FSTR_TEXT")) /\ expr_ = Append(stack, Fresh("FSTR_EXPR"))
        /\ front = Front(stack) /\ up = Braced(stack, 1) /\ down = Braced(stack, -1) /\ other = Open(stack, tok)
  OBVIOUS
<1>6. other =
        IF kind = "FSTR_TEXT" THEN IF within("FSTR_TEXT") THEN stack ELSE Misfit
        ELSE IF kind = "FSTR_EXPR_START" THEN IF within("FSTR_TEXT") THEN expr_ ELSE Misfit
        ELSE IF kind = "FSTR_EXPR_END" THEN IF within("FSTR_EXPR") THEN front ELSE Misfit
        ELSE IF kind = "FSTR_END" THEN IF within("FSTR_TEXT") THEN front ELSE Misfit
        ELSE IF within("FSTR_TEXT") THEN Misfit
        ELSE IF kind = "FSTR_START" THEN text_
        ELSE IF kind = "OP" /\ val = <<LBRACE>> THEN up
        ELSE IF kind = "OP" /\ val = <<RBRACE>> THEN down
        ELSE stack
  BY <1>2, <1>4, <1>5, Zenon
<1>7. /\ Last(stack).mode = "FSTR_TEXT" =>
           /\ kind = "FSTR_TEXT" => other = stack
           /\ kind = "FSTR_EXPR_START" => other = expr_
           /\ kind = "FSTR_END" => other = front
      /\ Last(stack).mode # "FSTR_TEXT" =>
           /\ kind \in Plain => other = stack
           /\ kind = "FSTR_START" => other = text_
           /\ kind = "FSTR_EXPR_END" /\ Last(stack).mode = "FSTR_EXPR" => other = front
           /\ kind = "OP" => other = IF val = <<LBRACE>> THEN up ELSE IF val = <<RBRACE>> THEN down ELSE stack
  BY <1>3, <1>6 DEF Plain
<1>8. QED
  BY <1>1, <1>5, <1>7, Zenon

-----------------------------------------------------------------------------
(* Tokens and errors.                                                      *)

(* The tokens s of the text t, in order, none beyond p.                    *)
TokensUpTo(t, s, p) ==
  /\ IsSeq(s)
  /\ \A i \in 1 .. Len(s) : s[i].lo \in 0 .. Len(t) /\ s[i].hi \in s[i].lo .. p
  /\ \A i \in 2 .. Len(s) : s[i - 1].hi <= s[i].lo

ErrorsInside(t, d) ==
  /\ IsSeq(d.items)
  /\ \A i \in 1 .. Len(d.items) : d.items[i].lo \in Nat /\ d.items[i].hi \in d.items[i].lo .. Len(t)

LEMMA UpToMore ==
  ASSUME NEW t, NEW s, NEW p \in Int, NEW q \in Int, p <= q, TokensUpTo(t, s, p), Len(t) \in Nat
  PROVE  TokensUpTo(t, s, q)
<1>1. ASSUME NEW i \in 1 .. Len(s) PROVE s[i].hi \in s[i].lo .. q
  <2>1. s[i].lo \in 0 .. Len(t) /\ s[i].hi \in s[i].lo .. p
    BY DEF TokensUpTo
  <2>2. QED
    BY <2>1
<1>2. QED
  BY <1>1 DEF TokensUpTo

(* A token from where the last one ended on keeps the order.               *)
LEMMA TokenAdded ==
  ASSUME NEW t, NEW s, NEW p \in Nat, TokensUpTo(t, s, p), Len(t) \in Nat,
         NEW kind, NEW from \in p .. Len(t), NEW to \in from .. Len(t), NEW val
  PROVE  TokensUpTo(t, Append(s, Tok(kind, from, to, val)), to)
<1>1. PICK tok : tok = Tok(kind, from, to, val)
  OBVIOUS
<1>2. tok.lo = from /\ tok.hi = to /\ from \in Nat /\ to \in Nat /\ from \in 0 .. Len(t)
  BY <1>1 DEF Tok
<1>3. PICK more : more = Append(s, tok)
  OBVIOUS
<1>4. /\ IsSeq(more) /\ Len(s) \in Nat /\ Len(more) = Len(s) + 1
      /\ \A i \in 1 .. Len(s) : more[i] = s[i]
      /\ more[Len(s) + 1] = tok
  BY <1>3, AppendSeq DEF TokensUpTo
<1>5. TokensUpTo(t, s, to)
  BY <1>2, UpToMore
<1>6. ASSUME NEW i \in 1 .. Len(more) PROVE more[i].lo \in 0 .. Len(t) /\ more[i].hi \in more[i].lo .. to
  <2>1. CASE i \in 1 .. Len(s)
    BY <1>4, <1>5, <2>1 DEF TokensUpTo
  <2>2. CASE i = Len(s) + 1
    BY <1>2, <1>4, <2>2
  <2>3. QED
    BY <1>4, <2>1, <2>2
<1>7. ASSUME NEW i \in 2 .. Len(more) PROVE more[i - 1].hi <= more[i].lo
  <2>1. CASE i \in 2 .. Len(s)
    BY <1>4, <2>1 DEF TokensUpTo
  <2>2. CASE i = Len(s) + 1
    <3>1. i - 1 \in 1 .. Len(s)
      BY <1>4, <2>2
    <3>2. more[i - 1] = s[i - 1] /\ more[i] = tok
      BY <1>4, <2>2, <3>1
    <3>3. s[i - 1].lo \in 0 .. Len(t) /\ s[i - 1].hi \in s[i - 1].lo .. p
      BY <3>1 DEF TokensUpTo
    <3>4. QED
      BY <1>2, <3>2, <3>3
  <2>3. QED
    BY <1>4, <2>1, <2>2
<1>8. TokensUpTo(t, more, to)
  BY <1>4, <1>6, <1>7 DEF TokensUpTo
<1>9. QED
  BY <1>1, <1>3, <1>8

LEMMA ErrorAdded ==
  ASSUME NEW t, NEW d, ErrorsInside(t, d), Len(t) \in Nat, NEW from \in 0 .. Len(t), NEW to \in from .. Len(t)
  PROVE  ErrorsInside(t, AddError(d, from, to))
<1>1. PICK e : e = [lo |-> from, hi |-> to]
  OBVIOUS
<1>2. PICK more : more = Append(d.items, e)
  OBVIOUS
<1>3. PICK items : items = d.items
  OBVIOUS
<1>4. AddError(d, from, to).items \in {items, more}
  BY <1>1, <1>2, <1>3 DEF AddError
<1>5. /\ IsSeq(more) /\ Len(items) \in Nat /\ Len(more) = Len(items) + 1
      /\ \A i \in 1 .. Len(items) : more[i] = items[i]
      /\ more[Len(items) + 1] = e
  BY <1>2, <1>3, AppendSeq DEF ErrorsInside
<1>6. e.lo \in Nat /\ e.hi \in e.lo .. Len(t)
  BY <1>1
<1>7. \A i \in 1 .. Len(items) : items[i].lo \in Nat /\ items[i].hi \in items[i].lo .. Len(t)
  BY <1>3 DEF ErrorsInside
<1>8. \A i \in 1 .. Len(more) : more[i].lo \in Nat /\ more[i].hi \in more[i].lo .. Len(t)
  <2>1. ASSUME NEW i \in 1 .. Len(more) PROVE i \in 1 .. Len(items) \/ i = Len(items) + 1
    BY <1>5
  <2>2. QED
    BY <1>5, <1>6, <1>7, <2>1
<1>9. QED
  BY <1>3, <1>4, <1>5, <1>7, <1>8 DEF ErrorsInside

-----------------------------------------------------------------------------
(* The invariant.                                                          *)

(* Where the lexer is in its text.                                         *)
Placed ==
  /\ text \in Seq(STRING) /\ Len(text) \in Nat
  /\ pos \in 0 .. Len(text) /\ lo \in 0 .. Len(text) /\ depth \in 0 .. Len(text)
  /\ pc \in Loops

(* What each loop may rely on: f-string text is read only in its mode and  *)
(* nothing else is, a token or a string has begun inside the text, and two *)
(* characters were read for every comment that is open.                    *)
LoopOK ==
  /\ pc = "ftext" => Mode = "FSTR_TEXT" /\ lo < Len(text) /\ lo <= pos
  /\ pc \in {"trivia", "comment", "normal", "string"} => Mode # "FSTR_TEXT"
  /\ pc = "normal" => pos < Len(text)
  /\ pc = "string" => lo < pos
  /\ pc = "comment" => depth >= 1 /\ lo + 2 * depth <= pos

(* The text before it is in tokens: where a string begins while one is     *)
(* read, where the lexer stands otherwise.                                 *)
Consumed == IF pc \in {"string", "ftext"} THEN lo ELSE pos

LInv ==
  /\ Placed
  /\ LoopOK
  /\ StackOK(modes)
  /\ TokensUpTo(text, out, Consumed)
  /\ ErrorsInside(text, diags)
  /\ modes = Opened(out)

-----------------------------------------------------------------------------
(* Steps that send no token, and steps that send one.                      *)

LEMMA NothingSent ==
  ASSUME LInv, text' = text, modes' = modes, out' = out, Placed', LoopOK',
         Consumed \in Nat, Consumed' \in Nat, Consumed <= Consumed', ErrorsInside(text, diags')
  PROVE  LInv'
<1>1. TokensUpTo(text, out, Consumed') /\ StackOK(modes) /\ modes = Opened(out)
  BY UpToMore DEF LInv, Placed
<1>2. TokensUpTo(text, out, Consumed)'
  BY <1>1
<1>3. ErrorsInside(text, diags)'
  OBVIOUS
<1>4. StackOK(modes)' /\ (modes = Opened(out))'
  BY <1>1
<1>5. QED
  BY <1>2, <1>3, <1>4 DEF LInv

(* The token is sent behind the tokens of base.                            *)
LEMMA TokenSent ==
  ASSUME Len(text) \in Nat, text' = text, Placed', LoopOK', ErrorsInside(text, diags'),
         NEW base, NEW p \in Nat, TokensUpTo(text, base, p), modes = Opened(base),
         NEW kind, NEW from \in p .. Len(text), NEW to \in from .. Len(text), NEW val,
         out' = Append(base, Tok(kind, from, to, val)),
         modes' = Open(modes, Tok(kind, from, to, val)), StackOK(modes'),
         Consumed' \in Nat, to <= Consumed'
  PROVE  LInv'
<1>1. PICK tok : tok = Tok(kind, from, to, val)
  OBVIOUS
<1>2. TokensUpTo(text, Append(base, tok), to)
  BY <1>1, TokenAdded
<1>3. to \in Int /\ Consumed' \in Int
  OBVIOUS
<1>4. TokensUpTo(text, Append(base, tok), Consumed')
  BY <1>2, <1>3, UpToMore
<1>5. IsSeq(base)
  BY DEF TokensUpTo
<1>6. Opened(Append(base, tok)) = Open(modes, tok)
  BY <1>5, OpenedAppend
<1>7. TokensUpTo(text, out, Consumed)' /\ (modes = Opened(out))'
  BY <1>1, <1>4, <1>6
<1>8. ErrorsInside(text, diags)' /\ StackOK(modes)'
  OBVIOUS
<1>9. QED
  BY <1>7, <1>8 DEF LInv

-----------------------------------------------------------------------------
(* lex_source.                                                             *)

LEMMA InitInv ==
  ASSUME Init
  PROVE  LInv
<1>1. text \in Seq(STRING) /\ Len(text) \in Nat
  BY TextsAssumption DEF Init
<1>2. Placed /\ LoopOK /\ Consumed = 0
  BY <1>1 DEF Init, Placed, LoopOK, Consumed, Loops
<1>3. StackOK(Bottom)
  <2>1. Bottom \in Seq(Frame) /\ Len(Bottom) = 1 /\ Bottom[1].mode = "NORMAL"
    BY DEF Bottom, Frame, Modes
  <2>2. QED
    BY <2>1 DEF StackOK
<1>4. IsSeq(<<>>)
  <2>1. <<>> \in Seq({})
    OBVIOUS
  <2>2. QED
    BY <2>1 DEF IsSeq
<1>5. TokensUpTo(text, <<>>, 0)
  BY <1>4 DEF TokensUpTo
<1>6. ErrorsInside(text, NoDiags)
  <2>1. NoDiags.items = <<>>
    BY DEF NoDiags
  <2>2. QED
    BY <1>4, <2>1 DEF ErrorsInside
<1>7. out = <<>> /\ diags = NoDiags /\ modes = Bottom
  BY DEF Init
<1>8. QED
  BY <1>2, <1>3, <1>5, <1>6, <1>7, OpenedNothing DEF LInv

LEMMA EnterTextInv ==
  ASSUME LInv, EnterText
  PROVE  LInv'
<1> USE DEF EnterText
<1>1. Placed' /\ LoopOK' /\ Consumed = pos /\ Consumed' = pos
  BY DEF LInv, Placed, LoopOK, Consumed, Mode, AtEnd, Loops
<1>2. pos \in Nat /\ ErrorsInside(text, diags)
  BY DEF LInv, Placed
<1>3. QED
  BY <1>1, <1>2, NothingSent

LEMMA EnterNormalInv ==
  ASSUME LInv, EnterNormal
  PROVE  LInv'
<1> USE DEF EnterNormal
<1>1. Placed' /\ LoopOK' /\ Consumed = pos /\ Consumed' = pos
  BY DEF LInv, Placed, LoopOK, Consumed, Mode, AtEnd, Loops
<1>2. pos \in Nat /\ ErrorsInside(text, diags)
  BY DEF LInv, Placed
<1>3. QED
  BY <1>1, <1>2, NothingSent

LEMMA CloseModeInv ==
  ASSUME LInv, CloseMode
  PROVE  LInv'
<1> USE DEF CloseMode
<1>1. Placed' /\ LoopOK' /\ Consumed = pos /\ Consumed' = pos /\ pos = Len(text) /\ pos \in Nat
  BY DEF LInv, Placed, LoopOK, Consumed, Mode, AtEnd, Loops
<1>2. ErrorsInside(text, diags')
  BY <1>1, ErrorAdded DEF LInv
<1>3. PICK kind : kind = IF Mode = "FSTR_EXPR" THEN "FSTR_EXPR_END" ELSE "FSTR_END"
  OBVIOUS
<1>4. out' = Append(out, Tok(kind, pos, pos, <<>>))
  BY <1>1, <1>3 DEF Emit
<1>5. modes' = Front(modes) /\ StackOK(modes) /\ Len(modes) > 1
  BY DEF LInv, PopMode
<1>6. Mode = "FSTR_TEXT" \/ Mode = "FSTR_EXPR"
  BY <1>5, StackFacts DEF Mode, Modes
<1>7. Open(modes, Tok(kind, pos, pos, <<>>)) = Front(modes)
  <2>1. CASE Mode = "FSTR_EXPR"
    <3>1. kind = "FSTR_EXPR_END" /\ Last(modes).mode # "FSTR_TEXT"
      BY <1>3, <2>1 DEF Mode
    <3>2. QED
      BY <1>5, <2>1, <3>1, OpenCases DEF Mode
  <2>2. CASE Mode = "FSTR_TEXT"
    <3>1. kind = "FSTR_END"
      BY <1>3, <2>2
    <3>2. QED
      BY <1>5, <2>2, <3>1, OpenCases DEF Mode
  <2>3. QED
    BY <1>6, <2>1, <2>2
<1>8. StackOK(modes')
  BY <1>5, StackPopped
<1>9. /\ Len(text) \in Nat /\ TokensUpTo(text, out, pos) /\ modes = Opened(out)
      /\ pos \in pos .. Len(text) /\ pos \in pos .. Len(text)
  BY <1>1 DEF LInv
<1>10. QED
  BY <1>1, <1>2, <1>4, <1>5, <1>7, <1>8, <1>9, TokenSent

LEMMA EndOfFileInv ==
  ASSUME LInv, EndOfFile
  PROVE  LInv'
<1> USE DEF EndOfFile
<1>1. Placed' /\ LoopOK' /\ Consumed = pos /\ Consumed' = pos /\ pos = Len(text) /\ pos \in Nat
  BY DEF LInv, Placed, LoopOK, Consumed, Mode, AtEnd, Loops
<1>2. ErrorsInside(text, diags')
  BY DEF LInv
<1>3. out' = Append(out, Tok("EOF", pos, pos, <<>>))
  BY <1>1 DEF Emit
<1>4. StackOK(modes) /\ Last(modes).mode # "FSTR_TEXT" /\ "EOF" \in Plain
  <2>1. StackOK(modes) /\ ~(Len(modes) > 1)
    BY DEF LInv
  <2>2. Last(modes).mode = "NORMAL"
    BY <2>1, StackFacts
  <2>3. QED
    BY <2>1, <2>2 DEF Plain
<1>5. Open(modes, Tok("EOF", pos, pos, <<>>)) = modes
  BY <1>4, OpenCases
<1>6. /\ Len(text) \in Nat /\ TokensUpTo(text, out, pos) /\ modes = Opened(out) /\ StackOK(modes')
      /\ pos \in pos .. Len(text) /\ pos \in pos .. Len(text)
  BY <1>1 DEF LInv
<1>7. QED
  BY <1>1, <1>2, <1>3, <1>5, <1>6, TokenSent

-----------------------------------------------------------------------------
(* skip_trivia and skip_block_comment.                                     *)

(* The character ahead of the lexer is inside the text.                    *)
LEMMA PeekInside ==
  ASSUME Placed, NEW n \in Nat, Peek(n) # NUL
  PROVE  pos + n + 1 <= Len(text)
<1>1. PICK i \in Nat : i = pos + n
  BY DEF Placed
<1>2. Char(text, i) # NUL
  BY <1>1 DEF Peek
<1>3. QED
  BY <1>1, <1>2, CharInside DEF Placed

LEMMA TriviaInv ==
  ASSUME LInv, Trivia
  PROVE  LInv'
<1>1. Placed /\ pc = "trivia" /\ Mode # "FSTR_TEXT" /\ Len(text) \in Nat /\ pos \in 0 .. Len(text)
  BY DEF LInv, LoopOK, Placed, Trivia, SkipBlank, SkipLineComment, OpenComment, EndTrivia
<1>2. ASSUME NEW S, pos' = RunEnd(pos, S), UNCHANGED <<text, modes, pc, lo, depth, scratch, out, diags>>
      PROVE  LInv'
  <2>1. pos' \in pos .. Len(text)
    BY <1>1, <1>2, RunEndInside
  <2>2. Placed' /\ LoopOK' /\ Consumed = pos /\ Consumed' = pos'
    BY <1>1, <1>2, <2>1 DEF Placed, LoopOK, Consumed, Mode
  <2>3. ErrorsInside(text, diags')
    BY <1>2 DEF LInv
  <2>4. QED
    BY <1>1, <1>2, <2>1, <2>2, <2>3, NothingSent
<1>3. CASE SkipBlank
  BY <1>2, <1>3 DEF SkipBlank
<1>4. CASE SkipLineComment
  BY <1>2, <1>4 DEF SkipLineComment
<1>5. CASE OpenComment
  <2>1. pos + 2 <= Len(text)
    <3>1. Peek(1) # NUL
      BY <1>5, Terminator DEF OpenComment
    <3>2. QED
      BY <1>1, <3>1, PeekInside
  <2>2. Placed' /\ LoopOK' /\ Consumed = pos /\ Consumed' = pos'
    BY <1>1, <1>5, <2>1 DEF Placed, LoopOK, Consumed, Mode, OpenComment, Loops
  <2>3. ErrorsInside(text, diags') /\ pos' = pos + 2 /\ UNCHANGED <<text, modes, out>>
    BY <1>5 DEF LInv, OpenComment
  <2>4. QED
    BY <1>1, <2>2, <2>3, NothingSent
<1>6. CASE EndTrivia
  <2>1. Placed' /\ LoopOK' /\ Consumed = pos /\ Consumed' = pos
    BY <1>1, <1>6 DEF Placed, LoopOK, Consumed, Mode, AtEnd, EndTrivia, Loops
  <2>2. ErrorsInside(text, diags') /\ UNCHANGED <<text, modes, out>>
    BY <1>6 DEF LInv, EndTrivia
  <2>3. QED
    BY <1>1, <2>1, <2>2, NothingSent
<1>7. QED
  BY <1>3, <1>4, <1>5, <1>6 DEF Trivia

LEMMA CommentInv ==
  ASSUME LInv, Comment
  PROVE  LInv'
<1>1. /\ Placed /\ pc = "comment" /\ Mode # "FSTR_TEXT" /\ Len(text) \in Nat /\ pos \in 0 .. Len(text)
      /\ lo \in Nat /\ depth \in Nat /\ depth >= 1 /\ lo + 2 * depth <= pos
  BY DEF LInv, LoopOK, Placed, Comment, CommentNests, CommentCloses, CommentText, CommentUnterminated
<1>2. UNCHANGED <<text, modes, out>>
  BY DEF Comment, CommentNests, CommentCloses, CommentText, CommentUnterminated
<1>3. CASE CommentNests
  <2>1. pos + 2 <= Len(text)
    <3>1. Peek(1) # NUL
      BY <1>3, Terminator DEF CommentNests
    <3>2. QED
      BY <1>1, <3>1, PeekInside
  <2>2. Placed' /\ LoopOK' /\ Consumed = pos /\ Consumed' = pos + 2
    BY <1>1, <1>3, <2>1 DEF Placed, LoopOK, Consumed, Mode, CommentNests, Loops
  <2>3. ErrorsInside(text, diags')
    BY <1>3 DEF LInv, CommentNests
  <2>4. QED
    BY <1>1, <1>2, <2>2, <2>3, NothingSent
<1>4. CASE CommentCloses
  <2>1. pos + 2 <= Len(text)
    <3>1. Peek(1) # NUL
      BY <1>4, Terminator DEF CommentCloses
    <3>2. QED
      BY <1>1, <3>1, PeekInside
  <2>2. Placed' /\ LoopOK' /\ Consumed = pos /\ Consumed' = pos + 2
    BY <1>1, <1>4, <2>1 DEF Placed, LoopOK, Consumed, Mode, CommentCloses, Loops
  <2>3. ErrorsInside(text, diags')
    BY <1>4 DEF LInv, CommentCloses
  <2>4. QED
    BY <1>1, <1>2, <2>2, <2>3, NothingSent
<1>5. CASE CommentText
  <2>1. Placed' /\ LoopOK' /\ Consumed = pos /\ Consumed' = pos + 1
    BY <1>1, <1>5 DEF Placed, LoopOK, Consumed, Mode, CommentText, AtEnd, Loops
  <2>2. ErrorsInside(text, diags')
    BY <1>5 DEF LInv, CommentText
  <2>3. QED
    BY <1>1, <1>2, <2>1, <2>2, NothingSent
<1>6. CASE CommentUnterminated
  <2>1. Placed' /\ LoopOK' /\ Consumed = pos /\ Consumed' = pos
    BY <1>1, <1>6 DEF Placed, LoopOK, Consumed, Mode, CommentUnterminated, Loops
  <2>2. lo \in 0 .. Len(text) /\ lo + 2 \in lo .. Len(text)
    BY <1>1
  <2>3. ErrorsInside(text, diags')
    <3>1. PICK to \in lo .. Len(text) : to = lo + 2
      BY <2>2
    <3>2. diags' = AddError(diags, lo, to)
      BY <1>6, <3>1 DEF CommentUnterminated
    <3>3. QED
      BY <1>1, <2>2, <3>2, ErrorAdded DEF LInv
  <2>4. QED
    BY <1>1, <1>2, <2>1, <2>3, NothingSent
<1>7. QED
  BY <1>3, <1>4, <1>5, <1>6 DEF Comment

-----------------------------------------------------------------------------
(* lex_normal.                                                             *)

(* A token that opens and closes nothing takes the lexer back to its loop. *)
LEMMA PlainSent ==
  ASSUME LInv, Mode # "FSTR_TEXT", Consumed \in Nat, NEW kind \in Plain,
         NEW from \in Consumed .. Len(text), NEW to \in from .. Len(text), NEW val,
         out' = Append(out, Tok(kind, from, to, val)), UNCHANGED <<text, modes, lo, depth>>,
         pos' = to, pc' = "main", ErrorsInside(text, diags')
  PROVE  LInv'
<1>1. /\ StackOK(modes) /\ modes = Opened(out) /\ TokensUpTo(text, out, Consumed)
      /\ Placed /\ Len(text) \in Nat
  BY DEF LInv, Placed
<1>2. Open(modes, Tok(kind, from, to, val)) = modes
  BY <1>1, OpenCases DEF Mode
<1>3. Placed' /\ LoopOK' /\ Consumed' = to /\ to \in Nat
  <2>1. Consumed' = to /\ to \in Nat /\ to \in 0 .. Len(text)
    BY <1>1 DEF Consumed
  <2>2. Placed'
    BY <1>1, <2>1 DEF Placed, Loops
  <2>3. LoopOK'
    BY DEF LoopOK
  <2>4. QED
    BY <2>1, <2>2, <2>3
<1>4. PICK p \in Nat : p = Consumed
  OBVIOUS
<1>5. from \in p .. Len(text) /\ TokensUpTo(text, out, p) /\ StackOK(modes') /\ modes' = Open(modes, Tok(kind, from, to, val))
  BY <1>1, <1>2, <1>4
<1>6. Consumed' \in Nat /\ to <= Consumed'
  BY <1>3
<1>7. QED
  BY <1>1, <1>3, <1>4, <1>5, <1>6, TokenSent

(* What holds where lex_normal has skipped its trivia.                     *)
NormalOK ==
  /\ Placed /\ Len(text) \in Nat /\ pos \in Nat /\ pos < Len(text)
  /\ pc = "normal" /\ Mode # "FSTR_TEXT" /\ Consumed = pos
  /\ StackOK(modes) /\ modes = Opened(out) /\ TokensUpTo(text, out, pos) /\ ErrorsInside(text, diags)

LEMMA NormalFacts ==
  ASSUME LInv, pc = "normal"
  PROVE  NormalOK
<1>1. Consumed = pos
  BY DEF Consumed
<1>2. QED
  BY <1>1 DEF LInv, LoopOK, Placed, NormalOK

LEMMA FStringStartInv ==
  ASSUME LInv, FStringStart
  PROVE  LInv'
<1> USE DEF FStringStart
<1>1. NormalOK
  BY NormalFacts
<1>2. pos + 2 <= Len(text)
  <2>1. Peek(1) # NUL
    BY Terminator DEF OpensFString
  <2>2. QED
    BY <1>1, <2>1, PeekInside DEF NormalOK
<1>3. PICK to \in pos .. Len(text) : to = pos + 2
  BY <1>1, <1>2 DEF NormalOK
<1>4. Placed' /\ LoopOK' /\ Consumed' = to /\ to \in Nat
  BY <1>1, <1>2, <1>3 DEF NormalOK, Placed, LoopOK, Consumed, Loops
<1>5. modes' = Append(modes, Fresh("FSTR_TEXT")) /\ StackOK(modes')
  BY <1>1, StackPushed DEF PushMode, Fresh, NormalOK
<1>6. modes' = Open(modes, Tok("FSTR_START", pos, to, <<>>))
  BY <1>1, <1>5, OpenCases DEF NormalOK, Mode
<1>7. out' = Append(out, Tok("FSTR_START", pos, to, <<>>)) /\ text' = text
  BY <1>3 DEF Emit
<1>8. /\ pos \in Nat /\ pos \in pos .. Len(text) /\ Len(text) \in Nat
      /\ TokensUpTo(text, out, pos) /\ modes = Opened(out) /\ ErrorsInside(text, diags')
  BY <1>1 DEF NormalOK
<1>9. QED
  BY <1>4, <1>5, <1>6, <1>7, <1>8, TokenSent

LEMMA LexIdentInv ==
  ASSUME LInv, LexIdent
  PROVE  LInv'
<1>1. NormalOK /\ Mode # "FSTR_TEXT" /\ Consumed = pos /\ pos \in Nat /\ pos \in 0 .. Len(text) /\ Len(text) \in Nat
  BY NormalFacts DEF LexIdent, NormalOK
<1>2. PICK end \in pos .. Len(text) : end = RunEnd(pos, IdentChar)
  BY <1>1, RunEndInside
<1>3. PICK kind : kind = IF Slice(pos, end) \in Keywords THEN "KW" ELSE "IDENT"
  OBVIOUS
<1>4. /\ out' = Append(out, Tok(kind, pos, end, <<>>)) /\ pos' = end /\ pc' = "main"
      /\ UNCHANGED <<text, modes, lo, depth>>
      /\ diags' \in {diags, AddError(diags, pos, end)}
  BY <1>2, <1>3 DEF LexIdent, Emit
<1>5. kind \in Plain
  BY <1>3 DEF Plain
<1>6. ErrorsInside(text, diags')
  BY <1>1, <1>4, ErrorAdded DEF NormalOK
<1>7. pos \in Consumed .. Len(text)
  BY <1>1
<1>8. QED
  BY <1>1, <1>4, <1>5, <1>6, <1>7, PlainSent

(* The parts of a number.                                                  *)
LEMMA FractionInside ==
  ASSUME Len(text) \in Nat, NEW p \in 0 .. Len(text)
  PROVE  FractionEnd(p) \in p .. Len(text)
<1>1. CASE Char(text, p) = "." /\ Char(text, p + 1) \in Digit
  <2>1. Char(text, p) # NUL
    BY <1>1, Zenon DEF NUL
  <2>2. p + 1 \in 0 .. Len(text)
    BY <2>1, CharInside
  <2>3. RunEnd(p + 1, Digit \cup {"_"}) \in p + 1 .. Len(text)
    BY <2>2, RunEndInside
  <2>4. FractionEnd(p) = RunEnd(p + 1, Digit \cup {"_"})
    BY <1>1, Zenon DEF FractionEnd
  <2>5. PICK q : q = FractionEnd(p) /\ q \in p + 1 .. Len(text)
    BY <2>3, <2>4
  <2>6. QED
    BY <2>5
<1>2. CASE ~(Char(text, p) = "." /\ Char(text, p + 1) \in Digit)
  <2>1. FractionEnd(p) = p
    BY <1>2, Zenon DEF FractionEnd
  <2>2. QED
    BY <2>1
<1>3. QED
  BY <1>1, <1>2

LEMMA DigitsOnly == NUL \notin Digit
<1>1. /\ DigitChars[1] # NUL /\ DigitChars[2] # NUL /\ DigitChars[3] # NUL /\ DigitChars[4] # NUL
      /\ DigitChars[5] # NUL /\ DigitChars[6] # NUL /\ DigitChars[7] # NUL /\ DigitChars[8] # NUL
      /\ DigitChars[9] # NUL /\ DigitChars[10] # NUL
  BY DEF DigitChars, NUL
<1>2. QED
  BY <1>1 DEF Digit

LEMMA ExponentInside ==
  ASSUME Len(text) \in Nat, NEW p \in 0 .. Len(text)
  PROVE  ExponentEnd(p) \in p .. Len(text)
<1> DEFINE Exponent == /\ Char(text, p) \in {"e", "E"}
                       /\ \/ Char(text, p + 1) \in Digit
                          \/ Char(text, p + 1) \in {"+", "-"} /\ Char(text, p + 2) \in Digit
<1>1. ExponentEnd(p) = IF Exponent THEN RunEnd(p + 2, Digit) ELSE p
  BY Zenon DEF ExponentEnd
<1>2. CASE Exponent
  <2>1. Char(text, p + 1) # NUL
    <3>1. NUL \notin {"+", "-"}
      BY Zenon DEF NUL
    <3>2. QED
      BY <1>2, <3>1, DigitsOnly, Zenon
  <2>2. p + 2 \in 0 .. Len(text)
    <3>1. PICK i \in Nat : i = p + 1
      OBVIOUS
    <3>2. i + 1 <= Len(text)
      BY <2>1, <3>1, CharInside
    <3>3. QED
      BY <3>1, <3>2
  <2>3. RunEnd(p + 2, Digit) \in p + 2 .. Len(text)
    BY <2>2, RunEndInside
  <2>4. PICK q : q = ExponentEnd(p) /\ q \in p + 2 .. Len(text)
    BY <1>1, <1>2, <2>3
  <2>5. QED
    BY <2>4
<1>3. CASE ~Exponent
  BY <1>1, <1>3
<1>4. QED
  BY <1>2, <1>3

LEMMA Between ==
  ASSUME NEW L \in Nat, NEW a \in 0 .. L, NEW b \in a .. L
  PROVE  b \in 0 .. L /\ \A c \in b .. L : c \in a .. L
  OBVIOUS

(* Each part of a number ends behind the one before it.                    *)
LEMMA NumberEnd ==
  ASSUME LInv, LexNumber
  PROVE  \E whole, end, stop, number :
           /\ end \in pos .. Len(text) /\ end \in 0 .. Len(text)
           /\ stop = RunEnd(end, IdentChar) /\ stop \in end .. Len(text) /\ stop \in pos .. Len(text)
           /\ SendNumber(whole, end, stop, number) /\ pos' = stop
<1>1. NormalOK /\ Mode # "FSTR_TEXT" /\ Consumed = pos /\ pos \in Nat /\ pos \in 0 .. Len(text) /\ Len(text) \in Nat
  <2>1. pc = "normal"
    BY Zenon DEF LexNumber
  <2>2. NormalOK
    BY <2>1, NormalFacts
  <2>3. QED
    BY <2>2 DEF NormalOK
<1>2. Base = 10 \/ pos + 2 \in 0 .. Len(text)
  <2>1. SUFFICES ASSUME Base # 10 PROVE pos + 2 <= Len(text)
    BY <1>1
  <2>2. Peek(1) \in {"x", "o", "b"}
    BY <2>1, Zenon DEF Base
  <2>3. Peek(1) # NUL
    BY <2>2, Terminator
  <2>4. QED
    BY <1>1, <2>3, PeekInside DEF NormalOK
<1> DEFINE DigitSet == {c \in DOMAIN DigitNumber : DigitNumber[c] < Base} \cup {"_"}
<1>3. PICK first, whole, frac, end, stop, number :
        /\ first = IF Base = 10 THEN pos ELSE pos + 2
        /\ whole = RunEnd(first, DigitSet)
        /\ frac = IF Base = 10 THEN FractionEnd(whole) ELSE whole
        /\ end = IF Base = 10 THEN ExponentEnd(frac) ELSE whole
        /\ stop = RunEnd(end, IdentChar)
        /\ SendNumber(whole, end, stop, number) /\ pos' = stop
  BY Zenon DEF LexNumber
<1> HIDE DEF DigitSet
<1>4. first \in 0 .. Len(text) /\ first \in pos .. Len(text)
  <2>1. CASE Base = 10
    <3>1. first = pos
      BY <1>3, <2>1
    <3>2. QED
      BY <1>1, <3>1
  <2>2. CASE Base # 10
    <3>1. first = pos + 2 /\ pos + 2 \in 0 .. Len(text)
      BY <1>2, <1>3, <2>2
    <3>2. QED
      BY <1>1, <3>1
  <2>3. QED
    BY <2>1, <2>2
<1>5. whole \in 0 .. Len(text) /\ whole \in pos .. Len(text)
  <2>1. whole \in first .. Len(text)
    BY <1>1, <1>3, <1>4, RunEndInside
  <2>2. QED
    BY <1>1, <1>4, <2>1, Between
<1>6. frac \in 0 .. Len(text) /\ frac \in pos .. Len(text)
  <2>1. FractionEnd(whole) \in whole .. Len(text)
    BY <1>1, <1>5, FractionInside
  <2>2. FractionEnd(whole) \in 0 .. Len(text) /\ FractionEnd(whole) \in pos .. Len(text)
    BY <1>1, <1>5, <2>1, Between
  <2>3. QED
    BY <1>3, <1>5, <2>2
<1>7. end \in 0 .. Len(text) /\ end \in pos .. Len(text)
  <2>1. ExponentEnd(frac) \in frac .. Len(text)
    BY <1>1, <1>6, ExponentInside
  <2>2. ExponentEnd(frac) \in 0 .. Len(text) /\ ExponentEnd(frac) \in pos .. Len(text)
    BY <1>1, <1>6, <2>1, Between
  <2>3. QED
    BY <1>3, <1>5, <2>2
<1>8. stop \in end .. Len(text) /\ stop \in pos .. Len(text)
  <2>1. stop \in end .. Len(text)
    BY <1>1, <1>3, <1>7, RunEndInside
  <2>2. QED
    BY <1>1, <1>7, <2>1, Between
<1>9. QED
  BY <1>3, <1>7, <1>8

LEMMA LexNumberInv ==
  ASSUME LInv, LexNumber
  PROVE  LInv'
<1>1. NormalOK /\ Mode # "FSTR_TEXT" /\ Consumed = pos /\ pos \in Nat /\ pos \in 0 .. Len(text) /\ Len(text) \in Nat
  <2>1. pc = "normal"
    BY Zenon DEF LexNumber
  <2>2. NormalOK
    BY <2>1, NormalFacts
  <2>3. QED
    BY <2>2 DEF NormalOK
<1>3. PICK whole, end, stop, number :
        /\ end \in pos .. Len(text) /\ end \in 0 .. Len(text)
        /\ stop = RunEnd(end, IdentChar) /\ stop \in end .. Len(text) /\ stop \in pos .. Len(text)
        /\ SendNumber(whole, end, stop, number) /\ pos' = stop
  BY NumberEnd
<1>7. end \in 0 .. Len(text) /\ end \in pos .. Len(text)
  BY <1>3
<1>8. stop \in end .. Len(text) /\ stop \in pos .. Len(text)
  BY <1>3
<1> DEFINE suffix == IF stop > end THEN AddError(diags, end, stop) ELSE diags
           large  == number.overflow \/ number.value > 2 ^ (Width - 1)
           empty  == IF number.any THEN suffix ELSE AddError(suffix, pos, stop)
<1>9. /\ \/ \E val : out' = Append(out, Tok("FLOAT", pos, stop, val))
         \/ \E val : out' = Append(out, Tok("INT", pos, stop, val))
      /\ diags' \in {AddError(suffix, pos, stop), suffix, AddError(empty, pos, stop), empty}
      /\ pos' = stop
  BY <1>3, Zenon DEF SendNumber, Emit
<1>10. ErrorsInside(text, suffix)
  BY <1>1, <1>7, <1>8, ErrorAdded DEF NormalOK
<1> HIDE DEF suffix
<1>11. ErrorsInside(text, empty) /\ ErrorsInside(text, AddError(suffix, pos, stop))
  BY <1>1, <1>8, <1>10, ErrorAdded
<1> HIDE DEF empty
<1>12. ErrorsInside(text, diags')
  BY <1>1, <1>8, <1>9, <1>10, <1>11, ErrorAdded
<1>13. pc' = "main" /\ UNCHANGED <<text, modes, lo, depth>>
  BY Zenon DEF LexNumber
<1>14. PICK kind \in Plain : \E val : out' = Append(out, Tok(kind, pos, stop, val))
  <2>1. "FLOAT" \in Plain /\ "INT" \in Plain
    BY DEF Plain
  <2>2. QED
    BY <1>9, <2>1, Zenon
<1>15. PICK val : out' = Append(out, Tok(kind, pos, stop, val))
  BY <1>14
<1>16. pos \in Consumed .. Len(text) /\ Consumed \in Nat /\ pos' = stop
  BY <1>1, <1>9
<1>17. QED
  BY <1>1, <1>8, <1>12, <1>13, <1>15, <1>16, PlainSent

LEMMA StringStartInv ==
  ASSUME LInv, StringStart
  PROVE  LInv'
<1>1. NormalOK
  BY NormalFacts DEF StringStart
<1>2. Placed' /\ LoopOK' /\ Consumed = pos /\ Consumed' = pos /\ pos \in Nat /\ UNCHANGED <<text, modes, out>>
  BY <1>1 DEF NormalOK, StringStart, Placed, LoopOK, Consumed, Mode, Loops
<1>3. ErrorsInside(text, diags')
  BY <1>1 DEF NormalOK, StringStart
<1>4. QED
  BY <1>2, <1>3, NothingSent

LEMMA ExprEndInv ==
  ASSUME LInv, ExprEnd
  PROVE  LInv'
<1> USE DEF ExprEnd
<1>1. NormalOK
  BY NormalFacts
<1>2. PICK to \in pos .. Len(text) : to = pos + 1
  BY <1>1 DEF NormalOK
<1>3. Placed' /\ LoopOK' /\ Consumed' = to /\ to \in Nat
  BY <1>1, <1>2 DEF NormalOK, Placed, LoopOK, Consumed, Loops
<1>4. Len(modes) > 1 /\ modes' = Front(modes) /\ StackOK(modes')
  <2>1. StackOK(modes) /\ Last(modes).mode = "FSTR_EXPR"
    BY <1>1 DEF NormalOK, Mode
  <2>2. Len(modes) > 1
    BY <2>1, StackFacts
  <2>3. QED
    BY <2>1, <2>2, StackPopped DEF PopMode
<1>5. modes' = Open(modes, Tok("FSTR_EXPR_END", pos, to, <<>>))
  BY <1>1, <1>4, OpenCases DEF NormalOK, Mode
<1>6. out' = Append(out, Tok("FSTR_EXPR_END", pos, to, <<>>)) /\ text' = text
  BY <1>2 DEF Emit
<1>7. /\ pos \in Nat /\ pos \in pos .. Len(text) /\ Len(text) \in Nat
      /\ TokensUpTo(text, out, pos) /\ modes = Opened(out) /\ ErrorsInside(text, diags')
  BY <1>1 DEF NormalOK
<1>8. QED
  BY <1>2, <1>3, <1>4, <1>5, <1>6, <1>7, TokenSent

LEMMA UnexpectedCharInv ==
  ASSUME LInv, UnexpectedChar
  PROVE  LInv'
<1>1. NormalOK
  BY NormalFacts DEF UnexpectedChar
<1>2. /\ Placed' /\ LoopOK' /\ Consumed = pos /\ Consumed' = pos + 1 /\ pos \in Nat
      /\ UNCHANGED <<text, modes, out>>
  BY <1>1 DEF NormalOK, UnexpectedChar, Placed, LoopOK, Consumed, Mode, Loops
<1>3. PICK to \in pos .. Len(text) : to = pos + 1 /\ pos \in 0 .. Len(text)
  BY <1>1 DEF NormalOK
<1>4. diags' = AddError(diags, pos, to)
  BY <1>3 DEF UnexpectedChar
<1>5. ErrorsInside(text, diags')
  BY <1>1, <1>3, <1>4, ErrorAdded DEF NormalOK
<1>6. QED
  BY <1>2, <1>5, NothingSent

(* The operator that is taken begins with the character that is seen, so   *)
(* that the braces are counted where a brace is sent.                      *)
LEMMA BracesCounted ==
  ASSUME NormalOK, NEW op, OpShape(op), pos + Len(op) <= Len(text), Slice(pos, pos + Len(op)) = op
  PROVE  /\ Len(op) \in Nat /\ Len(op) > 0
         /\ Peek(0) = LBRACE <=> op = <<LBRACE>>
         /\ Peek(0) = RBRACE <=> op = <<RBRACE>>
<1>1. /\ Len(op) \in Nat /\ Len(op) > 0
      /\ op[1] = LBRACE <=> op = <<LBRACE>>
      /\ op[1] = RBRACE <=> op = <<RBRACE>>
  <2>1. CASE op = <<LBRACE>>
    BY <2>1, Marks
  <2>2. CASE op = <<RBRACE>>
    BY <2>2, Marks
  <2>3. ASSUME NEW a, a # LBRACE, a # RBRACE,
               op = <<a>> \/ (\E b : op = <<a, b>>) \/ (\E b, c : op = <<a, b, c>>)
        PROVE  Len(op) \in Nat /\ Len(op) > 0 /\ op[1] = a /\ op # <<LBRACE>> /\ op # <<RBRACE>>
    BY <2>3
  <2>4. QED
    BY <2>1, <2>2, <2>3 DEF OpShape
<1>2. PICK n \in Nat : n = Len(op) /\ n > 0
  BY <1>1
<1>3. PICK p \in Nat : p = pos /\ p < Len(text) /\ Len(text) \in Nat
  BY DEF NormalOK
<1>4. SubSeq(text, p + 1, p + n)[1] = text[p + 1]
  <2>1. text \in Seq(STRING)
    BY DEF NormalOK, Placed
  <2>2. \A i \in p + 1 .. p + n : text[i] \in STRING
    BY <1>2, <1>3, <2>1
  <2>3. \A i \in 1 .. p + n - (p + 1) + 1 : SubSeq(text, p + 1, p + n)[i] = text[p + 1 + i - 1]
    BY <2>2, SubSeqProperties
  <2>4. 1 \in 1 .. p + n - (p + 1) + 1
    BY <1>2
  <2>5. SubSeq(text, p + 1, p + n)[1] = text[p + 1 + 1 - 1]
    BY <2>3, <2>4
  <2>6. p + 1 + 1 - 1 = p + 1
    OBVIOUS
  <2>7. QED
    BY <2>5, <2>6
<1>5. op = SubSeq(text, p + 1, p + n)
  BY <1>2, <1>3, Zenon DEF Slice
<1>6. Peek(0) = text[p + 1]
  BY <1>3 DEF Peek, Char
<1>7. op[1] = Peek(0)
  BY <1>4, <1>5, <1>6, Zenon
<1>8. QED
  BY <1>1, <1>7

(* The operator that is taken is one of the table and stands in the text.  *)
LEMMA OperatorTaken ==
  ASSUME LexOperator
  PROVE  \E op : /\ OpShape(op) /\ pos + Len(op) <= Len(text) /\ Slice(pos, pos + Len(op)) = op
                 /\ out' = Append(out, Tok("OP", pos, pos + Len(op), op)) /\ pos' = pos + Len(op)
<1>2. PICK i \in Matching : i = CHOOSE k \in Matching : \A j \in Matching : k <= j
  <2>1. Matching \in SUBSET Nat /\ Matching # {}
    <3>1. \A j \in DOMAIN Ops : j \in Nat
      <4>1. DOMAIN Ops = 1 .. 42
        BY SMT DEF Ops
      <4>2. QED
        BY <4>1
    <3>2. QED
      BY <3>1 DEF Matching, LexOperator
  <2>2. \E k \in Matching : \A j \in Matching : k <= j
    BY <2>1, LeastElement
  <2>3. QED
    BY <2>2, Zenon
<1>3. PICK op : op = Ops[i] /\ OpShape(op) /\ pos + Len(op) <= Len(text) /\ Slice(pos, pos + Len(op)) = op
  BY <1>2, OpsShape DEF Matching
<1>4. out' = Append(out, Tok("OP", pos, pos + Len(op), op)) /\ pos' = pos + Len(op)
  BY <1>2, <1>3, Zenon DEF LexOperator
<1>5. QED
  BY <1>3, <1>4

LEMMA LexOperatorInv ==
  ASSUME LInv, LexOperator
  PROVE  LInv'
<1>1. NormalOK
  BY NormalFacts DEF LexOperator
<1>3. PICK op : /\ OpShape(op) /\ pos + Len(op) <= Len(text) /\ Slice(pos, pos + Len(op)) = op
                /\ out' = Append(out, Tok("OP", pos, pos + Len(op), op)) /\ pos' = pos + Len(op)
  BY OperatorTaken
<1>4. /\ Len(op) \in Nat /\ Len(op) > 0
      /\ Peek(0) = LBRACE <=> op = <<LBRACE>>
      /\ Peek(0) = RBRACE <=> op = <<RBRACE>>
  BY <1>1, <1>3, BracesCounted
<1>5. /\ out' = Append(out, Tok("OP", pos, pos + Len(op), op)) /\ pos' = pos + Len(op)
      /\ pc' = "main" /\ UNCHANGED <<text, lo, depth, diags>>
  BY <1>3, Zenon DEF LexOperator
<1>6. PICK to \in pos .. Len(text) : to = pos + Len(op)
  BY <1>1, <1>3, <1>4 DEF NormalOK
<1>7. Placed' /\ LoopOK' /\ Consumed' = to /\ to \in Nat
  BY <1>1, <1>5, <1>6 DEF NormalOK, Placed, LoopOK, Consumed, Loops
<1>8. modes' = (IF op = <<LBRACE>> THEN Braced(modes, 1) ELSE IF op = <<RBRACE>> THEN Braced(modes, -1) ELSE modes)
  <2>1. modes' = IF Mode # "FSTR_EXPR" THEN modes
                 ELSE IF Peek(0) = LBRACE THEN [modes EXCEPT ![Len(modes)].braces = @ + 1]
                 ELSE IF Peek(0) = RBRACE THEN [modes EXCEPT ![Len(modes)].braces = @ - 1]
                 ELSE modes
    BY DEF LexOperator, CountBraces
  <2>2. Braced(modes, 1) = IF Mode # "FSTR_EXPR" THEN modes ELSE [modes EXCEPT ![Len(modes)].braces = @ + 1]
    BY DEF Braced, Mode
  <2>3. Braced(modes, -1) = IF Mode # "FSTR_EXPR" THEN modes ELSE [modes EXCEPT ![Len(modes)].braces = @ - 1]
    <3>1. PICK n \in Int : n = modes[Len(modes)].braces
      <4>1. Last(modes).braces \in Nat /\ Last(modes) = modes[Len(modes)]
        BY <1>1, StackFacts DEF NormalOK, Last
      <4>2. QED
        BY <4>1
    <3>2. n + (-1) = n - 1
      OBVIOUS
    <3>3. QED
      BY <3>1, <3>2 DEF Braced, Mode
  <2>4. PICK up, down : up = [modes EXCEPT ![Len(modes)].braces = @ + 1] /\ down = [modes EXCEPT ![Len(modes)].braces = @ - 1]
    OBVIOUS
  <2>5. LBRACE # RBRACE
    BY Marks
  <2>6. QED
    BY <1>4, <2>1, <2>2, <2>3, <2>4, <2>5, Zenon
<1>9. modes' = Open(modes, Tok("OP", pos, to, op))
  <2>1. Last(modes).mode # "FSTR_TEXT" /\ StackOK(modes)
    BY <1>1 DEF NormalOK, Mode
  <2>2. Open(modes, Tok("OP", pos, to, op)) =
          IF op = <<LBRACE>> THEN Braced(modes, 1) ELSE IF op = <<RBRACE>> THEN Braced(modes, -1) ELSE modes
    BY <2>1, OpenCases
  <2>3. QED
    BY <1>8, <2>2
<1>10. StackOK(modes')
  <2>1. StackOK(modes) /\ Last(modes).braces \in Nat
    BY <1>1, StackFacts DEF NormalOK
  <2>2. StackOK(Braced(modes, 1))
    BY <2>1, StackBraced
  <2>3. CASE op = <<RBRACE>>
    <3>1. modes' = Braced(modes, -1)
      BY <1>4, <1>8, <2>3, Marks
    <3>2. CASE Mode = "FSTR_EXPR"
      <4>1. Last(modes).braces # 0
        BY <1>4, <2>3, <3>2 DEF LexOperator
      <4>2. Last(modes).braces + (-1) >= 0 /\ -1 \in Int
        BY <2>1, <4>1
      <4>3. QED
        BY <2>1, <3>1, <4>2, StackBraced
    <3>3. CASE Mode # "FSTR_EXPR"
      BY <2>1, <3>1, <3>3 DEF Braced, Mode
    <3>4. QED
      BY <3>2, <3>3
  <2>4. CASE op # <<RBRACE>>
    BY <1>8, <2>1, <2>2, <2>4
  <2>5. QED
    BY <2>3, <2>4
<1>11. /\ pos \in Nat /\ pos \in pos .. Len(text) /\ Len(text) \in Nat
       /\ TokensUpTo(text, out, pos) /\ modes = Opened(out) /\ ErrorsInside(text, diags')
  BY <1>1, <1>5 DEF NormalOK
<1>12. out' = Append(out, Tok("OP", pos, to, op)) /\ text' = text
  BY <1>5, <1>6
<1>13. QED
  BY <1>6, <1>7, <1>9, <1>10, <1>11, <1>12, TokenSent

-----------------------------------------------------------------------------
(* lex_string and lex_fstring_text.                                        *)

(* One iteration of a string's loop goes on, inside the text.              *)
LEMMA StringCharInv ==
  ASSUME LInv, StringChar, pc \in {"string", "ftext"}
  PROVE  LInv'
<1>1. Placed /\ LoopOK /\ Len(text) \in Nat /\ pos \in 0 .. Len(text) /\ ~AtEnd
  BY DEF LInv, Placed, StringChar
<1>2. UNCHANGED <<text, modes, pc, lo, depth, out>>
  BY Zenon DEF StringChar
<1>3. pos' \in pos + 1 .. Len(text) /\ ErrorsInside(text, diags')
  <2>1. CASE Peek(0) = BSLASH
    <3>1. Inside(Escape)
      BY <1>1, EscapeInside
    <3>2. pos' = Escape.at /\ diags' = IF Escape.bad = -1 THEN diags ELSE AddError(diags, pos, Escape.bad)
      BY <2>1, Zenon DEF StringChar
    <3>3. CASE Escape.bad = -1
      BY <3>1, <3>2, <3>3 DEF Inside, LInv
    <3>4. CASE Escape.bad # -1
      <4>1. PICK to : to = Escape.bad /\ to \in pos + 1 .. Len(text)
        BY <3>1, <3>4 DEF Inside
      <4>2. to \in pos .. Len(text)
        BY <1>1, <4>1
      <4>3. diags' = AddError(diags, pos, to)
        BY <3>2, <3>4, <4>1
      <4>4. ErrorsInside(text, diags')
        BY <1>1, <4>2, <4>3, ErrorAdded DEF LInv
      <4>5. QED
        BY <3>1, <3>2, <4>4 DEF Inside
    <3>5. QED
      BY <3>3, <3>4
  <2>2. CASE Peek(0) # BSLASH
    <3>1. pos' = pos + 1 /\ diags' = diags
      BY <2>2, Zenon DEF StringChar
    <3>2. QED
      BY <1>1, <3>1 DEF LInv, AtEnd
  <2>3. QED
    BY <2>1, <2>2
<1>4. Placed' /\ LoopOK'
  BY <1>1, <1>2, <1>3 DEF Placed, LoopOK, Mode
<1>5. Consumed = lo /\ Consumed' = lo /\ lo \in Nat
  BY <1>1, <1>2 DEF Consumed, Placed
<1>6. QED
  BY <1>2, <1>3, <1>4, <1>5, NothingSent

LEMMA LexStringInv ==
  ASSUME LInv, LexString
  PROVE  LInv'
  BY StringCharInv DEF LexString

LEMMA LexFTextInv ==
  ASSUME LInv, LexFText
  PROVE  LInv'
  BY StringCharInv DEF LexFText

(* Where a string or its text ends: behind its quote, if it has one.       *)
LEMMA ClosingInside ==
  ASSUME Placed, NEW quoted \in BOOLEAN, quoted <=> Peek(0) = QUOTE
  PROVE  (IF quoted THEN pos + 1 ELSE pos) \in pos .. Len(text)
<1>1. Len(text) \in Nat /\ pos \in 0 .. Len(text)
  BY DEF Placed
<1>2. CASE quoted
  <2>1. Peek(0) # NUL
    BY <1>2, Terminator
  <2>2. pos + 0 + 1 <= Len(text)
    BY <2>1, PeekInside
  <2>3. QED
    BY <1>1, <1>2, <2>2
<1>3. CASE ~quoted
  BY <1>1, <1>3
<1>4. QED
  BY <1>2, <1>3

LEMMA StringEndInv ==
  ASSUME LInv, StringEnd
  PROVE  LInv'
<1>1. /\ Placed /\ Mode # "FSTR_TEXT" /\ Consumed = lo /\ Len(text) \in Nat /\ pos \in 0 .. Len(text)
      /\ lo \in Nat /\ lo < pos
  BY DEF LInv, StringEnd, LoopOK, Consumed, Placed
<1>2. PICK quoted \in BOOLEAN : quoted <=> Peek(0) = QUOTE
  OBVIOUS
<1>3. PICK end \in pos .. Len(text) : end = IF quoted THEN pos + 1 ELSE pos
  BY <1>1, <1>2, ClosingInside
<1>4. /\ diags' \in {diags, AddError(diags, lo, lo + 1)}
      /\ out' = Append(out, Tok("STRING", lo, end, scratch)) /\ pos' = end /\ pc' = "main"
      /\ UNCHANGED <<text, modes, lo, depth>>
  BY <1>2, <1>3, Zenon DEF StringEnd
<1>5. ErrorsInside(text, diags')
  <2>1. PICK to \in lo .. Len(text) : to = lo + 1 /\ lo \in 0 .. Len(text)
    BY <1>1
  <2>2. ErrorsInside(text, AddError(diags, lo, to))
    BY <1>1, <2>1, ErrorAdded DEF LInv
  <2>3. QED
    BY <1>4, <2>1, <2>2 DEF LInv
<1>6. lo \in Consumed .. Len(text) /\ end \in lo .. Len(text) /\ "STRING" \in Plain /\ Consumed \in Nat
  BY <1>1, <1>3 DEF Plain
<1>7. QED
  BY <1>1, <1>4, <1>5, <1>6, PlainSent

(* What holds in the loop of lex_fstring_text.                             *)
TextOK ==
  /\ Placed /\ Len(text) \in Nat /\ pos \in 0 .. Len(text) /\ lo \in Nat /\ lo < Len(text) /\ lo <= pos
  /\ pc = "ftext" /\ Mode = "FSTR_TEXT" /\ Consumed = lo
  /\ StackOK(modes) /\ modes = Opened(out) /\ TokensUpTo(text, out, lo) /\ ErrorsInside(text, diags)

LEMMA TextFacts ==
  ASSUME LInv, pc = "ftext"
  PROVE  TextOK
<1>1. Consumed = lo
  BY DEF Consumed
<1>2. QED
  BY <1>1 DEF LInv, LoopOK, Placed, TextOK

(* The text token leaves the string as open as it was.                     *)
LEMMA WithTextSent ==
  ASSUME TextOK
  PROVE  TokensUpTo(text, WithText, pos) /\ modes = Opened(WithText)
<1>1. /\ Len(text) \in Nat /\ pos \in 0 .. Len(text) /\ lo \in Nat /\ lo <= pos
      /\ StackOK(modes) /\ Last(modes).mode = "FSTR_TEXT" /\ modes = Opened(out) /\ TokensUpTo(text, out, lo)
  BY DEF TextOK, Mode
<1>2. CASE pos > lo
  <2>1. WithText = Append(out, Tok("FSTR_TEXT", lo, pos, scratch))
    BY <1>2 DEF WithText
  <2>2. lo \in lo .. Len(text) /\ pos \in lo .. Len(text)
    BY <1>1
  <2>3. TokensUpTo(text, WithText, pos)
    BY <1>1, <2>1, <2>2, TokenAdded
  <2>4. Open(modes, Tok("FSTR_TEXT", lo, pos, scratch)) = modes
    BY <1>1, OpenCases
  <2>5. IsSeq(out)
    BY <1>1 DEF TokensUpTo
  <2>6. Opened(WithText) = Open(modes, Tok("FSTR_TEXT", lo, pos, scratch))
    BY <1>1, <2>1, <2>5, OpenedAppend
  <2>7. QED
    BY <2>3, <2>4, <2>6
<1>3. CASE ~(pos > lo)
  <2>1. WithText = out /\ pos = lo
    BY <1>1, <1>3 DEF WithText
  <2>2. QED
    BY <1>1, <2>1
<1>4. QED
  BY <1>2, <1>3

LEMMA FStringEndInv ==
  ASSUME LInv, FStringEnd
  PROVE  LInv'
<1>1. TextOK
  BY TextFacts DEF FStringEnd
<1>2. PICK quoted \in BOOLEAN : quoted <=> Peek(0) = QUOTE
  OBVIOUS
<1>3. PICK end \in pos .. Len(text) : end = IF quoted THEN pos + 1 ELSE pos
  BY <1>1, <1>2, ClosingInside DEF TextOK
<1>4. /\ diags' \in {diags, AddError(diags, lo, lo + 1)}
      /\ out' = Append(WithText, Tok("FSTR_END", pos, end, <<>>)) /\ pos' = end /\ pc' = "main"
      /\ UNCHANGED <<text, lo, depth>> /\ PopMode
  BY <1>2, <1>3, Zenon DEF FStringEnd
<1>5. ErrorsInside(text, diags')
  <2>1. PICK to \in lo .. Len(text) : to = lo + 1 /\ lo \in 0 .. Len(text)
    BY <1>1 DEF TextOK
  <2>2. ErrorsInside(text, AddError(diags, lo, to))
    BY <1>1, <2>1, ErrorAdded DEF TextOK
  <2>3. QED
    BY <1>1, <1>4, <2>1, <2>2 DEF TextOK
<1>6. StackOK(modes) /\ Last(modes).mode = "FSTR_TEXT" /\ Len(modes) > 1
  <2>1. StackOK(modes) /\ Last(modes).mode = "FSTR_TEXT"
    BY <1>1 DEF TextOK, Mode
  <2>2. QED
    BY <2>1, StackFacts
<1>7. modes' = Front(modes) /\ StackOK(modes')
  BY <1>4, <1>6, StackPopped DEF PopMode
<1>8. modes' = Open(modes, Tok("FSTR_END", pos, end, <<>>))
  BY <1>6, <1>7, OpenCases
<1>9. Placed' /\ LoopOK' /\ Consumed' = end /\ end \in Nat
  BY <1>1, <1>3, <1>4 DEF TextOK, Placed, LoopOK, Consumed, Loops
<1>10. /\ TokensUpTo(text, WithText, pos) /\ modes = Opened(WithText)
       /\ pos \in Nat /\ pos \in pos .. Len(text) /\ Len(text) \in Nat
  BY <1>1, WithTextSent DEF TextOK
<1>11. text' = text /\ Consumed' \in Nat /\ end <= Consumed'
  BY <1>4, <1>9
<1>12. QED
  BY <1>3, <1>4, <1>5, <1>7, <1>8, <1>9, <1>10, <1>11, TokenSent

LEMMA ExprStartInv ==
  ASSUME LInv, ExprStart
  PROVE  LInv'
<1> USE DEF ExprStart
<1>1. TextOK
  BY TextFacts
<1>2. PICK end \in pos .. Len(text) : end = pos + 1
  <2>1. Peek(0) # NUL
    BY Terminator
  <2>2. pos + 0 + 1 <= Len(text)
    BY <1>1, <2>1, PeekInside DEF TextOK
  <2>3. QED
    BY <1>1, <2>2 DEF TextOK
<1>3. /\ out' = Append(WithText, Tok("FSTR_EXPR_START", pos, end, <<>>)) /\ pos' = end /\ pc' = "main"
      /\ UNCHANGED <<text, lo, depth, diags>>
  BY <1>2
<1>4. StackOK(modes) /\ Last(modes).mode = "FSTR_TEXT"
  BY <1>1 DEF TextOK, Mode
<1>5. modes' = Append(modes, Fresh("FSTR_EXPR")) /\ StackOK(modes')
  BY <1>4, StackPushed DEF PushMode, Fresh
<1>6. modes' = Open(modes, Tok("FSTR_EXPR_START", pos, end, <<>>))
  BY <1>4, <1>5, OpenCases
<1>7. Placed' /\ LoopOK' /\ Consumed' = end /\ end \in Nat
  BY <1>1, <1>2, <1>3 DEF TextOK, Placed, LoopOK, Consumed, Loops
<1>8. /\ TokensUpTo(text, WithText, pos) /\ modes = Opened(WithText)
      /\ pos \in Nat /\ pos \in pos .. Len(text) /\ Len(text) \in Nat
  BY <1>1, WithTextSent DEF TextOK
<1>9. ErrorsInside(text, diags') /\ text' = text /\ Consumed' \in Nat /\ end <= Consumed'
  BY <1>1, <1>3, <1>7 DEF TextOK
<1>10. QED
  BY <1>2, <1>3, <1>5, <1>6, <1>7, <1>8, <1>9, TokenSent

LEMMA DoubledBraceInv ==
  ASSUME LInv, DoubledBrace
  PROVE  LInv'
<1> USE DEF DoubledBrace
<1>1. TextOK
  BY TextFacts
<1>2. pos + 2 <= Len(text)
  <2>1. Peek(1) # NUL
    BY Terminator
  <2>2. QED
    BY <1>1, <2>1, PeekInside DEF TextOK
<1>3. Placed' /\ LoopOK' /\ Consumed = lo /\ Consumed' = lo /\ lo \in Nat
  BY <1>1, <1>2 DEF TextOK, Placed, LoopOK, Consumed, Mode
<1>4. ErrorsInside(text, diags') /\ UNCHANGED <<text, modes, out>>
  BY <1>1 DEF TextOK
<1>5. QED
  BY <1>3, <1>4, NothingSent

LEMMA SingleBraceInv ==
  ASSUME LInv, SingleBrace
  PROVE  LInv'
<1> USE DEF SingleBrace
<1>1. TextOK
  BY TextFacts
<1>2. PICK end \in pos .. Len(text) : end = pos + 1
  <2>1. Peek(0) # NUL
    BY Terminator
  <2>2. pos + 0 + 1 <= Len(text)
    BY <1>1, <2>1, PeekInside DEF TextOK
  <2>3. QED
    BY <1>1, <2>2 DEF TextOK
<1>3. Placed' /\ LoopOK' /\ Consumed = lo /\ Consumed' = lo /\ lo \in Nat
  BY <1>1, <1>2 DEF TextOK, Placed, LoopOK, Consumed, Mode
<1>4. ErrorsInside(text, diags')
  BY <1>1, <1>2, ErrorAdded DEF TextOK
<1>5. QED
  BY <1>3, <1>4, NothingSent

-----------------------------------------------------------------------------
(* Theorems.                                                               *)

LEMMA StepInv ==
  ASSUME LInv, [Next]_vars
  PROVE  LInv'
<1>1. CASE EnterText \/ EnterNormal \/ CloseMode \/ EndOfFile
  BY <1>1, EnterTextInv, EnterNormalInv, CloseModeInv, EndOfFileInv
<1>2. CASE Trivia \/ Comment
  BY <1>2, TriviaInv, CommentInv
<1>3. CASE Normal
  BY <1>3, FStringStartInv, LexIdentInv, LexNumberInv, StringStartInv, ExprEndInv, LexOperatorInv,
     UnexpectedCharInv DEF Normal
<1>4. CASE Strings
  BY <1>4, LexStringInv, StringEndInv, LexFTextInv, FStringEndInv, DoubledBraceInv, ExprStartInv,
     SingleBraceInv DEF Strings
<1>5. CASE UNCHANGED vars
  <2>1. text' = text /\ pos' = pos /\ modes' = modes /\ pc' = pc /\ lo' = lo /\ depth' = depth /\ out' = out /\ diags' = diags
    BY <1>5 DEF vars
  <2>2. Placed' /\ LoopOK' /\ Consumed' = Consumed /\ Consumed \in Nat
    BY <2>1 DEF LInv, Placed, LoopOK, Consumed, Mode
  <2>3. ErrorsInside(text, diags')
    BY <2>1 DEF LInv
  <2>4. QED
    BY <2>1, <2>2, <2>3, NothingSent
<1>6. QED
  BY <1>1, <1>2, <1>3, <1>4, <1>5 DEF Next

(* The lexer keeps its place, its loops, its stack and its tokens in step. *)
THEOREM Invariance == Spec => []LInv
<1>1. Init => LInv
  BY InitInv
<1>2. LInv /\ [Next]_vars => LInv'
  BY StepInv
<1>3. QED
  BY <1>1, <1>2, PTL DEF Spec

(* Whatever a text cuts off or opens twice, the tokens sent so far nest    *)
(* like formatted strings do, and the modes on the stack are the ones that *)
(* they leave open: the parser never sees an unbalanced f-string.          *)
THEOREM StringsNest == Spec => []TokensNest
<1>1. LInv => TokensNest
  BY DEF LInv, TokensNest, Opened
<1>2. QED
  BY <1>1, Invariance, PTL

(* Values have their types.                                                *)
THEOREM Typed == Spec => []TypeOK
<1>1. LInv => TypeOK
  <2> SUFFICES ASSUME LInv PROVE TypeOK
    OBVIOUS
  <2>2. Placed /\ modes \in Seq([mode : Modes, braces : Nat])
    BY DEF LInv, StackOK, Frame
  <2>3. ASSUME NEW i \in DOMAIN out PROVE out[i].lo \in Nat /\ out[i].hi \in Nat
    <3>1. DOMAIN out = 1 .. Len(out) /\ Len(text) \in Nat /\ TokensUpTo(text, out, Consumed)
      BY <2>2, AppendSeq DEF LInv, TokensUpTo, Placed
    <3>2. out[i].lo \in 0 .. Len(text) /\ out[i].hi \in out[i].lo .. Consumed
      BY <3>1 DEF TokensUpTo
    <3>3. Consumed \in Nat
      BY <2>2 DEF Placed, Consumed
    <3>4. QED
      BY <3>1, <3>2, <3>3
  <2>4. ASSUME NEW i \in DOMAIN diags.items PROVE diags.items[i].lo \in Nat /\ diags.items[i].hi \in Nat
    <3>1. IsSeq(diags.items) /\ Len(text) \in Nat
      BY <2>2 DEF LInv, ErrorsInside, Placed
    <3>2. DOMAIN diags.items = 1 .. Len(diags.items)
      BY <3>1, AppendSeq
    <3>3. diags.items[i].lo \in Nat /\ diags.items[i].hi \in diags.items[i].lo .. Len(text)
      BY <3>2 DEF LInv, ErrorsInside
    <3>4. QED
      BY <3>1, <3>3
  <2>5. QED
    BY <2>2, <2>3, <2>4 DEF TypeOK, Placed
<1>2. QED
  BY <1>1, Invariance, PTL

(* No lookahead and no escape takes the lexer behind the end of its text,  *)
(* and what it sends and reports lies in the text, its tokens in order.    *)
THEOREM SpansFit == Spec => []SpansFitTheText
<1>1. LInv => SpansFitTheText
  <2> SUFFICES ASSUME LInv PROVE SpansFitTheText
    OBVIOUS
  <2>2. Placed /\ Len(text) \in Nat /\ pos \in Nat /\ pos <= Len(text) /\ Consumed \in Nat /\ Consumed <= Len(text)
    BY DEF LInv, Placed, Consumed
  <2>3. TokensUpTo(text, out, Consumed) /\ DOMAIN out = 1 .. Len(out) /\ Len(out) \in Nat
    BY AppendSeq DEF LInv, TokensUpTo
  <2>4. ASSUME NEW i \in 1 .. Len(out)
        PROVE  out[i].lo <= out[i].hi /\ out[i].hi <= Len(text) /\ (i > 1 => out[i - 1].hi <= out[i].lo)
    <3>1. out[i].lo \in 0 .. Len(text) /\ out[i].hi \in out[i].lo .. Consumed
      BY <2>3 DEF TokensUpTo
    <3>2. out[i].lo <= out[i].hi /\ out[i].hi <= Len(text)
      BY <2>2, <3>1
    <3>3. i > 1 => i \in 2 .. Len(out)
      BY <2>3
    <3>4. i > 1 => out[i - 1].hi <= out[i].lo
      BY <2>3, <3>3 DEF TokensUpTo
    <3>5. QED
      BY <3>2, <3>4
  <2>5. ErrorsInside(text, diags) /\ DOMAIN diags.items = 1 .. Len(diags.items)
    BY AppendSeq DEF LInv, ErrorsInside
  <2>6. ASSUME NEW i \in DOMAIN diags.items
        PROVE  diags.items[i].lo <= diags.items[i].hi /\ diags.items[i].hi <= Len(text)
    <3>1. diags.items[i].lo \in Nat /\ diags.items[i].hi \in diags.items[i].lo .. Len(text)
      BY <2>5 DEF ErrorsInside
    <3>2. QED
      BY <2>2, <3>1
  <2>7. QED
    BY <2>2, <2>3, <2>4, <2>5, <2>6 DEF SpansFitTheText
<1>2. QED
  BY <1>1, Invariance, PTL

-----------------------------------------------------------------------------
(* The steps run out.                                                      *)

(* The lexer's place in numbers.                                           *)
CountedOK ==
  /\ Len(text) \in Nat /\ pos \in Nat /\ pos <= Len(text) /\ Len(modes) \in Nat
  /\ Place \in 0 .. 4 /\ StepsLeft \in Nat
  /\ StepsLeft = 8 * (Len(text) - pos) + 4 * Len(modes) + Place

LEMMA Counted == LInv => CountedOK
<1> SUFFICES ASSUME LInv PROVE CountedOK
  OBVIOUS
<1>1. Len(text) \in Nat /\ pos \in Nat /\ pos <= Len(text) /\ Len(modes) \in Nat
  BY StackFacts DEF LInv, Placed
<1>2. Place \in 0 .. 4
  BY DEF Place
<1>3. QED
  BY <1>1, <1>2 DEF StepsLeft, CountedOK

(* A step that reads a character may open a mode, not more.                *)
LEMMA ReadingFalls ==
  ASSUME LInv, LInv', text' = text, pos < pos', Len(modes') <= Len(modes) + 1,
         Len(modes') > Len(modes) => Place' <= Place + 2
  PROVE  StepsLeft' < StepsLeft
<1>1. PICK n, p, m, q \in Nat : n = Len(text) /\ p = pos /\ m = Len(modes) /\ q = Place
  BY Counted DEF CountedOK
<1>2. /\ Len(text') \in Nat /\ pos' \in Nat /\ Len(modes') \in Nat /\ Place' \in 0 .. 4
      /\ StepsLeft' = 8 * (Len(text') - pos') + 4 * Len(modes') + Place'
  <2>1. CountedOK'
    BY Counted, PTL
  <2>2. QED
    BY <2>1 DEF CountedOK
<1>3. PICK r, l, k \in Nat : r = pos' /\ l = Len(modes') /\ k = Place'
  <2>1. \A i \in 0 .. 4 : i \in Nat
    OBVIOUS
  <2>2. QED
    BY <1>2, <2>1, Zenon
<1>4. StepsLeft = 8 * (n - p) + 4 * m + q /\ q \in 0 .. 4
  BY <1>1, Counted DEF CountedOK
<1>5. StepsLeft' = 8 * (n - r) + 4 * l + k /\ k \in 0 .. 4
  BY <1>1, <1>2, <1>3
<1>6. p < r /\ l <= m + 1 /\ (l > m => k <= q + 2)
  BY <1>1, <1>3
<1>7. 8 * (n - r) <= 8 * (n - p) - 8
  BY <1>6
<1>8. 4 * l + k < 4 * m + q + 8
  BY <1>4, <1>5, <1>6
<1>9. QED
  BY <1>4, <1>5, <1>7, <1>8

(* A step that reads nothing closes a mode or moves on.                    *)
LEMMA StandingFalls ==
  ASSUME LInv, LInv', text' = text, pos' = pos, 4 * Len(modes') + Place' < 4 * Len(modes) + Place
  PROVE  StepsLeft' < StepsLeft
<1>1. CountedOK /\ CountedOK'
  BY Counted, PTL
<1>2. PICK n, p, m, q \in Nat : n = Len(text) /\ p = pos /\ m = Len(modes) /\ q = Place
  <2>1. \A i \in 0 .. 4 : i \in Nat
    OBVIOUS
  <2>2. QED
    BY <1>1, <2>1, Zenon DEF CountedOK
<1>3. PICK l, k \in Nat : l = Len(modes') /\ k = Place'
  <2>1. \A i \in 0 .. 4 : i \in Nat
    OBVIOUS
  <2>2. QED
    BY <1>1, <2>1, Zenon DEF CountedOK
<1>4. StepsLeft = 8 * (n - p) + 4 * m + q
  BY <1>1, <1>2 DEF CountedOK
<1>5. StepsLeft' = 8 * (n - p) + 4 * l + k
  BY <1>1, <1>2, <1>3 DEF CountedOK
<1>6. 4 * l + k < 4 * m + q
  BY <1>2, <1>3
<1>7. QED
  BY <1>4, <1>5, <1>6

(* A run over characters that starts with one of them reads it.            *)
LEMMA RunReads ==
  ASSUME Len(text) \in Nat, pos \in 0 .. Len(text), pos < Len(text), NEW S, Peek(0) \in S
  PROVE  pos < RunEnd(pos, S)
<1>1. RunEnd(pos, S) \in pos .. Len(text) /\ (RunEnd(pos, S) = Len(text) \/ Char(text, RunEnd(pos, S)) \notin S)
  BY RunEndInside
<1>2. PICK q : q = RunEnd(pos, S)
  OBVIOUS
<1>3. Char(text, pos) \in S
  <2>1. pos + 0 = pos
    OBVIOUS
  <2>2. QED
    BY <2>1 DEF Peek
<1>4. q # pos
  BY <1>1, <1>2, <1>3
<1>5. QED
  BY <1>1, <1>2, <1>4

LEMMA TriviaFalls ==
  ASSUME LInv, LInv', Trivia
  PROVE  StepsLeft' < StepsLeft
<1>1. Placed /\ pc = "trivia" /\ Len(text) \in Nat /\ pos \in 0 .. Len(text) /\ UNCHANGED <<text, modes>>
  BY DEF LInv, Placed, Trivia, SkipBlank, SkipLineComment, OpenComment, EndTrivia
<1>2. Len(modes) \in Nat /\ Len(modes') <= Len(modes) + 1 /\ ~(Len(modes') > Len(modes))
  BY <1>1, Counted DEF CountedOK
<1>3. Peek(0) # NUL => pos < Len(text)
  BY <1>1, PeekInside
<1>4. CASE SkipBlank
  <2>1. NUL \notin Blank
    BY Zenon DEF NUL, Blank, TAB, CR, NL
  <2>2. Peek(0) \in Blank /\ pos' = RunEnd(pos, Blank)
    BY <1>4 DEF SkipBlank
  <2>3. pos < RunEnd(pos, Blank)
    BY <1>1, <1>3, <2>1, <2>2, RunReads
  <2>4. QED
    BY <1>1, <1>2, <2>2, <2>3, ReadingFalls
<1>5. CASE SkipLineComment
  <2> DEFINE S == {text[i] : i \in DOMAIN text} \ {NL}
  <2>1. Peek(0) = "/" /\ pos' = RunEnd(pos, S)
    BY <1>5 DEF SkipLineComment
  <2>2. pos < Len(text)
    BY <1>3, <2>1, Terminator
  <2>3. Peek(0) \in S
    <3>1. Peek(0) = text[pos + 1] /\ pos + 1 \in DOMAIN text
      <4>1. text \in Seq(STRING)
        BY <1>1 DEF Placed
      <4>2. QED
        BY <1>1, <2>2, <4>1 DEF Peek, Char
    <3>2. "/" # NL
      BY Zenon DEF NL
    <3>3. QED
      BY <2>1, <3>1, <3>2, Zenon
  <2> HIDE DEF S
  <2>4. pos < RunEnd(pos, S)
    BY <1>1, <2>2, <2>3, RunReads
  <2>5. QED
    BY <1>1, <1>2, <2>1, <2>4, ReadingFalls
<1>6. CASE OpenComment
  <2>1. pos < pos'
    BY <1>1, <1>6 DEF OpenComment
  <2>2. QED
    BY <1>1, <1>2, <2>1, ReadingFalls
<1>7. CASE EndTrivia
  <2>1. pos' = pos /\ pc' = IF AtEnd THEN "main" ELSE "normal"
    BY <1>7 DEF EndTrivia
  <2>2. AtEnd' <=> AtEnd
    BY <1>1, <2>1 DEF AtEnd
  <2>3. Place' < Place
    BY <1>1, <2>1, <2>2 DEF Place
  <2>4. Place \in 0 .. 4 /\ Place' \in 0 .. 4
    <3>1. CountedOK /\ CountedOK'
      BY Counted, PTL
    <3>2. QED
      BY <3>1 DEF CountedOK
  <2>5. QED
    BY <1>1, <1>2, <2>1, <2>3, <2>4, StandingFalls
<1>8. QED
  BY <1>4, <1>5, <1>6, <1>7 DEF Trivia

LEMMA CommentFalls ==
  ASSUME LInv, LInv', Comment
  PROVE  StepsLeft' < StepsLeft
<1>1. Placed /\ pc = "comment" /\ Len(text) \in Nat /\ pos \in 0 .. Len(text) /\ UNCHANGED <<text, modes>>
  BY DEF LInv, Placed, Comment, CommentNests, CommentCloses, CommentText, CommentUnterminated
<1>2. Len(modes) \in Nat /\ Len(modes') <= Len(modes) + 1 /\ ~(Len(modes') > Len(modes))
  BY <1>1, Counted DEF CountedOK
<1>3. CASE CommentNests \/ CommentCloses \/ CommentText
  <2>1. pos < pos'
    BY <1>1, <1>3 DEF CommentNests, CommentCloses, CommentText
  <2>2. QED
    BY <1>1, <1>2, <2>1, ReadingFalls
<1>4. CASE CommentUnterminated
  <2>1. pos' = pos /\ pc' = "trivia"
    BY <1>4 DEF CommentUnterminated
  <2>2. Place' < Place
    BY <1>1, <2>1 DEF Place
  <2>3. Place \in 0 .. 4 /\ Place' \in 0 .. 4
    <3>1. CountedOK /\ CountedOK'
      BY Counted, PTL
    <3>2. QED
      BY <3>1 DEF CountedOK
  <2>4. QED
    BY <1>1, <1>2, <2>1, <2>2, <2>3, StandingFalls
<1>5. QED
  BY <1>3, <1>4 DEF Comment

LEMMA MainFalls ==
  ASSUME LInv, LInv', EnterText \/ EnterNormal \/ CloseMode \/ EndOfFile
  PROVE  StepsLeft' < StepsLeft
<1>1. /\ pc = "main" /\ text' = text /\ pos' = pos /\ Len(modes) \in Nat
      /\ Place \in 0 .. 4 /\ Place' \in 0 .. 4
  <2>1. pc = "main" /\ text' = text /\ pos' = pos
    BY DEF EnterText, EnterNormal, CloseMode, EndOfFile
  <2>2. CountedOK /\ CountedOK'
    BY Counted, PTL
  <2>3. QED
    BY <2>1, <2>2 DEF CountedOK
<1>2. AtEnd' <=> AtEnd
  BY <1>1 DEF AtEnd
<1>3. CASE EnterText \/ EnterNormal \/ EndOfFile
  <2>1. modes' = modes
    BY <1>3 DEF EnterText, EnterNormal, EndOfFile
  <2>2. CASE EnterText \/ EnterNormal
    <3>1. pc' \in {"ftext", "trivia"} /\ ~AtEnd
      BY <2>2 DEF EnterText, EnterNormal
    <3>2. Place' < Place
      BY <1>1, <1>2, <3>1 DEF Place
    <3>3. QED
      BY <1>1, <2>1, <3>2, StandingFalls
  <2>3. CASE EndOfFile
    <3>1. pc' = "done" /\ AtEnd
      BY <2>3 DEF EndOfFile
    <3>2. Place' < Place
      BY <1>1, <1>2, <3>1 DEF Place
    <3>3. QED
      BY <1>1, <2>1, <3>2, StandingFalls
  <2>4. QED
    BY <1>3, <2>2, <2>3
<1>4. CASE CloseMode
  <2>1. pc' = pc /\ modes' = Front(modes) /\ Len(modes) > 1
    BY <1>4 DEF CloseMode, PopMode
  <2>2. Len(modes') = Len(modes) - 1
    BY <2>1, StackFacts, FrontSeq DEF LInv
  <2>3. Place' = Place
    BY <1>1, <1>2, <2>1 DEF Place
  <2>4. QED
    BY <1>1, <2>2, <2>3, StandingFalls
<1>5. QED
  BY <1>3, <1>4

LEMMA NormalReads ==
  ASSUME LInv, Normal
  PROVE  /\ text' = text /\ pos < pos' /\ pc = "normal" /\ pc' \in {"main", "string"}
         /\ Len(modes') <= Len(modes) + 1 /\ (Len(modes') > Len(modes) => pc' = "main")
<1>1. NormalOK /\ pc' \in {"main", "string"} /\ text' = text
  <2>1. pc = "normal" /\ pc' \in {"main", "string"} /\ text' = text
    <3>1. CASE FStringStart \/ StringStart \/ ExprEnd \/ UnexpectedChar
      BY <3>1 DEF FStringStart, StringStart, ExprEnd, UnexpectedChar
    <3>2. CASE LexIdent \/ LexNumber \/ LexOperator
      BY <3>2, Zenon DEF LexIdent, LexNumber, LexOperator
    <3>3. QED
      BY <3>1, <3>2 DEF Normal
  <2>2. QED
    BY <2>1, NormalFacts
<1>2. /\ Len(text) \in Nat /\ pos \in Nat /\ pos \in 0 .. Len(text) /\ pos < Len(text) /\ StackOK(modes) /\ pc = "normal"
      /\ Len(modes) \in Nat /\ Placed
  BY <1>1, StackFacts DEF NormalOK
<1>3. CASE FStringStart
  <2>1. pos < pos' /\ pc' = "main"
    BY <1>2, <1>3 DEF FStringStart
  <2>2. Len(modes') = Len(modes) + 1
    <3>1. modes' = Append(modes, Fresh("FSTR_TEXT"))
      BY <1>3 DEF FStringStart, PushMode, Fresh
    <3>2. QED
      BY <1>2, <3>1, StackFacts, AppendSeq
  <2>3. QED
    BY <1>1, <1>2, <2>1, <2>2
<1>4. CASE LexIdent
  <2>1. modes' = modes /\ pos' = RunEnd(pos, IdentChar) /\ Peek(0) \in IdentStart
    BY <1>4, Zenon DEF LexIdent
  <2>2. Peek(0) \in IdentChar
    BY <2>1, Zenon DEF IdentChar
  <2>3. pos < pos'
    BY <1>2, <2>1, <2>2, RunReads
  <2>4. QED
    BY <1>1, <1>2, <2>1, <2>3
<1>5. CASE LexNumber
  <2>1. PICK end : pos' = RunEnd(end, IdentChar) /\ end \in pos .. Len(text)
    BY <1>2, <1>5, NumberEnd
  <2>2. Peek(0) \in IdentChar /\ modes' = modes
    BY <1>5, Zenon DEF LexNumber, IdentChar
  <2>3. pos < pos'
    <3>1. CASE end = pos
      BY <1>2, <2>1, <2>2, <3>1, RunReads
    <3>2. CASE end # pos
      <4>1. end \in 0 .. Len(text) /\ pos < end
        BY <1>2, <2>1, <3>2
      <4>2. pos' \in end .. Len(text)
        BY <1>2, <2>1, <4>1, RunEndInside
      <4>3. QED
        BY <1>2, <4>1, <4>2
    <3>3. QED
      BY <3>1, <3>2
  <2>4. QED
    BY <1>1, <1>2, <2>2, <2>3
<1>6. CASE StringStart \/ UnexpectedChar
  BY <1>1, <1>2, <1>6 DEF StringStart, UnexpectedChar
<1>7. CASE ExprEnd
  <2>1. pos < pos' /\ modes' = IF Len(modes) > 1 THEN Front(modes) ELSE modes
    BY <1>2, <1>7 DEF ExprEnd, PopMode
  <2>2. Len(modes') <= Len(modes)
    BY <1>2, <2>1, StackFacts, FrontSeq
  <2>3. QED
    BY <1>1, <1>2, <2>1, <2>2
<1>8. CASE LexOperator
  <2>1. PICK op : OpShape(op) /\ pos + Len(op) <= Len(text) /\ Slice(pos, pos + Len(op)) = op /\ pos' = pos + Len(op)
    BY <1>8, OperatorTaken
  <2>2. Len(op) \in Nat /\ Len(op) > 0
    BY <1>1, <2>1, BracesCounted
  <2>3. Len(modes') = Len(modes)
    <3>1. CountBraces
      BY <1>8, Zenon DEF LexOperator
    <3>2. modes' = modes \/ (\E r : modes' = [modes EXCEPT ![Len(modes)] = r])
      BY <3>1 DEF CountBraces
    <3>3. modes \in Seq(Frame)
      BY <1>2 DEF StackOK
    <3>4. ASSUME NEW r, modes' = [modes EXCEPT ![Len(modes)] = r] PROVE Len(modes') = Len(modes)
      BY <3>3, <3>4
    <3>5. QED
      BY <3>2, <3>4
  <2>4. QED
    BY <1>1, <1>2, <2>1, <2>2, <2>3
<1>9. QED
  BY <1>3, <1>4, <1>5, <1>6, <1>7, <1>8 DEF Normal

LEMMA NormalFalls ==
  ASSUME LInv, LInv', Normal
  PROVE  StepsLeft' < StepsLeft
<1>1. /\ text' = text /\ pos < pos' /\ pc = "normal" /\ pc' \in {"main", "string"}
      /\ Len(modes') <= Len(modes) + 1 /\ (Len(modes') > Len(modes) => pc' = "main")
  BY NormalReads
<1>2. Len(modes') > Len(modes) => Place' <= Place + 2
  BY <1>1 DEF Place
<1>3. QED
  BY <1>1, <1>2, ReadingFalls

LEMMA StringsFall ==
  ASSUME LInv, LInv', Strings
  PROVE  StepsLeft' < StepsLeft
<1>1. /\ Len(text) \in Nat /\ pos \in 0 .. Len(text) /\ text' = text /\ Len(modes) \in Nat
      /\ Placed /\ StackOK(modes) /\ Place \in 0 .. 4 /\ Place' \in 0 .. 4 /\ pc \in {"string", "ftext"}
  <2>1. text' = text /\ pc \in {"string", "ftext"}
    <3>1. CASE LexString \/ LexFText
      BY <3>1, Zenon DEF LexString, LexFText, StringChar
    <3>2. CASE StringEnd \/ FStringEnd \/ DoubledBrace \/ ExprStart \/ SingleBrace
      BY <3>2, Zenon DEF StringEnd, FStringEnd, DoubledBrace, ExprStart, SingleBrace
    <3>3. QED
      BY <3>1, <3>2 DEF Strings
  <2>2. CountedOK /\ CountedOK'
    BY Counted, PTL
  <2>3. QED
    BY <2>1, <2>2 DEF CountedOK, LInv, Placed
<1>2. CASE LexString \/ LexFText
  <2>1. StringChar
    BY <1>2 DEF LexString, LexFText
  <2>2. modes' = modes /\ pos' \in {Escape.at, pos + 1} /\ ~AtEnd
    BY <2>1, Zenon DEF StringChar
  <2>3. pos < pos'
    BY <1>1, <2>2, EscapeInside DEF Inside
  <2>4. QED
    BY <1>1, <2>2, <2>3, ReadingFalls
<1>3. CASE StringEnd
  <2>1. pos' \in {pos, pos + 1} /\ modes' = modes /\ pc = "string" /\ pc' = "main"
    BY <1>3, Zenon DEF StringEnd
  <2>2. Place' < Place
    BY <2>1 DEF Place
  <2>3. CASE pos' = pos
    BY <1>1, <2>1, <2>2, <2>3, StandingFalls
  <2>4. CASE pos' = pos + 1
    BY <1>1, <2>1, <2>4, ReadingFalls
  <2>5. QED
    BY <2>1, <2>3, <2>4
<1>4. CASE FStringEnd
  <2>1. pos' \in {pos, pos + 1} /\ PopMode /\ pc = "ftext" /\ pc' = "main"
    BY <1>4, Zenon DEF FStringEnd
  <2>2. Len(modes) > 1
    <3>1. Last(modes).mode = "FSTR_TEXT"
      BY <2>1 DEF LInv, LoopOK, Mode
    <3>2. QED
      BY <1>1, <3>1, StackFacts
  <2>3. Len(modes') = Len(modes) - 1
    <3>1. modes' = Front(modes)
      BY <2>1, <2>2 DEF PopMode
    <3>2. QED
      BY <1>1, <2>2, <3>1, StackFacts, FrontSeq
  <2>4. Place' <= Place + 2
    BY <2>1 DEF Place
  <2>5. CASE pos' = pos
    BY <1>1, <2>3, <2>4, <2>5, StandingFalls
  <2>6. CASE pos' = pos + 1
    BY <1>1, <2>3, <2>6, ReadingFalls
  <2>7. QED
    BY <2>1, <2>5, <2>6
<1>5. CASE DoubledBrace \/ SingleBrace
  <2>1. pos < pos' /\ modes' = modes
    BY <1>1, <1>5 DEF DoubledBrace, SingleBrace
  <2>2. QED
    BY <1>1, <2>1, ReadingFalls
<1>6. CASE ExprStart
  <2>1. pos < pos' /\ pc = "ftext" /\ pc' = "main"
    BY <1>1, <1>6 DEF ExprStart
  <2>2. Len(modes') = Len(modes) + 1
    <3>1. modes' = Append(modes, Fresh("FSTR_EXPR"))
      BY <1>6 DEF ExprStart, PushMode, Fresh
    <3>2. QED
      BY <1>1, <3>1, StackFacts, AppendSeq
  <2>3. Place' <= Place + 2
    BY <2>1 DEF Place
  <2>4. QED
    BY <1>1, <2>1, <2>2, <2>3, ReadingFalls
<1>7. QED
  BY <1>2, <1>3, <1>4, <1>5, <1>6 DEF Strings

(* Every step reads a character, closes a mode or comes nearer to that:    *)
(* lex_source takes at most 8 steps for each character, and a few more.    *)
THEOREM StepsEnd == Spec => StepsRunOut
<1>1. LInv /\ LInv' /\ Next => StepsLeft' < StepsLeft
  <2> SUFFICES ASSUME LInv, LInv', Next PROVE StepsLeft' < StepsLeft
    OBVIOUS
  <2>1. QED
    BY MainFalls, TriviaFalls, CommentFalls, NormalFalls, StringsFall DEF Next
<1>2. LInv /\ LInv' /\ [Next]_vars => [StepsLeft' < StepsLeft]_vars
  BY <1>1
<1>3. QED
  BY <1>2, Invariance, PTL DEF Spec, StepsRunOut

-----------------------------------------------------------------------------
(* Lines and positions.                                                    *)

(* The line ends up to an offset, the number of its line, and where that   *)
(* line begins.                                                            *)
Ends(i) == {j \in 1 .. i : text[j] = NL}
LineAt(i) == Cardinality(Ends(i)) + 1
StartAt(i) == Max(Ends(i) \cup {0})

LEMMA MaxIs ==
  ASSUME NEW S \in SUBSET Int, NEW m \in S, \A x \in S : x <= m
  PROVE  Max(S) = m
<1>1. \A x \in S : (\A y \in S : x >= y) => x = m
  <2>1. ASSUME NEW x \in S, \A y \in S : x >= y PROVE x = m
    <3>1. x >= m /\ x <= m /\ x \in Int /\ m \in Int
      BY <2>1
    <3>2. QED
      BY <3>1
  <2>2. QED
    BY <2>1
<1>2. \A y \in S : m >= y
  <2>1. \A y \in S : y \in Int /\ m \in Int /\ y <= m
    OBVIOUS
  <2>2. QED
    BY <2>1
<1>3. Max(S) = CHOOSE x \in S : \A y \in S : x >= y
  BY Zenon DEF Max
<1>4. QED
  BY <1>1, <1>2, <1>3, Zenon

(* What holds at the first place, and at each place if at the one before,  *)
(* holds at all.                                                           *)
LEMMA Along ==
  ASSUME NEW a \in Nat, NEW b \in Nat, NEW P,
         a \in P, \A i \in a + 1 .. b : i - 1 \in P => i \in P
  PROVE  \A i \in a .. b : i \in P
<1> DEFINE Bad == {i \in Nat : i \in a .. b /\ i \notin P}
<1>1. SUFFICES ASSUME Bad # {} PROVE FALSE
  OBVIOUS
<1>2. PICK i \in Bad : \A j \in Bad : i <= j
  BY <1>1, LeastElement
<1>3. i # a /\ i \in a + 1 .. b /\ i - 1 \in a .. b /\ i - 1 \in Nat
  BY <1>2
<1>4. i - 1 \notin Bad
  BY <1>2, <1>3
<1>5. QED
  BY <1>2, <1>3, <1>4

LEMMA EndsGrow ==
  ASSUME NEW i \in Nat
  PROVE  /\ IsFiniteSet(Ends(i)) /\ LineAt(i) \in Nat \ {0} /\ Ends(0) = {} /\ LineAt(0) = 1 /\ StartAt(0) = 0
         /\ StartAt(i) \in 0 .. i
         /\ i > 0 /\ text[i] = NL => LineAt(i) = LineAt(i - 1) + 1 /\ StartAt(i) = i
         /\ i > 0 /\ text[i] # NL => LineAt(i) = LineAt(i - 1) /\ StartAt(i) = StartAt(i - 1)
<1>1. \A j \in Nat : IsFiniteSet(Ends(j)) /\ Cardinality(Ends(j)) \in Nat
  <2> SUFFICES ASSUME NEW j \in Nat PROVE IsFiniteSet(Ends(j)) /\ Cardinality(Ends(j)) \in Nat
    OBVIOUS
  <2>1. IsFiniteSet(1 .. j)
    BY FS_Interval
  <2>2. Ends(j) \in SUBSET (1 .. j)
    BY DEF Ends
  <2>3. IsFiniteSet(Ends(j))
    BY <2>1, <2>2, FS_Subset
  <2>4. QED
    BY <2>3, FS_CardinalityType
<1>2. Ends(0) = {}
  BY DEF Ends
<1>3. LineAt(0) = 1
  BY <1>2, FS_EmptySet DEF LineAt
<1>4. StartAt(0) = 0
  <2>1. Max({0}) = 0
    BY MaxIs
  <2>2. Ends(0) \cup {0} = {0}
    BY <1>2
  <2>3. QED
    BY <2>1, <2>2 DEF StartAt
<1>5. StartAt(i) \in 0 .. i
  <2> DEFINE S == Ends(i) \cup {0}
  <2>1. S \in SUBSET (0 .. i) /\ 0 \in S
    BY DEF Ends
  <2> DEFINE G == {m \in Nat : \A x \in S : x <= m}
  <2>2. i \in G
    BY <2>1
  <2> HIDE DEF S
  <2>3. PICK m \in G : \A n \in G : m <= n
    BY <2>2, LeastElement
  <2>4. m \in S
    <3>1. SUFFICES ASSUME m \notin S PROVE FALSE
      OBVIOUS
    <3>2. m # 0 /\ m \in Nat /\ \A x \in S : x <= m /\ x # m /\ x \in Nat
      BY <2>1, <2>3, <3>1
    <3>3. m - 1 \in Nat /\ \A x \in S : x <= m - 1
      BY <3>2
    <3>4. QED
      BY <2>3, <3>2, <3>3
  <2>5. Max(S) = m
    BY <2>1, <2>3, <2>4, MaxIs
  <2>6. QED
    BY <2>1, <2>4, <2>5 DEF StartAt, S
<1>6. ASSUME i > 0, text[i] = NL PROVE LineAt(i) = LineAt(i - 1) + 1 /\ StartAt(i) = i
  <2>1. i - 1 \in Nat /\ Ends(i) = Ends(i - 1) \cup {i} /\ i \notin Ends(i - 1)
    BY <1>6 DEF Ends
  <2>2. Cardinality(Ends(i)) = Cardinality(Ends(i - 1)) + 1
    BY <1>1, <2>1, FS_AddElement
  <2>3. Ends(i) \cup {0} \in SUBSET Int /\ i \in Ends(i) \cup {0} /\ \A x \in Ends(i) \cup {0} : x <= i
    BY <1>6 DEF Ends
  <2>4. Max(Ends(i) \cup {0}) = i
    <3> DEFINE S == Ends(i) \cup {0}
    <3> HIDE DEF S
    <3>1. S \in SUBSET Int /\ i \in S /\ \A x \in S : x <= i
      BY <2>3 DEF S
    <3>2. Max(S) = i
      BY <3>1, MaxIs
    <3>3. QED
      BY <3>2 DEF S
  <2>5. QED
    BY <2>2, <2>4 DEF LineAt, StartAt
<1>7. ASSUME i > 0, text[i] # NL PROVE LineAt(i) = LineAt(i - 1) /\ StartAt(i) = StartAt(i - 1)
  <2>1. Ends(i) = Ends(i - 1)
    BY <1>7 DEF Ends
  <2>2. QED
    BY <2>1 DEF LineAt, StartAt
<1>8. LineAt(i) \in Nat \ {0}
  BY <1>1 DEF LineAt
<1>9. QED
  BY <1>1, <1>2, <1>3, <1>4, <1>5, <1>6, <1>7, <1>8

(* The line starts found in the first i characters.                        *)
Longer(i) == IF text[i] = NL THEN <<i>> ELSE <<>>
IsStarts(f) == f = [i \in 0 .. Len(text) |-> IF i = 0 THEN <<0>> ELSE f[i - 1] \o Longer(i)]

LEMMA StartsExist ==
  ASSUME Len(text) \in Nat
  PROVE  \E f : IsStarts(f)
<1> DEFINE Upto(m, f) == f \in [0 .. m -> Seq(Nat)] /\ f[0] = <<0>> /\ \A i \in 1 .. m : f[i] = f[i - 1] \o Longer(i)
           P == {m \in Nat : \E f : Upto(m, f)}
<1>1. 0 \in P
  <2> DEFINE f == [i \in 0 .. 0 |-> <<0>>]
  <2>1. <<0>> \in Seq(Nat)
    OBVIOUS
  <2>2. Upto(0, f)
    BY <2>1
  <2>3. QED
    BY <2>2
<1>2. ASSUME NEW m \in 0 + 1 .. Len(text), m - 1 \in P PROVE m \in P
  <2>1. PICK f : Upto(m - 1, f)
    BY <1>2
  <2>2. Longer(m) \in Seq(Nat) /\ m - 1 \in 0 .. m - 1 /\ m \in Nat \ {0}
    BY DEF Longer
  <2>3. PICK s \in Seq(Nat) : s = f[m - 1] \o Longer(m)
    <3>1. f[m - 1] \in Seq(Nat)
      BY <2>1, <2>2
    <3>2. \A a, b \in Seq(Nat) : a \o b \in Seq(Nat)
      OBVIOUS
    <3>3. f[m - 1] \o Longer(m) \in Seq(Nat)
      BY <2>2, <3>1, <3>2, Zenon
    <3>4. QED
      BY <3>3, Zenon
  <2> DEFINE g == [i \in 0 .. m |-> IF i = m THEN s ELSE f[i]]
  <2>4. g[m] = s /\ m \in 0 .. m /\ \A i \in 0 .. m - 1 : i \in 0 .. m /\ g[i] = f[i]
    BY <2>2
  <2>5. g \in [0 .. m -> Seq(Nat)]
    <3>1. \A i \in 0 .. m : i # m => i \in 0 .. m - 1
      BY <2>2
    <3>2. \A i \in 0 .. m : (IF i = m THEN s ELSE f[i]) \in Seq(Nat)
      BY <2>1, <2>3, <3>1
    <3>3. QED
      BY <3>2
  <2> HIDE DEF g
  <2>6. ASSUME NEW i \in 1 .. m PROVE g[i] = g[i - 1] \o Longer(i)
    <3>1. i - 1 \in 0 .. m - 1
      OBVIOUS
    <3>2. CASE i = m
      BY <2>3, <2>4, <3>1, <3>2
    <3>3. CASE i # m
      <4>1. i \in 1 .. m - 1 /\ i \in 0 .. m - 1
        BY <3>3
      <4>2. QED
        BY <2>1, <2>4, <3>1, <4>1
    <3>4. QED
      BY <3>2, <3>3
  <2>7. g[0] = <<0>>
    <3>1. 0 \in 0 .. m - 1
      BY <2>2
    <3>2. QED
      BY <2>1, <2>4, <3>1
  <2>8. Upto(m, g)
    BY <2>5, <2>6, <2>7
  <2>9. QED
    BY <2>2, <2>8
<1>3. Len(text) \in P
  <2> HIDE DEF P
  <2>1. 0 \in Nat /\ Len(text) \in 0 .. Len(text)
    OBVIOUS
  <2>2. \A i \in 0 .. Len(text) : i \in P
    BY <1>1, <1>2, <2>1, Along
  <2>3. QED
    BY <2>1, <2>2
<1>4. PICK f : Upto(Len(text), f)
  BY <1>3
<1>5. f = [i \in 0 .. Len(text) |-> IF i = 0 THEN <<0>> ELSE f[i - 1] \o Longer(i)]
  <2>1. \A i \in 0 .. Len(text) : f[i] = IF i = 0 THEN <<0>> ELSE f[i - 1] \o Longer(i)
    <3>1. \A i \in 0 .. Len(text) : i # 0 => i \in 1 .. Len(text)
      OBVIOUS
    <3>2. QED
      BY <1>4, <3>1
  <2>2. f = [i \in 0 .. Len(text) |-> f[i]]
    BY <1>4
  <2>3. QED
    BY <2>1, <2>2
<1>6. QED
  BY <1>5 DEF IsStarts

LEMMA StartsAre ==
  ASSUME Len(text) \in Nat
  PROVE  \E f : /\ LineStarts(text) = f[Len(text)]
                /\ f[0] = <<0>>
                /\ \A i \in 1 .. Len(text) : f[i] = f[i - 1] \o Longer(i)
<1> DEFINE start == CHOOSE f : IsStarts(f)
<1>1. LineStarts(text) = start[Len(text)]
  BY Zenon DEF LineStarts, IsStarts, Longer
<1>2. IsStarts(start)
  BY StartsExist, Zenon
<1> HIDE DEF start
<1>3. start[0] = <<0>> /\ \A i \in 1 .. Len(text) : start[i] = start[i - 1] \o Longer(i)
  <2>1. \A i \in 0 .. Len(text) : start[i] = IF i = 0 THEN <<0>> ELSE start[i - 1] \o Longer(i)
    BY <1>2 DEF IsStarts
  <2>2. 0 \in 0 .. Len(text) /\ \A i \in 1 .. Len(text) : i \in 0 .. Len(text) /\ i # 0
    OBVIOUS
  <2>3. QED
    BY <2>1, <2>2
<1>4. QED
  BY <1>1, <1>3

(* The line of an offset is the last that begins at it or before.          *)
IsLines(s) ==
  /\ s \in Seq(Nat) /\ Len(s) = LineAt(Len(text))
  /\ \A off \in 0 .. Len(text) :
       /\ LineAt(off) \in 1 .. Len(s) /\ s[LineAt(off)] = StartAt(off)
       /\ \A m \in 1 .. Len(s) : s[m] <= off <=> m <= LineAt(off)

LEMMA LinesAre ==
  ASSUME Len(text) \in Nat
  PROVE  IsLines(LineStarts(text))
<1>1. PICK f : /\ LineStarts(text) = f[Len(text)] /\ f[0] = <<0>>
               /\ \A i \in 1 .. Len(text) : f[i] = f[i - 1] \o Longer(i)
  BY StartsAre
<1>2. ASSUME NEW i \in 1 .. Len(text), f[i - 1] \in Seq(Nat)
      PROVE  /\ f[i] \in Seq(Nat)
             /\ text[i] = NL => /\ Len(f[i]) = Len(f[i - 1]) + 1 /\ f[i][Len(f[i - 1]) + 1] = i
                                /\ \A m \in 1 .. Len(f[i - 1]) : f[i][m] = f[i - 1][m]
             /\ text[i] # NL => f[i] = f[i - 1]
  <2>1. PICK s \in Seq(Nat) : s = f[i - 1]
    BY <1>2
  <2>2. f[i] = s \o Longer(i) /\ i \in Nat
    BY <1>1, <2>1
  <2>3. CASE text[i] = NL
    <3>1. f[i] = s \o <<i>>
      BY <2>2, <2>3 DEF Longer
    <3>2. /\ s \o <<i>> \in Seq(Nat) /\ Len(s \o <<i>>) = Len(s) + 1 /\ (s \o <<i>>)[Len(s) + 1] = i
          /\ \A m \in 1 .. Len(s) : (s \o <<i>>)[m] = s[m]
      BY <2>2
    <3>3. QED
      BY <2>1, <2>3, <3>1, <3>2
  <2>4. CASE text[i] # NL
    <3>1. f[i] = s \o << >>
      BY <2>2, <2>4 DEF Longer
    <3>2. s \o << >> = s
      OBVIOUS
    <3>3. QED
      BY <2>1, <2>4, <3>1, <3>2
  <2>5. QED
    BY <2>3, <2>4
<1> DEFINE Latest(i) == /\ f[i] \in Seq(Nat) /\ Len(f[i]) = LineAt(i) /\ f[i][LineAt(i)] = StartAt(i)
                      /\ \A m \in 1 .. Len(f[i]) : f[i][m] <= i
           P == {i \in Nat : Latest(i)}
<1>3. 0 \in P
  <2>1. <<0>> \in Seq(Nat) /\ Len(<<0>>) = 1 /\ <<0>>[1] = 0 /\ 0 \in Nat
    OBVIOUS
  <2>2. LineAt(0) = 1 /\ StartAt(0) = 0
    BY EndsGrow
  <2>3. Latest(0)
    BY <1>1, <2>1, <2>2
  <2>4. QED
    BY <2>3
<1>4. ASSUME NEW i \in 0 + 1 .. Len(text), i - 1 \in P PROVE i \in P
  <2>1. Latest(i - 1) /\ i \in 1 .. Len(text) /\ i \in Nat /\ i > 0
    BY <1>4
  <2>2. LineAt(i - 1) \in Nat
    BY <2>1, EndsGrow
  <2>3. CASE text[i] = NL
    <3>1. LineAt(i) = LineAt(i - 1) + 1 /\ StartAt(i) = i
      BY <2>1, <2>3, EndsGrow
    <3>2. /\ f[i] \in Seq(Nat) /\ Len(f[i]) = Len(f[i - 1]) + 1 /\ f[i][Len(f[i - 1]) + 1] = i
          /\ \A m \in 1 .. Len(f[i - 1]) : f[i][m] = f[i - 1][m]
      BY <1>2, <2>1, <2>3
    <3>3. ASSUME NEW m \in 1 .. Len(f[i]) PROVE f[i][m] <= i
      <4>1. PICK n \in Nat : n = Len(f[i - 1])
        BY <2>1, <2>2
      <4>2. CASE m \in 1 .. n
        <5>1. f[i][m] = f[i - 1][m] /\ m \in 1 .. Len(f[i - 1])
          BY <3>2, <4>1, <4>2
        <5>2. PICK s \in Seq(Nat) : s = f[i - 1]
          BY <2>1
        <5>3. s[m] \in Nat
          BY <4>1, <4>2, <5>2
        <5>4. s[m] <= i - 1
          BY <2>1, <5>1, <5>2
        <5>5. QED
          BY <2>1, <5>1, <5>2, <5>3, <5>4
      <4>3. CASE m = n + 1
        BY <3>2, <4>1, <4>3
      <4>4. m \in 1 .. n + 1
        BY <3>2, <4>1
      <4>5. QED
        BY <4>1, <4>2, <4>3, <4>4
    <3>4. Latest(i)
      BY <2>1, <3>1, <3>2, <3>3
    <3>5. QED
      BY <2>1, <3>4
  <2>4. CASE text[i] # NL
    <3>1. LineAt(i) = LineAt(i - 1) /\ StartAt(i) = StartAt(i - 1)
      BY <2>1, <2>4, EndsGrow
    <3>2. Latest(i)
      BY <1>2, <2>1, <2>2, <2>4, <3>1
    <3>3. QED
      BY <2>1, <3>2
  <2>5. QED
    BY <2>3, <2>4
<1>5. \A i \in 0 .. Len(text) : Latest(i)
  <2>1. \A i \in 0 .. Len(text) : i \in P
    <3> HIDE DEF P
    <3>1. 0 \in Nat
      OBVIOUS
    <3>2. QED
      BY <1>3, <1>4, <3>1, Along
  <2>2. QED
    BY <2>1
<1>6. ASSUME NEW off \in 0 .. Len(text)
      PROVE  /\ LineAt(off) \in 1 .. Len(f[Len(text)]) /\ f[Len(text)][LineAt(off)] = StartAt(off)
             /\ \A m \in 1 .. Len(f[Len(text)]) : f[Len(text)][m] <= off <=> m <= LineAt(off)
  <2> DEFINE Later(i) == /\ LineAt(off) \in 1 .. Len(f[i]) /\ f[i][LineAt(off)] = StartAt(off)
                         /\ \A m \in 1 .. Len(f[i]) : f[i][m] <= off <=> m <= LineAt(off)
             Q == {i \in Nat : Later(i)}
  <2>1. LineAt(off) \in Nat \ {0} /\ off \in Nat /\ off \in 0 .. Len(text)
    BY EndsGrow
  <2>2. off \in Q
    <3>1. Latest(off)
      BY <1>5
    <3>2. QED
      BY <2>1, <3>1
  <2>3. ASSUME NEW i \in off + 1 .. Len(text), i - 1 \in Q PROVE i \in Q
    <3>1. i \in 1 .. Len(text) /\ i - 1 \in 0 .. Len(text) /\ i \in Nat /\ off < i /\ Later(i - 1)
      BY <2>1, <2>3
    <3>2. f[i - 1] \in Seq(Nat)
      BY <1>5, <3>1
    <3>3. CASE text[i] = NL
      <4>1. /\ Len(f[i]) = Len(f[i - 1]) + 1 /\ f[i][Len(f[i - 1]) + 1] = i
            /\ \A m \in 1 .. Len(f[i - 1]) : f[i][m] = f[i - 1][m]
        BY <1>2, <3>1, <3>2, <3>3
      <4>2. Len(f[i - 1]) \in Nat
        BY <3>2
      <4>3. Later(i)
        <5> DEFINE n == Len(f[i - 1])
        <5>1. n \in Nat /\ LineAt(off) \in 1 .. n /\ Len(f[i]) = n + 1
          BY <3>1, <4>1, <4>2
        <5> HIDE DEF n
        <5>2. \A m \in 1 .. n + 1 : m \in 1 .. n \/ m = n + 1
          BY <5>1
        <5>3. ASSUME NEW m \in 1 .. n + 1 PROVE f[i][m] <= off <=> m <= LineAt(off)
          <6>1. CASE m \in 1 .. n
            BY <3>1, <4>1, <6>1 DEF n
          <6>2. CASE m = n + 1
            <7>1. f[i][m] = i
              BY <4>1, <6>2 DEF n
            <7>2. QED
              BY <2>1, <3>1, <5>1, <6>2, <7>1
          <6>3. QED
            BY <5>2, <6>1, <6>2
        <5>4. f[i][LineAt(off)] = StartAt(off)
          BY <3>1, <4>1, <5>1 DEF n
        <5>5. LineAt(off) \in 1 .. n + 1
          BY <5>1
        <5>6. QED
          BY <5>1, <5>3, <5>4, <5>5
      <4>4. QED
        BY <3>1, <4>3
    <3>4. CASE text[i] # NL
      <4>1. f[i] = f[i - 1]
        BY <1>2, <3>1, <3>2, <3>4
      <4>2. QED
        BY <3>1, <4>1
    <3>5. QED
      BY <3>3, <3>4
  <2>4. Len(text) \in Q
    <3> HIDE DEF Q
    <3>1. \A i \in off .. Len(text) : i \in Q
      BY <2>1, <2>2, <2>3, Along
    <3>2. QED
      BY <2>1, <3>1
  <2>5. QED
    BY <2>4
<1>7. Len(text) \in 0 .. Len(text)
  OBVIOUS
<1>8. QED
  BY <1>1, <1>5, <1>6, <1>7 DEF IsLines

(* One round of the bisection, when f is what the later ones give.         *)
Halved(f, r, off) ==
  LET i   == r[1]
      j   == r[2]
      mid == i + (j - i) \div 2
  IN  IF j - i <= 1 THEN i
      ELSE IF LineStarts(text)[mid + 1] <= off THEN f[<<mid, j>>] ELSE f[<<i, mid>>]

Halves == (0 .. Len(LineStarts(text))) \X (0 .. Len(LineStarts(text)))

(* What it gives when the line is the one behind k others.                 *)
Clamp(k, i, j) == IF k < i \/ j <= i THEN i ELSE IF k >= j THEN j - 1 ELSE k
Clamped(k) == [r \in Halves |-> Clamp(k, r[1], r[2])]

LEMMA MidInside ==
  ASSUME NEW i \in Nat, NEW j \in Nat, j - i > 1
  PROVE  LET mid == i + (j - i) \div 2
         IN  mid \in Nat /\ i < mid /\ mid < j
OBVIOUS

(* What f gives for shorter ranges than from i to j.                       *)
ClampsShorter(f, k, i, j) ==
  \A a, b \in 0 .. Len(LineStarts(text)) : j - i > 1 /\ b - a < j - i => f[<<a, b>>] = Clamp(k, a, b)

LEMMA ClampHalves ==
  ASSUME Len(text) \in Nat, NEW off \in 0 .. Len(text), NEW k, k = LineAt(off) - 1,
         NEW i \in 0 .. Len(LineStarts(text)), NEW j \in 0 .. Len(LineStarts(text)),
         NEW f, ClampsShorter(f, k, i, j)
  PROVE  Halved(f, <<i, j>>, off) = Clamp(k, i, j)
<1> DEFINE S == LineStarts(text)
<1> HIDE DEF S
<1>1. PICK n \in Nat : n = Len(S)
  <2>1. S \in Seq(Nat)
    BY LinesAre DEF IsLines, S
  <2>2. QED
    BY <2>1
<1>2. /\ LineAt(off) \in 1 .. n /\ k \in 0 .. n - 1 /\ i \in 0 .. n /\ j \in 0 .. n /\ off \in Int
      /\ \A m \in 1 .. n : S[m] <= off <=> m <= LineAt(off)
  BY <1>1, LinesAre DEF IsLines, S
<1>3. CASE j - i <= 1
  <2>1. Halved(f, <<i, j>>, off) = i
    BY <1>3 DEF Halved
  <2>2. QED
    BY <1>2, <1>3, <2>1 DEF Clamp
<1>4. CASE j - i > 1
  <2> DEFINE mid == i + (j - i) \div 2
  <2>1. mid \in Nat /\ i < mid /\ mid < j
    BY <1>2, <1>4, MidInside
  <2>2. Halved(f, <<i, j>>, off) = IF S[mid + 1] <= off THEN f[<<mid, j>>] ELSE f[<<i, mid>>]
    BY <1>2, <1>4 DEF Halved, S
  <2> HIDE DEF mid
  <2>3. mid \in 0 .. n /\ mid + 1 \in 1 .. n
    BY <1>2, <2>1
  <2>4. S[mid + 1] <= off <=> mid <= k
    BY <1>2, <2>1, <2>3
  <2>5. f[<<mid, j>>] = Clamp(k, mid, j) /\ f[<<i, mid>>] = Clamp(k, i, mid)
    BY <1>1, <1>2, <1>4, <2>1, <2>3 DEF S, ClampsShorter
  <2>6. CASE mid <= k
    BY <1>2, <2>1, <2>2, <2>4, <2>5, <2>6 DEF Clamp
  <2>7. CASE ~ (mid <= k)
    BY <1>2, <2>1, <2>2, <2>4, <2>5, <2>7 DEF Clamp
  <2>8. QED
    BY <2>6, <2>7
<1>5. QED
  BY <1>2, <1>3, <1>4

LEMMA Bisected ==
  ASSUME Len(text) \in Nat, NEW off \in 0 .. Len(text), NEW k, k = LineAt(off) - 1
  PROVE  (CHOOSE f : f = [r \in Halves |-> Halved(f, r, off)])[<<0, Len(LineStarts(text))>>] = k
<1> DEFINE bisect == CHOOSE f : f = [r \in Halves |-> Halved(f, r, off)]
<1>1. PICK n \in Nat : n = Len(LineStarts(text)) /\ k \in 0 .. n - 1
  <2>1. LineStarts(text) \in Seq(Nat) /\ LineAt(off) \in 1 .. Len(LineStarts(text))
    BY LinesAre DEF IsLines
  <2>2. QED
    BY <2>1
<1>2. ASSUME NEW i \in 0 .. n, NEW j \in 0 .. n
      PROVE  <<i, j>> \in Halves /\ Clamped(k)[<<i, j>>] = Clamp(k, i, j)
  <2>1. <<i, j>> \in Halves
    BY <1>1 DEF Halves
  <2>2. <<i, j>>[1] = i /\ <<i, j>>[2] = j
    OBVIOUS
  <2>3. QED
    BY <2>1, <2>2 DEF Clamped
<1>3. Clamped(k) = [r \in Halves |-> Halved(Clamped(k), r, off)]
  <2> DEFINE c == Clamped(k)
  <2>1. c = [r \in Halves |-> c[r]]
    BY DEF Clamped
  <2>2. \A i, j \in 0 .. n : c[<<i, j>>] = Clamp(k, i, j)
    BY <1>2
  <2> HIDE DEF c
  <2>3. ASSUME NEW r \in Halves PROVE c[r] = Halved(c, r, off)
    <3>1. PICK i \in 0 .. n, j \in 0 .. n : r = <<i, j>>
      BY <1>1 DEF Halves
    <3>2. Halved(c, <<i, j>>, off) = Clamp(k, i, j)
      <4>1. /\ ClampsShorter(c, k, i, j)
            /\ i \in 0 .. Len(LineStarts(text)) /\ j \in 0 .. Len(LineStarts(text))
        BY <1>1, <2>2 DEF ClampsShorter
      <4>2. QED
        BY <4>1, ClampHalves, Zenon
    <3>3. QED
      BY <2>2, <3>1, <3>2
  <2>4. QED
    BY <2>1, <2>3 DEF c
<1>4. bisect = [r \in Halves |-> Halved(bisect, r, off)]
  BY <1>3, Zenon
<1> HIDE DEF bisect
<1>5. \A i, j \in 0 .. n : bisect[<<i, j>>] = Halved(bisect, <<i, j>>, off)
  BY <1>2, <1>4
<1> DEFINE Bad == {d \in Nat : \E i, j \in 0 .. n : j - i <= d /\ bisect[<<i, j>>] # Clamp(k, i, j)}
<1>6. Bad = {}
  <2>1. SUFFICES ASSUME Bad # {} PROVE FALSE
    OBVIOUS
  <2>2. PICK d \in Bad : \A e \in Bad : d <= e
    BY <2>1, LeastElement
  <2>3. PICK i \in 0 .. n, j \in 0 .. n : j - i <= d /\ bisect[<<i, j>>] # Clamp(k, i, j)
    BY <2>2
  <2>4. d \in Nat /\ i \in Int /\ j \in Int
    BY <2>2, <2>3
  <2>5. ASSUME NEW a \in 0 .. n, NEW b \in 0 .. n, j - i > 1, b - a < j - i
        PROVE  bisect[<<a, b>>] = Clamp(k, a, b)
    <3>1. d - 1 \in Nat /\ d - 1 < d /\ b - a <= d - 1
      BY <2>3, <2>4, <2>5
    <3>2. d - 1 \notin Bad
      <4> HIDE DEF Bad
      <4>1. QED
        BY <2>2, <2>4, <3>1
    <3>3. QED
      BY <3>1, <3>2
  <2>6. Halved(bisect, <<i, j>>, off) = Clamp(k, i, j)
    <3>1. ClampsShorter(bisect, k, i, j)
      BY <1>1, <2>5 DEF ClampsShorter
    <3>2. i \in 0 .. Len(LineStarts(text)) /\ j \in 0 .. Len(LineStarts(text))
      BY <1>1
    <3>3. QED
      BY <3>1, <3>2, ClampHalves, Zenon
  <2>7. QED
    BY <1>5, <2>3, <2>6
<1>7. bisect[<<0, n>>] = Clamp(k, 0, n)
  <2>1. n \notin Bad
    BY <1>6
  <2>2. 0 \in 0 .. n /\ n \in 0 .. n /\ n - 0 <= n
    BY <1>1
  <2>3. QED
    BY <2>1, <2>2
<1>8. Clamp(k, 0, n) = k
  BY <1>1 DEF Clamp
<1>9. QED
  BY <1>1, <1>7, <1>8 DEF bisect

(* source_position finds the line by its starts; counting the line ends     *)
(* before the offset gives the same.                                       *)
LEMMA PositionIs ==
  ASSUME Len(text) \in Nat, NEW off \in 0 .. Len(text)
  PROVE  /\ Position(text, off) = [line |-> LineAt(off), col |-> off - StartAt(off) + 1]
         /\ CountedPosition(off) = [line |-> LineAt(off), col |-> off - StartAt(off) + 1]
<1>1. CountedPosition(off) = [line |-> LineAt(off), col |-> off - StartAt(off) + 1]
  BY DEF CountedPosition, LineAt, StartAt, Ends
<1>2. PICK k : k = LineAt(off) - 1
  OBVIOUS
<1> DEFINE index == (CHOOSE f : f = [r \in Halves |-> Halved(f, r, off)])[<<0, Len(LineStarts(text))>>]
<1>3. Position(text, off) = [line |-> index + 1, col |-> off - LineStarts(text)[index + 1] + 1]
  <2> DEFINE o == IF off > Len(text) THEN Len(text) ELSE off
             found == (CHOOSE f : f = [r \in Halves |-> Halved(f, r, o)])[<<0, Len(LineStarts(text))>>]
  <2>1. Position(text, off) = [line |-> found + 1, col |-> o - LineStarts(text)[found + 1] + 1]
    BY DEF Position, Halved, Halves
  <2>2. o = off
    OBVIOUS
  <2>3. found = index
    BY <2>2
  <2> HIDE DEF o, found, index
  <2>4. QED
    BY <2>1, <2>2, <2>3
<1>4. index = k
  BY <1>2, Bisected
<1> HIDE DEF index
<1>5. LineAt(off) \in Nat /\ index + 1 = LineAt(off) /\ LineStarts(text)[LineAt(off)] = StartAt(off)
  BY <1>2, <1>4, LinesAre DEF IsLines
<1>6. QED
  BY <1>1, <1>3, <1>5

(* Without tabs, both widths count characters.                             *)
Displays(f, line) == f = [i \in 0 .. Len(line) |-> IF i = 0 THEN 0
                           ELSE f[i - 1] + IF line[i] = TAB THEN 4 - (f[i - 1] % 4) ELSE 1]
Prints(f, line) == f = [i \in 0 .. Len(line) |-> IF i = 0 THEN 0 ELSE f[i - 1] + IF line[i] = TAB THEN 4 ELSE 1]

LEMMA Counts ==
  ASSUME NEW n \in Nat, NEW f, f[0] = 0, \A i \in 1 .. n : f[i] = f[i - 1] + 1
  PROVE  \A i \in 0 .. n : f[i] = i
<1> DEFINE P == {i \in Nat : f[i] = i}
<1>1. 0 \in P /\ 0 \in Nat
  OBVIOUS
<1>2. ASSUME NEW i \in 0 + 1 .. n, i - 1 \in P PROVE i \in P
  <2>1. i \in Nat /\ i \in 1 .. n /\ f[i - 1] = i - 1
    BY <1>2
  <2>2. f[i] = i
    BY <2>1
  <2>3. QED
    BY <2>1, <2>2
<1>3. \A i \in 0 .. n : i \in P
  <2> HIDE DEF P
  <2>1. QED
    BY <1>1, <1>2, Along
<1>4. QED
  BY <1>3

LEMMA WidthIs ==
  ASSUME NEW line, Len(line) \in Nat, \A i \in 1 .. Len(line) : line[i] # TAB, NEW upto \in Nat
  PROVE  /\ DisplayWidth(line, upto) = IF upto < Len(line) THEN upto ELSE Len(line)
         /\ PrintedWidth(line, upto) = IF upto < Len(line) THEN upto ELSE Len(line)
<1> DEFINE n == Len(line)
           id == [i \in 0 .. n |-> i]
           at == IF upto < n THEN upto ELSE n
<1>1. at \in 0 .. n /\ n \in Nat
  OBVIOUS
<1>2. \A i \in 0 .. n : id[i] = i /\ (i # 0 => i \in 1 .. n /\ i - 1 \in 0 .. n /\ id[i - 1] = i - 1)
  OBVIOUS
<1>3. DisplayWidth(line, upto) = at
  <2> DEFINE width == CHOOSE f : Displays(f, line)
  <2>1. DisplayWidth(line, upto) = width[at]
    BY Zenon DEF DisplayWidth, Displays
  <2>2. Displays(id, line)
    <3>1. \A i \in 0 .. n : i = IF i = 0 THEN 0
                           ELSE id[i - 1] + IF line[i] = TAB THEN 4 - (id[i - 1] % 4) ELSE 1
      <4>1. ASSUME NEW i \in 0 .. n, i # 0 PROVE i = id[i - 1] + IF line[i] = TAB THEN 4 - (id[i - 1] % 4) ELSE 1
        <5>1. line[i] # TAB /\ id[i - 1] = i - 1
          BY <1>2, <4>1
        <5>2. QED
          BY <5>1
      <4>2. QED
        BY <4>1
    <3>2. QED
      BY <3>1 DEF Displays
  <2>3. Displays(width, line)
    BY <2>2, Zenon
  <2> HIDE DEF width, id
  <2>4. width[0] = 0 /\ \A i \in 1 .. n : width[i] = width[i - 1] + 1
    <3>1. \A i \in 0 .. n : width[i] = IF i = 0 THEN 0
                           ELSE width[i - 1] + IF line[i] = TAB THEN 4 - (width[i - 1] % 4) ELSE 1
      BY <2>3 DEF Displays
    <3>2. 0 \in 0 .. n /\ \A i \in 1 .. n : i \in 0 .. n /\ i # 0
      BY <1>1
    <3>3. QED
      BY <3>1, <3>2
  <2>5. QED
    BY <1>1, <2>1, <2>4, Counts
<1>4. PrintedWidth(line, upto) = at
  <2> DEFINE width == CHOOSE f : Prints(f, line)
  <2>1. PrintedWidth(line, upto) = width[at]
    BY Zenon DEF PrintedWidth, Prints
  <2>2. Prints(id, line)
    <3>1. \A i \in 0 .. n : i = IF i = 0 THEN 0 ELSE id[i - 1] + IF line[i] = TAB THEN 4 ELSE 1
      <4>1. ASSUME NEW i \in 0 .. n, i # 0 PROVE i = id[i - 1] + IF line[i] = TAB THEN 4 ELSE 1
        <5>1. line[i] # TAB /\ id[i - 1] = i - 1
          BY <1>2, <4>1
        <5>2. QED
          BY <5>1
      <4>2. QED
        BY <4>1
    <3>2. QED
      BY <3>1 DEF Prints
  <2>3. Prints(width, line)
    BY <2>2, Zenon
  <2> HIDE DEF width, id
  <2>4. width[0] = 0 /\ \A i \in 1 .. n : width[i] = width[i - 1] + 1
    <3>1. \A i \in 0 .. n : width[i] = IF i = 0 THEN 0 ELSE width[i - 1] + IF line[i] = TAB THEN 4 ELSE 1
      BY <2>3 DEF Prints
    <3>2. 0 \in 0 .. n /\ \A i \in 1 .. n : i \in 0 .. n /\ i # 0
      BY <1>1
    <3>3. QED
      BY <3>1, <3>2
  <2>5. QED
    BY <1>1, <2>1, <2>4, Counts
<1>5. QED
  BY <1>3, <1>4

(* source_line gives the line of an offset up to its last character: what   *)
(* lies before where the next line begins is on it.                        *)
LEMMA LineIs ==
  ASSUME Len(text) \in Nat, NEW off \in 0 .. Len(text)
  PROVE  \E end \in off .. Len(text) : \E last \in StartAt(off) .. end :
           /\ Line(text, LineAt(off)) = SubSeq(text, StartAt(off) + 1, last)
           /\ \A j \in StartAt(off) .. end : j < end => LineAt(j) = LineAt(off)
<1> DEFINE S == LineStarts(text)
           line == LineAt(off)
           s == StartAt(off)
           end == IF line < Len(S) THEN S[line + 1] ELSE Len(text)
           Ending(e) == \A i \in e + 1 .. end : text[i] \in {NL, CR}
<1>1. PICK n \in Nat : n = Len(S)
  BY LinesAre DEF IsLines
<1>2. /\ line \in 1 .. n /\ S[line] = s /\ s \in 0 .. off
      /\ \A m \in 1 .. n : S[m] \in Nat
      /\ \A j \in 0 .. Len(text) : LineAt(j) \in 1 .. n /\ \A m \in 1 .. n : S[m] <= j <=> m <= LineAt(j)
  <2>1. S \in Seq(Nat) /\ s \in 0 .. off
    BY LinesAre, EndsGrow DEF IsLines
  <2>2. \A m \in 1 .. n : S[m] \in Nat
    BY <1>1, <2>1
  <2>3. QED
    BY <1>1, <2>1, <2>2, LinesAre DEF IsLines
<1>3. Line(text, line) = SubSeq(text, S[line] + 1, CHOOSE e \in S[line] .. end : Ending(e) /\ (e > S[line] => text[e] \notin {NL, CR}))
  BY Zenon DEF Line
<1> HIDE DEF S, line, s
<1>4. end \in off .. Len(text)
  <2>1. CASE line < n
    <3>1. line + 1 \in 1 .. n /\ Len(text) \in 0 .. Len(text) /\ LineAt(Len(text)) \in 1 .. n
      BY <1>2, <2>1
    <3>2. S[line + 1] \in Nat /\ (S[line + 1] <= off <=> line + 1 <= line)
      BY <1>2, <3>1 DEF line
    <3>3. n <= LineAt(Len(text))
      <4>1. LineAt(Len(text)) = Len(S)
        BY LinesAre DEF IsLines, S
      <4>2. QED
        BY <1>1, <4>1
    <3>4. S[line + 1] <= Len(text)
      <4>1. \A m \in 1 .. n : S[m] <= Len(text) <=> m <= LineAt(Len(text))
        BY <1>2, <3>1, Zenon
      <4>2. S[line + 1] <= Len(text) <=> line + 1 <= LineAt(Len(text))
        BY <3>1, <4>1, Zenon
      <4>3. line \in 1 .. n /\ LineAt(Len(text)) \in 1 .. n /\ line + 1 <= n
        BY <1>2, <2>1, <3>1
      <4>4. line + 1 <= LineAt(Len(text))
        BY <3>3, <4>3
      <4>5. QED
        BY <4>2, <4>4
    <3>5. QED
      BY <1>1, <1>2, <2>1, <3>2, <3>4
  <2>2. CASE ~ (line < n)
    BY <1>1, <2>2
  <2>3. QED
    BY <2>1, <2>2
<1>5. ASSUME NEW j \in s .. end, j < end PROVE LineAt(j) = line
  <2>1. j \in 0 .. Len(text) /\ LineAt(j) \in 1 .. n /\ line <= LineAt(j)
    <3>1. j \in 0 .. Len(text) /\ s <= j
      BY <1>2, <1>4, <1>5
    <3>2. QED
      BY <1>2, <3>1
  <2>2. CASE line < n
    <3>1. line + 1 \in 1 .. n /\ end = S[line + 1] /\ S[line + 1] \in Nat
      BY <1>1, <1>2, <2>2
    <3>2. ~ (S[line + 1] <= j)
      BY <1>5, <2>1, <3>1
    <3>3. ~ (line + 1 <= LineAt(j))
      BY <1>2, <2>1, <3>1, <3>2
    <3>4. QED
      BY <1>2, <2>1, <3>3
  <2>3. CASE ~ (line < n)
    BY <1>2, <2>1, <2>3
  <2>4. QED
    BY <2>2, <2>3
<1> HIDE DEF end
<1>6. \E e \in s .. end : Ending(e) /\ (e > s => text[e] \notin {NL, CR})
  <2> DEFINE T == {e \in Nat : e \in s .. end /\ Ending(e)}
  <2>1. end \in T
    BY <1>2, <1>4
  <2>2. PICK e \in T : \A x \in T : e <= x
    BY <2>1, LeastElement
  <2>3. ASSUME e > s PROVE text[e] \notin {NL, CR}
    <3>1. SUFFICES ASSUME text[e] \in {NL, CR} PROVE FALSE
      OBVIOUS
    <3>2. e - 1 \in Nat /\ e - 1 \in s .. end /\ e \in Nat
      BY <1>2, <1>4, <2>2, <2>3
    <3>3. \A i \in e - 1 + 1 .. end : i = e \/ i \in e + 1 .. end
      BY <3>2
    <3>4. Ending(e - 1)
      BY <2>2, <3>1, <3>3
    <3>5. e <= e - 1
      BY <2>2, <3>2, <3>4
    <3>6. QED
      BY <3>2, <3>5
  <2>4. QED
    BY <2>2, <2>3
<1> DEFINE last == CHOOSE e \in S[line] .. end : Ending(e) /\ (e > S[line] => text[e] \notin {NL, CR})
<1>7. last \in s .. end
  <2> HIDE DEF Ending
  <2>1. \E e \in S[line] .. end : Ending(e) /\ (e > S[line] => text[e] \notin {NL, CR})
    BY <1>2, <1>6
  <2>2. last \in S[line] .. end
    BY <2>1, Zenon
  <2>3. QED
    BY <1>2, <2>2
<1>8. Line(text, line) = SubSeq(text, s + 1, last)
  BY <1>2, <1>3
<1> HIDE DEF last
<1>9. QED
  BY <1>4, <1>5, <1>7, <1>8 DEF line, s

LEMMA SetMax == ASSUME NEW n \in Nat PROVE Max({1, n}) = IF n < 1 THEN 1 ELSE n
<1>1. CASE n < 1
  <2>1. {1, n} \in SUBSET Int /\ 1 \in {1, n} /\ \A x \in {1, n} : x <= 1
    BY <1>1
  <2>2. Max({1, n}) = 1
    BY <2>1, MaxIs
  <2>3. QED
    BY <1>1, <2>2
<1>2. CASE ~ (n < 1)
  <2>1. {1, n} \in SUBSET Int /\ n \in {1, n} /\ \A x \in {1, n} : x <= n
    BY <1>2
  <2>2. Max({1, n}) = n
    BY <2>1, MaxIs
  <2>3. QED
    BY <1>2, <2>2
<1>3. QED
  BY <1>1, <1>2

(* One error, from one offset of the text to another.                      *)
LEMMA Underlined ==
  ASSUME text \in Seq(STRING), Len(text) \in Nat, NEW from \in 0 .. Len(text), NEW to \in from .. Len(text)
  PROVE  LET at    == CountedPosition(from)
             line  == Line(text, at.line)
             shown == Excerpt(text, from, to)
             marks == {j \in from .. to - 1 :
                         CountedPosition(j).line = at.line /\ CountedPosition(j).col <= Len(line)}
         IN  TAB \notin Range(line) =>
               /\ shown.line = at.line
               /\ shown.start = PrintedWidth(line, at.col - 1)
               /\ shown.end = shown.start + Max({1, Cardinality(marks)})
<1> DEFINE number == LineAt(from)
           s == StartAt(from)
           line == Line(text, number)
           marks == {j \in from .. to - 1 :
                       CountedPosition(j).line = number /\ CountedPosition(j).col <= Len(line)}
           shown == Excerpt(text, from, to)
<1>1. s \in 0 .. from /\ number \in Nat /\ from \in Nat /\ to \in Nat /\ from <= to /\ to \in 0 .. Len(text)
  BY EndsGrow
<1>2. PICK end \in from .. Len(text) : \E last \in s .. end :
           /\ line = SubSeq(text, s + 1, last)
           /\ \A j \in s .. end : j < end => LineAt(j) = number
  BY LineIs
<1>3. PICK last \in s .. end :
           /\ line = SubSeq(text, s + 1, last)
           /\ \A j \in s .. end : j < end => LineAt(j) = number
  BY <1>2
<1>4. last \in Nat /\ s \in Nat /\ end \in Nat /\ s <= last /\ last <= end /\ last <= Len(text)
  BY <1>1, <1>2, <1>3
<1>5. Len(line) = last - s /\ line \in Seq(STRING)
  <2>1. \A i \in s + 1 .. last : text[i] \in STRING
    BY <1>1, <1>4
  <2>2. s + 1 \in Int /\ last \in Int
    BY <1>4
  <2>3. /\ SubSeq(text, s + 1, last) \in Seq(STRING)
        /\ Len(SubSeq(text, s + 1, last)) = IF s + 1 <= last THEN last - (s + 1) + 1 ELSE 0
    BY <2>1, <2>2, SubSeqProperties, Zenon
  <2>4. QED
    BY <1>3, <1>4, <2>3
<1>6. \A j \in 0 .. Len(text) : /\ Position(text, j) = [line |-> LineAt(j), col |-> j - StartAt(j) + 1]
                                /\ CountedPosition(j) = [line |-> LineAt(j), col |-> j - StartAt(j) + 1]
  BY PositionIs
<1>7. \A j \in 0 .. Len(text) : LineAt(j) = number => StartAt(j) = s
  BY LinesAre DEF IsLines
<1>8. CountedPosition(from).line = number /\ CountedPosition(from).col = from - s + 1
  BY <1>6
<1> DEFINE more == IF to < last THEN to ELSE last
<1>9. marks = from .. more - 1
  <2>1. ASSUME NEW j \in from .. to - 1
        PROVE  CountedPosition(j).line = number /\ CountedPosition(j).col <= Len(line) <=> j < last
    <3>1. j \in 0 .. Len(text) /\ s <= j /\ j \in Nat
      BY <1>1
    <3>2. CountedPosition(j).line = LineAt(j) /\ CountedPosition(j).col = j - StartAt(j) + 1
      BY <1>6, <3>1
    <3>3. CASE j < last
      <4>1. j \in s .. end /\ j < end
        BY <1>4, <3>1, <3>3
      <4>2. LineAt(j) = number /\ StartAt(j) = s
        BY <1>3, <1>7, <3>1, <4>1
      <4>3. QED
        BY <1>4, <1>5, <3>1, <3>2, <3>3, <4>2
    <3>4. CASE ~ (j < last)
      <4>1. LineAt(j) = number => ~ (j - StartAt(j) + 1 <= last - s)
        BY <1>4, <1>7, <3>1, <3>4
      <4>2. QED
        BY <1>5, <3>2, <3>4, <4>1
    <3>5. QED
      BY <3>3, <3>4
  <2>2. marks = {j \in from .. to - 1 : j < last}
    BY <2>1
  <2> HIDE DEF marks
  <2>3. {j \in from .. to - 1 : j < last} = from .. more - 1
    BY <1>1, <1>4
  <2>4. QED
    BY <2>2, <2>3
<1>10. Cardinality(marks) = IF from > more - 1 THEN 0 ELSE more - from
  <2>1. from \in Int /\ more - 1 \in Int
    BY <1>1, <1>4
  <2> HIDE DEF more, marks
  <2>2. Cardinality(from .. more - 1) = IF from > more - 1 THEN 0 ELSE more - 1 - from + 1
    BY <2>1, FS_Interval
  <2>3. more \in Int
    BY <1>1, <1>4 DEF more
  <2>4. QED
    BY <1>1, <1>9, <2>2, <2>3
<1> DEFINE first == IF from - s < last - s THEN from - s ELSE last - s
           until == IF LineAt(to) = number
                    THEN IF to - s < last - s THEN to - s ELSE last - s
                    ELSE last - s
<1>11. ASSUME TAB \notin Range(line)
       PROVE  /\ shown.line = number
              /\ shown.start = first
              /\ PrintedWidth(line, from - s) = first
              /\ shown.end = IF until <= first THEN first + 1 ELSE until
  <2>1. \A i \in 1 .. Len(line) : line[i] # TAB
    BY <1>5, <1>11 DEF Range
  <2>2. Len(line) \in Nat
    BY <1>4, <1>5
  <2>3. \A n \in Nat : /\ DisplayWidth(line, n) = IF n < Len(line) THEN n ELSE Len(line)
                       /\ PrintedWidth(line, n) = IF n < Len(line) THEN n ELSE Len(line)
    BY <2>1, <2>2, WidthIs
  <2>4. from - s \in Nat
    BY <1>1
  <2>5. Position(text, from) = [line |-> number, col |-> from - s + 1]
    BY <1>6
  <2>6. PICK dest : dest = Position(text, to)
    OBVIOUS
  <2>7. dest.line = LineAt(to) /\ dest.col = to - StartAt(to) + 1
    BY <1>1, <1>6, <2>6
  <2> DEFINE source == Position(text, from)
             shownLine == Line(text, source.line)
  <2>8. /\ shown.line = source.line
        /\ shown.start = DisplayWidth(shownLine, source.col - 1)
        /\ shown.end = LET e == IF dest.line = source.line THEN DisplayWidth(shownLine, dest.col - 1) ELSE Len(shownLine)
                       IN  IF e <= DisplayWidth(shownLine, source.col - 1)
                           THEN DisplayWidth(shownLine, source.col - 1) + 1 ELSE e
    BY <2>6 DEF Excerpt
  <2>12. source.line = number /\ source.col - 1 = from - s /\ shownLine = line
    <3>1. source.line = number /\ source.col = from - s + 1
      BY <2>5
    <3>2. QED
      BY <1>1, <3>1
  <2>9. DisplayWidth(line, from - s) = first /\ PrintedWidth(line, from - s) = first
    BY <1>5, <2>3, <2>4
  <2>10. (IF dest.line = number THEN DisplayWidth(line, dest.col - 1) ELSE Len(line)) = until
    <3>1. CASE LineAt(to) = number
      <4>1. dest.col - 1 = to - s /\ to - s \in Nat
        BY <1>1, <1>7, <2>7, <3>1
      <4>2. QED
        BY <1>5, <2>3, <2>7, <3>1, <4>1
    <3>2. CASE LineAt(to) # number
      BY <1>5, <2>7, <3>2
    <3>3. QED
      BY <3>1, <3>2
  <2> HIDE DEF shown, first, until, line, source, shownLine
  <2>11. DisplayWidth(shownLine, source.col - 1) = first
    BY <2>9, <2>12
  <2>13. (IF dest.line = source.line THEN DisplayWidth(shownLine, dest.col - 1) ELSE Len(shownLine)) = until
    BY <2>10, <2>12
  <2>14. shown.end = IF until <= first THEN first + 1 ELSE until
    BY <2>8, <2>11, <2>13
  <2>15. QED
    BY <2>8, <2>9, <2>11, <2>12, <2>14
<1>12. LineAt(to) # number => last <= to
  <2>1. SUFFICES ASSUME LineAt(to) # number, to < last PROVE FALSE
    BY <1>1, <1>4
  <2>2. to \in s .. end /\ to < end
    BY <1>1, <1>4, <2>1
  <2>3. QED
    BY <1>3, <2>1, <2>2
<1>13. (IF until <= first THEN first + 1 ELSE until) = first + Max({1, Cardinality(marks)})
  <2> DEFINE n == Cardinality(marks)
  <2>1. n \in Nat /\ n = IF from > more - 1 THEN 0 ELSE more - from
    BY <1>1, <1>4, <1>10
  <2> HIDE DEF n
  <2>2. Max({1, n}) = IF n < 1 THEN 1 ELSE n
    BY <2>1, SetMax
  <2>3. (IF until <= first THEN first + 1 ELSE until) = first + IF n < 1 THEN 1 ELSE n
    <3>1. s \in Int /\ from \in Int /\ to \in Int /\ last \in Int /\ s <= from /\ from <= to /\ s <= last
      BY <1>1, <1>4
    <3> HIDE DEF s
    <3>2. until = (IF to < last THEN to ELSE last) - s
      BY <1>12, <3>1
    <3>3. first = (IF from < last THEN from ELSE last) - s
      BY <3>1
    <3> HIDE DEF until, first
    <3>4. QED
      BY <2>1, <3>1, <3>2, <3>3
  <2>4. QED
    BY <2>2, <2>3 DEF n
<1> HIDE DEF number, s, marks, line, first, until, shown
<1>14. ASSUME TAB \notin Range(line)
       PROVE  /\ shown.line = number
              /\ shown.start = PrintedWidth(line, from - s)
              /\ shown.end = shown.start + Max({1, Cardinality(marks)})
  BY <1>11, <1>13, <1>14
<1> DEFINE at == CountedPosition(from)
           atLine == Line(text, at.line)
           atMarks == {j \in from .. to - 1 :
                         CountedPosition(j).line = at.line /\ CountedPosition(j).col <= Len(atLine)}
<1>15. at.line = number /\ at.col - 1 = from - s /\ atLine = line /\ atMarks = marks
  BY <1>1, <1>4, <1>8 DEF line, marks
<1>16. shown = Excerpt(text, from, to)
  BY DEF shown
<1> HIDE DEF at, atLine, atMarks
<1>17. TAB \notin Range(atLine) =>
         /\ Excerpt(text, from, to).line = at.line
         /\ Excerpt(text, from, to).start = PrintedWidth(atLine, at.col - 1)
         /\ Excerpt(text, from, to).end = Excerpt(text, from, to).start + Max({1, Cardinality(atMarks)})
  <2>1. PrintedWidth(atLine, at.col - 1) = PrintedWidth(line, from - s)
    BY <1>15
  <2>2. Max({1, Cardinality(atMarks)}) = Max({1, Cardinality(marks)}) /\ Range(atLine) = Range(line)
    BY <1>15
  <2>3. QED
    BY <1>14, <1>15, <1>16, <2>1, <2>2
<1>18. QED
  BY <1>17, Zenon DEF at, atLine, atMarks

(* Wherever an error lies, the marker below the line shown stands under    *)
(* what the error is about: the bisection over the line starts, the columns*)
(* and the line without its end agree with counting characters.            *)
THEOREM MarkersPoint == Spec => []MarkerUnderError
<1>1. LInv => MarkerUnderError
  <2> SUFFICES ASSUME LInv PROVE MarkerUnderError
    OBVIOUS
  <2>1. text \in Seq(STRING) /\ Len(text) \in Nat /\ ErrorsInside(text, diags)
    BY DEF LInv, Placed
  <2>2. DOMAIN diags.items = 1 .. Len(diags.items)
    BY <2>1, AppendSeq DEF ErrorsInside
  <2>3. ASSUME NEW i \in 1 .. Len(diags.items)
        PROVE  diags.items[i].lo \in 0 .. Len(text) /\ diags.items[i].hi \in diags.items[i].lo .. Len(text)
    <3>1. diags.items[i].lo \in Nat /\ diags.items[i].hi \in diags.items[i].lo .. Len(text)
      BY <2>1 DEF ErrorsInside
    <3>2. QED
      BY <2>1, <3>1
  <2>4. QED
    BY <2>1, <2>2, <2>3, Underlined, Zenon DEF MarkerUnderError
<1>2. QED
  BY <1>1, Invariance, PTL

=============================================================================
