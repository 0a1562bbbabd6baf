-------------------------------- MODULE Lexis --------------------------------
(***************************************************************************)
(* The lexical grammar of docs/spec.md, section 1, as a recogniser of      *)
(* whole texts: a text is divided by taking the longest lexeme that the    *)
(* grammar has at each place; a formatted string is a lexeme that contains *)
(* lexemes.  It is what the output of Lexer is compared with.              *)
(***************************************************************************)
EXTENDS Lexer

\* The slice from offset i up to j of a text.
Cut(t, i, j) == SubSeq(t, i + 1, IF j < Len(t) THEN j ELSE Len(t))
Chars(s) == ToSet(s)

IsIdent(s) == s # <<>> /\ s[1] \in IdentStart /\ \A i \in DOMAIN s : s[i] \in IdentChar

Radix == [x |-> 16, o |-> 8, b |-> 2]
Numerals == {<<"0", 0>>, <<"1", 1>>, <<"2", 2>>, <<"3", 3>>, <<"4", 4>>, <<"5", 5>>, <<"6", 6>>, <<"7", 7>>, <<"8", 8>>, <<"9", 9>>,
             <<"a", 10>>, <<"b", 11>>, <<"c", 12>>, <<"d", 13>>, <<"e", 14>>, <<"f", 15>>,
             <<"A", 10>>, <<"B", 11>>, <<"C", 12>>, <<"D", 13>>, <<"E", 14>>, <<"F", 15>>}
Worth(c) == (CHOOSE n \in Numerals : n[1] = c)[2]
DigitsOf == [base \in {2, 8, 10, 16} |-> {n[1] : n \in {n \in Numerals : n[2] < base}}]
Separated(s, base) == (\A i \in DOMAIN s : s[i] = "_" \/ s[i] \in DigitsOf[base])
                      /\ \E i \in DOMAIN s : s[i] \in DigitsOf[base]

IsDecimal(s) == s # <<>> /\ s[1] \in Digit /\ Separated(s, 10)
IsRadix(s) ==
  /\ Len(s) > 2 /\ s[1] = "0" /\ s[2] \in DOMAIN Radix
  /\ Separated(SubSeq(s, 3, Len(s)), Radix[s[2]])
IsInt(s) == IsDecimal(s) \/ IsRadix(s)

\* A digit on both sides of the point, an exponent, or both.
IsFraction(s) == Len(s) > 1 /\ s[1] = "." /\ s[2] \in Digit /\ Chars(Tail(s)) \subseteq Digit \cup {"_"}
IsExponent(s) ==
  /\ Len(s) > 1 /\ s[1] \in {"e", "E"}
  /\ LET n == IF s[2] \in {"+", "-"} THEN SubSeq(s, 3, Len(s)) ELSE Tail(s)
     IN  n # <<>> /\ Chars(n) \subseteq Digit
IsFloat(s) ==
  s[1] \in Digit /\ \E i \in 1 .. Len(s) : \E j \in i .. Len(s) :
    /\ IsDecimal(Cut(s, 0, i))
    /\ Cut(s, i, j) = <<>> \/ IsFraction(Cut(s, i, j))
    /\ Cut(s, j, Len(s)) = <<>> \/ IsExponent(Cut(s, j, Len(s)))
    /\ i < Len(s)

Operators == ToSet(Ops)
IsOperator(s) == s \in Operators

\* The exact value of an integer literal.
Digits(s) == SelectSeq(IF IsRadix(s) THEN SubSeq(s, 3, Len(s)) ELSE s, LAMBDA c : c # "_")
Value(s) ==
  LET base == IF IsRadix(s) THEN Radix[s[2]] ELSE 10
  IN  FoldLeft(LAMBDA n, c : base * n + Worth(c), 0, Digits(s))

\* Escapes: the offset behind the one at i and what it stands for, or Bad.
Bad == [end |-> -1]
HexValue(s) == FoldLeft(LAMBDA n, c : 16 * n + Worth(c), 0, s)
EscapeAt(t, i) ==
  LET c == Char(t, i + 1)
      close == {k \in i + 4 .. Len(t) - 1 : Char(t, k) = "}" /\ Chars(Cut(t, i + 3, k)) \subseteq DigitsOf[16]}
      cp == HexValue(Cut(t, i + 3, Min(close)))
      two == Cut(t, i + 2, i + 4)
  IN  CASE c \in SimpleEscapes -> [end |-> i + 2, item |-> <<"byte", EscapeByte(c)>>]
        [] c = "x" /\ Len(two) = 2 /\ Chars(two) \subseteq DigitsOf[16] ->
             [end |-> i + 4, item |-> <<"byte", HexValue(two)>>]
        [] c = "u" /\ Char(t, i + 2) = "{" /\ close # {} ->
             IF cp <= LastCodePoint /\ cp \notin 55296 .. 57343
             THEN [end |-> Min(close) + 1, item |-> <<"code point", cp>>] ELSE Bad
        [] OTHER -> Bad

\* One character of a string, escaped or not.
CharAt(t, i) ==
  IF Char(t, i) = BSLASH THEN EscapeAt(t, i)
  ELSE [end |-> i + 1, item |-> <<"byte", Ascii[Char(t, i)]>>]

\* A plain string from its first character on: its end and what it holds.
RECURSIVE StringFrom(_, _)
StringFrom(t, i) ==
  CASE i >= Len(t) \/ Char(t, i) = NL -> Bad
    [] i < Len(t) /\ Char(t, i) = QUOTE -> [end |-> i + 1, items |-> <<>>]
    [] OTHER -> LET c == CharAt(t, i)
                    rest == StringFrom(t, c.end)
                IN  IF c = Bad \/ rest = Bad THEN Bad
                    ELSE [end |-> rest.end, items |-> <<c.item>> \o rest.items]

\* A comment from behind its opening on: comments nest.
RECURSIVE CommentFrom(_, _)
CommentFrom(t, i) ==
  CASE i + 1 >= Len(t) -> -1
    [] i + 1 < Len(t) /\ Cut(t, i, i + 2) = <<"*", "/">> -> i + 2
    [] i + 1 < Len(t) /\ Cut(t, i, i + 2) = <<"/", "*">> ->
         LET e == CommentFrom(t, i + 2) IN IF e = -1 THEN -1 ELSE CommentFrom(t, e)
    [] OTHER -> CommentFrom(t, i + 1)

Lexeme(kind, i, j, items) == [kind |-> kind, lo |-> i, hi |-> j, items |-> items]

\* The longest blank, identifier, number or operator at i.
Words == [IDENT |-> 1, INT |-> 2, FLOAT |-> 3, OP |-> 4]
IsWord(kind, s) == CASE kind = "IDENT" -> IsIdent(s) [] kind = "INT" -> IsInt(s)
                     [] kind = "FLOAT" -> IsFloat(s) [] kind = "OP" -> IsOperator(s)
WordsAt(t, i) == {<<k, j>> \in (DOMAIN Words) \X (i + 1 .. Len(t)) : IsWord(k, Cut(t, i, j))}

\* What a literal must not be: too large, followed by a letter, or reserved.
Legal(t, i, kind, j) ==
  /\ kind = "IDENT" => Cut(t, i, j) \notin Reserved \ Keywords
  /\ kind \in {"INT", "FLOAT"} => Char(t, j) \notin IdentChar
  /\ kind = "INT" => Value(Cut(t, i, j)) <= 2 ^ (Width - 1)
  /\ kind = "FLOAT" => SelectSeq(Cut(t, i, j), LAMBDA c : c # "_") \notin HugeFloats

(***************************************************************************)
(* All of a text from i on: its lexemes and where it ends.  With an        *)
(* expression open, braces # -1 and the text ends at the brace that closes *)
(* the expression; FTextFrom reads on behind that brace.                   *)
(***************************************************************************)
RECURSIVE LexemesFrom(_, _, _), FTextFrom(_, _, _, _)
Then(lexemes, rest) == IF rest = Bad THEN Bad ELSE [rest EXCEPT !.lexemes = lexemes \o @]

LexemesFrom(t, i, braces) ==
  LET c == Char(t, i)
      words == WordsAt(t, i)
      word == CHOOSE w \in words : \A v \in words : v[2] <= w[2]
      eol == {k \in i .. Len(t) - 1 : Char(t, k) = NL} \cup {Len(t)}
      comment == CommentFrom(t, i + 2)
      string == StringFrom(t, i + 1)
      inner == CASE braces = -1 -> -1 [] c = "{" -> braces + 1 [] c = "}" -> braces - 1 [] OTHER -> braces
  IN  CASE i >= Len(t) -> IF braces = -1 THEN [end |-> i, lexemes |-> <<>>] ELSE Bad
        [] i < Len(t) /\ c \in Blank -> LexemesFrom(t, i + 1, braces)
        [] c = "/" /\ Char(t, i + 1) = "/" -> LexemesFrom(t, Min(eol), braces)
        [] c = "/" /\ Char(t, i + 1) = "*" ->
             IF comment = -1 THEN Bad ELSE LexemesFrom(t, comment, braces)
        [] c = QUOTE ->
             IF string = Bad THEN Bad
             ELSE Then(<<Lexeme("STRING", i, string.end, string.items)>>, LexemesFrom(t, string.end, braces))
        [] c = "f" /\ Char(t, i + 1) = QUOTE ->
             LET f == FTextFrom(t, i + 2, i + 2, <<>>)
             IN  IF f = Bad THEN Bad
                 ELSE Then(<<Lexeme("FSTR_START", i, i + 2, <<>>)>> \o f.lexemes, LexemesFrom(t, f.end, braces))
        [] c = "}" /\ braces = 0 -> [end |-> i + 1, lexemes |-> <<Lexeme("FSTR_EXPR_END", i, i + 1, <<>>)>>]
        [] i < Len(t) /\ c \notin Blank \cup {QUOTE} /\ ~(c = "/" /\ Char(t, i + 1) \in {"/", "*"})
             /\ ~(c = "f" /\ Char(t, i + 1) = QUOTE) /\ ~(c = "}" /\ braces = 0) ->
             IF words = {} THEN Bad
             ELSE IF ~Legal(t, i, word[1], word[2]) THEN Bad
             ELSE Then(<<Lexeme(word[1], i, word[2], <<>>)>>, LexemesFrom(t, word[2], inner))

\* The text of a formatted string from i on, `from` being where this piece of it began.
FTextFrom(t, i, from, items) ==
  LET c == Char(t, i)
      d == Char(t, i + 1)
      piece == IF i > from THEN <<Lexeme("FSTR_TEXT", from, i, items)>> ELSE <<>>
      one == CharAt(t, i)
      brace == {"{", "}"}
  IN  CASE i >= Len(t) \/ c = NL -> Bad
        [] c = QUOTE -> [end |-> i + 1, lexemes |-> piece \o <<Lexeme("FSTR_END", i, i + 1, <<>>)>>]
        [] c \in brace /\ d = c -> FTextFrom(t, i + 2, from, Append(items, <<"byte", Ascii[c]>>))
        [] c = "{" /\ d # c ->
             LET e == LexemesFrom(t, i + 1, 0)
             IN  IF e = Bad THEN Bad
                 ELSE Then(piece \o <<Lexeme("FSTR_EXPR_START", i, i + 1, <<>>)>> \o e.lexemes,
                           FTextFrom(t, e.end, e.end, <<>>))
        [] c = "}" /\ d # c -> Bad
        [] i < Len(t) /\ c \notin brace \cup {QUOTE, NL} ->
             IF one = Bad THEN Bad ELSE FTextFrom(t, one.end, from, Append(items, one.item))

Division(t) == LexemesFrom(t, 0, -1)

---------------------------------------------------------------------------
(* Comparing a token with a lexeme.                                        *)

\* The code point that a UTF-8 sequence encodes, and the only length it may have.
Utf8Value(b) ==
  LET lead == b[1] - <<0, 192, 224, 240>>[Len(b)]
  IN  FoldLeft(LAMBDA n, x : 64 * n + (x - 128), lead, Tail(b))
Utf8Len(cp) == CASE cp < 128 -> 1 [] cp \in 128 .. 2047 -> 2 [] cp \in 2048 .. 65535 -> 3 [] OTHER -> 4

RECURSIVE Spells(_, _)
Spells(bytes, items) ==
  IF items = <<>> THEN bytes = <<>>
  ELSE LET n == IF items[1][1] = "byte" THEN 1 ELSE Utf8Len(items[1][2])
           b == SubSeq(bytes, 1, n)
       IN  /\ Len(bytes) >= n
           /\ IF items[1][1] = "byte" THEN b[1] = items[1][2]
              ELSE Utf8Value(b) = items[1][2] /\ \A k \in 2 .. n : b[k] \in 128 .. 191
           /\ Spells(SubSeq(bytes, n + 1, Len(bytes)), Tail(items))

Same(tok, lexeme) ==
  /\ tok.lo = lexeme.lo /\ tok.hi = lexeme.hi
  /\ CASE lexeme.kind = "IDENT" -> tok.kind = IF Cut(text, tok.lo, tok.hi) \in Keywords THEN "KW" ELSE "IDENT"
       [] lexeme.kind = "INT" -> tok.kind = "INT" /\ tok.val = <<Value(Cut(text, tok.lo, tok.hi))>>
       [] lexeme.kind \in {"STRING", "FSTR_TEXT"} -> tok.kind = lexeme.kind /\ Spells(tok.val, lexeme.items)
       [] OTHER -> tok.kind = lexeme.kind

\* The lexer reports no error exactly on the texts that have a division by the
\* grammar of docs/spec.md, section 1, and its tokens are that division: longest
\* match, nested comments, exact integers, decoded escapes.
FollowsTheGrammar ==
  pc = "done" =>
    LET d == Division(text)
    IN  /\ diags.errors = 0 <=> d # Bad
        /\ d # Bad =>
             /\ Len(out) = Len(d.lexemes) + 1
             /\ \A i \in DOMAIN d.lexemes : Same(out[i], d.lexemes[i])

---------------------------------------------------------------------------
(* Reading what --dump-tokens prints.                                      *)

HexNumber(b) == IF b < 58 THEN b - 48 ELSE b - 55
RECURSIVE ReadBytes(_)
ReadBytes(s) ==
  IF s \in {<<34>>, <<>>} THEN <<>>
  ELSE IF s[1] # 92 THEN <<s[1]>> \o ReadBytes(Tail(s))
  ELSE IF Len(s) > 4 /\ s[2] = 120
       THEN <<16 * HexNumber(s[3]) + HexNumber(s[4])>> \o ReadBytes(SubSeq(s, 5, Len(s)))
  ELSE IF Len(s) > 1 THEN <<s[2]>> \o ReadBytes(SubSeq(s, 3, Len(s)))
  ELSE <<>>

\* Whatever the text, --dump-tokens tells where each token starts, counting lines, and
\* which bytes each string and each piece of a formatted string holds: the bytes
\* between the quotes can be read in one way only.
DumpReadsBack ==
  pc = "done" => \A i \in DOMAIN out :
    /\ tokens_dump[i].at = CountedPosition(out[i].lo)
    /\ out[i].kind \in {"STRING", "FSTR_TEXT"} => ReadBytes(Tail(tokens_dump[i].rest)) = out[i].val
=============================================================================
