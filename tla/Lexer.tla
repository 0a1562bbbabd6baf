-------------------------------- MODULE Lexer --------------------------------
(***************************************************************************)
(* The lexer: one action per loop iteration or branch of lex_source and    *)
(* the functions below it.  pc names the loop that runs: "main" is the one *)
(* of lex_source, "normal" lex_normal after its trivia, and the others are *)
(* the loops inside comments and strings.  A character is a one-letter     *)
(* string or one of the names of SourceText; words are sequences of them.  *)
(***************************************************************************)
EXTENDS SourceText, SequencesExt, FiniteSetsExt

CONSTANTS Texts,       \* the sources that are lexed
          Letters,     \* isalpha, beside a to f and A to F
          Keywords, Reserved,   \* sets of words
          Ascii,       \* the byte of each character that a string may hold
          Width,       \* bits of an int
          HugeFloats   \* digits of float literals that strtod finds infinite

ASSUME LexerAssumption == Width \in Nat \ {0}
ASSUME TextsAssumption == Texts \subseteq Seq(STRING)

VARIABLES text, pos, modes, pc, lo, depth, scratch, out, diags

vars == <<text, pos, modes, pc, lo, depth, scratch, out, diags>>

QUOTE  == "\""
BSLASH == "\\"
LBRACE == "{"
RBRACE == "}"

Peek(ahead) == Char(text, pos + ahead)
AtEnd == pos >= Len(text)
Mode == Last(modes).mode

DigitChars == <<"0", "1", "2", "3", "4", "5", "6", "7", "8", "9",
                "a", "b", "c", "d", "e", "f", "A", "B", "C", "D", "E", "F">>
Digit == {DigitChars[i] : i \in 1 .. 10}
HexLetter == {DigitChars[i] : i \in 11 .. 22}
IdentStart == Letters \cup HexLetter \cup {"_"}
IdentChar == IdentStart \cup Digit

\* digit_value, or -1.
DigitNumber == [c \in Digit \cup HexLetter |->
                  LET i == CHOOSE i \in 1 .. 22 : DigitChars[i] = c IN IF i <= 16 THEN i - 1 ELSE i - 7]
DigitValue(c, base) ==
  IF c \in DOMAIN DigitNumber /\ DigitNumber[c] < base THEN DigitNumber[c] ELSE -1

\* The first offset from p on whose character is not in S.
RunEnd(p, S) == CHOOSE q \in p .. Len(text) :
                  /\ \A r \in p .. q - 1 : Char(text, r) \in S
                  /\ q = Len(text) \/ Char(text, q) \notin S

Slice(from, to) == SubSeq(text, from + 1, to)

Tok(kind, from, to, val) == [kind |-> kind, lo |-> from, hi |-> to, val |-> val]

Emit(kind, from, to) == Append(out, Tok(kind, from, to, <<>>))

\* The operators, longest first, in the order of OPS.
Ops == <<<<".", ".", "=">>,
         <<"<", "<">>, <<">", ">">>, <<"=", "=">>, <<"!", "=">>, <<"<", "=">>, <<">", "=">>,
         <<"&", "&">>, <<"|", "|">>, <<".", ".">>, <<"-", ">">>, <<"?", "?">>, <<":", "=">>,
         <<"+", "=">>, <<"-", "=">>, <<"*", "=">>, <<"/", "=">>, <<"%", "=">>,
         <<"(">>, <<")">>, <<"{">>, <<"}">>, <<"[">>, <<"]">>, <<",">>, <<".">>, <<":">>, <<";">>,
         <<"?">>, <<"=">>, <<"+">>, <<"-">>, <<"*">>, <<"/">>, <<"%">>, <<"&">>, <<"|">>, <<"^">>,
         <<"~">>, <<"<">>, <<">">>, <<"!">>>>

---------------------------------------------------------------------------
\* The stack of modes of a lexer that is in no formatted string.
Bottom == <<[mode |-> "NORMAL", braces |-> 0]>>

Init ==
  /\ text \in Texts
  /\ pos = 0
  /\ modes = Bottom
  /\ pc = "main"
  /\ lo = 0
  /\ depth = 0
  /\ scratch = <<>>
  /\ out = <<>>
  /\ diags = NoDiags

PushMode(m) == modes' = Append(modes, [mode |-> m, braces |-> 0])
PopMode == modes' = IF Len(modes) > 1 THEN Front(modes) ELSE modes

\* lex_source: the mode decides which function scans on.
EnterText ==
  /\ pc = "main" /\ ~AtEnd
  /\ Mode = "FSTR_TEXT"
  /\ pc' = "ftext" /\ lo' = pos /\ scratch' = <<>>
  /\ UNCHANGED <<text, pos, modes, depth, out, diags>>

EnterNormal ==
  /\ pc = "main" /\ ~AtEnd
  /\ Mode # "FSTR_TEXT"
  /\ pc' = "trivia"
  /\ UNCHANGED <<text, pos, modes, lo, depth, scratch, out, diags>>

\* lex_source after its loop: modes still open at the end are closed.
CloseMode ==
  /\ pc = "main" /\ AtEnd
  /\ Len(modes) > 1
  /\ diags' = AddError(diags, Len(text), Len(text))
  /\ out' = Emit(IF Mode = "FSTR_EXPR" THEN "FSTR_EXPR_END" ELSE "FSTR_END", Len(text), Len(text))
  /\ PopMode
  /\ UNCHANGED <<text, pos, pc, lo, depth, scratch>>

EndOfFile ==
  /\ pc = "main" /\ AtEnd
  /\ Len(modes) = 1
  /\ out' = Emit("EOF", Len(text), Len(text))
  /\ pc' = "done"
  /\ UNCHANGED <<text, pos, modes, lo, depth, scratch, diags>>

---------------------------------------------------------------------------
(* Whitespace and comments: skip_trivia.                                   *)

Blank == {" ", TAB, CR, NL}

SkipBlank ==
  /\ pc = "trivia"
  /\ Peek(0) \in Blank
  /\ pos' = RunEnd(pos, Blank)
  /\ UNCHANGED <<text, modes, pc, lo, depth, scratch, out, diags>>

SkipLineComment ==
  /\ pc = "trivia"
  /\ Peek(0) = "/" /\ Peek(1) = "/"
  /\ pos' = RunEnd(pos, {text[i] : i \in DOMAIN text} \ {NL})
  /\ UNCHANGED <<text, modes, pc, lo, depth, scratch, out, diags>>

OpenComment ==
  /\ pc = "trivia"
  /\ Peek(0) = "/" /\ Peek(1) = "*"
  /\ lo' = pos /\ depth' = 1 /\ pos' = pos + 2
  /\ pc' = "comment"
  /\ UNCHANGED <<text, modes, scratch, out, diags>>

EndTrivia ==
  /\ pc = "trivia"
  /\ Peek(0) \notin Blank
  /\ ~(Peek(0) = "/" /\ Peek(1) \in {"/", "*"})
  /\ pc' = IF AtEnd THEN "main" ELSE "normal"
  /\ UNCHANGED <<text, pos, modes, lo, depth, scratch, out, diags>>

\* skip_block_comment: comments nest.
CommentNests ==
  /\ pc = "comment" /\ ~AtEnd
  /\ Peek(0) = "/" /\ Peek(1) = "*"
  /\ depth' = depth + 1 /\ pos' = pos + 2
  /\ UNCHANGED <<text, modes, pc, lo, scratch, out, diags>>

CommentCloses ==
  /\ pc = "comment" /\ ~AtEnd
  /\ Peek(0) = "*" /\ Peek(1) = "/"
  /\ depth' = depth - 1 /\ pos' = pos + 2
  /\ pc' = IF depth = 1 THEN "trivia" ELSE "comment"
  /\ UNCHANGED <<text, modes, lo, scratch, out, diags>>

CommentText ==
  /\ pc = "comment" /\ ~AtEnd
  /\ <<Peek(0), Peek(1)>> \notin {<<"/", "*">>, <<"*", "/">>}
  /\ pos' = pos + 1
  /\ UNCHANGED <<text, modes, pc, lo, depth, scratch, out, diags>>

CommentUnterminated ==
  /\ pc = "comment" /\ AtEnd
  /\ diags' = AddError(diags, lo, lo + 2)
  /\ pc' = "trivia"
  /\ UNCHANGED <<text, pos, modes, lo, depth, scratch, out>>

---------------------------------------------------------------------------
(* lex_normal, one action per kind of token.                               *)

\* f" opens a formatted string.
OpensFString == Peek(0) = "f" /\ Peek(1) = QUOTE

FStringStart ==
  /\ pc = "normal" /\ OpensFString
  /\ out' = Emit("FSTR_START", pos, pos + 2)
  /\ pos' = pos + 2
  /\ PushMode("FSTR_TEXT")
  /\ pc' = "main"
  /\ UNCHANGED <<text, lo, depth, scratch, diags>>

\* lex_ident; a reserved word is reported and passed on as a name.
LexIdent ==
  /\ pc = "normal" /\ ~OpensFString
  /\ Peek(0) \in IdentStart
  /\ LET end  == RunEnd(pos, IdentChar)
         word == Slice(pos, end)
     IN  /\ out' = Emit(IF word \in Keywords THEN "KW" ELSE "IDENT", pos, end)
         /\ diags' = IF word \in Reserved \ Keywords THEN AddError(diags, pos, end) ELSE diags
         /\ pos' = end
  /\ pc' = "main"
  /\ UNCHANGED <<text, modes, lo, depth, scratch>>

\* Fault: the overflow test forgets the digit that is added.
AccumulateWraps(digits, base) ==
  LET upto[i \in 0 .. Len(digits)] ==
        IF i = 0 THEN [value |-> 0, overflow |-> FALSE, any |-> FALSE]
        ELSE LET a == upto[i - 1]
                 d == DigitValue(digits[i], base)
             IN  IF digits[i] = "_" THEN a
                 ELSE [value |-> (a.value * base + d) % 2 ^ Width, overflow |-> FALSE, any |-> TRUE]
  IN  upto[Len(digits)]

\* The loop over digits of lex_number: a magnitude of Width bits, kept from wrapping.
Accumulate(digits, base) ==
  LET max == 2 ^ Width - 1
      upto[i \in 0 .. Len(digits)] ==
        IF i = 0 THEN [value |-> 0, overflow |-> FALSE, any |-> FALSE]
        ELSE LET a == upto[i - 1]
                 d == DigitValue(digits[i], base)
             IN  IF digits[i] = "_" THEN a
                 ELSE IF a.value > (max - d) \div base
                      THEN [a EXCEPT !.overflow = TRUE, !.any = TRUE]
                      ELSE [a EXCEPT !.value = @ * base + d, !.any = TRUE]
  IN  upto[Len(digits)]

\* Where the fraction and the exponent of a decimal literal end.
FractionEnd(p) ==
  IF Char(text, p) = "." /\ Char(text, p + 1) \in Digit THEN RunEnd(p + 1, Digit \cup {"_"}) ELSE p

ExponentEnd(p) ==
  IF /\ Char(text, p) \in {"e", "E"}
     /\ \/ Char(text, p + 1) \in Digit
        \/ Char(text, p + 1) \in {"+", "-"} /\ Char(text, p + 2) \in Digit
  THEN RunEnd(p + 2, Digit)
  ELSE p

Base == IF Peek(0) # "0" THEN 10
        ELSE IF Peek(1) = "x" THEN 16 ELSE IF Peek(1) = "o" THEN 8 ELSE IF Peek(1) = "b" THEN 2
        ELSE 10

\* The token of a number with its errors; a literal that goes on behind its whole
\* part is a float, and what sticks to it up to `stop` is a suffix.
SendNumber(whole, end, stop, number) ==
  LET suffix == IF stop > end THEN AddError(diags, end, stop) ELSE diags
      large  == number.overflow \/ number.value > 2 ^ (Width - 1)
      empty  == IF number.any THEN suffix ELSE AddError(suffix, pos, stop)
  IN  IF end > whole
      THEN /\ out' = Emit("FLOAT", pos, stop)
           /\ diags' = IF SelectSeq(Slice(pos, end), LAMBDA c : c # "_") \in HugeFloats
                       THEN AddError(suffix, pos, stop) ELSE suffix
      ELSE /\ out' = Append(out, Tok("INT", pos, stop, <<IF large THEN 0 ELSE number.value>>))
           /\ diags' = IF large THEN AddError(empty, pos, stop) ELSE empty

LexNumber ==
  /\ pc = "normal"
  /\ Peek(0) \in Digit
  /\ \E first \in {IF Base = 10 THEN pos ELSE pos + 2} :
     \E whole \in {RunEnd(first, {c \in DOMAIN DigitNumber : DigitNumber[c] < Base} \cup {"_"})} :
     \E frac \in {IF Base = 10 THEN FractionEnd(whole) ELSE whole} :
     \E end \in {IF Base = 10 THEN ExponentEnd(frac) ELSE whole} :
     \E stop \in {RunEnd(end, IdentChar)} :
     \E number \in {Accumulate(Slice(first, whole), Base)} :
       SendNumber(whole, end, stop, number) /\ pos' = stop
  /\ pc' = "main"
  /\ UNCHANGED <<text, modes, lo, depth, scratch>>

StringStart ==
  /\ pc = "normal"
  /\ Peek(0) = QUOTE
  /\ lo' = pos /\ scratch' = <<>> /\ pos' = pos + 1
  /\ pc' = "string"
  /\ UNCHANGED <<text, modes, depth, out, diags>>

IsOther(c) == c # QUOTE /\ c \notin IdentChar

\* The brace that ends the expression of a formatted string.
ExprEnd ==
  /\ pc = "normal"
  /\ Mode = "FSTR_EXPR" /\ Peek(0) = RBRACE /\ Last(modes).braces = 0
  /\ out' = Emit("FSTR_EXPR_END", pos, pos + 1)
  /\ pos' = pos + 1
  /\ PopMode
  /\ pc' = "main"
  /\ UNCHANGED <<text, lo, depth, scratch, diags>>

\* Braces inside such an expression are counted.
CountBraces ==
  modes' = IF Mode # "FSTR_EXPR" THEN modes
           ELSE IF Peek(0) = LBRACE THEN [modes EXCEPT ![Len(modes)].braces = @ + 1]
           ELSE IF Peek(0) = RBRACE THEN [modes EXCEPT ![Len(modes)].braces = @ - 1]
           ELSE modes

Matching == {i \in DOMAIN Ops : pos + Len(Ops[i]) <= Len(text) /\ Slice(pos, pos + Len(Ops[i])) = Ops[i]}

\* lex_operator: the first operator of the table that the text goes on with.
LexOperator ==
  /\ pc = "normal"
  /\ IsOther(Peek(0))
  /\ ~(Mode = "FSTR_EXPR" /\ Peek(0) = RBRACE /\ Last(modes).braces = 0)
  /\ Matching # {}
  /\ CountBraces
  /\ LET op == Ops[CHOOSE i \in Matching : \A j \in Matching : i <= j]
     IN  /\ out' = Append(out, Tok("OP", pos, pos + Len(op), op))
         /\ pos' = pos + Len(op)
  /\ pc' = "main"
  /\ UNCHANGED <<text, lo, depth, scratch, diags>>

\* Fault: bad input is not passed over.
UnexpectedCharStays ==
  /\ pc = "normal"
  /\ IsOther(Peek(0))
  /\ Matching = {}
  /\ pc' = "main"
  /\ UNCHANGED <<text, pos, modes, lo, depth, scratch, out, diags>>

UnexpectedChar ==
  /\ pc = "normal"
  /\ IsOther(Peek(0))
  /\ Matching = {}
  /\ diags' = AddError(diags, pos, pos + 1)
  /\ pos' = pos + 1
  /\ pc' = "main"
  /\ UNCHANGED <<text, modes, lo, depth, scratch, out>>

---------------------------------------------------------------------------
(* Strings.                                                                *)

\* put_utf8: one to four bytes; x \div 64^k and x % 64 are the code's shifts and masks.
PutUtf8(cp) ==
  LET tail(k) == 128 + ((cp \div 64 ^ k) % 64)
  IN  CASE cp < 128   -> <<cp>>
        [] cp >= 128 /\ cp < 2048   -> <<192 + cp \div 64, tail(0)>>
        [] cp >= 2048 /\ cp < 65536 -> <<224 + cp \div 64 ^ 2, tail(1), tail(0)>>
        [] OTHER      -> <<240 + cp \div 64 ^ 3, tail(2), tail(1), tail(0)>>

LastCodePoint == 1114111

\* The digits of \u{...} from p on: the loop stops where the value gets too large.
CodePoint(p) ==
  LET value[q \in p .. Len(text)] ==
        IF q = p THEN 0 ELSE value[q - 1] * 16 + DigitValue(Char(text, q - 1), 16)
      goesOn(q) == DigitValue(Char(text, q), 16) >= 0 /\ value[q] <= LastCodePoint
      end == CHOOSE q \in p .. Len(text) : ~goesOn(q) /\ \A r \in p .. q - 1 : goesOn(r)
  IN  [at |-> end, cp |-> value[end]]

SimpleEscapes == {BSLASH, QUOTE, "n", "r", "t", "0"}
EscapeByte(c) == CASE c = "n" -> 10 [] c = "r" -> 13 [] c = "t" -> 9 [] c = "0" -> 0
                   [] OTHER -> Ascii[c]

\* Where to go on after an escape, its bytes, and the end of the error (-1: none).
Read(p, bytes) == [at |-> p, bytes |-> bytes, bad |-> -1]
Refuse(p) == [at |-> p, bytes |-> <<>>, bad |-> p]

\* \x: p is behind it.
HexEscape(p) ==
  LET hi  == DigitValue(Char(text, p), 16)
      low == DigitValue(Char(text, p + 1), 16)
  IN  IF hi < 0 \/ low < 0 THEN Refuse(p) ELSE Read(p + 2, <<hi * 16 + low>>)

\* \u: p is behind it.
PointEscape(p) ==
  LET u == CodePoint(p + 1)
  IN  IF Char(text, p) # LBRACE THEN Refuse(p)
      ELSE IF \/ Char(text, u.at) # RBRACE \/ u.at = p + 1
              \/ u.cp > LastCodePoint \/ u.cp \in 55296 .. 57343
      THEN Refuse(u.at)
      ELSE Read(u.at + 1, PutUtf8(u.cp))

\* lex_escape at a backslash.
Escape ==
  LET c == Peek(1)
  IN  IF c \in SimpleEscapes THEN Read(pos + 2, <<EscapeByte(c)>>)
      ELSE IF c = "x" THEN HexEscape(pos + 2)
      ELSE IF c = "u" THEN PointEscape(pos + 2)
      ELSE IF c \in {NL, NUL} THEN Refuse(pos + 1)
      ELSE Refuse(pos + 2)

\* One iteration of either string loop, on an escape or on an ordinary character.
StringChar ==
  /\ ~AtEnd
  /\ IF Peek(0) = BSLASH
     THEN /\ pos' = Escape.at
          /\ scratch' = scratch \o Escape.bytes
          /\ diags' = IF Escape.bad = -1 THEN diags ELSE AddError(diags, pos, Escape.bad)
     ELSE /\ pos' = pos + 1
          /\ scratch' = Append(scratch, Ascii[Peek(0)])
          /\ UNCHANGED diags
  /\ UNCHANGED <<text, modes, pc, lo, depth, out>>

LexString ==
  /\ pc = "string"
  /\ Peek(0) \notin {QUOTE, NL}
  /\ StringChar

StringEnd ==
  /\ pc = "string"
  /\ Peek(0) \in {QUOTE, NL} \/ AtEnd
  /\ LET closed == Peek(0) = QUOTE
         end    == IF closed THEN pos + 1 ELSE pos
     IN  /\ diags' = IF closed THEN diags ELSE AddError(diags, lo, lo + 1)
         /\ out' = Append(out, Tok("STRING", lo, end, scratch))
         /\ pos' = end
  /\ pc' = "main"
  /\ UNCHANGED <<text, modes, lo, depth, scratch>>

LexFText ==
  /\ pc = "ftext"
  /\ Peek(0) \notin {QUOTE, NL, LBRACE, RBRACE}
  /\ StringChar

\* The text read so far, if there is any, as a token.
WithText == IF pos > lo THEN Append(out, Tok("FSTR_TEXT", lo, pos, scratch)) ELSE out

\* Fault: an unterminated f-string is reported without closing its mode.
FStringEndKeepsMode ==
  /\ pc = "ftext"
  /\ Peek(0) \in {QUOTE, NL} \/ AtEnd
  /\ LET closed == Peek(0) = QUOTE
         end    == IF closed THEN pos + 1 ELSE pos
     IN  /\ diags' = IF closed THEN diags ELSE AddError(diags, lo, lo + 1)
         /\ out' = Append(WithText, Tok("FSTR_END", pos, end, <<>>))
         /\ pos' = end
         /\ modes' = IF closed THEN Front(modes) ELSE modes
  /\ pc' = "main"
  /\ UNCHANGED <<text, lo, depth, scratch>>

FStringEnd ==
  /\ pc = "ftext"
  /\ Peek(0) \in {QUOTE, NL} \/ AtEnd
  /\ LET closed == Peek(0) = QUOTE
         end    == IF closed THEN pos + 1 ELSE pos
     IN  /\ diags' = IF closed THEN diags ELSE AddError(diags, lo, lo + 1)
         /\ out' = Append(WithText, Tok("FSTR_END", pos, end, <<>>))
         /\ pos' = end
  /\ PopMode
  /\ pc' = "main"
  /\ UNCHANGED <<text, lo, depth, scratch>>

DoubledBrace ==
  /\ pc = "ftext"
  /\ Peek(0) \in {LBRACE, RBRACE} /\ Peek(1) = Peek(0)
  /\ scratch' = Append(scratch, Ascii[Peek(0)])
  /\ pos' = pos + 2
  /\ UNCHANGED <<text, modes, pc, lo, depth, out, diags>>

ExprStart ==
  /\ pc = "ftext"
  /\ Peek(0) = LBRACE /\ Peek(1) # LBRACE
  /\ out' = Append(WithText, Tok("FSTR_EXPR_START", pos, pos + 1, <<>>))
  /\ pos' = pos + 1
  /\ PushMode("FSTR_EXPR")
  /\ pc' = "main"
  /\ UNCHANGED <<text, lo, depth, scratch, diags>>

SingleBrace ==
  /\ pc = "ftext"
  /\ Peek(0) = RBRACE /\ Peek(1) # RBRACE
  /\ diags' = AddError(diags, pos, pos + 1)
  /\ pos' = pos + 1
  /\ UNCHANGED <<text, modes, pc, lo, depth, scratch, out>>

---------------------------------------------------------------------------
Trivia == SkipBlank \/ SkipLineComment \/ OpenComment \/ EndTrivia
Comment == CommentNests \/ CommentCloses \/ CommentText \/ CommentUnterminated
Normal == FStringStart \/ LexIdent \/ LexNumber \/ StringStart \/ ExprEnd \/ LexOperator \/ UnexpectedChar
Strings == LexString \/ StringEnd \/ LexFText \/ FStringEnd \/ DoubledBrace \/ ExprStart \/ SingleBrace

Next ==
  \/ EnterText \/ EnterNormal \/ CloseMode \/ EndOfFile
  \/ Trivia \/ Comment \/ Normal \/ Strings

Spec == Init /\ [][Next]_vars
FairSpec == Spec /\ WF_vars(Next)

---------------------------------------------------------------------------
(* What --dump-tokens prints: a line of words and bytes for each token.    *)

KindNames == [EOF |-> "end of file", IDENT |-> "identifier", INT |-> "integer literal", FLOAT |-> "float literal",
              STRING |-> "string literal", FSTR_START |-> "f-string", FSTR_TEXT |-> "f-string text",
              FSTR_EXPR_START |-> "{", FSTR_EXPR_END |-> "}", FSTR_END |-> "end of f-string"]

\* Keywords and operators are shown as they are written (between backquotes).
tok_kind_name(tok) ==
  IF tok.kind \in DOMAIN KindNames THEN <<KindNames[tok.kind]>> ELSE Slice(tok.lo, tok.hi)

HexByte(n) == IF n < 10 THEN 48 + n ELSE 55 + n
\* Fault: only quotes are escaped, the escape character is not.
DumpByteBare(b) == IF b = 34 THEN <<92, b>> ELSE IF b \in 32 .. 126 THEN <<b>> ELSE <<92, 120, HexByte(b \div 16), HexByte(b % 16)>>
DumpByte(b) ==
  CASE b \in {34, 92} -> <<92, b>>
    [] b \in 32 .. 126 \ {34, 92} -> <<b>>
    [] OTHER -> <<92, 120, HexByte(b \div 16), HexByte(b % 16)>>
dump_bytes(bytes) == <<34>> \o FlattenSeq([i \in DOMAIN bytes |-> DumpByte(bytes[i])]) \o <<34>>

tokens_dump ==
  [i \in DOMAIN out |->
    [at   |-> Position(text, out[i].lo),
     name |-> tok_kind_name(out[i]),
     rest |-> CASE out[i].kind \in {"STRING", "FSTR_TEXT"} -> dump_bytes(out[i].val)
                [] out[i].kind = "IDENT" -> Slice(out[i].lo, out[i].hi)
                [] OTHER -> out[i].val]]

---------------------------------------------------------------------------
(* Properties.                                                             *)

Loops == {"main", "trivia", "comment", "normal", "string", "ftext", "done"}
Modes == {"NORMAL", "FSTR_TEXT", "FSTR_EXPR"}

TypeOK ==
  /\ text \in Seq(STRING)
  /\ pos \in Nat /\ lo \in Nat /\ depth \in Nat
  /\ pc \in Loops
  /\ modes \in Seq([mode : Modes, braces : Nat])
  /\ \A i \in DOMAIN out : out[i].lo \in Nat /\ out[i].hi \in Nat
  /\ \A i \in DOMAIN diags.items : diags.items[i].lo \in Nat /\ diags.items[i].hi \in Nat

\* Whatever the escapes and lookaheads do, the lexer stays within its text: its
\* tokens come in the order of the text, none reaches into the next one, and tokens
\* and errors end inside the text.
SpansFitTheText ==
  /\ pos <= Len(text)
  /\ \A i \in DOMAIN out :
       out[i].lo <= out[i].hi /\ out[i].hi <= Len(text) /\ (i > 1 => out[i - 1].hi <= out[i].lo)
  /\ \A i \in DOMAIN diags.items :
       diags.items[i].lo <= diags.items[i].hi /\ diags.items[i].hi <= Len(text)

\* What a token does to the stack of open f-strings and expressions; an operator
\* only counts braces.  A token that does not fit ends in Misfit.
Misfit == <<>>
Open(stack, tok) ==
  LET top == Last(stack)
      within(m) == Len(stack) > 1 /\ top.mode = m
      push(m) == Append(stack, [mode |-> m, braces |-> 0])
      brace(n) == IF top.mode # "FSTR_EXPR" THEN stack
                  ELSE [stack EXCEPT ![Len(stack)].braces = @ + n]
  IN  IF stack = Misfit THEN Misfit
      ELSE IF tok.kind = "FSTR_TEXT" THEN IF within("FSTR_TEXT") THEN stack ELSE Misfit
      ELSE IF tok.kind = "FSTR_EXPR_START" THEN IF within("FSTR_TEXT") THEN push("FSTR_EXPR") ELSE Misfit
      ELSE IF tok.kind = "FSTR_EXPR_END" THEN IF within("FSTR_EXPR") THEN Front(stack) ELSE Misfit
      ELSE IF tok.kind = "FSTR_END" THEN IF within("FSTR_TEXT") THEN Front(stack) ELSE Misfit
      ELSE IF within("FSTR_TEXT") THEN Misfit
      ELSE IF tok.kind = "FSTR_START" THEN push("FSTR_TEXT")
      ELSE IF tok.kind = "OP" /\ tok.val = <<LBRACE>> THEN brace(1)
      ELSE IF tok.kind = "OP" /\ tok.val = <<RBRACE>> THEN brace(-1)
      ELSE stack

\* The tokens sent so far, correct text or not, nest as token.h says, f"..." being
\* FSTR_START (TEXT | EXPR_START tokens EXPR_END)* FSTR_END, and the mode stack is
\* exactly what they leave open: the parser never sees an unbalanced f-string.
TokensNest == modes = FoldLeft(Open, Bottom, out)

\* The position of an offset, by counting line ends.
CountedPosition(off) ==
  LET ends == {i \in 1 .. off : text[i] = NL}
  IN  [line |-> Cardinality(ends) + 1, col |-> off - Max(ends \cup {0}) + 1]

\* No step is for nothing: each one reads a character, closes a mode or gets nearer
\* to doing so, and the steps that are left run out, whatever the text is.
Place ==
  IF pc \in {"string", "comment"} THEN 4
  ELSE IF pc = "trivia" THEN IF AtEnd THEN 3 ELSE 2
  ELSE IF pc = "main" THEN IF AtEnd THEN 2 ELSE 3
  ELSE IF pc = "done" THEN 0 ELSE 1
StepsLeft == 8 * (Len(text) - pos) + 4 * Len(modes) + Place
StepsRunOut == [][StepsLeft' < StepsLeft]_vars

\* lex_source ends on every text.
LexerEnds == <>(pc = "done")

\* The marker below an excerpt stands under the first character that the error is
\* about, where there is no tab before it, and goes on to the last one that the line
\* shows (a return before the line's end is not shown, though an error may span it).
\* (print_excerpt writes four blanks for a tab and display_width counts to the next
\* tab stop: behind a tab the two need not agree.)
MarkerUnderError ==
  pc = "done" => \A i \in DOMAIN diags.items :
    LET d     == diags.items[i]
        at    == CountedPosition(d.lo)
        line  == Line(text, at.line)
        shown == Excerpt(text, d.lo, d.hi)
        marks == {j \in d.lo .. d.hi - 1 :
                    CountedPosition(j).line = at.line /\ CountedPosition(j).col <= Len(line)}
    IN  TAB \notin Range(line) =>
          /\ shown.line = at.line
          /\ shown.start = PrintedWidth(line, at.col - 1)
          /\ shown.end = shown.start + Max({1, Cardinality(marks)})

=============================================================================
