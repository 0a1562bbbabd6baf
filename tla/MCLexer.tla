------------------------------- MODULE MCLexer -------------------------------
(***************************************************************************)
(* Texts that exercise each loop of the lexer: every sequence, up to a     *)
(* length, of the characters that matter in one place, behind a prefix     *)
(* that leads there.                                                       *)
(***************************************************************************)
EXTENDS Lexis

MCLetters == {"x", "u", "o", "n", "i", "X"}
MCKeywords == {<<"i", "f">>}
MCReserved == {<<"i", "x">>}
\* A literal with a two-digit exponent is out of range in these instances.
MCHugeFloats == {<<"1", "e", "1", "1">>, <<"1", "e", "0", "1">>, <<"1", "E", "1", "1">>, <<"1", "E", "0", "1">>}

Codes == <<<<NUL, 0>>, <<TAB, 9>>, <<NL, 10>>, <<CR, 13>>, <<" ", 32>>, <<QUOTE, 34>>, <<"%", 37>>, <<"*", 42>>,
           <<".", 46>>, <<"/", 47>>, <<"0", 48>>, <<"1", 49>>, <<"A", 65>>, <<"F", 70>>, <<"X", 88>>, <<BSLASH, 92>>, <<"_", 95>>, <<"d", 100>>, <<"f", 102>>,
           <<"i", 105>>, <<"n", 110>>, <<"u", 117>>, <<"x", 120>>, <<"{", 123>>, <<"}", 125>>, <<"hi", 195>>>>
MCAscii == [c \in {Codes[i][1] : i \in DOMAIN Codes} |->
              Codes[CHOOSE i \in DOMAIN Codes : Codes[i][1] = c][2]]

Upto(S, n) == UNION {[1 .. k -> S] : k \in 0 .. n}
Behind(prefix, S, n) == {prefix \o s : s \in Upto(S, n)}

FStringTexts == Behind(<<"f", QUOTE>>, {"f", QUOTE, "{", "}", NL}, 6)
                \cup Behind(<<"f", QUOTE, "{">>, {QUOTE, "}", "/", "*", "."}, 4)
EscapeTexts == {<<QUOTE, BSLASH>> \o s \o q : s \in Upto({"x", "n", "1", BSLASH, QUOTE, NL, NUL, "hi"}, 3),
                                            q \in {<<>>, <<QUOTE>>}}
               \cup Behind(<<"f", QUOTE, BSLASH>>, {"x", "1", "{", "}", QUOTE, NL}, 4)
               \cup Behind(<<QUOTE, BSLASH>>, {CR, NL, "x"}, 3)
               \cup {<<QUOTE, BSLASH, "x">> \o s \o <<QUOTE>> : s \in Upto({"A", "F", "f", "0", "X"}, 3)}
CodePointTexts ==
  {<<QUOTE, BSLASH, "u", "{">> \o s \o <<"}", QUOTE>> :
     s \in Upto({"1", "7", "8", "d", "f"}, 4) \cup {<<"1", "0">> \o d : d \in Upto({"0", "f", "1"}, 4)}}
  \cup {<<QUOTE, BSLASH, "u", "{">> \o s \o <<"}", QUOTE>> : s \in Upto({"D", "8", "F", "f"}, 4)}
  \cup {<<"1", "1", "0", "0", "0", "0">>, <<"{">>, <<QUOTE>>, <<"0", "}">>}
CommentTexts == Upto({"/", "*", NL, "x"}, 6)
NumberTexts == Behind(<<"1">>, {"0", "1", ".", "e", "+", "_", "x"}, 4)
               \cup {<<"0", r>> \o s : r \in {"x", "o", "b"}, s \in Upto({"1", "9", "f", "_", ".", "e"}, 3)}
               \cup Behind(<<"1">>, {"0", "1", "e", "E", "+", "."}, 3) \cup Behind(<<"0">>, {"X", "x", "1", "A", "F", "E", "_"}, 3)
               \cup {<<"1", "6">> \o s : s \in Upto({"0", "8"}, 2)}
OperatorTexts == UNION {[1 .. k -> {op[1] : op \in ToSet(Ops)} \cup {"=", "x", "@"}] : k \in 0 .. 2}
                 \cup Upto({".", "=", "<", "-", ">", "?"}, 4)
WordTexts == Upto({"i", "f", "x", "_", "1", QUOTE, " "}, 4)

\* Characters that are not allowed, on several lines and behind blanks and tabs.
WrongTexts == Upto({TAB, "x", " ", "@", NL, "+"}, 4)

MCTexts == UNION {FStringTexts, EscapeTexts, CodePointTexts, CommentTexts, NumberTexts, OperatorTexts, WordTexts, WrongTexts}
=============================================================================
