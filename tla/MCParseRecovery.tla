--------------------------- MODULE MCParseRecovery ---------------------------
(* Token sequences for the parser: every short one over the tokens that      *)
(* matter in a place, in the midst of what makes it that place.              *)
EXTENDS ParseRecovery, Grammar, SequencesExt

\* Up to n of the words in a row; a word is a token or a phrase.
Words(ks, n) == UNION {{FlattenSeq(w) : w \in [1 .. m -> ks]} : m \in 0 .. n}
Tokens(ks, n) == UNION {[1 .. m -> ks] : m \in 0 .. n}

Around(before, words, after) == {before \o w \o after : w \in words}

InFunction(words) == Around(<<"func", "id", "(", ")", "{">>, words, <<"}">>)
InStruct(words)   == Around(<<"struct", "id", "{">>, words, <<"}">>)

Call == <<"id", "(", ")", ";">>
Field == <<"id", ":", "id", ";">>
Method == <<"func", "id", "(", "self", ")", "{", "}">>

Statements ==
    Words({Call, <<"id", ":=", "int", ";">>, <<"if", "id">>, <<"{">>, <<"}">>, <<"else">>, <<"return">>, <<";">>}, 4)
    \cup Words({<<"if">>, <<"for", "id">>, <<"in", "id">>, <<"..">>, <<"while", "id">>, <<"{", "}">>, <<"break", ";">>, <<"id">>}, 3)
    \cup Tokens({"id", "int", ";", "{", "}", "(", "=", ":=", "func", "struct"}, 3)

Values == Tokens({"id", "int", "min", "-", "<", "(", ")"}, 4) \cup Tokens({"int", "-", "<", "&&"}, 5)
Paths  == Tokens({"id", "(", ")", "[", "]", ".", "int"}, 4) \cup {<<"(", "id", "(", ")", ")">>}
Holes  == Tokens({"f-text", "f-open", "f-close", "f-end", "id"}, 4)

Expressions ==
    Around(<<"id", "=">>, Values, <<";">>)
    \cup Around(<<"id", "=", "f-start">>, Holes, <<";">>)
    \cup Around(<<"id", "=", "id">>, Tokens({"[", "]", "..", "int"}, 5), <<";">>)
    \cup Around(<<"id", "=">>, Tokens({"[", "]", "id", ":", ","}, 5), <<";">>)
    \cup Around(<<"id", "(">>, Tokens({"id", ":", ",", ")"}, 5), <<";">>)
    \cup Around(<<"id", ":">>, Tokens({"?", "list", "[", "]", "id"}, 4), <<"=", "int", ";">>)
    \cup Around(<<>>, Paths, <<";">>) \cup Around(<<>>, Paths, <<"=", "int", ";">>)

Structures ==
    InStruct(Words({Field, Method, <<"func", "id", "(", ")">>, <<"{">>, <<"}">>, <<"id">>, <<"if">>, <<";">>}, 3))
    \cup Around(<<"struct", "id", "{", "func", "id", "(">>,
                 Words({<<"self">>, <<"id">>, <<",">>, <<":", "id">>, <<")">>, <<"->">>}, 4), <<"{", "}", "}">>)

Modules ==
    Words({EmptyFunction, Global, <<"struct", "id", "{">>, <<"struct">>, <<"func", "id", "(", ")">>, <<"{">>, <<"}">>, <<"id">>, <<";">>}, 3)
    \cup Tokens({"func", "struct", "id", ":=", "int", ";", "{", "}"}, 3)

Faulty ==
    InFunction(Tokens({"id", "int", ";", "{", "}", "(", "if", ":="}, 3))
    \cup InStruct(Tokens({"id", ":", ";", "{", "}", "int"}, 3))
    \cup Tokens({"struct", "id", ":=", "int", "min", ";", "{", "}"}, 3)

AllInputs ==
    InFunction(Statements) \cup InFunction(Expressions) \cup Structures \cup Modules
    \cup Around(<<>>, Faulty, EmptyFunction)

Grammatical == {s \in AllInputs : Derives(s)}

\* A declaration or a statement where none may stand.
Misplaced ==
    InFunction(Tokens({"func", "struct", "id", ";"}, 2)) \cup InStruct(Tokens({"if", "struct", "id", ";"}, 2))

\* A global after another one, which may be wrong.
TwoGlobals == Around(<<"id", ":=">>, Tokens({"id", "-", "(", ")"}, 2), <<";">> \o Global)

None == {}
=============================================================================
