----------------------------- MODULE MCSecretWord -----------------------------
EXTENDS SecretWord
CONSTANTS g1, g2

MCGuessers == {g1, g2}
MCUpperCase == [c \in {"A", "B"} |-> IF c = "A" THEN "a" ELSE "b"]

Ab  == <<"a", "b">>
Aba == <<"a", "b", "a">>
A_b == <<"a", " ", "b">>
Aab == <<"A", "a", "b">>

MCPacks == {{Ab, Aba, A_b}}
MCCustoms == {{}, {Aab}}
MCProfanity == {<<"b", "b", "b">>}

\* Every text of up to four letters, and some that have spaces, capitals, more
\* spaces than the word, the word among other letters, or too many characters.
MCTexts ==
    BoundedSeq({"a", "b"}, 4)
    \cup {<<"A", "b">>, <<"a", "A", "B">>, <<"b", "b", "A", "b", "b">>,
          <<"a", " ", "b">>, <<"a", " ", " ", "b">>, <<" ", "a", "b", " ">>,
          <<"a", " ", " ", " ", " ", "b">>, <<"b", "b", "b", " ", "a", "b", "b">>}

Symmetry == Permutations(Guessers)
=============================================================================
