------------------------------- MODULE MCMatch -------------------------------
EXTENDS Match
CONSTANTS a, b, c

ThreePlayers == {a, b, c}
OwnNames == [p \in Players |-> p]
EarlyOrLate == {3, 25}
Symmetry == Permutations(Players)
=============================================================================
