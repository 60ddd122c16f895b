----------------------------- MODULE MCVoteKick -----------------------------
EXTENDS VoteKick, TLC
CONSTANTS a, b, c

ThreePlayers == {a, b, c}
OwnNames == [p \in Players |-> p]
Symmetry == Permutations(Players)
=============================================================================
