----------------------------- MODULE MCGameRoom -----------------------------
EXTENDS GameRoom
CONSTANTS a, b, c

TwoPlayers == {a, b}
ThreePlayers == {a, b, c}
OwnNames == [p \in Players |-> p]
=============================================================================
