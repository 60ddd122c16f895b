SPECIFICATION Spec
CONSTANTS
  a = a
  b = b
  c = c
  Players <- ThreePlayers
  Names <- ThreePlayers
  NameOf <- OwnNames
  NoPlayer = NoPlayer
  NumRounds = 2
  MaxPlayers = 3
  MaxSockets = 1
INVARIANT SelectionTimesOut
CHECK_DEADLOCK FALSE
