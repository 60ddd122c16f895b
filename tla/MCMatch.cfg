SPECIFICATION MSpec
CONSTANTS
  a = a
  b = b
  c = c
  Players <- ThreePlayers
  Names <- ThreePlayers
  NameOf <- OwnNames
  NoPlayer = NoPlayer
  NumRounds = 1
  MaxPlayers = 3
  MaxSockets = 1
  Duration = 30
  Times <- EarlyOrLate
  MaxGuesses = 3
  MaxGames = 1
  MaxDrops = 1
CHECK_DEADLOCK FALSE
SYMMETRY Symmetry
INVARIANTS BoardIsFair
PROPERTIES TurnPaysFairly
