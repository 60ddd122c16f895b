SPECIFICATION VSpec
CONSTANTS
  a = a
  b = b
  c = c
  Players <- ThreePlayers
  Names <- ThreePlayers
  NameOf <- OwnNames
  NoPlayer = NoPlayer
  NumRounds = 2
  MaxPlayers = 3
  MaxSockets = 1
CHECK_DEADLOCK FALSE
SYMMETRY Symmetry
INVARIANTS TypeOK HostIsMember GameInBounds GuessBook VotesAreSound
PROPERTIES NobodyDrawsTwice RoundServesEveryone ImplementsRotation KickGoesOn
