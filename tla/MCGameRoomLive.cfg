SPECIFICATION LiveSpec
CONSTANTS
  a = a
  b = b
  c = c
  Players <- TwoPlayers
  Names <- TwoPlayers
  NameOf <- OwnNames
  NoPlayer = NoPlayer
  NumRounds = 1
  MaxPlayers = 2
  MaxSockets = 2
INVARIANT PresenceIsTrue
PROPERTIES EveryTurnEnds HostRecovers AbsenceEnds
CHECK_DEADLOCK FALSE
