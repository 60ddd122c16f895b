SPECIFICATION Spec
CONSTANTS
  N = 3
  Rounds <- MCRounds
CHECK_DEADLOCK FALSE
INVARIANTS TurnHasTimer TurnsInOrder
PROPERTIES NoTurnIsLost
