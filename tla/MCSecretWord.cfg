SPECIFICATION WSpec
CONSTANTS
  g1 = g1
  g2 = g2
  Guessers <- MCGuessers
  Packs <- MCPacks
  Customs <- MCCustoms
  Texts <- MCTexts
  Profanity <- MCProfanity
  UpperCase <- MCUpperCase
  NumPacks = 2
  WordsPerPack = 2
  MaxGuess = 6
  MaxTurns = 3
SYMMETRY Symmetry
CHECK_DEADLOCK FALSE
INVARIANTS TalkKeepsWord HintIsHonest
