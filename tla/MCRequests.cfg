SPECIFICATION Spec
CONSTANTS
  s1 = s1
  s2 = s2
  s3 = s3
  i1 = i1
  i2 = i2
  i3 = i3
  Sockets <- ThreeSockets
  Ids <- ThreeIds
  NoId = NoId
  MaxPlayers = 2
SYMMETRY Symmetry
CHECK_DEADLOCK FALSE
INVARIANTS BooksAgree SeatsSuffice OnlySpectatorsAsk
