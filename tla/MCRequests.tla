----------------------------- MODULE MCRequests -----------------------------
EXTENDS Requests, TLC
CONSTANTS s1, s2, s3, i1, i2, i3

TwoSockets == {s1, s2}
ThreeSockets == {s1, s2, s3}
TwoIds == {i1, i2}
ThreeIds == {i1, i2, i3}
Symmetry == Permutations(Sockets) \cup Permutations(Ids)
=============================================================================
