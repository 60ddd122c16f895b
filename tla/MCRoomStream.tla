---------------------------- MODULE MCRoomStream ----------------------------
(* Two players, one of whom comes back on a second connection, and two      *)
(* streams of one gateway or of two.                                        *)
EXTENDS RoomStream

CONSTANTS p1, p2

MCWho == <<p1, p2, p2>>
=============================================================================
