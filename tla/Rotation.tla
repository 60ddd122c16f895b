------------------------------ MODULE Rotation ------------------------------
(***************************************************************************)
(* What drawer rotation promises, without lists, indices, connections or   *)
(* timers: within a round every turn has a drawer who has not drawn in     *)
(* that round, rounds are counted one by one, and no turn starts past the  *)
(* last round.  GameRoom implements it with an index into a list that      *)
(* players join and leave.                                                 *)
(***************************************************************************)
EXTENDS Integers

CONSTANTS Players, NoPlayer, NumRounds

VARIABLES
    stage,    \* the room's state
    round,    \* 0 before the first game
    drawer,   \* who draws, NoPlayer between turns
    drawn     \* who has drawn in this round

rvars == <<stage, round, drawer, drawn>>

Init == stage = "LOBBY" /\ round = 0 /\ drawer = NoPlayer /\ drawn = {}

Start ==
    /\ stage = "LOBBY" /\ drawer = NoPlayer
    /\ stage' = "WORD_SELECTION" /\ round' = 1 /\ drawn' = {}
    /\ UNCHANGED drawer

\* A late selection may begin a turn when the game was ended meanwhile.
Begin(p) ==
    /\ drawer = NoPlayer /\ p \notin drawn /\ round <= NumRounds
    /\ drawer' = p /\ drawn' = drawn \cup {p} /\ stage' = "PLAYING"
    /\ UNCHANGED round

\* The turn ends and the next selection starts, or the room waits for players.
FinishTurn ==
    /\ drawer # NoPlayer /\ drawer' = NoPlayer
    /\ stage' \in {"WORD_SELECTION", "PLAYING"}
    /\ UNCHANGED <<round, drawn>>

FinishRound ==
    /\ drawer # NoPlayer /\ drawer' = NoPlayer
    /\ round' = round + 1 /\ drawn' = {}
    /\ stage' = IF round + 1 > NumRounds THEN "GAME_OVER" ELSE "WORD_SELECTION"

Abort == stage' = "GAME_OVER" /\ drawer' = NoPlayer /\ UNCHANGED <<round, drawn>>

Rematch ==
    /\ stage = "GAME_OVER" /\ stage' = "LOBBY"
    /\ round' = 0 /\ drawn' = {} /\ UNCHANGED drawer

Next ==
    \/ Start \/ FinishTurn \/ FinishRound \/ Abort \/ Rematch
    \/ \E p \in Players : Begin(p)

Spec == Init /\ [][Next]_rvars
=============================================================================
