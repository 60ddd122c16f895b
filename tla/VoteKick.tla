------------------------------ MODULE VoteKick ------------------------------
(***************************************************************************)
(* The vote to kick a player (backend/room_manager.py), on top of the room *)
(* of module GameRoom: a ballot is open for 30 s and is decided by a vote  *)
(* or by the disconnection of a voter.  It interacts with everything else  *)
(* the room does: the target may be the host, the drawer, or the last      *)
(* player who has not guessed.                                             *)
(***************************************************************************)
EXTENDS GameRoom

VARIABLES
    ballot,     \* VoteKickState: the target (NoPlayer: none open) and the votes
    cooldown    \* targets of a failed ballot less than 30 s old

vvars == <<vars, ballot, cooldown>>

NoBallot == [target |-> NoPlayer, votes |-> {}]

VTypeOK ==
    /\ TypeOK
    /\ ballot \in [target : Players \cup {NoPlayer}, votes : SUBSET Players]
    /\ cooldown \subseteq Players
-----------------------------------------------------------------------------
\* Connected players other than the target, spectators included.
Electorate(r, t) == (Members(r) \cap r.connected) \ {t}

Carried(r, t, votes) == Cardinality(votes) >= Cardinality(Electorate(r, t)) \div 2 + 1

\* Mutants of KickPassed: the host is not replaced; the rest of the room is not
\* asked whether it has guessed.
KickKeepsHost(r, t) ==
    LET left == Removed(r, t)
    IN  IF r.turnDrawer = t THEN EndTurn(left) ELSE left

KickUnfinished(r, t) ==
    LET left  == Removed(r, t)
        kept  == IF r.host = t /\ left.connected # {}
                 THEN [left EXCEPT !.host = NewHost(left)] ELSE left
        ended == IF r.turnDrawer = t THEN EndTurn(kept) ELSE kept
    IN  IF InGame(ended) /\ Cardinality(Active(ended)) < 2
        THEN StartCountdown(ended) ELSE ended

\* _execute_vote_kick_passed: the target goes, a host is replaced, a drawer's
\* turn ends, and the rest of the room may now be too few or have guessed.
KickPassed(r, t) ==
    LET left  == Removed(r, t)
        kept  == IF r.host = t /\ left.connected # {}
                 THEN [left EXCEPT !.host = NewHost(left)] ELSE left
        ended == IF r.turnDrawer = t THEN EndTurn(kept) ELSE kept
    IN  IF ~InGame(ended) THEN ended
        ELSE IF Cardinality(Active(ended)) < 2 THEN StartCountdown(ended)
        ELSE IF r.turnDrawer # t /\ ended.turnDrawer # NoPlayer /\ ended.state = "PLAYING"
             THEN EndTurnIfAllGuessed(ended)
             ELSE ended

\* A carried ballot is closed before the target, if still there, is kicked.
Carry(r, t) == IF t \in Members(r) THEN KickPassed(r, t) ELSE r
-----------------------------------------------------------------------------
VInit == Init /\ ballot = NoBallot /\ cooldown = {}

StartVoteKick(p, t) ==
    /\ Bound(p)
    /\ ballot.target = NoPlayer
    /\ p # t /\ t \in Members(room) \cap room.connected
    /\ Cardinality(room.connected) >= 3
    /\ t \notin cooldown
    /\ ballot' = [target |-> t, votes |-> {p}]
    /\ UNCHANGED <<vars, cooldown>>

\* cast_vote_kick: a vote for or a vote withdrawn; either may find it carried.
CastVoteKick(p, vote) ==
    /\ Bound(p) /\ p \in room.connected
    /\ ballot.target \notin {NoPlayer, p}
    /\ LET t     == ballot.target
           votes == IF vote THEN ballot.votes \cup {p} ELSE ballot.votes \ {p}
       IN  IF Carried(room, t, votes)
           THEN /\ ballot' = NoBallot
                /\ room' = Carry(room, t)
                /\ sockets' = [sockets EXCEPT ![t] = 0]
                /\ UNCHANGED <<issued, cooldown>>
           ELSE /\ ballot' = [ballot EXCEPT !.votes = votes]
                /\ UNCHANGED <<vars, cooldown>>

VoteTimesOut ==
    /\ room.alive /\ ballot.target # NoPlayer
    /\ ballot' = NoBallot
    /\ cooldown' = cooldown \cup {ballot.target}
    /\ UNCHANGED vars

CooldownExpires(t) ==
    /\ room.alive /\ t \in cooldown
    /\ cooldown' = cooldown \ {t}
    /\ UNCHANGED <<vars, ballot>>

\* What handle_disconnect(p) finds of the ballot once p is marked: whether it
\* carries it, and what is left of it.
DisconnectCarries(r, p) ==
    /\ ballot.target \notin {NoPlayer, p}
    /\ Cardinality(Electorate(r, ballot.target)) >= 2
    /\ Carried(r, ballot.target, ballot.votes \ {p})

BallotAfterDisconnect(r, p) ==
    IF ballot.target = NoPlayer \/ ballot.target = p
        \/ Cardinality(Electorate(r, ballot.target)) < 2
        \/ DisconnectCarries(r, p)
    THEN NoBallot
    ELSE [ballot EXCEPT !.votes = @ \ {p}]

\* handle_disconnect with a ballot: it is settled after p is marked and
\* before host, cleanup and game are looked at.
ConnectionClosedInVote(p) ==
    /\ Bound(p)
    /\ LET marked  == MarkDisconnected(room, p)
           carries == DisconnectCarries(marked, p)
           settled == IF carries THEN Carry(marked, ballot.target) ELSE marked
       IN  /\ ballot' = BallotAfterDisconnect(marked, p)
           /\ room' = FinishDisconnect(settled, p)
           /\ sockets' = [q \in Players |->
                            CASE q = p -> sockets[q] - 1
                              [] q # p /\ carries /\ q = ballot.target -> 0
                              [] OTHER -> sockets[q]]
    /\ UNCHANGED <<issued, cooldown>>

\* Everything else in the room leaves the ballot alone, also when it removes
\* the target or a voter.
RoomStep ==
    /\ Clients \/ Tasks \/ \E n \in Names : Reconnect(n)
    /\ UNCHANGED <<ballot, cooldown>>

VNext ==
    \/ RoomStep
    \/ \E p, t \in Players : StartVoteKick(p, t)
    \/ \E p \in Players, v \in BOOLEAN : CastVoteKick(p, v)
    \/ VoteTimesOut
    \/ \E t \in Players : CooldownExpires(t)
    \/ \E p \in Players : ConnectionClosedInVote(p)

VSpec == VInit /\ [][VNext]_vvars
-----------------------------------------------------------------------------
\* While the room exists an open ballot is about a connected player, if that
\* player is still in the room, and the target has no vote in it.
TargetIsLive ==
    room.alive /\ ballot.target # NoPlayer =>
        /\ ballot.target \in Members(room) => ballot.target \in room.connected
        /\ ballot.target \notin ballot.votes

\* The step kicks the target of the ballot.
Kicked == ballot.target \in Members(room) \ Members(room') /\ ballot' = NoBallot

\* Ballots leave the room sound: besides TargetIsLive, its host and phases
\* stay what they must be when a ballot removes the host or the drawer.
VotesAreSound == VTypeOK /\ TargetIsLive /\ HostIsMember /\ PhasesAgree

\* The game goes on after a kick, whether the target was drawing, guessing or
\* watching: with fewer than two active players left the countdown runs, and
\* otherwise no turn is left running that everybody has finished guessing.
KickGoesOn ==
    [][ (Kicked /\ InGame(room')) =>
            IF Cardinality(Active(room')) < 2 THEN room'.countdown
            ELSE room'.turnDrawer # NoPlayer => ~AllGuessed(room') ]_vvars
-----------------------------------------------------------------------------
(* What the documentation says of ballots and the code does not keep.      *)

\* docs/game-logic.md:158: the host cannot be vote-kicked.
HostNotVotedOut == [][ Kicked => ballot.target # room.host ]_vvars

\* docs/game-logic.md:159: a ballot is carried by at least half of the eligible
\* voters, so by votes of players who are in the room and connected.
MajorityKicks ==
    [][ \A p \in Players, vote \in BOOLEAN :
          CastVoteKick(p, vote) /\ Kicked =>
              LET eligible == Electorate(room, ballot.target)
                  votes    == IF vote THEN ballot.votes \cup {p} ELSE ballot.votes \ {p}
              IN  2 * Cardinality(votes \cap eligible) >= Cardinality(eligible) ]_vvars
=============================================================================
