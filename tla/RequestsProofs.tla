--------------------------- MODULE RequestsProofs ---------------------------
(***************************************************************************)
(* Theorems about Requests, for any sockets, ids and seats.                *)
(***************************************************************************)
EXTENDS Requests, FiniteSetTheorems, TLAPS

\* An id is first a pending request, then a player, and only a player's id is
\* the subject of a role request.
Stages ==
    /\ players \cap pending = {}
    /\ asking \subseteq Issued
    /\ asking \cap pending = {}

RequestInv == QTypeOK /\ BooksAgree /\ SeatsSuffice /\ OnlySpectatorsAsk /\ Stages
-----------------------------------------------------------------------------
\* Room managers start without requests (RoomManager.__init__).
LEMMA InitRequestInv == Init => RequestInv
<1> SUFFICES ASSUME Init PROVE RequestInv
    OBVIOUS
<1>1. Cardinality(players \ spectators) = 0
    BY FS_EmptySet DEF Init
<1>2. SeatsSuffice
    BY <1>1, RequestsAssumption DEF SeatsSuffice
<1>3. QTypeOK /\ BooksAgree /\ OnlySpectatorsAsk /\ Stages
    BY RequestsAssumption DEF Init, QTypeOK, BooksAgree, OnlySpectatorsAsk, Stages, Issued
<1> QED
    BY <1>2, <1>3 DEF RequestInv

\* A set that gains at most one element has at most one element more.
LEMMA GainsOne ==
    ASSUME NEW A, NEW B, NEW i, IsFiniteSet(A), B \subseteq A \cup {i}
    PROVE  /\ Cardinality(A) \in Nat /\ Cardinality(B) \in Nat
           /\ Cardinality(B) <= Cardinality(A) + 1
           /\ B \subseteq A => Cardinality(B) <= Cardinality(A)
<1>1. Cardinality(A) \in Nat
    BY FS_CardinalityType
<1>2. IsFiniteSet(A \cup {i}) /\ Cardinality(A \cup {i}) <= Cardinality(A) + 1
    <2>1. CASE i \in A
        <3>1. A \cup {i} = A
            BY <2>1
        <3>2. IsFiniteSet(A \cup {i}) /\ Cardinality(A \cup {i}) = Cardinality(A)
            BY <3>1, Zenon
        <3> QED
            BY <1>1, <3>2
    <2>2. CASE i \notin A
        <3>1. IsFiniteSet(A \cup {i}) /\ Cardinality(A \cup {i}) = Cardinality(A) + 1
            BY <2>2, FS_AddElement
        <3> QED
            BY <1>1, <3>1
    <2> QED
        BY <2>1, <2>2
<1>3. IsFiniteSet(B) /\ Cardinality(B) <= Cardinality(A \cup {i})
    BY <1>2, FS_Subset
<1>4. Cardinality(B) \in Nat /\ Cardinality(A \cup {i}) \in Nat
    BY <1>2, <1>3, FS_CardinalityType
<1>5. B \subseteq A => Cardinality(B) <= Cardinality(A)
    BY FS_Subset
<1> QED
    BY <1>1, <1>2, <1>3, <1>4, <1>5

\* One more player where HasRoom was seen, or none at all, does not overfill
\* the room.
LEMMA SeatsKept ==
    ASSUME QTypeOK, SeatsSuffice, NEW i,
           \/ (players \ spectators)' \subseteq players \ spectators
           \/ HasRoom /\ (players \ spectators)' \subseteq (players \ spectators) \cup {i}
    PROVE  SeatsSuffice'
<1>1. IsFiniteSet(players \ spectators)
    <2>1. players \ spectators \in SUBSET Ids
        BY DEF QTypeOK
    <2> QED
        BY <2>1, RequestsAssumption, FS_Subset
<1>2. MaxPlayers \in Nat
    BY RequestsAssumption
<1>3. CASE (players \ spectators)' \subseteq players \ spectators
    BY <1>1, <1>2, <1>3, GainsOne DEF SeatsSuffice
<1>4. CASE HasRoom /\ (players \ spectators)' \subseteq (players \ spectators) \cup {i}
    <2>1. /\ Cardinality(players \ spectators) \in Nat
          /\ Cardinality((players \ spectators)') \in Nat
          /\ Cardinality((players \ spectators)') <= Cardinality(players \ spectators) + 1
        BY <1>1, <1>4, GainsOne
    <2> QED
        BY <1>2, <1>4, <2>1 DEF SeatsSuffice, HasRoom
<1> QED
    BY <1>3, <1>4
-----------------------------------------------------------------------------
\* A request that is settled leaves the books in agreement, even if its socket
\* has asked again meanwhile.
LEMMA SettleKeepsBooks ==
    ASSUME RequestInv, NEW i \in pending, Settle(i)
    PROVE  /\ BooksAgree'
           /\ wsRequest' \in [Sockets -> Ids \cup {NoId}]
           /\ listed' \subseteq Ids /\ timers' \subseteq Ids
BY DEF RequestInv, QTypeOK, BooksAgree, Settle

\* A fresh id leaves the ids handed out before as they were.
LEMMA IssueKeepsOthers ==
    ASSUME QTypeOK, NEW i \in Ids, NEW s \in Sockets, Issue(i, s)
    PROVE  /\ i \notin Issued
           /\ DOMAIN socketOf' = Issued \cup {i}
           /\ socketOf'[i] = s /\ \A j \in Issued : socketOf'[j] = socketOf[j]
           /\ DOMAIN socketOf' \subseteq Ids
           /\ \A j \in DOMAIN socketOf' : socketOf'[j] \in Sockets
BY DEF QTypeOK, Issued, Issue

\* Each step of the request protocol preserves the inductive invariant.
LEMMA NextRequestInv == RequestInv /\ [Next]_qvars => RequestInv'
<1> SUFFICES ASSUME RequestInv, [Next]_qvars PROVE RequestInv'
    OBVIOUS
<1>t. QTypeOK /\ BooksAgree /\ SeatsSuffice /\ OnlySpectatorsAsk /\ Stages
    BY DEF RequestInv
<1> USE DEF sockVars, joinVars, roomVars, roleVars
<1>1. ASSUME NEW s \in Sockets, NEW i \in Ids, NEW w \in BOOLEAN, Join(s, i, w)
      PROVE  RequestInv'
    <2>1. SeatsSuffice'
        BY <1>1, <1>t, SeatsKept DEF Join, QTypeOK
    <2>2. QTypeOK'
        BY <1>1, <1>t, IssueKeepsOthers DEF Join, QTypeOK, Issued
    <2>3. BooksAgree'
        BY <1>1, <1>t, IssueKeepsOthers DEF Join, QTypeOK, BooksAgree, Issued
    <2>4. OnlySpectatorsAsk' /\ Stages'
        BY <1>1, <1>t, IssueKeepsOthers DEF Join, QTypeOK, OnlySpectatorsAsk, Stages, Issued
    <2> QED
        BY <2>1, <2>2, <2>3, <2>4 DEF RequestInv
<1>2. ASSUME NEW s \in Sockets, NEW i \in Ids, AskToJoin(s, i)
      PROVE  RequestInv'
    <2>1. SeatsSuffice'
        BY <1>2, <1>t DEF AskToJoin, SeatsSuffice
    <2>2. QTypeOK'
        BY <1>2, <1>t, IssueKeepsOthers DEF AskToJoin, QTypeOK, Issued
    <2>3. BooksAgree'
        BY <1>2, <1>t, IssueKeepsOthers DEF AskToJoin, QTypeOK, BooksAgree, Issued
    <2>4. OnlySpectatorsAsk' /\ Stages'
        BY <1>2, <1>t, IssueKeepsOthers DEF AskToJoin, QTypeOK, OnlySpectatorsAsk, Stages, Issued
    <2> QED
        BY <2>1, <2>2, <2>3, <2>4 DEF RequestInv
<1>3. ASSUME NEW i \in Ids, NEW w \in BOOLEAN, Accept(i, w)
      PROVE  RequestInv'
    <2>1. SeatsSuffice'
        BY <1>3, <1>t, SeatsKept DEF Accept, QTypeOK
    <2>2. BooksAgree' /\ QTypeOK'
        BY <1>3, <1>t, SettleKeepsBooks DEF Accept, Settle, QTypeOK
    <2>3. OnlySpectatorsAsk' /\ Stages'
        BY <1>3, <1>t DEF Accept, Settle, QTypeOK, OnlySpectatorsAsk, Stages, Issued
    <2> QED
        BY <2>1, <2>2, <2>3 DEF RequestInv
<1>4. ASSUME NEW i \in pending, Settle(i), UNCHANGED <<phase, hostThere, sockVars, roomVars, roleVars>>
      PROVE  RequestInv'
    <2>1. SeatsSuffice'
        BY <1>4, <1>t DEF SeatsSuffice
    <2>2. BooksAgree' /\ QTypeOK'
        BY <1>4, <1>t, SettleKeepsBooks DEF Settle, QTypeOK
    <2>3. OnlySpectatorsAsk' /\ Stages'
        BY <1>4, <1>t DEF Settle, OnlySpectatorsAsk, Stages, Issued
    <2> QED
        BY <2>1, <2>2, <2>3 DEF RequestInv
<1>5. ASSUME NEW s \in Sockets, Identify(s)
      PROVE  RequestInv'
    <2>1. SeatsSuffice'
        BY <1>5, <1>t DEF Identify, SeatsSuffice
    <2>2. QTypeOK' /\ BooksAgree' /\ OnlySpectatorsAsk' /\ Stages'
        BY <1>5, <1>t DEF Identify, QTypeOK, BooksAgree, OnlySpectatorsAsk, Stages, Issued
    <2> QED
        BY <2>1, <2>2 DEF RequestInv
<1>6. ASSUME NEW s \in Sockets, Close(s)
      PROVE  RequestInv'
    <2>1. SeatsSuffice'
        BY <1>6, <1>t DEF Close, SeatsSuffice
    <2>2. CASE UNCHANGED joinVars
        BY <1>6, <1>t, <2>1, <2>2 DEF Close, RequestInv, QTypeOK, BooksAgree, OnlySpectatorsAsk, Stages, Issued
    <2>3. CASE wsRequest[s] # NoId /\ Settle(wsRequest[s])
        <3>1. wsRequest[s] \in pending
            BY <1>t, <2>3 DEF BooksAgree
        <3>2. BooksAgree' /\ QTypeOK'
            BY <1>6, <1>t, <2>3, <3>1, SettleKeepsBooks DEF Close, Settle, QTypeOK
        <3>3. OnlySpectatorsAsk' /\ Stages'
            BY <1>6, <1>t, <2>3 DEF Close, Settle, OnlySpectatorsAsk, Stages, Issued
        <3> QED
            BY <2>1, <3>2, <3>3 DEF RequestInv
    <2> QED
        BY <1>6, <2>2, <2>3 DEF Close
<1>7. ASSUME NEW i \in Ids, Unseat(i), wsPlayer' = wsPlayer, open' = open, phase' = phase,
             hostThere' = hostThere, UNCHANGED joinVars, asking' = asking,
             speaksFor' \in [Sockets -> Ids \cup {NoId}]
      PROVE  RequestInv'
    <2>1. SeatsSuffice'
        BY <1>7, <1>t, SeatsKept DEF Unseat, QTypeOK
    <2>2. QTypeOK' /\ BooksAgree' /\ OnlySpectatorsAsk' /\ Stages'
        BY <1>7, <1>t DEF Unseat, QTypeOK, BooksAgree, OnlySpectatorsAsk, Stages, Issued
    <2> QED
        BY <2>1, <2>2 DEF RequestInv
<1>8. ASSUME NEW s \in Sockets, Leave(s)
      PROVE  RequestInv'
    <2>1. speaksFor[s] \in Ids
        BY <1>8, <1>t DEF Leave, QTypeOK
    <2>2. speaksFor' \in [Sockets -> Ids \cup {NoId}]
        BY <1>8, <1>t DEF Leave, QTypeOK
    <2> QED
        BY <1>8, <2>1, <2>2, <1>7 DEF Leave
<1>9. ASSUME NEW i \in Ids, Kick(i) \/ Remove(i)
      PROVE  RequestInv'
    <2>1. speaksFor' \in [Sockets -> Ids \cup {NoId}]
        BY <1>9, <1>t DEF Kick, Remove, QTypeOK
    <2> QED
        BY <1>9, <2>1, <1>7 DEF Kick, Remove
<1>10. ASSUME NEW s \in Sockets, NEW i \in Ids, Reconnect(s, i)
       PROVE  RequestInv'
    <2>1. SeatsSuffice'
        BY <1>10, <1>t DEF Reconnect, SeatsSuffice
    <2>2. QTypeOK' /\ BooksAgree' /\ OnlySpectatorsAsk' /\ Stages'
        BY <1>10, <1>t DEF Reconnect, QTypeOK, BooksAgree, OnlySpectatorsAsk, Stages, Issued
    <2> QED
        BY <2>1, <2>2 DEF RequestInv
<1>11. ASSUME NEW i \in Ids, AskForRole(i)
       PROVE  RequestInv'
    <2>1. SeatsSuffice'
        BY <1>11, <1>t DEF AskForRole, SeatsSuffice
    <2>2. QTypeOK' /\ BooksAgree'
        BY <1>11, <1>t DEF AskForRole, QTypeOK, BooksAgree
    <2>3. OnlySpectatorsAsk' /\ Stages'
        BY <1>11, <1>t DEF AskForRole, QTypeOK, OnlySpectatorsAsk, Stages, Issued
    <2> QED
        BY <2>1, <2>2, <2>3 DEF RequestInv
<1>12. ASSUME NEW i \in Ids, GrantRole(i)
       PROVE  RequestInv'
    <2>1. SeatsSuffice'
        BY <1>12, <1>t, SeatsKept DEF GrantRole
    <2>2. QTypeOK' /\ BooksAgree' /\ OnlySpectatorsAsk' /\ Stages'
        BY <1>12, <1>t DEF GrantRole, QTypeOK, BooksAgree, OnlySpectatorsAsk, Stages, Issued
    <2> QED
        BY <2>1, <2>2 DEF RequestInv
<1>13. ASSUME NEW i \in Ids, DropRole(i)
       PROVE  RequestInv'
    <2>1. SeatsSuffice'
        BY <1>13, <1>t DEF DropRole, SeatsSuffice
    <2>2. QTypeOK' /\ BooksAgree' /\ OnlySpectatorsAsk' /\ Stages'
        BY <1>13, <1>t DEF DropRole, QTypeOK, BooksAgree, OnlySpectatorsAsk, Stages, Issued
    <2> QED
        BY <2>1, <2>2 DEF RequestInv
<1>14. CASE SwitchPhase
    <2>1. SeatsSuffice'
        BY <1>14, <1>t DEF SwitchPhase, SeatsSuffice
    <2>2. QTypeOK' /\ BooksAgree' /\ OnlySpectatorsAsk' /\ Stages'
        BY <1>14, <1>t DEF SwitchPhase, QTypeOK, BooksAgree, OnlySpectatorsAsk, Stages, Issued
    <2> QED
        BY <2>1, <2>2 DEF RequestInv
<1>15. CASE HostComesOrGoes
    <2>1. SeatsSuffice'
        BY <1>15, <1>t DEF HostComesOrGoes, SeatsSuffice
    <2>2. QTypeOK' /\ BooksAgree' /\ OnlySpectatorsAsk' /\ Stages'
        BY <1>15, <1>t DEF HostComesOrGoes, QTypeOK, BooksAgree, OnlySpectatorsAsk, Stages, Issued
    <2> QED
        BY <2>1, <2>2 DEF RequestInv
<1>16. CASE DeleteRoom
    <2>1. SeatsSuffice'
        BY <1>16, <1>t, SeatsKept DEF DeleteRoom
    <2>2. QTypeOK'
        BY <1>16, <1>t DEF DeleteRoom, QTypeOK
    <2>3. BooksAgree'
        BY <1>16, <1>t DEF DeleteRoom, BooksAgree
    <2>4. OnlySpectatorsAsk' /\ Stages'
        BY <1>16, <1>t DEF DeleteRoom, OnlySpectatorsAsk, Stages, Issued
    <2> QED
        BY <2>1, <2>2, <2>3, <2>4 DEF RequestInv
<1>17. CASE UNCHANGED qvars
    BY <1>17, <1>t DEF qvars, RequestInv, QTypeOK, BooksAgree, SeatsSuffice, OnlySpectatorsAsk, Stages, Issued
<1>18. ASSUME NEW i \in Ids, Decline(i) \/ JoinTimesOut(i) \/ \E s \in Sockets : CancelJoin(s, i)
       PROVE  RequestInv'
    BY <1>18, <1>4 DEF Decline, JoinTimesOut, CancelJoin
<1> QED
    BY <1>1, <1>2, <1>3, <1>5, <1>6, <1>8, <1>9, <1>10, <1>11, <1>12, <1>13, <1>14, <1>15,
       <1>16, <1>17, <1>18 DEF Next
-----------------------------------------------------------------------------
\* The inductive invariant of the requests holds in every behaviour.
THEOREM RequestsAreInductive == Spec => []RequestInv
BY InitRequestInv, NextRequestInv, PTL DEF Spec

\* The manager's book, the room's book, the sleeping tasks and the sockets'
\* entries agree, whichever of answer, time-out, cancellation and closing wins.
THEOREM BooksAlwaysAgree == Spec => []BooksAgree
<1>1. RequestInv => BooksAgree
    BY DEF RequestInv
<1> QED
    BY <1>1, RequestsAreInductive, PTL

\* Requests are granted within the seats, whatever happened since they were made.
THEOREM SeatsAlwaysSuffice == Spec => []SeatsSuffice
<1>1. RequestInv => SeatsSuffice
    BY DEF RequestInv
<1> QED
    BY <1>1, RequestsAreInductive, PTL

\* The host is never asked about someone who already plays.
THEOREM PlayersNeverAsk == Spec => []OnlySpectatorsAsk
<1>1. RequestInv => OnlySpectatorsAsk
    BY DEF RequestInv
<1> QED
    BY <1>1, RequestsAreInductive, PTL
=============================================================================
