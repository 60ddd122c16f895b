---------------------------- MODULE MCTurnTasks ----------------------------
EXTENDS TurnTasks

\* Two rounds where a handler is one step, one where its steps interleave.
MCRounds == [suspends \in BOOLEAN |-> IF suspends THEN 1 ELSE 2]
=============================================================================
