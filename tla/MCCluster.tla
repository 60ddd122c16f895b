----------------------------- MODULE MCCluster -----------------------------
EXTENDS Cluster

\* Every client has the same name: any of them may come back as any player.
MCWho == <<"ann", "ann", "ann">>
=============================================================================
