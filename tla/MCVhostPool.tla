---------------------------- MODULE MCVhostPool ----------------------------
EXTENDS VhostPool, TLC

CONSTANTS c1, c2, c3, v1, v2

MCClients == {c1, c2, c3}
MCVhosts == {v1, v2}
Symmetry == Permutations(MCClients) \cup Permutations(MCVhosts)
=============================================================================
