-------------------------- MODULE MCTenantManager --------------------------
EXTENDS TenantManager, TLC

CONSTANTS o1, o2, v1, v2

MCOrgs == {o1, o2}
\* Two organizations that share a vhost ...
OneVhost == {v1}
Shared == [o \in MCOrgs |-> v1]
Symmetry == Permutations(MCOrgs)
\* ... or have one each, of which v2 may belong to another transformer.
TwoVhosts == {v1, v2}
Separate == [o \in MCOrgs |-> IF o = o1 THEN v1 ELSE v2]
=============================================================================
