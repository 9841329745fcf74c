---------------------------- MODULE MCOrgEvents ----------------------------
EXTENDS OrgEvents
=============================================================================
