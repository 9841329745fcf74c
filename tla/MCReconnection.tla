--------------------------- MODULE MCReconnection ---------------------------
EXTENDS Reconnection
=============================================================================
