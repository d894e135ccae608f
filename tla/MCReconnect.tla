---------------------------- MODULE MCReconnect ----------------------------
EXTENDS Reconnect
=============================================================================
