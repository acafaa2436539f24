-------------------------- MODULE MCRemoteSession --------------------------
EXTENDS RemoteSession
=============================================================================
