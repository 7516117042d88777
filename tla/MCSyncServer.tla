---------------------------- MODULE MCSyncServer ----------------------------
EXTENDS SyncServer

CONSTANTS o1, o2, c1
MCOps == {o1, o2}
MCClients == {c1}
=============================================================================
