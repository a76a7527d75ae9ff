------------------------------ MODULE MCDaemon ------------------------------
EXTENDS Daemon

CONSTANTS f1, f2
=============================================================================
