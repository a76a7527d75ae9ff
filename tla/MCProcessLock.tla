---------------------------- MODULE MCProcessLock ----------------------------
(***************************************************************************)
(* ProcessLock on a small instance.                                        *)
(***************************************************************************)
EXTENDS ProcessLock

CONSTANTS c1, c2, c3, p1, p2, p3, p4
=============================================================================
