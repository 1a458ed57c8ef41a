----------------------------- MODULE MCDaemon ------------------------------
(* Daemon instantiated for TLC.                                            *)
EXTENDS Daemon
=============================================================================
