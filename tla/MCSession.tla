----------------------------- MODULE MCSession -----------------------------
(* Session on a few addresses.                                             *)
EXTENDS Session
=============================================================================
