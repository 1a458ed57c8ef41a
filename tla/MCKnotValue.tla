---------------------------- MODULE MCKnotValue ----------------------------
(* KnotValue on every input built from a few digits.                       *)
EXTENDS KnotValue
=============================================================================
