---------------------------- MODULE MCConfigSync ----------------------------
(* ConfigSync on two sensors, two good values and a bad one.               *)
EXTENDS ConfigSync
=============================================================================
