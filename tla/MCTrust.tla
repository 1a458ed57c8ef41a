------------------------------ MODULE MCTrust ------------------------------
(* Trust instantiated for TLC.                                             *)
EXTENDS Trust, TLC

\* Trust addresses are interchangeable.
Symmetry == Permutations(TrustId)
=============================================================================
