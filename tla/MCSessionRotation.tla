-------------------------- MODULE MCSessionRotation --------------------------
(* Requests are interchangeable.                                           *)
EXTENDS SessionRotation, TLC

Symmetry == Permutations(Requests)
=============================================================================
