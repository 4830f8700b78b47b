----------------------------- MODULE MCRunway ------------------------------
(* Aircraft that are interchangeable. *)
EXTENDS Runway, TLC

Symmetry == Permutations(Aircraft)
=============================================================================
