----------------------------- MODULE MCRestart -----------------------------
(* Two aircraft are enough for one's call to move the other. *)
EXTENDS Restart, TLC

Symmetry == Permutations(Callsigns)

\* What the rest of a behaviour, and every property of the passing run, depends on.
Remembered == <<phase, level, tries, letdown, row, lost, kept, overruled>>
=============================================================================
