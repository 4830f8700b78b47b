------------------------------- MODULE MCAtis -------------------------------
(* Winds 1 and 3 are a shift apart, as are 0 and 2; 3 turns the field round.  *)
EXTENDS Atis
MCWinds == 0..3
MCTurned == {3}
=============================================================================
