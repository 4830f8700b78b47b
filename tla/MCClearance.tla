----------------------------- MODULE MCClearance -----------------------------
(* Two plans with different first levels, and a man in each of the two seats.  *)
EXTENDS Clearance

MCLevels == {"low", "high"}
MCSeats == {{"clearance"}, {"ground"}}
MCUtterances == {{}, {"low"}, {"high"}, {Code, Mhz}, {"low", Code, Mhz}, {"high", Code, Mhz}}
==============================================================================
