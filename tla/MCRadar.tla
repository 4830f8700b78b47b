------------------------------ MODULE MCRadar ------------------------------
(* Batumi's radar and ILS approaches to one runway, from around the area. *)
EXTENDS Radar

At(x, y, hdg) == [x |-> x, y |-> y, hdg |-> hdg, alt |-> 30]
MCStarts == { At(2000, 20000, 0), At(-12000, 12000, 90), At(15000, -5000, 200),
              At(0, -14000, 180), At(3000, 5000, 270) }
MCGuidances == {"talkdown", "intercept"}
=============================================================================
