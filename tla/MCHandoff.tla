----------------------------- MODULE MCHandoff -----------------------------
(* Tonopah, whose Tower is also Clearance. *)
EXTENDS Handoff

MCLayouts == {
    [ground |-> {}, tower |-> {"clearance", "delivery"}, approach |-> {"departure"}, center |-> {}] }

MCOthers == {"ground"}
MCProfiles == {None, "talkdown"}
=============================================================================
