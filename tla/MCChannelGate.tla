--------------------------- MODULE MCChannelGate ---------------------------
(* Two pilots' calls, a call of radar's, a hook or a line of engineering's, *)
(* and a transmission that raises: every pair of threads meets.             *)
EXTENDS ChannelGate
=============================================================================
