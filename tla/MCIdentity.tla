----------------------------- MODULE MCIdentity -----------------------------
\* A radio that carries its pilot's name, and two guests' that do not.
EXTENDS Identity

MCPilots == {"andre", "visitor", "guest"}
MCAlias == [p \in MCPilots |->
    CASE p = "visitor" -> "client2" [] p = "guest" -> "client3" [] OTHER -> p]
=============================================================================
