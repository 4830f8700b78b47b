CONSTANTS
 Pilots <- MCPilots
 Alias <- MCAlias
 FlightNames = {"pony"}
 None = "none"
SPECIFICATION IdentitySpec
INVARIANTS
 OneRowEach
 EliminatedOnce
