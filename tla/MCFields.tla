----------------------------- MODULE MCFields ------------------------------
(* Two aerodromes.  Two flights are filed to the first, one to the second.   *)
EXTENDS Fields, TLC

CONSTANTS pony, hawk, zulu, batumi, kobuleti

MCCallsigns == {pony, hawk, zulu}
MCAerodromes == {batumi, kobuleti}
MCFiled == pony :> batumi @@ hawk :> batumi @@ zulu :> kobuleti

\* The approach pilots ask for by name: for two of them the one they have.
MCAsks == {batumi}

\* The two flights to one aerodrome are interchangeable.
Symmetry == Permutations({pony, hawk})

\* Every property of the passing run is about boards where nobody has strayed.
NobodyStrayed == ~strayed
=============================================================================
