CONSTANTS
    N = 3
    Callsigns = {pony, hawk, zulu}
    NoOne = NoOne
    VectorLevels = {2}
SPECIFICATION Spec
SYMMETRY Symmetry
CONSTRAINTS
    NobodyDoubled
    FewMisses
INVARIANTS
    LetdownHolderCleared
    CheckedLevelsDistinct
    ToldWhatIsHeld
PROPERTIES
    LetdownHandedOn
    ApproachNeverIdles
    MissedGoesFirst
    StepDownKeepsOrder
