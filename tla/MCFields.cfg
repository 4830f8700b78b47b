CONSTANTS
    pony = pony
    hawk = hawk
    zulu = zulu
    batumi = batumi
    kobuleti = kobuleti
    Callsigns <- MCCallsigns
    Aerodromes <- MCAerodromes
    Filed <- MCFiled
    Asks <- MCAsks
    NoField = NoField
    NoOne = NoOne
    N = 2
SPECIFICATION Spec
SYMMETRY Symmetry
CONSTRAINT NobodyStrayed
INVARIANTS
    LetdownIsHis
PROPERTIES
    FieldsIndependent
