CONSTANTS
    Aircraft = {pony, hawk}
    NoOne = NoOne
SPECIFICATION Spec
SYMMETRY Symmetry
INVARIANTS
    StillFound
PROPERTIES
    ClearedAlone
    SeenStandsFirst
