CONSTANTS
    Winds <- MCWinds
    Turned <- MCTurned
    Declared = 1
    LetterCount = 3
    Hour = 2
    MaxChanges = 2
    MaxFaults = 1
    MaxRestarts = 1
SPECIFICATION Spec
INVARIANTS
    OneSourceOfTruth
    CurrentIsCurrent
PROPERTIES
    CatchesUp
