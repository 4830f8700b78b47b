CONSTANTS
    N = 1
    Callsigns = {pony, hawk}
    NoOne = NoOne
    VectorLevels = {1}
    MaxLost = 1
SPECIFICATION RestartSpec
SYMMETRY Symmetry
VIEW Remembered
PROPERTIES
    SpeakerSurvives
