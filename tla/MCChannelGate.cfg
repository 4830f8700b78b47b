CONSTANTS
    MaxCalls = 2
    MaxPolls = 1
    MaxOthers = 1
    MaxFails = 1
SPECIFICATION Spec
CHECK_DEADLOCK FALSE
INVARIANTS
    OwnWords
PROPERTIES
    DecisionsAreVoiced
    AnswersAreWaitedFor
    CallsAreHeard
    GateReopens
