CONSTANTS
    Levels <- MCLevels
    Seats <- MCSeats
    Utterances <- MCUtterances
    MaxIssues = 2
    MaxFaults = 1
    MaxRestarts = 1
    MaxStray = 1
SPECIFICATION Spec
INVARIANTS
    TaxiIsAgreed
    CacheIsOneTurnOld
PROPERTIES
    AgreedToWhatWasGiven
    EventuallyTaxis
