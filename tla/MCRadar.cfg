CONSTANTS
 Starts <- MCStarts
 Guidances <- MCGuidances
 FinalIntercept = 11000
 FAP = 6000
 MAP = 600
 Platform = 20
 MDA = 5
 MissedHeading = 205
 MissedStraight = 8
 MissedClimb = 30
 MaxBusy = 1
 MaxMisses = 1
SPECIFICATION Spec
PROPERTIES
 EventuallyDown
 MilesCountDown
 ClearedAgain
CHECK_DEADLOCK FALSE
