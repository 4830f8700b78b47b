CONSTANTS
    Units = {a}
    MinAge = 3
    MaxAge = 3
    MaxWorlds = 2
    MaxChanges = 2
    MaxDrops = 1
    MaxFails = 1
    MaxQueue = 1
SPECIFICATION FeedSpec
PROPERTIES
    ScopeSettles
    AliveIsSeen
    OldWorldForgotten
