SPECIFICATION MCSpec
CONSTANTS
 Tokens = {t1, t2}
 SessionIDs = {i1, i2}
 Phones = {p1, p2}
 Keepers = {p1}
 Modes <- MCModes
 PairTTL = 1
 MaxNow = 1
 MaxDaemons = 1
 MaxRevokes = 1
 MaxTyped = 3
 MaxSockets = 2
 MaxReplays = 3
 Requests = {r1, r2, r3}
 MaxCopies = 2
 ReplayTTL = 2
 ReplayLimit = 2
 MaxClock = 2
 ReplayHistory = 2
 ChannelSize = 2
 MaxEvents = 4
 MaxResets = 1
 MaxEpochs = 1
INVARIANTS TokenSpentOnce RelaySocketProven TakenOnce CountedIsKnown
PROPERTIES RevokedCutOff EventsCatchUp
CHECK_DEADLOCK FALSE
