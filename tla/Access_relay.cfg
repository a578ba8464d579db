SPECIFICATION AttachingSpec
CONSTANTS
 Tokens = {t1, t2}
 SessionIDs = {i1, i2}
 Phones = {p1}
 Keepers = {}
 Modes = {TRUE}
 PairTTL = 1
 MaxNow = 1
 MaxDaemons = 1
 MaxRevokes = 0
PROPERTIES PairedAttaches
CHECK_DEADLOCK FALSE
