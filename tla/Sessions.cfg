SPECIFICATION AttachFairSpec
CONSTANTS
 s1 = s1
 s2 = s2
 Sessions <- MCSessions
 Kinds <- MCKinds
 MaxBoots = 1
 MaxOutages = 1
 Viewed = s1
 Hosts = {h1, h2}
 Viewers = {v1}
 Calls = {c1}
INVARIANTS HealthyIsWatched HostsOwned
PROPERTIES TerminatedFinal RecoveryResolved
CHECK_DEADLOCK FALSE
