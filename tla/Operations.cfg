SPECIFICATION MCSpec
CONSTANTS
 Daemons = {svc, fg}
 Service = svc
 NoFile = NoFile
 Stale = Stale
 MaxStarts = 2
 MaxCrashes = 1
 MaxInstalls = 1
 Absent = Absent
 MaxCommands = 3
 MaxEdits = 1
 MaxKills = 1
 MaxFaults = 2
 MaxEnvelopeBytes = 12
 MaxImageBytes = 3
 MaxItems = 2
 Ids = {a1, a2, a3}
 Settled = Settled
 EventBuffer = 2
 Browsers = {b1}
 MaxRestarts = 1
 Accounts = {A, B}
 Asked = {high}
 HighRisk = {high}
 NoOne = NoOne
 Gone = Gone
 MaxUpdates = 2
 MaxBridgeStarts = 2
 MaxSetups = 1
 SessionIds = {1}
 NoRow = NoRow
 Plain = Plain
 NoKey = NoKey
 MaxKeys = 1
 MaxPushKeys = 1
 Addresses = {lan}
 Torn = Torn
 NoConfig = NoConfig
 CutShort = CutShort
 MaxKeyPairs = 5
 Keys = {"timeout", "telegram"}
 Overrides = {"telegram"}
 Unset = Unset
 Sessions = {s1, s2}
 Dirs = {d1, d2}
 Names = {n}
 Nothing = Nothing
 MaxTurns = 2
 MaxRows = 2
 MaxForks = 1
 MaxSeconds = 1
 Commands = {c1, c2}
 StoreKeyName = storeKey
 OtherName = vapid
 Missing = Missing
 NoTmp = NoTmp
 MaxSecrets = 3
 MaxFailures = 1
 Senders = {poll, forward}
 Chats = {ca, cb}
 GlobalSendInterval = 1
 ChatSendInterval = 2
 MaxRetries = 1
 RetryAfter = 1
 MaxMessages = 2
 MaxTime = 3
INVARIANTS ImagesTranscoded OwnerTold BridgeSafe KeysKept SoleDaemonReachable CertificateTrusted ConfigKept BranchFaithful
CHECK_DEADLOCK FALSE
