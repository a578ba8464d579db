SPECIFICATION FairFeedSpec
CONSTANTS
  Reqs = {r1}
  Deciders = {d1}
  Sweepers = {sw}
  Subs = {s1}
  Edits = {}
  NoEdit = NoEdit
  NoReq = NoReq
  TTL = 1
  Patience = 1
  MaxSubscribers = 1
  SubCap = 2
  MaxTime = 1
  MaxRestarts = 1
INVARIANTS
  NoRequestMissed OneOutcomeTold
PROPERTIES OpenCardRemoved EventuallySettled HookReleased RegisteredWaiterServed
CHECK_DEADLOCK FALSE
