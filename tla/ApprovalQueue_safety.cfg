SPECIFICATION Spec
CONSTANTS
  r1 = r1
  r2 = r2
  d1 = d1
  d2 = d2
  e1 = e1
  e2 = e2
  Reqs = {r1}
  Deciders = {d1, d2}
  Sweepers = {sw}
  Subs = {}
  Edits = {e1, e2}
  NoEdit = NoEdit
  NoReq = NoReq
  TTL = 1
  Patience = 1
  MaxSubscribers = 0
  SubCap = 1
  MaxTime = 1
  MaxRestarts = 1
INVARIANTS
  TypeOK AnswerMatchesRow AcksAgree OneWinner WaiterChannelEmpty
PROPERTIES TerminalFinal ImplementsSpec
SYMMETRY Symmetry
CHECK_DEADLOCK FALSE
