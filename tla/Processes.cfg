SPECIFICATION MCSpec
CONSTANTS
  c1 = c1
  c2 = c2
  Conns = {c1}
  NoConn = NoConn
  Byte <- MCByte
  Zero <- MCZero
  RingSize = 2
  BufCap = 2
  FrameCap = 3
  FlushBytes = 2
  MarkerLen = 1
  ResizeLen = 1
  WireCap = 1
  MaxOut = 3
  MaxAfter = 3
  MaxChunk = 2
  MaxResizes = 0
  MaxGen = 1
  Transports = {"lan", "tailscale", "wireguard", "zerotier", "cloudflare", "ngrok"}
  Hosts = {h1, h2}
  NoHost = NoHost
  MaxFaults = 2
  Agents = {"claude","gemini","amp", "codex", "goose", "copilot", "opencode", "pi"}
  HookEvents = {"tool","stop"}
  OwnerHooks = {"mine"}
  Absent = Absent
  Garbage = Garbage
  NoRecord = NoRecord
  MaxCommands = 3
  MaxEdits = 1
  MaxKills = 1
  MaxGateFaults = 3
INVARIANTS NothingLeftRunning AdapterSafe
PROPERTIES OwnerContentKept OutputReachesViewer UnhealthyStops
CHECK_DEADLOCK FALSE
