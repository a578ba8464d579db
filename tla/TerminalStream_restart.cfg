SPECIFICATION Spec
CONSTANTS
  c1 = c1
  c2 = c2
  Conns = {c1}
  NoConn = NoConn
  Byte <- MCByte
  Zero <- MCZero
  RingSize = 2
  BufCap = 2
  FrameCap = 3
  FlushBytes = 2
  MarkerLen = 1
  ResizeLen = 1
  WireCap = 1
  MaxOut = 3
  MaxAfter = 3
  MaxChunk = 2
  MaxResizes = 0
  MaxGen = 1
PROPERTIES RestartedHostSendsSnapshot
