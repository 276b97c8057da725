CONSTANTS
  None = None
  Conns = {c1, c2}
  Fds = {f1}
  Workers = {w1}
  MaxReq = 1
  ReqChunks = 1
  RespChunks = 2
  BufCap = 1
  PipeCap = 1
  Cap = 0
  RateLimit = FALSE
  Expecting = FALSE
  IoTimeouts = FALSE
  HandlerTimeout = FALSE
  MayThrow = FALSE
  MayHang = TRUE
SPECIFICATION ReadingClientsSpec
PROPERTIES RequestServed DrainEnds StopReturns
