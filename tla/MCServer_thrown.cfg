CONSTANTS
  None = None
  Conns = {c1}
  Fds = {f1}
  Workers = {w1}
  MaxReq = 2
  ReqChunks = 1
  RespChunks = 2
  BufCap = 2
  PipeCap = 1
  Cap = 1
  RateLimit = FALSE
  Expecting = FALSE
  IoTimeouts = TRUE
  HandlerTimeout = FALSE
  MayThrow = TRUE
  MayHang = FALSE
SPECIFICATION Spec
SYMMETRY Symmetry
INVARIANTS ProcessingMeansWork
