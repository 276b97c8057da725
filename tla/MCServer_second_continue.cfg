CONSTANTS
  None = None
  Conns = {c1}
  Fds = {f1}
  Workers = {w1}
  MaxReq = 2
  ReqChunks = 2
  RespChunks = 2
  BufCap = 2
  PipeCap = 1
  Cap = 0
  RateLimit = FALSE
  Expecting = TRUE
  IoTimeouts = TRUE
  HandlerTimeout = TRUE
  MayThrow = FALSE
  MayHang = FALSE
SPECIFICATION Spec
SYMMETRY Symmetry
INVARIANTS EveryRequestContinued
