CONSTANTS
  None = None
  Conns = {c1, c2}
  Fds = {f1, f2}
  Workers = {w1, w2}
  MaxReq = 1
  ReqChunks = 1
  RespChunks = 2
  BufCap = 1
  PipeCap = 2
  Cap = 0
  RateLimit = FALSE
  Expecting = FALSE
  IoTimeouts = TRUE
  HandlerTimeout = TRUE
  MayThrow = TRUE
  MayHang = FALSE
SPECIFICATION Spec
SYMMETRY Symmetry
INVARIANTS TypeOK NoLostWakeup PipeOutlivesWorkers
PROPERTIES CleanDrain BacklogSeen
