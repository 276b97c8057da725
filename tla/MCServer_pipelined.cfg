CONSTANTS
  None = None
  Conns = {c1}
  Fds = {f1}
  Workers = {w1}
  MaxReq = 3
  ReqChunks = 2
  RespChunks = 2
  BufCap = 4
  PipeCap = 1
  Cap = 0
  RateLimit = TRUE
  Expecting = TRUE
  IoTimeouts = TRUE
  HandlerTimeout = TRUE
  MayThrow = FALSE
  MayHang = FALSE
SPECIFICATION Spec
SYMMETRY Symmetry
PROPERTIES ImplementsExchange NoTimeoutInsideReply
