SPECIFICATION ServicesSpec
CONSTANTS
  Keys = {k1, k2}
  RatePerSec = 2
  BurstSize = 7
  Token = 3
  MaxClock = 5
  MaxAsked = 4
  Words = {a, b}
  Params = {p, q}
  Wild = Wild
  Methods = {GET, POST}
  NoRoute = NoRoute
  Crash = Crash
  MaxRoutes = 3
  MaxPattern = 2
  MaxPath = 3
  MaxHeader = 3
  MaxBody = 3
  BufferSize = 9
  MaxStream = 2
  Second = 2
  TimeoutValues = {0, 1}
  Long = 9
  MaxUnits = 2
  MaxBytes = {0, 3}
  MaxFiles = {0, 1, 3}
  LineSizes = {1, 2, 4}
  MaxLines = 5
  Recorders = {w1, w2}
  Buckets = 2
  MaxCounted = 2
  Clients = {c1, c2, c3}
  Conns = {h1, h2}
  Usernames = {u1, u2}
  NoConn = NoConn
  Tasks = {t1, t2}
  Copies = {d1, d2}
  BlockIds = {b1, b2, b3, b4}
  MaxArrivals = 3
INVARIANTS ServicesTypeOK RouterFinds StreamServed DeadlinesKept LogKept MetricsExact HeadAsGet AnswersTrue ViewsHold
PROPERTIES ImplementsTokenBucket NobodyCutShort
