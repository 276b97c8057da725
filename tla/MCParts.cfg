SPECIFICATION PartsSpec
CONSTANTS
  Handles = {h1, h2}
  Callers = {c1, c2, c3, c4}
  Kinds = {"pg", "sqlite"}
  NoHandle = NoHandle
  MaxOutages = 1
  Transports = {"plain", "tls"}
  FileSizes = {0, 3}
  TextSize = 2
  HeaderSize = 2
  Room = 2
  Blank = Blank
  Junk = Junk
  NoRange = NoRange
  MaxAnswers = 2
  MaxChanges = 1
  Workers = {w1, w2}
  Tasks = {t1, t2, t3}
  Owner = Owner
  None = None
  FilePort = p80
  EnvPort = p443
  DefaultPort = p8080
  Unset = Unset
INVARIANTS PartsTypeOK HandlesKept OneFailurePerOutage LifecycleSafe
PROPERTIES CallersServed BodyAsAnnounced RepliesEnd ImplementsTaskQueue PoolLive StopHonoured
