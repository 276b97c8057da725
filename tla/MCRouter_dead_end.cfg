SPECIFICATION RouterSpec
CONSTANTS
  Words = {a, b}
  Params = {p, q}
  Wild = Wild
  Methods = {GET, POST}
  NoRoute = NoRoute
  Crash = Crash
  MaxRoutes = 2
  MaxPattern = 2
  MaxPath = 3
INVARIANTS FallsBackToParameter
