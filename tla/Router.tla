------------------------------- MODULE Router -------------------------------
(***************************************************************************)
(* The routing tree of src/src/server/Router.cpp.  A path is the sequence  *)
(* of its segments (split_path_to_segments drops the empty ones).          *)
(*                                                                         *)
(* A node of the tree is named by the way to it from the root: the         *)
(* sequence of literal segments, with Wild for a step to param_child.       *)
(*                                                                         *)
(* An operator whose name starts with Faulty is a mutant of the definition *)
(* that follows it.                                                        *)
(***************************************************************************)
EXTENDS Integers, Sequences

CONSTANTS
  Words,     \* literal segments
  Params,    \* parameter segments of a pattern (":id"), by name
  Wild,       \* the step to param_child
  Methods,   \* HTTP methods
  NoRoute,   \* find_route returns false
  Crash,     \* the process dies
  MaxRoutes, \* bound: calls of add_route
  MaxPattern,\* bound: segments of a pattern
  MaxPath    \* bound: segments of a request's path

ASSUME RouterAssumption ==
  /\ Wild \notin Words \cup Params
  /\ Words \cap Params = {}
  /\ MaxRoutes \in Nat /\ MaxPattern \in Nat /\ MaxPath \in Nat
  /\ \A o \in [handler : 1..MaxRoutes, params : UNION {[N -> Words] : N \in SUBSET Params}] :
       o \notin {NoRoute, Crash}

VARIABLES
  nodes,     \* the nodes of the tree
  paramName, \* node with a param_child -> its param_name
  handlers,  \* <<node, method>> -> handler; a handler is the call that added it
  routes     \* history: the calls of add_route

routerVars == <<nodes, paramName, handlers, routes>>

UpTo(S, n) == UNION {[1..m -> S] : m \in 0..n}

Patterns == UpTo(Words \cup Params, MaxPattern)
Paths == UpTo(Words, MaxPath)

\* The node a segment of a pattern leads to, from its parent.
StepOf(segment) == IF segment \in Params THEN Wild ELSE segment

NodeOf(pattern) == [i \in DOMAIN pattern |-> StepOf(pattern[i])]

RouterInit ==
  /\ nodes = {<<>>}
  /\ paramName = <<>>
  /\ handlers = <<>>
  /\ routes = <<>>

\* The handler registered first for a node and a method stays.
FaultyAddRoute(method, pattern) ==
  /\ Len(routes) < MaxRoutes
  /\ routes' = Append(routes, [method |-> method, pattern |-> pattern])
  /\ LET node == NodeOf(pattern)
         Above(i) == SubSeq(node, 1, i - 1)
         Names == {i \in DOMAIN pattern : pattern[i] \in Params}
     IN /\ nodes' = nodes \cup {SubSeq(node, 1, n) : n \in 0..Len(node)}
        /\ paramName' = [n \in DOMAIN paramName \cup {Above(i) : i \in Names} |->
             IF n \in DOMAIN paramName THEN paramName[n] ELSE pattern[Len(n) + 1]]
        /\ handlers' = [at \in DOMAIN handlers \cup {<<node, method>>} |->
             IF at \in DOMAIN handlers THEN handlers[at] ELSE Len(routes')]

\* add_route: the nodes on the way are created where they are missing; a
\* param_child keeps the name it was created with (the code prints a warning);
\* the handler replaces the one that was there.
AddRoute(method, pattern) ==
  /\ Len(routes) < MaxRoutes
  /\ routes' = Append(routes, [method |-> method, pattern |-> pattern])
  /\ LET node == NodeOf(pattern)
         Above(i) == SubSeq(node, 1, i - 1)
         Names == {i \in DOMAIN pattern : pattern[i] \in Params}
     IN /\ nodes' = nodes \cup {SubSeq(node, 1, n) : n \in 0..Len(node)}
        /\ paramName' = [n \in DOMAIN paramName \cup {Above(i) : i \in Names} |->
             IF n \in DOMAIN paramName THEN paramName[n] ELSE pattern[Len(n) + 1]]
        /\ handlers' = [at \in DOMAIN handlers \cup {<<node, method>>} |->
             IF at = <<node, method>> THEN Len(routes') ELSE handlers[at]]

\* Every call is made before the server runs; nothing is ever removed.
RoutesComplete ==
  /\ Len(routes) = MaxRoutes
  /\ UNCHANGED routerVars

RouterNext ==
  \/ \E m \in Methods, p \in Patterns : AddRoute(m, p)
  \/ RoutesComplete

RouterSpec == RouterInit /\ [][RouterNext]_routerVars

-----------------------------------------------------------------------------
(* find_route, as the set of its possible outcomes.                        *)

Found(handler) == [handler |-> handler, params |-> <<>>]

\* path_params_out with one more name; what is bound deeper was written later.
Bound(params, name, word) ==
  [x \in DOMAIN params \cup {name} |-> IF x \in DOMAIN params THEN params[x] ELSE word]

Bind(outcomes, name, word) ==
  {IF o \in {NoRoute, Crash} THEN o
   ELSE [o EXCEPT !.params = Bound(o.params, name, word)] : o \in outcomes}

\* The outcomes of an attempt, and where it fails those of the next.
OrElse(first, second) ==
  (first \ {NoRoute}) \cup (IF NoRoute \in first THEN second ELSE {})

\* match_route_recursive.  Both recursive calls pass ++path_segment_it, so that
\* after a literal that led nowhere the parameter is tried with the iterator two
\* segments on.  Beyond the end it equals path_segment_end no more, and what it
\* points to is read all the same: no route, or a crash.
Match(method, path) ==
  LET match[i \in 1..Len(path) + 2] == [n \in nodes |->
        LET literal == Append(n, path[i])
            param == Append(n, Wild)
            tried == literal \in nodes
        IN IF i = Len(path) + 1
           THEN IF <<n, method>> \in DOMAIN handlers
                THEN {Found(handlers[<<n, method>>])} ELSE {NoRoute}
           ELSE IF i > Len(path) THEN {NoRoute, Crash}
           ELSE OrElse(IF tried THEN match[i + 1][literal] ELSE {NoRoute},
                       IF param \notin nodes THEN {NoRoute}
                       ELSE Bind(match[IF tried THEN i + 2 ELSE i + 1][param],
                                 paramName[n], path[i]))]
  IN match[1][<<>>]

-----------------------------------------------------------------------------
(* The reference: a route is tried against a path segment by segment.      *)

Fits(pattern, path) ==
  /\ Len(pattern) = Len(path)
  /\ \A i \in DOMAIN pattern : pattern[i] \in Params \cup {path[i]}

\* The calls of add_route whose route fits a request.
Fitting(method, path) ==
  {r \in DOMAIN routes :
     routes[r].method = method /\ Fits(routes[r].pattern, path)}

\* Route r is more literal than route s: it has a literal at the first place at
\* which one of them has and the other has not.
MoreLiteral(r, s) ==
  LET p == NodeOf(routes[r].pattern)
      q == NodeOf(routes[s].pattern)
  IN \E i \in DOMAIN p :
       /\ p[i] # Wild /\ q[i] = Wild
       /\ \A j \in 1..i-1 : p[j] = q[j]

SameNode(r, s) == NodeOf(routes[r].pattern) = NodeOf(routes[s].pattern)

\* The route a request should reach: the most literal of those that fit, and of
\* the calls that registered it the last.
Best(method, path) ==
  {r \in Fitting(method, path) :
     \A s \in Fitting(method, path) \ {r} :
       MoreLiteral(r, s) \/ (SameNode(r, s) /\ s < r)}

\* The words a route's parameters stand for; of parameters of one name, the last.
Bindings(r, path) ==
  LET node == NodeOf(routes[r].pattern)
      bound == {i \in DOMAIN node : node[i] = Wild}
      NameAt(i) == paramName[SubSeq(node, 1, i - 1)]
  IN [x \in {NameAt(i) : i \in bound} |->
        path[CHOOSE i \in bound :
               NameAt(i) = x /\ \A j \in bound : NameAt(j) = x => j <= i]]

\* Some node on the way has both a literal child for the next segment and a
\* param_child.
Ambiguous(path) ==
  \E n \in nodes :
    /\ Len(n) < Len(path)
    /\ \A i \in DOMAIN n : n[i] \in {Wild, path[i]}
    /\ {Append(n, Wild), Append(n, path[Len(n) + 1])} \subseteq nodes

Handlers(outcomes) ==
  {IF o \in {NoRoute, Crash} THEN o ELSE o.handler : o \in outcomes}

-----------------------------------------------------------------------------
\* Whatever parameters the tree has, a route registered as the literal path of a
\* request is found, in its last version, and binds nothing.
LiteralRouteFound ==
  \A m \in Methods, p \in Paths :
    LET same == {r \in DOMAIN routes : routes[r] = [method |-> m, pattern |-> p]}
    IN same # {} =>
         Match(m, p) = {Found(CHOOSE r \in same : \A s \in same : s <= r)}

\* Where no node on the way leaves a choice, the router finds the route that
\* fits, if there is one, and binds each parameter segment to the word in its
\* place, under the name the first route through that node gave it.
FindsTheRoute ==
  \A m \in Methods, p \in Paths :
    ~Ambiguous(p) =>
      Match(m, p) = IF Best(m, p) = {} THEN {NoRoute}
                    ELSE {[handler |-> r, params |-> Bindings(r, p)] :
                            r \in Best(m, p)}

\* What the router promises while a path does not leave it a choice.
RoutesFound == LiteralRouteFound /\ FindsTheRoute

\* "Si la coincidencia estatica falla, intenta coincidir con un segmento de
\* parametro" (Router.cpp:128): a request that some route fits reaches the best of
\* them, by a parameter where the literals led nowhere.
FallsBackToParameter ==
  \A m \in Methods, p \in Paths :
    Best(m, p) # {} => Handlers(Match(m, p)) = Best(m, p)
=============================================================================
