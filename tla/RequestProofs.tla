----------------------------- MODULE RequestProofs -----------------------------
(***************************************************************************)
(* Proofs about how a request is read and routed, for any routes, paths,   *)
(* streams and limits: the search of the routing tree, and the parser on   *)
(* the read buffer of a connection.                                        *)
(***************************************************************************)
EXTENDS DataProofs

-----------------------------------------------------------------------------
(* Router: the tree.                                                       *)

Steps == Words \cup {Wild}

NodeAt(r) == NodeOf(routes[r].pattern)

RouteCalls == [method : Methods, pattern : Patterns]

\* The tree holds every registered route, and each handler is the last call of its
\* node and method; what is below a node is named there.
RouterInv ==
  /\ routes \in Seq(RouteCalls) /\ Len(routes) <= MaxRoutes
  /\ nodes \subseteq Seq(Steps) /\ <<>> \in nodes
  /\ \A n \in nodes : \A k \in 0..Len(n) : SubSeq(n, 1, k) \in nodes
  /\ \A r \in 1..Len(routes) :
       /\ NodeAt(r) \in nodes /\ <<NodeAt(r), routes[r].method>> \in DOMAIN handlers
       /\ r <= handlers[<<NodeAt(r), routes[r].method>>]
  /\ \A at \in DOMAIN handlers :
       /\ handlers[at] \in 1..Len(routes)
       /\ at = <<NodeAt(handlers[at]), routes[handlers[at]].method>>
  /\ \A n \in DOMAIN paramName : paramName[n] \in Params
  /\ \A n \in nodes : Append(n, Wild) \in nodes => n \in DOMAIN paramName

LEMMA Prefix ==
  ASSUME NEW S, NEW s \in Seq(S), NEW k \in 0..Len(s)
  PROVE  /\ SubSeq(s, 1, k) \in Seq(S) /\ Len(SubSeq(s, 1, k)) = k
         /\ \A i \in 1..k : SubSeq(s, 1, k)[i] = s[i]
<1>1. Len(s) \in Nat /\ k \in Nat /\ \A i \in 1..k : s[i] \in S
  BY LenProperties, ElementOfSeq
<1>2. /\ SubSeq(s, 1, k) \in Seq(S)
      /\ Len(SubSeq(s, 1, k)) = IF 1 <= k THEN k - 1 + 1 ELSE 0
      /\ \A i \in 1..k - 1 + 1 : SubSeq(s, 1, k)[i] = s[1 + i - 1]
  BY <1>1, SubSeqProperties
<1> QED
  BY <1>1, <1>2

LEMMA PrefixNext ==
  ASSUME NEW S, NEW s \in Seq(S), NEW k \in Nat, k < Len(s)
  PROVE  SubSeq(s, 1, k + 1) = Append(SubSeq(s, 1, k), s[k + 1])
<1> DEFINE a == SubSeq(s, 1, k)
           b == SubSeq(s, 1, k + 1)
<1>1. Len(s) \in Nat /\ k \in 0..Len(s) /\ k + 1 \in 0..Len(s) /\ k + 1 \in 1..Len(s)
  BY LenProperties
<1>2. s[k + 1] \in S
  BY <1>1, ElementOfSeq
<1>3. /\ a \in Seq(S) /\ Len(a) = k /\ \A i \in 1..k : a[i] = s[i]
      /\ b \in Seq(S) /\ Len(b) = k + 1 /\ \A i \in 1..k + 1 : b[i] = s[i]
  BY <1>1, Prefix
<1> HIDE DEF a, b
<1>4. /\ Append(a, s[k + 1]) \in Seq(S) /\ Len(Append(a, s[k + 1])) = k + 1
      /\ \A i \in 1..k : Append(a, s[k + 1])[i] = a[i]
      /\ Append(a, s[k + 1])[k + 1] = s[k + 1]
  BY <1>2, <1>3, AppendProperties
<1>5. \A i \in 1..Len(b) : b[i] = Append(a, s[k + 1])[i]
  BY <1>1, <1>3, <1>4
<1>6. b = Append(a, s[k + 1])
  BY <1>3, <1>4, <1>5, SeqEqual
<1> QED
  BY <1>6 DEF a, b

LEMMA PrefixOfPrefix ==
  ASSUME NEW S, NEW s \in Seq(S), NEW j \in 0..Len(s), NEW k \in 0..j
  PROVE  SubSeq(SubSeq(s, 1, j), 1, k) = SubSeq(s, 1, k)
<1>1. Len(s) \in Nat
  BY LenProperties
<1> DEFINE t == SubSeq(s, 1, j)
<1>2. t \in Seq(S) /\ Len(t) = j /\ \A i \in 1..j : t[i] = s[i]
  BY Prefix
<1> HIDE DEF t
<1>3. k \in 0..Len(s) /\ k \in 0..Len(t) /\ j \in Nat /\ k \in Nat
  BY <1>1, <1>2
<1>4. /\ SubSeq(t, 1, k) \in Seq(S) /\ Len(SubSeq(t, 1, k)) = k
      /\ \A i \in 1..k : SubSeq(t, 1, k)[i] = t[i]
  BY <1>2, <1>3, Prefix
<1>5. /\ SubSeq(s, 1, k) \in Seq(S) /\ Len(SubSeq(s, 1, k)) = k
      /\ \A i \in 1..k : SubSeq(s, 1, k)[i] = s[i]
  BY <1>3, Prefix
<1>6. \A i \in 1..Len(SubSeq(t, 1, k)) : SubSeq(t, 1, k)[i] = SubSeq(s, 1, k)[i]
  BY <1>2, <1>3, <1>4, <1>5
<1>7. SubSeq(t, 1, k) = SubSeq(s, 1, k)
  BY <1>4, <1>5, <1>6, SeqEqual
<1> QED
  BY <1>7 DEF t

\* What NodeOf makes of a pattern.
LEMMA NodeOfPattern ==
  ASSUME NEW pattern \in Patterns
  PROVE  /\ pattern \in Seq(Words \cup Params) /\ NodeOf(pattern) \in Seq(Steps)
         /\ Len(NodeOf(pattern)) = Len(pattern)
         /\ \A i \in 1..Len(pattern) :
              /\ pattern[i] \in Params => NodeOf(pattern)[i] = Wild
              /\ pattern[i] \notin Params => NodeOf(pattern)[i] = pattern[i] /\ pattern[i] \in Words
<1>1. PICK m \in Nat : pattern \in [1..m -> Words \cup Params]
  BY RouterAssumption DEF Patterns, UpTo
<1>2. pattern \in Seq(Words \cup Params) /\ Len(pattern) = m
  BY <1>1
<1>3. \A i \in 1..m : /\ pattern[i] \in Params => StepOf(pattern[i]) = Wild
                      /\ pattern[i] \notin Params =>
                           StepOf(pattern[i]) = pattern[i] /\ pattern[i] \in Words
  BY <1>1 DEF StepOf
<1>4. \A i \in 1..m : StepOf(pattern[i]) \in Steps
  BY <1>3 DEF Steps
<1>5. NodeOf(pattern) \in [1..m -> Steps] /\ \A i \in 1..m : NodeOf(pattern)[i] = StepOf(pattern[i])
  BY <1>1, <1>4 DEF NodeOf
<1>6. NodeOf(pattern) \in Seq(Steps) /\ Len(NodeOf(pattern)) = m
  BY <1>5
<1> QED
  BY <1>2, <1>3, <1>5, <1>6

LEMMA InitRouterInv == RouterInit => RouterInv
<1> SUFFICES ASSUME RouterInit
             PROVE  RouterInv
  OBVIOUS
<1>1. nodes = {<<>>} /\ routes = <<>> /\ handlers = <<>> /\ paramName = <<>>
  BY DEF RouterInit
<1>2. /\ <<>> \in Seq(Steps) /\ <<>> \in Seq(RouteCalls)
      /\ Len(<<>>) = 0 /\ DOMAIN <<>> = {} /\ SubSeq(<<>>, 1, 0) = <<>>
  BY EmptySeq, SubSeqEmpty
<1>3. Append(<<>>, Wild) # <<>>
  BY <1>2, AppendProperties DEF Steps
<1> QED
  BY <1>1, <1>2, <1>3, RouterAssumption DEF RouterInv

\* The routes registered before a call of add_route stay where they are.
LEMMA RoutesStay ==
  ASSUME RouterInv, NEW m \in Methods, NEW p \in Patterns, AddRoute(m, p)
  PROVE  /\ routes' \in Seq(RouteCalls) /\ Len(routes') = Len(routes) + 1 /\ Len(routes) \in Nat
         /\ \A r \in 1..Len(routes) : routes'[r] = routes[r]
         /\ routes'[Len(routes')] = [method |-> m, pattern |-> p]
         /\ Len(routes') <= MaxRoutes
<1>1. /\ [method |-> m, pattern |-> p] \in RouteCalls /\ routes \in Seq(RouteCalls)
      /\ routes' = Append(routes, [method |-> m, pattern |-> p]) /\ Len(routes) < MaxRoutes
  BY DEF RouterInv, RouteCalls, AddRoute
<1>2. Len(routes) \in Nat
  BY <1>1, LenProperties
<1>3. /\ routes' \in Seq(RouteCalls) /\ Len(routes') = Len(routes) + 1
      /\ \A r \in 1..Len(routes) : routes'[r] = routes[r]
      /\ routes'[Len(routes) + 1] = [method |-> m, pattern |-> p]
  BY <1>1, AppendProperties
<1> QED
  BY <1>1, <1>2, <1>3, RouterAssumption

LEMMA AddedNodes ==
  ASSUME RouterInv, NEW m \in Methods, NEW p \in Patterns, AddRoute(m, p)
  PROVE  /\ nodes' \subseteq Seq(Steps) /\ <<>> \in nodes' /\ nodes \subseteq nodes'
         /\ NodeOf(p) \in nodes'
         /\ \A n \in nodes' : \A k \in 0..Len(n) : SubSeq(n, 1, k) \in nodes'
<1> DEFINE node == NodeOf(p)
<1>1. /\ node \in Seq(Steps) /\ nodes' = nodes \cup {SubSeq(node, 1, n) : n \in 0..Len(node)}
      /\ Len(node) \in Nat
  BY NodeOfPattern, LenProperties DEF AddRoute
<1>2. /\ nodes \subseteq Seq(Steps) /\ <<>> \in nodes
      /\ \A n \in nodes : \A k \in 0..Len(n) : SubSeq(n, 1, k) \in nodes
  BY DEF RouterInv
<1> HIDE DEF node
<1>3. \A j \in 0..Len(node) : SubSeq(node, 1, j) \in Seq(Steps) /\ Len(SubSeq(node, 1, j)) = j
  BY <1>1, Prefix
<1>4. \A n \in 0..Len(node) : \A k \in 0..n : SubSeq(SubSeq(node, 1, n), 1, k) = SubSeq(node, 1, k)
  BY <1>1, PrefixOfPrefix
<1>5. SubSeq(node, 1, Len(node)) = node
  BY <1>1, SubSeqFull
<1>6. node \in nodes'
  <2>1. Len(node) \in 0..Len(node)
    BY <1>1
  <2>2. SubSeq(node, 1, Len(node)) \in {SubSeq(node, 1, n) : n \in 0..Len(node)}
    BY <2>1
  <2> QED
    BY <1>1, <1>5, <2>2
<1>7. ASSUME NEW n \in nodes', NEW k \in 0..Len(n)
      PROVE  SubSeq(n, 1, k) \in nodes'
  <2>1. CASE n \in nodes
    BY <1>1, <1>2, <2>1
  <2>2. CASE n \notin nodes
    <3>1. PICK j \in 0..Len(node) : n = SubSeq(node, 1, j)
      BY <1>1, <2>2
    <3>2. k \in 0..j /\ k \in 0..Len(node)
      BY <1>1, <1>3, <3>1
    <3> QED
      BY <1>1, <1>4, <3>1, <3>2
  <2> QED
    BY <2>1, <2>2
<1> QED
  BY <1>1, <1>2, <1>3, <1>6, <1>7 DEF node

LEMMA AddedNames ==
  ASSUME RouterInv, NEW m \in Methods, NEW p \in Patterns, AddRoute(m, p)
  PROVE  /\ \A n \in DOMAIN paramName' : paramName'[n] \in Params
         /\ \A n \in nodes' : Append(n, Wild) \in nodes' => n \in DOMAIN paramName'
<1> DEFINE node == NodeOf(p)
           Above(i) == SubSeq(node, 1, i - 1)
           Names == {i \in DOMAIN p : p[i] \in Params}
<1>1. /\ node \in Seq(Steps) /\ Len(node) = Len(p) /\ Len(p) \in Nat /\ DOMAIN p = 1..Len(p)
      /\ \A i \in 1..Len(p) : /\ p[i] \in Params => node[i] = Wild
                              /\ p[i] \notin Params => node[i] = p[i] /\ p[i] \in Words
  BY NodeOfPattern, LenProperties
<1>2. /\ nodes' = nodes \cup {SubSeq(node, 1, n) : n \in 0..Len(node)}
      /\ paramName' = [n \in DOMAIN paramName \cup {Above(i) : i \in Names} |->
             IF n \in DOMAIN paramName THEN paramName[n] ELSE p[Len(n) + 1]]
  BY DEF AddRoute
<1>3. \A i \in Names : i \in 1..Len(p) /\ p[i] \in Params /\ Len(Above(i)) + 1 = i
  <2> TAKE i \in Names
  <2>1. i \in 1..Len(p) /\ p[i] \in Params /\ i - 1 \in 0..Len(node)
    BY <1>1
  <2> HIDE DEF node
  <2>2. Len(SubSeq(node, 1, i - 1)) = i - 1
    BY <1>1, <2>1, Prefix
  <2> QED
    BY <2>1, <2>2
<1> HIDE DEF node, Names, Above
<1>4. DOMAIN paramName' = DOMAIN paramName \cup {Above(i) : i \in Names}
  BY <1>2
<1>5. \A n \in DOMAIN paramName : paramName[n] \in Params
  BY DEF RouterInv
<1>6. ASSUME NEW n \in DOMAIN paramName'
      PROVE  paramName'[n] \in Params
  <2>1. CASE n \in DOMAIN paramName
    BY <1>2, <1>5, <2>1
  <2>2. CASE n \notin DOMAIN paramName
    <3>1. PICK i \in Names : n = Above(i)
      BY <1>4, <1>6, <2>2
    <3>2. paramName'[n] = p[Len(n) + 1] /\ Len(n) + 1 = i
      BY <1>2, <1>3, <1>4, <2>2, <3>1
    <3> QED
      BY <1>3, <3>1, <3>2
  <2> QED
    BY <2>1, <2>2
<1>7. ASSUME NEW n \in nodes', Append(n, Wild) \in nodes'
      PROVE  n \in DOMAIN paramName'
  <2>1. n \in Seq(Steps) /\ Wild \in Steps
    BY AddedNodes DEF Steps
  <2>2. /\ Len(Append(n, Wild)) = Len(n) + 1 /\ Append(n, Wild)[Len(n) + 1] = Wild
        /\ \A i \in 1..Len(n) : Append(n, Wild)[i] = n[i]
        /\ Append(n, Wild) \in Seq(Steps) /\ Len(n) \in Nat
    BY <2>1, AppendProperties, LenProperties
  <2>3. SubSeq(Append(n, Wild), 1, Len(n)) = n
    <3> DEFINE t == Append(n, Wild)
    <3>1. t \in Seq(Steps) /\ Len(n) \in 0..Len(t) /\ \A i \in 1..Len(n) : t[i] = n[i]
      BY <2>2
    <3> HIDE DEF t
    <3>2. /\ SubSeq(t, 1, Len(n)) \in Seq(Steps) /\ Len(SubSeq(t, 1, Len(n))) = Len(n)
          /\ \A i \in 1..Len(n) : SubSeq(t, 1, Len(n))[i] = t[i]
      BY <3>1, Prefix
    <3>3. SubSeq(t, 1, Len(n)) = n
      BY <2>1, <3>1, <3>2, SeqEqual
    <3> QED
      BY <3>3 DEF t
  <2>4. CASE Append(n, Wild) \in nodes
    <3>1. \A k \in 0..Len(Append(n, Wild)) : SubSeq(Append(n, Wild), 1, k) \in nodes
      BY <2>4 DEF RouterInv
    <3>2. n \in nodes
      <4>1. Len(n) \in 0..Len(Append(n, Wild))
        BY <2>2
      <4>2. SubSeq(Append(n, Wild), 1, Len(n)) \in nodes
        BY <3>1, <4>1
      <4> QED
        BY <2>3, <4>2
    <3>3. n \in DOMAIN paramName
      BY <2>4, <3>2 DEF RouterInv
    <3> QED
      BY <1>4, <3>3
  <2>5. CASE Append(n, Wild) \notin nodes
    <3>1. PICK k \in 0..Len(node) : Append(n, Wild) = SubSeq(node, 1, k)
      BY <1>2, <1>7, <2>5
    <3>2. /\ Len(SubSeq(node, 1, k)) = k /\ \A i \in 1..k : SubSeq(node, 1, k)[i] = node[i]
      BY <1>1, Prefix
    <3>3. k = Len(n) + 1 /\ k \in 1..Len(p) /\ k - 1 = Len(n) /\ node[k] = Wild
      BY <1>1, <2>2, <3>1, <3>2
    <3>4. p[k] \in Params
      BY <1>1, <3>3, RouterAssumption
    <3>5. k \in Names
      BY <1>1, <3>3, <3>4 DEF Names
    <3>6. SubSeq(SubSeq(node, 1, k), 1, k - 1) = SubSeq(node, 1, k - 1)
      <4>1. k - 1 \in 0..k
        BY <3>3
      <4> QED
        BY <1>1, <4>1, PrefixOfPrefix
    <3>7. n = Above(k)
      BY <2>3, <3>1, <3>3, <3>6 DEF Above
    <3> QED
      BY <1>4, <3>5, <3>7
  <2> QED
    BY <2>4, <2>5
<1> QED
  BY <1>6, <1>7

LEMMA NextRouterInv == RouterInv /\ [RouterNext]_routerVars => RouterInv'
<1> SUFFICES ASSUME RouterInv, [RouterNext]_routerVars
             PROVE  RouterInv'
  OBVIOUS
<1>1. ASSUME UNCHANGED routerVars
      PROVE  RouterInv'
  <2>1. nodes' = nodes /\ paramName' = paramName /\ handlers' = handlers /\ routes' = routes
    BY <1>1 DEF routerVars
  <2> QED
    BY <2>1 DEF RouterInv, NodeAt
<1>2. ASSUME NEW m \in Methods, NEW p \in Patterns, AddRoute(m, p)
      PROVE  RouterInv'
  <2> DEFINE at == <<NodeOf(p), m>>
             last == Len(routes) + 1
  <2>1. /\ routes' \in Seq(RouteCalls) /\ Len(routes') = last /\ last \in 1..last
        /\ last \in Nat /\ 1..Len(routes') = 1..Len(routes) \cup {last}
        /\ \A r \in 1..Len(routes) : routes'[r] = routes[r] /\ r <= last /\ r # last
        /\ routes'[last] = [method |-> m, pattern |-> p]
        /\ Len(routes') <= MaxRoutes
    BY <1>2, RoutesStay
  <2>2. \A r \in 1..Len(routes) : NodeOf(routes'[r].pattern) = NodeAt(r) /\ routes'[r].method = routes[r].method
    BY <2>1 DEF NodeAt
  <2>3. NodeOf(routes'[last].pattern) = NodeOf(p) /\ routes'[last].method = m
    BY <2>1 DEF NodeAt
  <2>4. /\ DOMAIN handlers' = DOMAIN handlers \cup {at} /\ handlers'[at] = last
        /\ \A x \in DOMAIN handlers : x # at => handlers'[x] = handlers[x]
    BY <1>2, <2>1 DEF AddRoute
  <2> HIDE DEF at, last
  <2>5. ASSUME NEW r \in 1..Len(routes')
        PROVE  /\ NodeOf(routes'[r].pattern) \in nodes'
               /\ <<NodeOf(routes'[r].pattern), routes'[r].method>> \in DOMAIN handlers'
               /\ r <= handlers'[<<NodeOf(routes'[r].pattern), routes'[r].method>>]
    <3>1. CASE r = last
      <4>1. NodeOf(p) \in nodes'
        BY <1>2, AddedNodes
      <4>2. NodeOf(routes'[r].pattern) = NodeOf(p) /\ routes'[r].method = m
        BY <2>3, <3>1
      <4>3. <<NodeOf(routes'[r].pattern), routes'[r].method>> = at
        BY <4>2 DEF at
      <4>4. r <= handlers'[at] /\ at \in DOMAIN handlers'
        BY <2>1, <2>4, <3>1
      <4> QED
        BY <4>1, <4>2, <4>3, <4>4
    <3>2. CASE r \in 1..Len(routes)
      <4>1. /\ NodeAt(r) \in nodes /\ <<NodeAt(r), routes[r].method>> \in DOMAIN handlers
            /\ r <= handlers[<<NodeAt(r), routes[r].method>>]
        BY <3>2 DEF RouterInv
      <4>2. nodes \subseteq nodes'
        BY <1>2, AddedNodes
      <4>3. r <= handlers'[<<NodeAt(r), routes[r].method>>]
        BY <2>1, <2>4, <3>2, <4>1
      <4> QED
        BY <2>2, <2>4, <3>2, <4>1, <4>2, <4>3
    <3> QED
      BY <2>1, <3>1, <3>2
  <2>6. ASSUME NEW x \in DOMAIN handlers'
        PROVE  /\ handlers'[x] \in 1..Len(routes')
               /\ x = <<NodeOf(routes'[handlers'[x]].pattern), routes'[handlers'[x]].method>>
    <3>1. CASE x = at
      BY <2>1, <2>3, <2>4, <3>1 DEF at
    <3>2. CASE x # at
      <4>1. x \in DOMAIN handlers /\ handlers'[x] = handlers[x]
        BY <2>4, <3>2
      <4>2. /\ handlers[x] \in 1..Len(routes)
            /\ x = <<NodeAt(handlers[x]), routes[handlers[x]].method>>
        BY <4>1 DEF RouterInv
      <4> QED
        BY <2>1, <2>2, <4>1, <4>2
    <3> QED
      BY <3>1, <3>2
  <2>7. /\ \A n \in DOMAIN paramName' : paramName'[n] \in Params
        /\ \A n \in nodes' : Append(n, Wild) \in nodes' => n \in DOMAIN paramName'
    BY <1>2, AddedNames
  <2>8. /\ nodes' \subseteq Seq(Steps) /\ <<>> \in nodes'
        /\ \A n \in nodes' : \A k \in 0..Len(n) : SubSeq(n, 1, k) \in nodes'
    BY <1>2, AddedNodes
  <2> QED
    BY <2>1, <2>5, <2>6, <2>7, <2>8 DEF RouterInv, NodeAt
<1> QED
  BY <1>1, <1>2 DEF RouterNext, RoutesComplete

-----------------------------------------------------------------------------
(* Router: the search.                                                     *)

\* Induction downward: a set that has m, and with n + 1 also n.
LEMMA AllDownFrom ==
  ASSUME NEW m \in Nat, NEW T, m \in T, \A n \in 0..m - 1 : n + 1 \in T => n \in T
  PROVE  \A n \in 0..m : n \in T
<1> DEFINE U == {k \in 0..m : m - k \in T}
<1>1. 0 \in U
  OBVIOUS
<1>2. ASSUME NEW k \in 0..m - 1, k \in U
      PROVE  k + 1 \in U
  <2>1. m - k \in T /\ m - (k + 1) \in 0..m - 1 /\ (m - (k + 1)) + 1 = m - k /\ k + 1 \in 0..m
    BY <1>2
  <2>2. m - (k + 1) \in T
    BY <2>1
  <2> QED
    BY <2>1, <2>2
<1>3. \A k \in 0..m - 1 : k \in U => k + 1 \in U
  BY <1>2
<1> HIDE DEF U
<1>4. \A k \in 0..m : k \in U
  BY <1>1, <1>3, AllUpTo
<1> QED
  <2> TAKE n \in 0..m
  <2>1. m - n \in 0..m /\ m - (m - n) = n
    OBVIOUS
  <2> QED
    BY <1>4, <2>1 DEF U

\* One step of the search: the outcomes at each node with path_segment_it at i, from
\* those further on.
Attempts(match, method, path, i) ==
  [n \in nodes |->
     LET literal == Append(n, path[i])
         param == Append(n, Wild)
         tried == literal \in nodes
     IN IF i = Len(path) + 1
        THEN IF <<n, method>> \in DOMAIN handlers
             THEN {Found(handlers[<<n, method>>])} ELSE {NoRoute}
        ELSE IF i > Len(path) THEN {NoRoute, Crash}
        ELSE OrElse(IF tried THEN match[i + 1][literal] ELSE {NoRoute},
                    IF param \notin nodes THEN {NoRoute}
                    ELSE Bind(match[IF tried THEN i + 2 ELSE i + 1][param],
                              paramName[n], path[i]))]

LEMMA AttemptsAgree ==
  ASSUME NEW f, NEW g, NEW method, NEW path, Len(path) \in Nat, NEW i \in 1..Len(path) + 2,
         \A j \in 1..Len(path) + 2 : j > i => f[j] = g[j]
  PROVE  Attempts(f, method, path, i) = Attempts(g, method, path, i)
<1>1. CASE i > Len(path)
  BY <1>1 DEF Attempts
<1>2. CASE i <= Len(path)
  <2>1. f[i + 1] = g[i + 1] /\ f[i + 2] = g[i + 2]
    BY <1>2
  <2>2. \A n \in nodes :
          (IF Append(n, path[i]) \in nodes THEN i + 2 ELSE i + 1) \in {i + 1, i + 2}
    OBVIOUS
  <2>3. \A n \in nodes : f[IF Append(n, path[i]) \in nodes THEN i + 2 ELSE i + 1]
                         = g[IF Append(n, path[i]) \in nodes THEN i + 2 ELSE i + 1]
    BY <2>1, <2>2
  <2> QED
    BY <2>1, <2>3 DEF Attempts
<1> QED
  BY <1>1, <1>2

LEMMA SearchExists ==
  ASSUME NEW method, NEW path, Len(path) \in Nat
  PROVE  \E f : f = [i \in 1..Len(path) + 2 |-> Attempts(f, method, path, i)]
<1> DEFINE top == Len(path) + 2
           T == {k \in 1..top : \E f : \A i \in k..top : f[i] = Attempts(f, method, path, i)}
           U == {k \in 0..top - 1 : k + 1 \in T}
<1>1. top \in T
  <2> DEFINE f == [i \in 1..top |-> Attempts(<<>>, method, path, i)]
  <2>1. f[top] = Attempts(<<>>, method, path, top) /\ top \in 1..top
    OBVIOUS
  <2> HIDE DEF f
  <2>2. Attempts(<<>>, method, path, top) = Attempts(f, method, path, top)
    <3>1. \A j \in 1..Len(path) + 2 : j > top => f[j] = <<>>[j]
      OBVIOUS
    <3> QED
      BY <3>1, AttemptsAgree
  <2>3. \A i \in top..top : f[i] = Attempts(f, method, path, i)
    BY <2>1, <2>2
  <2> QED
    BY <2>1, <2>3
<1>2. ASSUME NEW k \in 0..top - 1 - 1, k + 1 \in U
      PROVE  k \in U
  <2>1. k + 2 \in T /\ k + 1 \in 1..top /\ k \in 0..top - 1
    BY <1>2
  <2>2. PICK f : \A i \in k + 2..top : f[i] = Attempts(f, method, path, i)
    BY <2>1
  <2> DEFINE g == [i \in 1..top |-> IF i = k + 1 THEN Attempts(f, method, path, i) ELSE f[i]]
  <2>3. /\ g[k + 1] = Attempts(f, method, path, k + 1)
        /\ \A i \in k + 2..top : g[i] = f[i]
    BY <2>1
  <2> HIDE DEF g
  <2>4. ASSUME NEW i \in k + 1..top
        PROVE  g[i] = Attempts(g, method, path, i)
    <3>1. i \in 1..Len(path) + 2 /\ \A j \in 1..Len(path) + 2 : j > i => f[j] = g[j]
      BY <2>1, <2>3
    <3>2. Attempts(f, method, path, i) = Attempts(g, method, path, i)
      BY <3>1, AttemptsAgree
    <3>3. g[i] = Attempts(f, method, path, i)
      BY <2>1, <2>2, <2>3
    <3> QED
      BY <3>2, <3>3
  <2>5. \A i \in k + 1..top : g[i] = Attempts(g, method, path, i)
    BY <2>4
  <2>6. k + 1 \in T
    BY <2>1, <2>5
  <2> QED
    BY <2>1, <2>6
<1>3. top - 1 \in U /\ top - 1 \in Nat
  BY <1>1
<1>4. \A k \in 0..top - 1 - 1 : k + 1 \in U => k \in U
  BY <1>2
<1>5. \A k \in 0..top - 1 : k \in U
  <2> HIDE DEF U, top
  <2> QED
    BY <1>3, <1>4, AllDownFrom
<1>6. PICK f : \A i \in 1..top : f[i] = Attempts(f, method, path, i)
  BY <1>5
<1> DEFINE g == [i \in 1..top |-> f[i]]
<1>7. ASSUME NEW i \in 1..top
      PROVE  g[i] = Attempts(g, method, path, i)
  <2>1. \A j \in 1..Len(path) + 2 : j > i => f[j] = g[j]
    OBVIOUS
  <2> HIDE DEF g
  <2>2. Attempts(f, method, path, i) = Attempts(g, method, path, i)
    BY <2>1, AttemptsAgree
  <2>3. g[i] = f[i]
    BY DEF g
  <2> QED
    BY <1>6, <2>2, <2>3
<1>8. g = [i \in 1..top |-> Attempts(g, method, path, i)]
  <2>1. g = [i \in 1..top |-> g[i]]
    OBVIOUS
  <2> HIDE DEF g
  <2> QED
    BY <1>7, <2>1
<1> QED
  BY <1>8

\* What match_route_recursive does at a node, for the outcomes further on.
Searches(f, method, path) ==
  /\ \A n \in nodes :
       f[Len(path) + 1][n] = IF <<n, method>> \in DOMAIN handlers
                             THEN {Found(handlers[<<n, method>>])} ELSE {NoRoute}
  /\ \A i \in 1..Len(path) : \A n \in nodes :
       LET tried == Append(n, path[i]) \in nodes
       IN f[i][n] = OrElse(IF tried THEN f[i + 1][Append(n, path[i])] ELSE {NoRoute},
                           IF Append(n, Wild) \notin nodes THEN {NoRoute}
                           ELSE Bind(f[IF tried THEN i + 2 ELSE i + 1][Append(n, Wild)],
                                     paramName[n], path[i]))

LEMMA MatchSearches ==
  ASSUME NEW method, NEW path, Len(path) \in Nat
  PROVE  \E f : Searches(f, method, path) /\ Match(method, path) = f[1][<<>>]
<1> DEFINE top == Len(path) + 2
           f == CHOOSE h : h = [i \in 1..top |-> Attempts(h, method, path, i)]
<1>1. f = [i \in 1..top |-> Attempts(f, method, path, i)]
  BY SearchExists
<1>2. Match(method, path) = f[1][<<>>]
  BY DEF Match, Attempts
<1> HIDE DEF f
<1>3. \A i \in 1..top : f[i] = Attempts(f, method, path, i)
  BY <1>1
<1>4. f[Len(path) + 1] = Attempts(f, method, path, Len(path) + 1)
  BY <1>3
<1>5. \A i \in 1..Len(path) : f[i] = Attempts(f, method, path, i) /\ i # Len(path) + 1 /\ ~(i > Len(path))
  BY <1>3
<1>6. Searches(f, method, path)
  BY ZenonT(30), <1>4, <1>5 DEF Searches, Attempts
<1> QED
  BY <1>2, <1>6

\* An outcome that is a route is not taken for a failure.
LEMMA FoundIsFound ==
  ASSUME NEW h \in 1..MaxRoutes, NEW N, N \subseteq Params, NEW b \in [N -> Words]
  PROVE  [handler |-> h, params |-> b] \notin {NoRoute, Crash}
<1>1. b \in UNION {[M -> Words] : M \in SUBSET Params}
  OBVIOUS
<1>2. [handler |-> h, params |-> b]
        \in [handler : 1..MaxRoutes, params : UNION {[M -> Words] : M \in SUBSET Params}]
  BY <1>1
<1> QED
  BY <1>2, RouterAssumption

LEMMA FirstFound ==
  ASSUME NEW o, o # NoRoute, NEW second
  PROVE  OrElse({o}, second) = {o}
BY DEF OrElse

LEMMA PathIsSeq ==
  ASSUME NEW p \in Paths
  PROVE  /\ p \in Seq(Words) /\ p \in Seq(Steps) /\ Len(p) \in Nat
         /\ \A i \in 1..Len(p) : p[i] \in Words /\ p[i] # Wild /\ p[i] \notin Params
<1>1. PICK m \in Nat : p \in [1..m -> Words]
  BY RouterAssumption DEF Paths, UpTo
<1>2. p \in Seq(Words) /\ Len(p) = m
  BY <1>1
<1>3. p \in Seq(Steps)
  BY <1>2, SeqMonotonic DEF Steps
<1> QED
  BY <1>1, <1>2, <1>3, RouterAssumption

\* A handler is the last call for its node and method.
LEMMA HandlerIsLast ==
  ASSUME RouterInv, NEW at \in DOMAIN handlers
  PROVE  /\ handlers[at] \in 1..Len(routes) /\ handlers[at] \in 1..MaxRoutes
         /\ routes[handlers[at]] \in RouteCalls
         /\ at = <<NodeAt(handlers[at]), routes[handlers[at]].method>>
         /\ \A r \in 1..Len(routes) :
              at = <<NodeAt(r), routes[r].method>> => r <= handlers[at]
<1>1. /\ handlers[at] \in 1..Len(routes) /\ Len(routes) <= MaxRoutes
      /\ at = <<NodeAt(handlers[at]), routes[handlers[at]].method>>
      /\ \A r \in 1..Len(routes) : r <= handlers[<<NodeAt(r), routes[r].method>>]
      /\ routes \in Seq(RouteCalls)
  BY DEF RouterInv
<1>2. Len(routes) \in Nat
  BY <1>1, LenProperties
<1>3. routes[handlers[at]] \in RouteCalls
  BY <1>1, ElementOfSeq
<1>4. handlers[at] \in 1..MaxRoutes
  BY <1>1, <1>2, RouterAssumption
<1> QED
  BY <1>1, <1>3, <1>4

\* The pattern a literal node comes from is that node.
LEMMA LiteralNode ==
  ASSUME NEW p \in Paths, NEW pattern \in Patterns, NodeOf(pattern) = p
  PROVE  pattern = p
<1>1. /\ pattern \in Seq(Words \cup Params) /\ Len(p) = Len(pattern)
      /\ \A i \in 1..Len(pattern) :
              /\ pattern[i] \in Params => p[i] = Wild
              /\ pattern[i] \notin Params => p[i] = pattern[i] /\ pattern[i] \in Words
  BY NodeOfPattern
<1>2. p \in Seq(Words) /\ \A i \in 1..Len(p) : p[i] # Wild
  BY PathIsSeq
<1>3. p \in Seq(Words \cup Params)
  BY <1>2, SeqMonotonic
<1>4. \A i \in 1..Len(pattern) : pattern[i] = p[i]
  BY <1>1, <1>2
<1> QED
  BY <1>1, <1>3, <1>4, SeqEqual

LEMMA NodeOfPath ==
  ASSUME NEW p \in Paths, p \in Patterns
  PROVE  NodeOf(p) = p
<1>1. /\ NodeOf(p) \in Seq(Steps) /\ Len(NodeOf(p)) = Len(p)
      /\ \A i \in 1..Len(p) : p[i] \notin Params => NodeOf(p)[i] = p[i]
  BY NodeOfPattern
<1>2. p \in Seq(Steps) /\ \A i \in 1..Len(p) : p[i] \notin Params
  BY PathIsSeq
<1>3. \A i \in 1..Len(NodeOf(p)) : NodeOf(p)[i] = p[i]
  BY <1>1, <1>2
<1> QED
  BY <1>1, <1>2, <1>3, SeqEqual

\* A literal path is followed to its end, whatever parameters are beside it.
LEMMA LiteralPathFound ==
  ASSUME RouterInv, NEW m \in Methods, NEW p \in Paths, p \in nodes,
         <<p, m>> \in DOMAIN handlers
  PROVE  Match(m, p) = {Found(handlers[<<p, m>>])}
<1> DEFINE o == Found(handlers[<<p, m>>])
           L == Len(p)
<1>1. L \in Nat /\ p \in Seq(Steps) /\ \A k \in 0..L : SubSeq(p, 1, k) \in nodes
  BY PathIsSeq DEF RouterInv
<1>2. o \notin {NoRoute, Crash}
  <2>1. handlers[<<p, m>>] \in 1..MaxRoutes
    BY HandlerIsLast
  <2>2. <<>> \in [{} -> Words]
    <3>1. <<>> = [x \in {} |-> x]
      OBVIOUS
    <3> QED
      BY <3>1
  <2>3. {} \subseteq Params
    OBVIOUS
  <2> QED
    BY <2>1, <2>2, <2>3, FoundIsFound DEF Found
<1>3. PICK f : Searches(f, m, p) /\ Match(m, p) = f[1][<<>>]
  BY <1>1, MatchSearches
<1> DEFINE T == {k \in 0..L : f[k + 1][SubSeq(p, 1, k)] = {o}}
<1>4. L \in T
  <2>1. SubSeq(p, 1, L) = p
    BY <1>1, SubSeqFull
  <2>2. f[L + 1][p] = {o}
    BY <1>3 DEF Searches
  <2>3. f[L + 1][SubSeq(p, 1, L)] = {o}
    BY <2>1, <2>2
  <2>4. L \in 0..L
    BY <1>1
  <2> QED
    BY <2>3, <2>4
<1>5. ASSUME NEW k \in 0..L - 1, k + 1 \in T
      PROVE  k \in T
  <2>1. k + 1 \in 1..L /\ k \in 0..L /\ k \in Nat /\ k < Len(p) /\ k + 1 \in 0..L
    BY <1>1
  <2>2. SubSeq(p, 1, k + 1) = Append(SubSeq(p, 1, k), p[k + 1])
    BY <1>1, <2>1, PrefixNext
  <2>3. SubSeq(p, 1, k) \in nodes /\ Append(SubSeq(p, 1, k), p[k + 1]) \in nodes
    BY <1>1, <2>1, <2>2
  <2>4. f[k + 1 + 1][Append(SubSeq(p, 1, k), p[k + 1])] = {o}
    BY <1>5, <2>2
  <2> HIDE DEF o
  <2>5. \E second : f[k + 1][SubSeq(p, 1, k)] = OrElse({o}, second)
    BY <1>3, <2>1, <2>3, <2>4 DEF Searches
  <2>6. f[k + 1][SubSeq(p, 1, k)] = {o}
    BY <1>2, <2>5, FirstFound
  <2> QED
    BY <2>1, <2>6
<1>6. \A k \in 0..L - 1 : k + 1 \in T => k \in T
  BY <1>5
<1>7. \A k \in 0..L : k \in T
  <2> HIDE DEF T, o, L
  <2> QED
    BY <1>1, <1>4, <1>6, AllDownFrom
<1>8. 0 \in T /\ 0 + 1 = 1
  BY <1>1, <1>7
<1>9. SubSeq(p, 1, 0) = <<>>
  BY SubSeqEmpty
<1>10. f[1][<<>>] = {o}
  BY <1>8, <1>9
<1> QED
  BY <1>3, <1>10

LEMMA LiteralsAreFound == RouterInv => LiteralRouteFound
<1> SUFFICES ASSUME RouterInv, NEW m \in Methods, NEW p \in Paths, NEW s0 \in DOMAIN routes,
                    routes[s0] = [method |-> m, pattern |-> p]
             PROVE  LET same == {r \in DOMAIN routes : routes[r] = [method |-> m, pattern |-> p]}
                    IN Match(m, p) = {Found(CHOOSE r \in same : \A s \in same : s <= r)}
  BY DEF LiteralRouteFound
<1> DEFINE same == {r \in DOMAIN routes : routes[r] = [method |-> m, pattern |-> p]}
           h == handlers[<<p, m>>]
<1>1. routes \in Seq(RouteCalls) /\ DOMAIN routes = 1..Len(routes) /\ Len(routes) \in Nat
  BY LenProperties DEF RouterInv
<1>2. p \in Patterns
  <2>1. routes[s0] \in RouteCalls
    BY <1>1, ElementOfSeq
  <2> QED
    BY <2>1 DEF RouteCalls
<1>3. NodeOf(p) = p
  BY <1>2, NodeOfPath
<1>4. p \in nodes /\ <<p, m>> \in DOMAIN handlers
  <2>1. NodeAt(s0) = p /\ routes[s0].method = m
    BY <1>3 DEF NodeAt
  <2> QED
    BY <1>1, <2>1 DEF RouterInv
<1>5. h \in same
  <2>1. /\ h \in 1..Len(routes) /\ routes[h] \in RouteCalls
        /\ <<p, m>> = <<NodeAt(h), routes[h].method>>
    BY <1>4, HandlerIsLast
  <2>2. routes[h].method = m /\ NodeOf(routes[h].pattern) = p /\ routes[h].pattern \in Patterns
    BY <2>1 DEF NodeAt, RouteCalls
  <2>3. routes[h].pattern = p
    BY <2>2, LiteralNode
  <2>4. routes[h] = [method |-> m, pattern |-> p]
    BY <2>1, <2>2, <2>3 DEF RouteCalls
  <2> QED
    BY <1>1, <2>1, <2>4
<1>6. \A s \in same : s <= h
  <2> TAKE s \in same
  <2>1. s \in 1..Len(routes) /\ NodeAt(s) = p /\ routes[s].method = m
    BY <1>1, <1>3 DEF NodeAt
  <2> QED
    BY <1>4, <2>1, HandlerIsLast
<1>7. same \subseteq Nat
  BY <1>1
<1>8. Match(m, p) = {Found(h)}
  BY <1>4, LiteralPathFound
<1> HIDE DEF same, h
<1>9. h = CHOOSE r \in same : \A s \in same : s <= r
  <2> DEFINE last == CHOOSE r \in same : \A s \in same : s <= r
  <2>1. last \in same /\ \A s \in same : s <= last
    BY <1>5, <1>6
  <2> HIDE DEF last
  <2>2. h <= last /\ last <= h /\ h \in Nat /\ last \in Nat
    BY <1>5, <1>6, <1>7, <2>1
  <2>3. h = last
    BY <2>2
  <2> QED
    BY <2>3 DEF last
<1> QED
  BY <1>8, <1>9 DEF same

\* A node on the way of a path, or at its end.
OnTheWay(n, path) ==
  Len(n) <= Len(path) /\ \A i \in 1..Len(n) : n[i] \in {Wild, path[i]}

\* Without a choice there is one way.
LEMMA OneWay ==
  ASSUME RouterInv, NEW p \in Paths, ~Ambiguous(p), NEW d \in nodes, NEW e \in nodes,
         OnTheWay(d, p), OnTheWay(e, p), Len(d) = Len(e)
  PROVE  d = e
<1>1. /\ d \in Seq(Steps) /\ e \in Seq(Steps) /\ Len(d) \in Nat /\ p \in Seq(Steps)
      /\ Len(p) \in Nat /\ Len(d) <= Len(p)
      /\ \A n \in nodes : \A k \in 0..Len(n) : SubSeq(n, 1, k) \in nodes
  BY LenProperties, PathIsSeq DEF RouterInv, OnTheWay
<1> SUFFICES ASSUME NEW k0 \in 1..Len(d), d[k0] # e[k0]
             PROVE  FALSE
  BY <1>1, SeqEqual
<1> DEFINE T == {k \in 1..Len(d) : d[k] # e[k]}
<1>2. PICK k \in T : \A j \in T : k <= j
  <2>1. k0 \in T
    OBVIOUS
  <2>2. T \subseteq Nat
    BY <1>1
  <2> HIDE DEF T
  <2> QED
    BY <2>1, <2>2, Least
<1>3. /\ k \in 1..Len(d) /\ d[k] # e[k] /\ k - 1 \in Nat /\ k - 1 < Len(d) /\ k - 1 \in 0..Len(d)
      /\ k - 1 < Len(p) /\ k \in 0..Len(d) /\ (k - 1) + 1 = k
      /\ \A j \in 1..k - 1 : d[j] = e[j]
  BY <1>1, <1>2
<1> HIDE DEF T
<1> DEFINE q == SubSeq(d, 1, k - 1)
<1>4. /\ q \in Seq(Steps) /\ Len(q) = k - 1 /\ \A i \in 1..k - 1 : q[i] = d[i]
  BY <1>1, <1>3, Prefix
<1>5. q = SubSeq(e, 1, k - 1)
  <2>1. /\ SubSeq(e, 1, k - 1) \in Seq(Steps) /\ Len(SubSeq(e, 1, k - 1)) = k - 1
        /\ \A i \in 1..k - 1 : SubSeq(e, 1, k - 1)[i] = e[i]
    BY <1>1, <1>3, Prefix
  <2> HIDE DEF q
  <2>2. \A i \in 1..Len(q) : q[i] = SubSeq(e, 1, k - 1)[i]
    BY <1>3, <1>4, <2>1
  <2> QED
    BY <1>4, <2>1, <2>2, SeqEqual
<1>6. q \in nodes
  BY <1>1, <1>3
<1>7. Append(q, d[k]) \in nodes
  <2>1. SubSeq(d, 1, (k - 1) + 1) = Append(q, d[(k - 1) + 1])
    BY <1>1, <1>3, PrefixNext
  <2>2. SubSeq(d, 1, k) \in nodes
    BY <1>1, <1>3
  <2> HIDE DEF q
  <2> QED
    BY <1>3, <2>1, <2>2
<1>8. Append(q, e[k]) \in nodes
  <2>1. SubSeq(e, 1, (k - 1) + 1) = Append(SubSeq(e, 1, k - 1), e[(k - 1) + 1])
    BY <1>1, <1>3, PrefixNext
  <2>2. SubSeq(e, 1, k) \in nodes
    BY <1>1, <1>3
  <2> HIDE DEF q
  <2> QED
    BY <1>3, <1>5, <2>1, <2>2
<1> HIDE DEF q
<1>9. /\ d[k] \in {Wild, p[k]} /\ e[k] \in {Wild, p[k]}
      /\ \A i \in 1..k - 1 : d[i] \in {Wild, p[i]}
  BY <1>1, <1>3 DEF OnTheWay
<1>10. {Append(q, Wild), Append(q, p[k])} \subseteq nodes
  BY <1>3, <1>7, <1>8, <1>9
<1>11. DOMAIN q = 1..k - 1 /\ Len(q) + 1 = k
  BY <1>3, <1>4, LenProperties
<1>12. Ambiguous(p)
  BY <1>3, <1>4, <1>6, <1>9, <1>10, <1>11 DEF Ambiguous
<1> QED
  BY <1>12

\* At a node on the way there is no choice either.
LEMMA NoChoice ==
  ASSUME RouterInv, NEW p \in Paths, ~Ambiguous(p), NEW n \in nodes, OnTheWay(n, p),
         Len(n) < Len(p)
  PROVE  ~(Append(n, Wild) \in nodes /\ Append(n, p[Len(n) + 1]) \in nodes)
<1>1. n \in Seq(Steps) /\ DOMAIN n = 1..Len(n)
  BY LenProperties DEF RouterInv
<1> QED
  BY <1>1 DEF Ambiguous, OnTheWay

LEMMA NextOnTheWay ==
  ASSUME NEW p \in Paths, NEW n \in Seq(Steps), OnTheWay(n, p), Len(n) < Len(p),
         NEW s \in {Wild, p[Len(n) + 1]}
  PROVE  OnTheWay(Append(n, s), p) /\ Len(Append(n, s)) = Len(n) + 1
<1>1. Len(n) \in Nat /\ Len(p) \in Nat
  BY LenProperties, PathIsSeq
<1>2. p[Len(n) + 1] \in Steps
  BY <1>1, PathIsSeq DEF Steps
<1>3. s \in Steps
  BY <1>2 DEF Steps
<1>4. /\ Len(Append(n, s)) = Len(n) + 1 /\ Append(n, s)[Len(n) + 1] = s
      /\ \A i \in 1..Len(n) : Append(n, s)[i] = n[i]
  BY <1>3, AppendProperties
<1>5. \A i \in 1..Len(n) + 1 : i \in 1..Len(n) \/ i = Len(n) + 1
  BY <1>1
<1> QED
  BY <1>1, <1>4, <1>5 DEF OnTheWay

LEMMA NothingFound ==
  ASSUME RouterInv, NEW m \in Methods, NEW p \in Paths, ~Ambiguous(p),
         \A d \in nodes : OnTheWay(d, p) /\ Len(d) = Len(p) => <<d, m>> \notin DOMAIN handlers
  PROVE  Match(m, p) = {NoRoute}
<1> DEFINE L == Len(p)
<1>1. L \in Nat /\ nodes \subseteq Seq(Steps) /\ <<>> \in nodes
  BY PathIsSeq DEF RouterInv
<1>2. PICK f : Searches(f, m, p) /\ Match(m, p) = f[1][<<>>]
  BY <1>1, MatchSearches
<1> DEFINE T == {k \in 0..L : \A n \in nodes :
                   Len(n) = k /\ OnTheWay(n, p) => f[k + 1][n] = {NoRoute}}
<1>3. L \in T
  <2>1. \A n \in nodes : Len(n) = L /\ OnTheWay(n, p) => f[L + 1][n] = {NoRoute}
    BY <1>2 DEF Searches
  <2>2. L \in 0..L
    BY <1>1
  <2> QED
    BY <2>1, <2>2
<1>4. ASSUME NEW k \in 0..L - 1, k + 1 \in T
      PROVE  k \in T
  <2>1. k \in 0..L /\ k + 1 \in 1..L /\ k < L /\ k \in Nat
    BY <1>1
  <2>2. ASSUME NEW n \in nodes, Len(n) = k, OnTheWay(n, p)
        PROVE  f[k + 1][n] = {NoRoute}
    <3> DEFINE literal == Append(n, p[k + 1])
               param == Append(n, Wild)
    <3>1. n \in Seq(Steps)
      BY <1>1
    <3>2. literal \in nodes => f[k + 1 + 1][literal] = {NoRoute}
      <4>1. OnTheWay(literal, p) /\ Len(literal) = k + 1
        BY <2>1, <2>2, <3>1, NextOnTheWay
      <4> HIDE DEF literal
      <4> QED
        BY <1>4, <4>1
    <3>3. param \in nodes => f[k + 1 + 1][param] = {NoRoute}
      <4>1. OnTheWay(param, p) /\ Len(param) = k + 1
        BY <2>1, <2>2, <3>1, NextOnTheWay
      <4> HIDE DEF param
      <4> QED
        BY <1>4, <4>1
    <3>4. ~(param \in nodes /\ literal \in nodes)
      BY <2>1, <2>2, NoChoice
    <3>5. LET tried == literal \in nodes
          IN f[k + 1][n] = OrElse(IF tried THEN f[k + 1 + 1][literal] ELSE {NoRoute},
                                  IF param \notin nodes THEN {NoRoute}
                                  ELSE Bind(f[IF tried THEN k + 1 + 2 ELSE k + 1 + 1][param],
                                            paramName[n], p[k + 1]))
      BY <1>2, <2>1 DEF Searches
    <3> HIDE DEF literal, param, L
    <3>6. \A name, word : Bind({NoRoute}, name, word) = {NoRoute}
      BY DEF Bind
    <3>7. OrElse({NoRoute}, {NoRoute}) = {NoRoute}
      BY DEF OrElse
    <3>8. CASE literal \in nodes
      BY <3>2, <3>4, <3>5, <3>7, <3>8
    <3>9. CASE literal \notin nodes /\ param \in nodes
      BY <3>3, <3>5, <3>6, <3>7, <3>9
    <3>10. CASE literal \notin nodes /\ param \notin nodes
      BY <3>5, <3>7, <3>10
    <3> QED
      BY <3>8, <3>9, <3>10
  <2>3. \A n \in nodes : Len(n) = k /\ OnTheWay(n, p) => f[k + 1][n] = {NoRoute}
    BY <2>2
  <2> QED
    BY <2>1, <2>3
<1>5. \A k \in 0..L - 1 : k + 1 \in T => k \in T
  BY <1>4
<1>6. 0 \in T /\ 0 + 1 = 1
  <2>1. \A k \in 0..L : k \in T
    <3> HIDE DEF T, L
    <3> QED
      BY <1>1, <1>3, <1>5, AllDownFrom
  <2> QED
    BY <1>1, <2>1
<1>7. Len(<<>>) = 0 /\ OnTheWay(<<>>, p)
  BY <1>1 DEF OnTheWay
<1>8. f[1][<<>>] = {NoRoute}
  BY <1>1, <1>6, <1>7
<1> QED
  BY <1>2, <1>8

LEMMA Greatest ==
  ASSUME NEW m \in Nat, NEW T, T \subseteq 0..m, NEW t \in T
  PROVE  \E n \in T : \A j \in T : j <= n
<1> DEFINE U == {k \in 0..m : m - k \in T}
<1>1. PICK k \in U : \A j \in U : k <= j
  <2>1. m - t \in U
    OBVIOUS
  <2>2. U \subseteq Nat
    OBVIOUS
  <2> HIDE DEF U
  <2> QED
    BY <2>1, <2>2, Least
<1>2. m - k \in T /\ k \in 0..m
  OBVIOUS
<1>3. ASSUME NEW j \in T
      PROVE  j <= m - k
  <2>1. j \in 0..m /\ m - j \in 0..m /\ m - (m - j) = j
    OBVIOUS
  <2>2. m - j \in U
    BY <2>1
  <2>3. k <= m - j
    BY <1>1, <2>2
  <2> QED
    BY <1>2, <2>1, <2>3
<1> QED
  BY <1>2, <1>3

\* The parameters of a node from the k-th segment on, their names, and the words they
\* are bound to.
Wilds(d, k) == {i \in k + 1..Len(d) : d[i] = Wild}

NameOf(d, i) == paramName[SubSeq(d, 1, i - 1)]

LastNamed(d, x) ==
  CHOOSE i \in Wilds(d, 0) : NameOf(d, i) = x /\ \A j \in Wilds(d, 0) : NameOf(d, j) = x => j <= i

After(d, k, path) ==
  [x \in {NameOf(d, i) : i \in Wilds(d, k)} |-> path[LastNamed(d, x)]]

LEMMA LastNamedIs ==
  ASSUME NEW d \in Seq(Steps), NEW i \in Wilds(d, 0)
  PROVE  /\ LastNamed(d, NameOf(d, i)) \in Wilds(d, 0) /\ i <= LastNamed(d, NameOf(d, i))
         /\ NameOf(d, LastNamed(d, NameOf(d, i))) = NameOf(d, i)
<1> DEFINE x == NameOf(d, i)
           T == {j \in Wilds(d, 0) : NameOf(d, j) = x}
<1>1. Len(d) \in Nat
  BY LenProperties
<1>2. i \in T /\ T \subseteq 0..Len(d)
  BY <1>1 DEF Wilds
<1> HIDE DEF T
<1>3. PICK l \in T : \A j \in T : j <= l
  BY <1>1, <1>2, Greatest
<1>4. l \in Wilds(d, 0) /\ NameOf(d, l) = x /\ \A j \in Wilds(d, 0) : NameOf(d, j) = x => j <= l
  BY <1>3 DEF T
<1> HIDE DEF x
<1>5. /\ LastNamed(d, x) \in Wilds(d, 0) /\ NameOf(d, LastNamed(d, x)) = x
      /\ \A j \in Wilds(d, 0) : NameOf(d, j) = x => j <= LastNamed(d, x)
  BY <1>4 DEF LastNamed
<1> QED
  BY <1>5 DEF x

LEMMA AfterTyped ==
  ASSUME RouterInv, NEW p \in Paths, NEW d \in nodes, Len(d) = Len(p), NEW k \in 0..Len(p)
  PROVE  \E N \in SUBSET Params : After(d, k, p) \in [N -> Words]
<1>1. /\ d \in Seq(Steps) /\ Len(d) \in Nat /\ \A j \in 0..Len(d) : SubSeq(d, 1, j) \in nodes
      /\ \A n \in nodes : Append(n, Wild) \in nodes => n \in DOMAIN paramName
      /\ \A n \in DOMAIN paramName : paramName[n] \in Params
      /\ \A i \in 1..Len(p) : p[i] \in Words
  BY LenProperties, PathIsSeq DEF RouterInv
<1>2. ASSUME NEW i \in Wilds(d, k)
      PROVE  NameOf(d, i) \in Params /\ p[LastNamed(d, NameOf(d, i))] \in Words
  <2>1. /\ i \in 1..Len(d) /\ d[i] = Wild /\ i - 1 \in Nat /\ i - 1 < Len(d) /\ (i - 1) + 1 = i
        /\ i \in 0..Len(d) /\ i - 1 \in 0..Len(d) /\ i \in Wilds(d, 0)
    BY <1>1 DEF Wilds
  <2>2. SubSeq(d, 1, i) = Append(SubSeq(d, 1, i - 1), Wild)
    <3>1. SubSeq(d, 1, (i - 1) + 1) = Append(SubSeq(d, 1, i - 1), d[(i - 1) + 1])
      BY <1>1, <2>1, PrefixNext
    <3> QED
      BY <2>1, <3>1
  <2>3. SubSeq(d, 1, i - 1) \in DOMAIN paramName
    BY <1>1, <2>1, <2>2
  <2>4. LastNamed(d, NameOf(d, i)) \in 1..Len(d)
    BY <1>1, <2>1, LastNamedIs DEF Wilds
  <2> QED
    BY <1>1, <2>3, <2>4 DEF NameOf
<1> DEFINE N == {NameOf(d, i) : i \in Wilds(d, k)}
<1>3. N \in SUBSET Params
  BY <1>2
<1>4. \A x \in N : p[LastNamed(d, x)] \in Words
  BY <1>2
<1>5. After(d, k, p) = [x \in N |-> p[LastNamed(d, x)]]
  BY DEF After
<1> HIDE DEF N
<1>6. After(d, k, p) \in [N -> Words]
  BY <1>4, <1>5
<1> QED
  BY <1>3, <1>6

\* One segment earlier.
LEMMA AfterLiteral ==
  ASSUME NEW d \in Seq(Steps), NEW p, NEW k \in Nat, k < Len(d), d[k + 1] # Wild
  PROVE  After(d, k, p) = After(d, k + 1, p)
<1>1. Len(d) \in Nat
  BY LenProperties
<1>2. Wilds(d, k) = Wilds(d, k + 1)
  BY <1>1 DEF Wilds
<1> QED
  BY <1>2 DEF After

LEMMA AfterParam ==
  ASSUME NEW d \in Seq(Steps), NEW p, NEW k \in Nat, k < Len(d), d[k + 1] = Wild
  PROVE  After(d, k, p) = Bound(After(d, k + 1, p), NameOf(d, k + 1), p[k + 1])
<1> DEFINE name == NameOf(d, k + 1)
           M == {NameOf(d, i) : i \in Wilds(d, k + 1)}
           N == {NameOf(d, i) : i \in Wilds(d, k)}
<1>1. Len(d) \in Nat
  BY LenProperties
<1>2. Wilds(d, k) = Wilds(d, k + 1) \cup {k + 1} /\ k + 1 \in Wilds(d, 0)
  BY <1>1 DEF Wilds
<1>3. N = M \cup {name}
  BY <1>2
<1>4. name \notin M => LastNamed(d, name) = k + 1
  <2> SUFFICES ASSUME name \notin M
               PROVE  LastNamed(d, name) = k + 1
    OBVIOUS
  <2> DEFINE l == LastNamed(d, name)
  <2>1. l \in Wilds(d, 0) /\ k + 1 <= l /\ NameOf(d, l) = name
    BY <1>2, LastNamedIs
  <2> HIDE DEF l
  <2>2. l \notin Wilds(d, k + 1)
    BY <2>1
  <2>3. l \in 1..Len(d) /\ d[l] = Wild
    BY <1>1, <2>1 DEF Wilds
  <2>4. l = k + 1
    BY <1>1, <2>1, <2>2, <2>3 DEF Wilds
  <2> QED
    BY <2>4 DEF l
<1>5. /\ After(d, k, p) = [x \in N |-> p[LastNamed(d, x)]]
      /\ After(d, k + 1, p) = [x \in M |-> p[LastNamed(d, x)]]
  BY DEF After
<1> HIDE DEF name, M, N
<1>6. Bound(After(d, k + 1, p), name, p[k + 1])
      = [x \in N |-> IF x \in M THEN p[LastNamed(d, x)] ELSE p[k + 1]]
  BY <1>3, <1>5 DEF Bound
<1>7. \A x \in N : (IF x \in M THEN p[LastNamed(d, x)] ELSE p[k + 1]) = p[LastNamed(d, x)]
  BY <1>3, <1>4
<1>8. Bound(After(d, k + 1, p), name, p[k + 1]) = [x \in N |-> p[LastNamed(d, x)]]
  BY <1>6, <1>7
<1> QED
  BY <1>5, <1>8 DEF name

LEMMA WayFound ==
  ASSUME RouterInv, NEW m \in Methods, NEW p \in Paths, ~Ambiguous(p), NEW d \in nodes,
         OnTheWay(d, p), Len(d) = Len(p), <<d, m>> \in DOMAIN handlers
  PROVE  Match(m, p) = {[handler |-> handlers[<<d, m>>], params |-> After(d, 0, p)]}
<1> DEFINE L == Len(p)
           h == handlers[<<d, m>>]
           Out(k) == [handler |-> h, params |-> After(d, k, p)]
<1>1. /\ L \in Nat /\ d \in Seq(Steps) /\ \A k \in 0..L : SubSeq(d, 1, k) \in nodes
      /\ \A i \in 1..L : d[i] \in {Wild, p[i]} /\ p[i] # Wild
  BY PathIsSeq DEF RouterInv, OnTheWay
<1>2. PICK f : Searches(f, m, p) /\ Match(m, p) = f[1][<<>>]
  BY <1>1, MatchSearches
<1>3. \A k \in 0..L : Out(k) \notin {NoRoute, Crash}
  <2> TAKE k \in 0..L
  <2>1. PICK N \in SUBSET Params : After(d, k, p) \in [N -> Words]
    BY AfterTyped
  <2>2. h \in 1..MaxRoutes
    BY HandlerIsLast
  <2> HIDE DEF h
  <2> QED
    BY <2>1, <2>2, FoundIsFound
<1> DEFINE T == {k \in 0..L : f[k + 1][SubSeq(d, 1, k)] = {Out(k)}}
<1>4. L \in T
  <2>1. SubSeq(d, 1, L) = d
    BY <1>1, SubSeqFull
  <2>2. f[L + 1][d] = {Found(h)}
    BY <1>2 DEF Searches
  <2>3. Wilds(d, L) = {}
    BY <1>1 DEF Wilds
  <2>4. After(d, L, p) = <<>>
    BY <2>3 DEF After
  <2>5. f[L + 1][SubSeq(d, 1, L)] = {Out(L)}
    BY <2>1, <2>2, <2>4 DEF Found
  <2>6. L \in 0..L
    BY <1>1
  <2> QED
    BY <2>5, <2>6
<1>5. ASSUME NEW k \in 0..L - 1, k + 1 \in T
      PROVE  k \in T
  <2> DEFINE n == SubSeq(d, 1, k)
             word == p[k + 1]
  <2>1. /\ k \in 0..L /\ k + 1 \in 1..L /\ k \in Nat /\ k < L /\ k + 1 \in 0..L /\ k + 1 - 1 = k
        /\ k < Len(d) /\ k \in 0..Len(d)
    BY <1>1
  <2>2. /\ Len(n) = k /\ n \in nodes /\ OnTheWay(n, p)
    <3>1. n \in Seq(Steps) /\ Len(n) = k /\ \A i \in 1..k : n[i] = d[i]
      BY <1>1, <2>1, Prefix
    <3> HIDE DEF n
    <3>2. OnTheWay(n, p)
      BY <1>1, <2>1, <3>1 DEF OnTheWay
    <3>3. n \in nodes
      BY <1>1, <2>1 DEF n
    <3> QED
      BY <3>1, <3>2, <3>3
  <2>3. SubSeq(d, 1, k + 1) = Append(n, d[k + 1]) /\ Append(n, d[k + 1]) \in nodes
    <3>1. SubSeq(d, 1, k + 1) = Append(n, d[k + 1])
      BY <1>1, <2>1, PrefixNext
    <3>2. SubSeq(d, 1, k + 1) \in nodes
      BY <1>1, <2>1
    <3> QED
      BY <3>1, <3>2
  <2>4. f[k + 1 + 1][Append(n, d[k + 1])] = {Out(k + 1)}
    BY <1>5, <2>3
  <2>5. LET tried == Append(n, word) \in nodes
        IN f[k + 1][n] = OrElse(IF tried THEN f[k + 1 + 1][Append(n, word)] ELSE {NoRoute},
                                IF Append(n, Wild) \notin nodes THEN {NoRoute}
                                ELSE Bind(f[IF tried THEN k + 1 + 2 ELSE k + 1 + 1][Append(n, Wild)],
                                          paramName[n], word))
    BY <1>2, <2>1, <2>2 DEF Searches
  <2>6. Out(k) \notin {NoRoute, Crash} /\ Out(k + 1) \notin {NoRoute, Crash}
    BY <1>3, <2>1
  <2>7. CASE d[k + 1] # Wild
    <3>1. d[k + 1] = word
      BY <1>1, <2>1, <2>7
    <3>2. Out(k) = Out(k + 1)
      BY <1>1, <2>1, <2>7, AfterLiteral
    <3> HIDE DEF Out, n, word
    <3>3. \E second : f[k + 1][n] = OrElse({Out(k + 1)}, second)
      BY <2>3, <2>4, <2>5, <3>1
    <3>4. f[k + 1][n] = {Out(k)}
      BY <2>6, <3>2, <3>3, FirstFound
    <3> QED
      BY <2>1, <3>4 DEF n
  <2>8. CASE d[k + 1] = Wild
    <3>1. Append(n, word) \notin nodes
      BY <2>1, <2>2, <2>3, <2>8, NoChoice
    <3>2. NameOf(d, k + 1) = paramName[n]
      BY <2>1 DEF NameOf
    <3>3. After(d, k, p) = Bound(After(d, k + 1, p), paramName[n], word)
      BY <1>1, <2>1, <2>8, <3>2, AfterParam
    <3>4. Bind({Out(k + 1)}, paramName[n], word) = {Out(k)}
      <4>1. [Out(k + 1) EXCEPT !.params = Bound(Out(k + 1).params, paramName[n], word)] = Out(k)
        BY <3>3
      <4> HIDE DEF Out
      <4> QED
        BY <2>6, <4>1 DEF Bind
    <3> HIDE DEF Out, n, word
    <3>5. f[k + 1][n] = OrElse({NoRoute}, Bind({Out(k + 1)}, paramName[n], word))
      BY <2>3, <2>4, <2>5, <2>8, <3>1
    <3>6. f[k + 1][n] = {Out(k)}
      BY <3>4, <3>5 DEF OrElse
    <3> QED
      BY <2>1, <3>6 DEF n
  <2> QED
    BY <2>7, <2>8
<1>6. \A k \in 0..L - 1 : k + 1 \in T => k \in T
  BY <1>5
<1>7. 0 \in T /\ 0 + 1 = 1
  <2>1. \A k \in 0..L : k \in T
    <3> HIDE DEF T, L
    <3> QED
      BY <1>1, <1>4, <1>6, AllDownFrom
  <2> QED
    BY <1>1, <2>1
<1>8. SubSeq(d, 1, 0) = <<>>
  BY SubSeqEmpty
<1>9. f[1][<<>>] = {Out(0)}
  BY <1>7, <1>8
<1> QED
  BY <1>2, <1>9

\* A route fits a path if its node is on the way, at the end.
LEMMA FitsIsOnTheWay ==
  ASSUME NEW pattern \in Patterns, NEW p \in Paths
  PROVE  Fits(pattern, p) <=>
           Len(NodeOf(pattern)) = Len(p) /\ OnTheWay(NodeOf(pattern), p)
<1>1. /\ DOMAIN pattern = 1..Len(pattern) /\ Len(NodeOf(pattern)) = Len(pattern)
      /\ Len(pattern) \in Nat
      /\ \A i \in 1..Len(pattern) :
           /\ pattern[i] \in Params => NodeOf(pattern)[i] = Wild
           /\ pattern[i] \notin Params =>
                NodeOf(pattern)[i] = pattern[i] /\ pattern[i] # Wild
  BY NodeOfPattern, LenProperties, RouterAssumption
<1>2. Len(p) \in Nat /\ \A i \in 1..Len(p) : p[i] # Wild /\ p[i] \notin Params
  BY PathIsSeq
<1>3. ASSUME Len(pattern) = Len(p), NEW i \in 1..Len(pattern)
      PROVE  pattern[i] \in Params \cup {p[i]} <=> NodeOf(pattern)[i] \in {Wild, p[i]}
  <2>1. CASE pattern[i] \in Params
    BY <1>1, <2>1
  <2>2. CASE pattern[i] \notin Params
    BY <1>1, <1>2, <1>3, <2>2
  <2> QED
    BY <2>1, <2>2
<1> QED
  BY <1>1, <1>2, <1>3 DEF Fits, OnTheWay

\* The routes that fit share a node, and the last call for it is the best of them.
LEMMA BestIsHandler ==
  ASSUME RouterInv, NEW m \in Methods, NEW p \in Paths, ~Ambiguous(p), NEW d \in nodes,
         OnTheWay(d, p), Len(d) = Len(p), <<d, m>> \in DOMAIN handlers
  PROVE  Best(m, p) = {handlers[<<d, m>>]} /\ NodeAt(handlers[<<d, m>>]) = d
<1> DEFINE h == handlers[<<d, m>>]
<1>1. /\ routes \in Seq(RouteCalls) /\ DOMAIN routes = 1..Len(routes) /\ Len(routes) \in Nat
      /\ \A r \in 1..Len(routes) : NodeAt(r) \in nodes
  BY LenProperties DEF RouterInv
<1>2. \A r \in 1..Len(routes) : routes[r].pattern \in Patterns
  <2> TAKE r \in 1..Len(routes)
  <2>1. routes[r] \in RouteCalls
    BY <1>1, ElementOfSeq
  <2> QED
    BY <2>1 DEF RouteCalls
<1>3. /\ h \in 1..Len(routes) /\ NodeAt(h) = d /\ routes[h].method = m
      /\ \A r \in 1..Len(routes) : NodeAt(r) = d /\ routes[r].method = m => r <= h
  <2>1. /\ h \in 1..Len(routes) /\ <<d, m>> = <<NodeAt(h), routes[h].method>>
        /\ \A r \in 1..Len(routes) : <<d, m>> = <<NodeAt(r), routes[r].method>> => r <= h
    BY HandlerIsLast
  <2> HIDE DEF h
  <2> QED
    BY <2>1
<1> HIDE DEF h
<1>4. \A r \in 1..Len(routes) : Fits(routes[r].pattern, p) <=> NodeAt(r) = d
  <2> TAKE r \in 1..Len(routes)
  <2>1. Fits(routes[r].pattern, p) <=> Len(NodeAt(r)) = Len(p) /\ OnTheWay(NodeAt(r), p)
    BY <1>2, FitsIsOnTheWay DEF NodeAt
  <2>2. Len(NodeAt(r)) = Len(p) /\ OnTheWay(NodeAt(r), p) => NodeAt(r) = d
    BY <1>1, OneWay
  <2> QED
    BY <2>1, <2>2
<1>5. Fitting(m, p) = {r \in 1..Len(routes) : routes[r].method = m /\ NodeAt(r) = d}
  BY <1>1, <1>4 DEF Fitting
<1>6. \A r \in Fitting(m, p) :
        /\ r \in 1..Len(routes) /\ r <= h /\ SameNode(r, h) /\ SameNode(h, r)
        /\ ~MoreLiteral(r, h)
  <2> TAKE r \in Fitting(m, p)
  <2>1. r \in 1..Len(routes) /\ NodeAt(r) = d /\ r <= h
    BY <1>3, <1>5
  <2>2. NodeOf(routes[r].pattern) = NodeOf(routes[h].pattern)
    BY <1>3, <2>1 DEF NodeAt
  <2> QED
    BY <2>1, <2>2 DEF SameNode, MoreLiteral
<1>7. h \in Fitting(m, p)
  BY <1>3, <1>5
<1>8. h \in Best(m, p)
  <2>1. \A s \in Fitting(m, p) \ {h} : SameNode(h, s) /\ s < h
    BY <1>1, <1>3, <1>6
  <2> QED
    BY <1>7, <2>1 DEF Best
<1>9. \A r \in Best(m, p) : r = h
  <2> TAKE r \in Best(m, p)
  <2>1. r \in Fitting(m, p) /\ (h # r => MoreLiteral(r, h) \/ h < r)
    BY <1>7 DEF Best
  <2> QED
    BY <1>1, <1>3, <1>6, <2>1
<1>10. Best(m, p) = {h} /\ NodeAt(h) = d
  BY <1>3, <1>8, <1>9
<1> QED
  BY <1>10 DEF h

LEMMA BindingsAre ==
  ASSUME NEW r, NodeAt(r) \in Seq(Steps), NEW p
  PROVE  Bindings(r, p) = After(NodeAt(r), 0, p)
<1> DEFINE node == NodeAt(r)
           W == {i \in DOMAIN node : node[i] = Wild}
<1>1. Bindings(r, p)
      = [x \in {NameOf(node, i) : i \in W} |->
           p[CHOOSE i \in W : NameOf(node, i) = x /\ \A j \in W : NameOf(node, j) = x => j <= i]]
  BY DEF Bindings, NodeAt, NameOf
<1>2. W = Wilds(node, 0)
  <2>1. DOMAIN node = 0 + 1..Len(node)
    BY LenProperties
  <2> HIDE DEF node
  <2> QED
    BY <2>1 DEF Wilds
<1> HIDE DEF node, W
<1>3. Bindings(r, p) = After(node, 0, p)
  BY <1>1, <1>2 DEF After, LastNamed
<1> QED
  BY <1>3 DEF node

LEMMA RoutesAreFound == RouterInv => RoutesFound
<1> SUFFICES ASSUME RouterInv
             PROVE  FindsTheRoute
  BY LiteralsAreFound DEF RoutesFound
<1> SUFFICES ASSUME NEW m \in Methods, NEW p \in Paths, ~Ambiguous(p)
             PROVE  Match(m, p) = IF Best(m, p) = {} THEN {NoRoute}
                                  ELSE {[handler |-> r, params |-> Bindings(r, p)] :
                                          r \in Best(m, p)}
  BY DEF FindsTheRoute
<1>1. CASE \E d \in nodes : OnTheWay(d, p) /\ Len(d) = Len(p) /\ <<d, m>> \in DOMAIN handlers
  <2>1. PICK d \in nodes : OnTheWay(d, p) /\ Len(d) = Len(p) /\ <<d, m>> \in DOMAIN handlers
    BY <1>1
  <2> DEFINE h == handlers[<<d, m>>]
  <2>2. Match(m, p) = {[handler |-> h, params |-> After(d, 0, p)]}
    BY <2>1, WayFound
  <2>3. Best(m, p) = {h} /\ NodeAt(h) = d
    BY <2>1, BestIsHandler
  <2>4. d \in Seq(Steps)
    BY DEF RouterInv
  <2> HIDE DEF h
  <2>5. Bindings(h, p) = After(d, 0, p)
    BY <2>3, <2>4, BindingsAre
  <2> QED
    BY <2>2, <2>3, <2>5
<1>2. CASE \A d \in nodes : OnTheWay(d, p) /\ Len(d) = Len(p) => <<d, m>> \notin DOMAIN handlers
  <2>1. Match(m, p) = {NoRoute}
    BY <1>2, NothingFound
  <2>2. Fitting(m, p) = {}
    <3> SUFFICES ASSUME NEW r \in Fitting(m, p)
                 PROVE  FALSE
      OBVIOUS
    <3>1. /\ routes \in Seq(RouteCalls) /\ r \in DOMAIN routes
          /\ Fits(routes[r].pattern, p) /\ routes[r].method = m
      BY DEF Fitting, RouterInv
    <3>2. r \in 1..Len(routes)
      BY <3>1, LenProperties
    <3>3. routes[r] \in RouteCalls
      BY <3>1, <3>2, ElementOfSeq
    <3>4. routes[r].pattern \in Patterns
      BY <3>3 DEF RouteCalls
    <3>5. Len(NodeAt(r)) = Len(p) /\ OnTheWay(NodeAt(r), p)
      BY <3>1, <3>4, FitsIsOnTheWay DEF NodeAt
    <3>6. NodeAt(r) \in nodes /\ <<NodeAt(r), m>> \in DOMAIN handlers
      BY <3>1, <3>2 DEF RouterInv
    <3> QED
      BY <1>2, <3>5, <3>6
  <2>3. Best(m, p) = {}
    BY <2>2 DEF Best
  <2> QED
    BY <2>1, <2>3
<1> QED
  BY <1>1, <1>2

\* find_route, for any routes, words, names and lengths: a literal route is found by its
\* path whatever parameters stand beside it, in its last version; and where no node on
\* the way has both a literal and a parameter for the next segment, the route that fits
\* is found if there is one, with each parameter bound to its word (add_route,
\* match_route_recursive).
THEOREM FindsRoutes == RouterSpec => []RoutesFound
BY InitRouterInv, NextRouterInv, RoutesAreFound, PTL DEF RouterSpec

\* RouterFinds: what a run checks of routes and paths of a few segments, for any
\* (add_route, match_route_recursive).
THEOREM RouterFindsRoutes == ServicesSpec => []RouterFinds
<1>1. ServicesInit => RouterInv
  BY InitRouterInv DEF ServicesInit
<1>2. RouterInv /\ [ServicesNext]_<<part, limiterVars, routerVars, parserVars, timeoutVars,
                                    logVars, metricsVars, replyVars, appVars, viewVars>>
        => RouterInv'
  <2> SUFFICES ASSUME RouterInv,
                      [ServicesNext]_<<part, limiterVars, routerVars, parserVars, timeoutVars,
                                       logVars, metricsVars, replyVars, appVars, viewVars>>
               PROVE  RouterInv'
    OBVIOUS
  <2>1. RouterNext \/ UNCHANGED routerVars
    BY DEF ServicesNext
  <2>2. [RouterNext]_routerVars
    BY <2>1
  <2> QED
    BY <2>2, NextRouterInv
<1>3. RouterInv => RouterFinds
  BY RoutesAreFound DEF RouterFinds
<1> QED
  BY <1>1, <1>2, <1>3, PTL DEF ServicesSpec

-----------------------------------------------------------------------------
(* HttpParser: what a client sends.                                        *)

Kinds == {"request", "field", "blank", "crlf", "byte", "length", "chunked", "size",
          "trailer", "noise", "badlength", "badsize", "badline"}

Units == Seq([kind : Kinds, n : Nat])

\* What is buffered is the start of units, and of what comes after them.
Starts(b, units) == \A i \in 1..Len(b) : i <= Len(units) => b[i] = units[i]

\* The first element, which First chooses, is the least.
LEMMA FirstIs ==
  ASSUME NEW S, S \subseteq Int, NEW k \in S, \A j \in S : k <= j
  PROVE  First(S) = k
<1> DEFINE f == CHOOSE i \in S : \A j \in S : i <= j
<1>1. f \in S /\ \A j \in S : f <= j
  OBVIOUS
<1> HIDE DEF f
<1>2. f <= k /\ k <= f /\ f \in Int /\ k \in Int
  BY <1>1
<1>3. f = k
  BY <1>2
<1> QED
  BY <1>3 DEF First, f

LEMMA UnitsAre ==
  /\ \A kind \in Kinds : Unit(kind) \in [kind : Kinds, n : Nat]
  /\ \A kind \in Kinds, n \in Nat : Number(kind, n) \in [kind : Kinds, n : Nat]
BY DEF Unit, Number

\* The sequences a request is put together from.
LEMMA Single ==
  ASSUME NEW u \in [kind : Kinds, n : Nat]
  PROVE  <<u>> \in Units /\ Len(<<u>>) = 1 /\ <<u>>[1] = u
BY DEF Units

LEMMA FunctionIsSeq ==
  ASSUME NEW S, NEW n \in Nat, NEW f \in [1..n -> S]
  PROVE  f \in Seq(S) /\ Len(f) = n
OBVIOUS

LEMMA FieldsAre ==
  ASSUME NEW f \in Nat
  PROVE  /\ Fields(f) \in Units /\ Len(Fields(f)) = f
         /\ \A i \in 1..f : Fields(f)[i] = Unit("field")
<1>1. Unit("field") \in [kind : Kinds, n : Nat]
  BY UnitsAre DEF Kinds
<1>2. /\ Fields(f) \in [1..f -> [kind : Kinds, n : Nat]]
      /\ \A i \in 1..f : Fields(f)[i] = Unit("field")
  BY <1>1 DEF Fields
<1>3. Fields(f) \in Seq([kind : Kinds, n : Nat]) /\ Len(Fields(f)) = f
  BY <1>2, FunctionIsSeq
<1> QED
  BY <1>2, <1>3 DEF Units

LEMMA PayloadIs ==
  ASSUME NEW n \in Nat, NEW plain \in BOOLEAN
  PROVE  Payload(n, plain) \in Units /\ Len(Payload(n, plain)) = n
<1>1. ASSUME NEW i \in 1..n
      PROVE  Number("byte", i) \in [kind : Kinds, n : Nat]
  <2>1. "byte" \in Kinds /\ i \in Nat
    BY DEF Kinds
  <2> QED
    BY <2>1, UnitsAre
<1>2. Unit("blank") \in [kind : Kinds, n : Nat] /\ Unit("crlf") \in [kind : Kinds, n : Nat]
  BY UnitsAre DEF Kinds
<1>3. Payload(n, plain) \in [1..n -> [kind : Kinds, n : Nat]]
  BY <1>1, <1>2 DEF Payload
<1>4. Payload(n, plain) \in Seq([kind : Kinds, n : Nat]) /\ Len(Payload(n, plain)) = n
  BY <1>3, FunctionIsSeq
<1> QED
  BY <1>4 DEF Units

\* Two sequences of units end to end.
LEMMA LaidOut ==
  ASSUME NEW s \in Units, NEW t \in Units
  PROVE  /\ s \o t \in Units /\ Len(s \o t) = Len(s) + Len(t) /\ Len(s) \in Nat /\ Len(t) \in Nat
         /\ \A i \in 1..Len(s) : (s \o t)[i] = s[i]
         /\ \A i \in 1..Len(t) : (s \o t)[Len(s) + i] = t[i]
<1>1. Len(s) \in Nat /\ Len(t) \in Nat
  BY LenProperties DEF Units
<1>2. /\ s \o t \in Units /\ Len(s \o t) = Len(s) + Len(t)
      /\ \A i \in 1..Len(s) + Len(t) : (s \o t)[i] = IF i <= Len(s) THEN s[i] ELSE t[i - Len(s)]
  BY ConcatProperties DEF Units
<1>3. \A i \in 1..Len(s) : (s \o t)[i] = s[i]
  BY <1>1, <1>2
<1>4. \A i \in 1..Len(t) : /\ Len(s) + i \in 1..Len(s) + Len(t) /\ ~(Len(s) + i <= Len(s))
                           /\ Len(s) + i - Len(s) = i
  BY <1>1
<1>5. \A i \in 1..Len(t) : (s \o t)[Len(s) + i] = t[i]
  BY <1>2, <1>4
<1> QED
  BY <1>1, <1>2, <1>3, <1>5

\* Where the lines and what follows are.
LaysOut(u, head, rest) ==
  /\ Len(u) = Len(head) + 2 + Len(rest)
  /\ \A j \in 1..Len(rest) : u[Len(head) + 2 + j] = rest[j]

\* The request line, the lines, a blank line and what follows.
LEMMA RequestLaidOut ==
  ASSUME NEW head \in Units, NEW rest \in Units, NEW body, NEW good,
         NEW u, u = Request(head, rest, body, good).units
  PROVE  /\ u \in Units /\ Len(head) \in Nat /\ Len(rest) \in Nat
         /\ Len(u) = Len(head) + 2 + Len(rest)
         /\ u[1] = Unit("request") /\ u[Len(head) + 2] = Unit("blank")
         /\ \A i \in 1..Len(head) : u[i + 1] = head[i]
         /\ \A i \in 1..Len(rest) : u[Len(head) + 2 + i] = rest[i]
         /\ LaysOut(u, head, rest)
<1> DEFINE a == <<Unit("request")>>
           z == <<Unit("blank")>>
           al == a \o head
           alz == al \o z
<1>1. u = alz \o rest
  BY DEF Request
<1>2. /\ a \in Units /\ Len(a) = 1 /\ a[1] = Unit("request")
      /\ z \in Units /\ Len(z) = 1 /\ z[1] = Unit("blank")
  BY Single, UnitsAre DEF Kinds
<1> HIDE DEF a, z
<1>3. /\ al \in Units /\ Len(al) = 1 + Len(head) /\ Len(head) \in Nat
      /\ al[1] = a[1] /\ \A i \in 1..Len(head) : al[1 + i] = head[i]
  <2>1. /\ al \in Units /\ Len(al) = Len(a) + Len(head) /\ Len(head) \in Nat
        /\ \A i \in 1..Len(a) : al[i] = a[i]
        /\ \A i \in 1..Len(head) : al[Len(a) + i] = head[i]
    BY <1>2, LaidOut
  <2> HIDE DEF al
  <2> QED
    BY <1>2, <2>1
<1> HIDE DEF al
<1>4. /\ alz \in Units /\ Len(alz) = Len(head) + 2
      /\ \A i \in 1..Len(head) + 1 : alz[i] = al[i]
      /\ alz[Len(head) + 2] = z[1]
  <2>1. /\ alz \in Units /\ Len(alz) = Len(al) + Len(z)
        /\ \A i \in 1..Len(al) : alz[i] = al[i]
        /\ \A i \in 1..Len(z) : alz[Len(al) + i] = z[i]
    BY <1>2, <1>3, LaidOut
  <2> HIDE DEF alz
  <2>2. Len(alz) = Len(head) + 2 /\ 1 \in 1..Len(z) /\ Len(al) + 1 = Len(head) + 2
    BY <1>2, <1>3, <2>1
  <2>3. 1..Len(head) + 1 = 1..Len(al)
    BY <1>3
  <2> QED
    BY <2>1, <2>2, <2>3
<1> HIDE DEF alz
<1>5. /\ u \in Units /\ Len(u) = Len(head) + 2 + Len(rest) /\ Len(rest) \in Nat
      /\ \A i \in 1..Len(head) + 2 : u[i] = alz[i]
      /\ \A i \in 1..Len(rest) : u[Len(head) + 2 + i] = rest[i]
  <2>1. /\ alz \o rest \in Units /\ Len(alz \o rest) = Len(alz) + Len(rest) /\ Len(rest) \in Nat
        /\ \A i \in 1..Len(alz) : (alz \o rest)[i] = alz[i]
        /\ \A i \in 1..Len(rest) : (alz \o rest)[Len(alz) + i] = rest[i]
    BY <1>4, LaidOut
  <2> QED
    BY <1>1, <1>4, <2>1
<1>6. u[1] = Unit("request") /\ u[Len(head) + 2] = Unit("blank")
  BY <1>2, <1>3, <1>4, <1>5
<1>7. ASSUME NEW i \in 1..Len(head)
      PROVE  u[i + 1] = head[i]
  <2>1. i + 1 \in 1..Len(head) + 2 /\ i + 1 \in 1..Len(head) + 1 /\ i + 1 = 1 + i
    BY <1>3
  <2> QED
    BY ZenonT(30), <1>3, <1>4, <1>5, <2>1
<1>8. LaysOut(u, head, rest)
  BY <1>5 DEF LaysOut
<1> QED
  BY <1>3, <1>5, <1>6, <1>7, <1>8

LEMMA SubSeqIs ==
  ASSUME NEW b \in Units, NEW s \in Units, NEW k \in Nat, k + Len(s) <= Len(b),
         \A j \in 1..Len(s) : b[k + j] = s[j]
  PROVE  SubSeq(b, k + 1, k + Len(s)) = s
<1> DEFINE piece == SubSeq(b, k + 1, k + Len(s))
<1>1. Len(b) \in Nat /\ Len(s) \in Nat
  BY LenProperties DEF Units
<1>2. \A j \in k + 1..k + Len(s) : j \in 1..Len(b)
  BY <1>1
<1>3. \A j \in k + 1..k + Len(s) : b[j] \in [kind : Kinds, n : Nat]
  BY <1>2, ElementOfSeq DEF Units
<1>4. /\ piece \in Units
      /\ Len(piece) = IF k + 1 <= k + Len(s) THEN k + Len(s) - (k + 1) + 1 ELSE 0
      /\ \A j \in 1..k + Len(s) - (k + 1) + 1 : piece[j] = b[k + 1 + j - 1]
  BY <1>1, <1>3, SubSeqProperties DEF Units
<1> HIDE DEF piece
<1>5. Len(piece) = Len(s)
  BY <1>1, <1>4
<1>6. ASSUME NEW j \in 1..Len(piece)
      PROVE  piece[j] = s[j]
  <2>1. j \in 1..k + Len(s) - (k + 1) + 1 /\ k + 1 + j - 1 = k + j /\ j \in 1..Len(s)
    BY <1>1, <1>5
  <2> QED
    BY <1>4, <2>1
<1> QED
  BY <1>4, <1>5, <1>6, SeqEqual DEF Units, piece

-----------------------------------------------------------------------------
(* HttpParser: the header block, however much of a request is there.       *)

\* A request as the parser sees it: h lines of header, without a blank one among them.
HeaderOf(u, h) ==
  /\ u \in Units /\ h \in Nat /\ h + 2 <= Len(u)
  /\ u[h + 2].kind = "blank" /\ \A i \in 1..h + 1 : u[i].kind # "blank"

\* A header block that parse_request and parse_request_line let pass.
Passes(u, h) ==
  h < MaxHeader /\ u[1].kind = "request" /\ \A i \in 2..h + 1 : u[i].kind # "noise"

\* What is buffered of u: its units, as far as both go.
LEMMA BufferedUnits ==
  ASSUME NEW u \in Units, NEW b \in Units, Starts(b, u)
  PROVE  /\ Len(b) \in Nat /\ DOMAIN b = 1..Len(b) /\ Len(u) \in Nat
         /\ \A i \in 1..Len(b) : b[i].n \in Nat
         /\ \A i \in 1..Len(b) : i <= Len(u) => b[i] = u[i]
<1>1. /\ Len(b) \in Nat /\ DOMAIN b = 1..Len(b) /\ Len(u) \in Nat
      /\ b \in [1..Len(b) -> [kind : Kinds, n : Nat]]
  BY LenProperties DEF Units
<1> QED
  BY <1>1 DEF Starts

\* As long as the header block is not there as a whole, all that is buffered is
\* measured against the limit on headers.
LEMMA SpanSoFar ==
  ASSUME NEW u, NEW h, HeaderOf(u, h), NEW b \in Units, Starts(b, u), Len(b) < h + 2
  PROVE  Where(b, "blank") = {} /\ HeaderSpan(b) = Len(b)
<1>1. /\ Len(b) \in Nat /\ DOMAIN b = 1..Len(b) /\ h \in Nat /\ h + 2 <= Len(u)
      /\ \A i \in 1..Len(b) : i <= Len(u) => b[i] = u[i]
      /\ \A i \in 1..h + 1 : u[i].kind # "blank"
  BY BufferedUnits DEF HeaderOf
<1>2. \A i \in 1..Len(b) : i \in 1..h + 1 /\ i <= Len(u)
  BY <1>1, LenProperties DEF Units, HeaderOf
<1>3. \A i \in 1..Len(b) : b[i].kind # "blank"
  BY <1>1, <1>2
<1>4. Where(b, "blank") = {}
  BY <1>1, <1>3 DEF Where
<1> QED
  BY <1>4 DEF HeaderSpan

\* Once it is there, the block is measured, whatever follows it in the buffer.
LEMMA SpanIs ==
  ASSUME NEW u, NEW h, HeaderOf(u, h), NEW b \in Units, Starts(b, u), h + 2 <= Len(b)
  PROVE  /\ Where(b, "blank") # {} /\ First(Where(b, "blank")) = h + 2 /\ HeaderSpan(b) = h + 1
         /\ \A i \in 1..h + 2 : i \in 1..Len(b) /\ b[i] = u[i]
<1>1. /\ Len(b) \in Nat /\ DOMAIN b = 1..Len(b) /\ h \in Nat /\ h + 2 <= Len(u) /\ Len(u) \in Nat
      /\ \A i \in 1..Len(b) : i <= Len(u) => b[i] = u[i]
      /\ \A i \in 1..h + 1 : u[i].kind # "blank"
      /\ u[h + 2].kind = "blank" /\ u \in Units
  BY BufferedUnits DEF HeaderOf
<1>2. \A i \in 1..h + 2 : i \in 1..Len(b) /\ b[i] = u[i]
  BY <1>1
<1>3. h + 2 \in Where(b, "blank")
  BY <1>1, <1>2 DEF Where
<1>4. \A i \in 1..h + 1 : b[i].kind # "blank"
  BY <1>1, <1>2
<1>5. Where(b, "blank") \subseteq 1..Len(b) /\ \A i \in Where(b, "blank") : b[i].kind = "blank"
  BY <1>1 DEF Where
<1>6. ASSUME NEW i \in Where(b, "blank")
      PROVE  h + 2 <= i
  <2>1. i \in 1..Len(b) /\ ~(i \in 1..h + 1)
    BY <1>4, <1>5
  <2> QED
    BY <1>1, <2>1
<1>7. First(Where(b, "blank")) = h + 2
  <2>1. Where(b, "blank") \subseteq Int
    BY <1>1, <1>5
  <2> QED
    BY <1>3, <1>6, <2>1, FirstIs
<1>8. HeaderSpan(b) = h + 1
  BY <1>1, <1>3, <1>7 DEF HeaderSpan
<1> QED
  BY <1>2, <1>3, <1>7, <1>8

\* A request of which the header block is not there as a whole: the parser waits for
\* more, unless what is there is malformed or too long.
LEMMA HeaderIncomplete ==
  ASSUME NEW u, NEW h, HeaderOf(u, h), NEW b \in Units, Starts(b, u), Len(b) < h + 2
  PROVE  /\ Parse(b).state # "COMPLETE"
         /\ Passes(u, h) => Parse(b).state \notin {"COMPLETE", "ERROR"}
<1>1. Where(b, "blank") = {} /\ HeaderSpan(b) = Len(b)
  BY SpanSoFar
<1>2. /\ Len(b) \in Nat /\ h \in Nat /\ h + 2 <= Len(u) /\ u \in Units /\ Len(u) \in Nat
      /\ \A i \in 1..Len(b) : i <= Len(u) => b[i] = u[i]
  BY BufferedUnits DEF HeaderOf
<1>3. Parse(b) \in {Wanting("REQUEST_LINE"), Error, Wanting("HEADERS")}
  BY <1>1 DEF Parse
<1>4. ASSUME Passes(u, h)
      PROVE  Parse(b) \in {Wanting("REQUEST_LINE"), Wanting("HEADERS")}
  <2>1. ~(HeaderSpan(b) > MaxHeader)
    <3>1. MaxHeader \in Nat /\ h < MaxHeader
      BY <1>4, ParserAssumption DEF Passes
    <3> QED
      BY <1>1, <1>2, <3>1
  <2>2. CASE b = <<>>
    BY <2>2, <2>1 DEF Parse
  <2>3. CASE b # <<>>
    <3>1. Len(b) # 0
      BY <2>3 DEF Units
    <3>2. b[1].kind = "request"
      BY <1>2, <1>4, <3>1 DEF Passes
    <3>3. ASSUME NEW i \in 2..HeaderSpan(b)
          PROVE  b[i].kind # "noise"
      <4>1. i \in 1..Len(b) /\ i <= Len(u) /\ i \in 2..h + 1
        BY <1>1, <1>2
      <4> QED
        BY <1>2, <1>4, <4>1 DEF Passes
    <3> QED
      BY <1>1, <2>3, <2>1, <3>2, <3>3 DEF Parse
  <2> QED
    BY <2>2, <2>3
<1> QED
  BY <1>3, <1>4 DEF Wanting, Error, Result

\* And one whose header block is there.
LEMMA HeaderComplete ==
  ASSUME NEW u, NEW h, HeaderOf(u, h), NEW b \in Units, Starts(b, u), h + 2 <= Len(b)
  PROVE  /\ Passes(u, h) => Parse(b) = ParseFraming(b, h + 2)
         /\ ~Passes(u, h) => Parse(b) = Error
<1>1. /\ Where(b, "blank") # {} /\ First(Where(b, "blank")) = h + 2 /\ HeaderSpan(b) = h + 1
      /\ \A i \in 1..h + 2 : i \in 1..Len(b) /\ b[i] = u[i]
  BY SpanIs
<1>2. h \in Nat /\ MaxHeader \in Nat
  BY ParserAssumption DEF HeaderOf
<1>3. b # <<>>
  BY <1>1 DEF Where
<1>4. b[1].kind = "request" <=> u[1].kind = "request"
  BY <1>1, <1>2
<1>5. (\E i \in 2..HeaderSpan(b) : b[i].kind = "noise") <=> ~(\A i \in 2..h + 1 : u[i].kind # "noise")
  <2>1. \A i \in 2..h + 1 : i \in 1..h + 2
    BY <1>2
  <2> QED
    BY <1>1, <2>1
<1>6. HeaderSpan(b) > MaxHeader <=> ~(h < MaxHeader)
  BY <1>1, <1>2
<1>7. ASSUME Passes(u, h)
      PROVE  Parse(b) = ParseFraming(b, h + 2)
  BY <1>1, <1>3, <1>4, <1>5, <1>6, <1>7 DEF Parse, Passes
<1>8. ASSUME ~Passes(u, h)
      PROVE  Parse(b) = Error
  BY <1>1, <1>3, <1>4, <1>5, <1>6, <1>8 DEF Parse, Passes
<1> QED
  BY <1>7, <1>8

\* What the parser is to make of a request, as it comes in piece by piece.
Treated(r) ==
  \A b \in Units : Starts(b, r.units) =>
    /\ r.good /\ Len(r.units) <= Len(b) => Parse(b) = Result("COMPLETE", Len(r.units), r.body)
    /\ r.good /\ Len(b) < Len(r.units) => Parse(b).state \notin {"COMPLETE", "ERROR"}
    /\ ~r.good => Parse(b).state # "COMPLETE"

\* It is enough to see what is made of it once the header block is there.
Framed(r, h) ==
  \A b \in Units : Starts(b, r.units) /\ h + 2 <= Len(b) =>
    /\ r.good /\ Len(r.units) <= Len(b) =>
         ParseFraming(b, h + 2) = Result("COMPLETE", Len(r.units), r.body)
    /\ r.good /\ Len(b) < Len(r.units) =>
         ParseFraming(b, h + 2).state \notin {"COMPLETE", "ERROR"}
    /\ ~r.good => ParseFraming(b, h + 2).state # "COMPLETE"

\* parse_request up to the framing: a request within the limits waits for its headers,
\* one beyond them is refused or waits.
LEMMA FramedIsTreated ==
  ASSUME NEW r, NEW h, HeaderOf(r.units, h), r.good => Passes(r.units, h),
         Passes(r.units, h) => Framed(r, h)
  PROVE  Treated(r)
<1> SUFFICES ASSUME NEW b \in Units, Starts(b, r.units)
             PROVE  /\ r.good /\ Len(r.units) <= Len(b) =>
                         Parse(b) = Result("COMPLETE", Len(r.units), r.body)
                    /\ r.good /\ Len(b) < Len(r.units) =>
                         Parse(b).state \notin {"COMPLETE", "ERROR"}
                    /\ ~r.good => Parse(b).state # "COMPLETE"
  BY DEF Treated
<1>1. /\ Len(b) \in Nat /\ h \in Nat /\ h + 2 <= Len(r.units) /\ Len(r.units) \in Nat
  BY BufferedUnits DEF HeaderOf
<1>2. CASE Len(b) < h + 2
  <2>1. /\ Parse(b).state # "COMPLETE"
        /\ Passes(r.units, h) => Parse(b).state \notin {"COMPLETE", "ERROR"}
    BY <1>2, HeaderIncomplete
  <2>2. ~(Len(r.units) <= Len(b))
    BY <1>1, <1>2
  <2> QED
    BY <2>1, <2>2
<1>3. CASE h + 2 <= Len(b) /\ Passes(r.units, h)
  <2>1. Parse(b) = ParseFraming(b, h + 2)
    BY <1>3, HeaderComplete
  <2> QED
    BY <1>3, <2>1 DEF Framed
<1>4. CASE h + 2 <= Len(b) /\ ~Passes(r.units, h)
  <2>1. Parse(b) = Error /\ ~r.good
    BY <1>4, HeaderComplete
  <2> QED
    BY <2>1 DEF Error, Result
<1> QED
  BY <1>1, <1>2, <1>3, <1>4

-----------------------------------------------------------------------------
(* HttpParser: chunks.                                                     *)

ChunkEnds(b, i) == {j \in Where(b, "crlf") : j > i}
AfterChunk(b, i) == i + b[i].n + 2

\* One step of parse_chunked_body: from unit i on, for each before of the chunks before.
ChunkStep(scan, b, i) ==
  [before \in 0..MaxBody |->
     IF i = Len(b) + 1 THEN Wanting("BODY")
     ELSE IF b[i].kind # "size" THEN Error
     ELSE IF b[i].n = 0
     THEN IF ChunkEnds(b, i) = {} THEN Wanting("BODY")
          ELSE Result("COMPLETE", First(ChunkEnds(b, i)), <<>>)
     ELSE IF before + b[i].n > MaxBody THEN Error
     ELSE IF AfterChunk(b, i) > Len(b) + 1 THEN Wanting("BODY")
     ELSE [scan[AfterChunk(b, i)][before + b[i].n] EXCEPT
             !.body = SubSeq(b, i + 1, i + b[i].n) \o @]]

\* parse_chunked_body at i looks at later positions only, so that the scan it recurses
\* through exists.
LEMMA ChunkStepsAgree ==
  ASSUME NEW f, NEW g, NEW b \in Units, NEW i \in 1..Len(b) + 1,
         \A j \in 1..Len(b) + 1 : j > i => f[j] = g[j]
  PROVE  ChunkStep(f, b, i) = ChunkStep(g, b, i)
<1>1. Len(b) \in Nat /\ b \in [1..Len(b) -> [kind : Kinds, n : Nat]]
  BY LenProperties DEF Units
<1>2. CASE i = Len(b) + 1
  BY <1>2 DEF ChunkStep
<1>3. CASE i # Len(b) + 1
  <2>1. b[i].n \in Nat /\ i \in Nat
    BY <1>1, <1>3
  <2>2. CASE AfterChunk(b, i) > Len(b) + 1
    BY <2>2 DEF ChunkStep
  <2>3. CASE ~(AfterChunk(b, i) > Len(b) + 1)
    <3>1. AfterChunk(b, i) \in 1..Len(b) + 1 /\ AfterChunk(b, i) > i
      BY <1>1, <2>1, <2>3 DEF AfterChunk
    <3>2. f[AfterChunk(b, i)] = g[AfterChunk(b, i)]
      BY <3>1
    <3> QED
      BY <3>2 DEF ChunkStep
  <2> QED
    BY <2>2, <2>3
<1> QED
  BY <1>2, <1>3

LEMMA ScanExists ==
  ASSUME NEW b \in Units
  PROVE  \E f : f = [i \in 1..Len(b) + 1 |-> ChunkStep(f, b, i)]
<1> DEFINE top == Len(b) + 1
           T == {k \in 1..top : \E f : \A i \in k..top : f[i] = ChunkStep(f, b, i)}
           U == {k \in 0..top - 1 : k + 1 \in T}
<1>0. Len(b) \in Nat
  BY LenProperties DEF Units
<1>1. top \in T
  <2> DEFINE f == [i \in 1..top |-> ChunkStep(<<>>, b, i)]
  <2>1. f[top] = ChunkStep(<<>>, b, top) /\ top \in 1..top
    BY <1>0
  <2> HIDE DEF f
  <2>2. ChunkStep(<<>>, b, top) = ChunkStep(f, b, top)
    BY DEF ChunkStep
  <2>3. \A i \in top..top : f[i] = ChunkStep(f, b, i)
    BY <1>0, <2>1, <2>2
  <2> QED
    BY <2>1, <2>3
<1>2. ASSUME NEW k \in 0..top - 1 - 1, k + 1 \in U
      PROVE  k \in U
  <2>1. k + 2 \in T /\ k + 1 \in 1..top /\ k \in 0..top - 1
    BY <1>0, <1>2
  <2>2. PICK f : \A i \in k + 2..top : f[i] = ChunkStep(f, b, i)
    BY <2>1
  <2> DEFINE g == [i \in 1..top |-> IF i = k + 1 THEN ChunkStep(f, b, i) ELSE f[i]]
  <2>3. /\ g[k + 1] = ChunkStep(f, b, k + 1)
        /\ \A i \in k + 2..top : g[i] = f[i]
    BY <1>0, <2>1
  <2> HIDE DEF g
  <2>4. ASSUME NEW i \in k + 1..top
        PROVE  g[i] = ChunkStep(g, b, i)
    <3>1. i \in 1..Len(b) + 1 /\ \A j \in 1..Len(b) + 1 : j > i => f[j] = g[j]
      BY <1>0, <2>1, <2>3
    <3>2. ChunkStep(f, b, i) = ChunkStep(g, b, i)
      BY <3>1, ChunkStepsAgree
    <3>3. g[i] = ChunkStep(f, b, i)
      BY <1>0, <2>1, <2>2, <2>3
    <3> QED
      BY <3>2, <3>3
  <2>5. \A i \in k + 1..top : g[i] = ChunkStep(g, b, i)
    BY <2>4
  <2>6. k + 1 \in T
    BY <2>1, <2>5
  <2> QED
    BY <2>1, <2>6
<1>3. top - 1 \in U /\ top - 1 \in Nat
  BY <1>0, <1>1
<1>4. \A k \in 0..top - 1 - 1 : k + 1 \in U => k \in U
  BY <1>2
<1>5. \A k \in 0..top - 1 : k \in U
  <2> HIDE DEF U, top
  <2> QED
    BY <1>3, <1>4, AllDownFrom
<1>6. PICK f : \A i \in 1..top : f[i] = ChunkStep(f, b, i)
  BY <1>0, <1>5
<1> DEFINE g == [i \in 1..top |-> f[i]]
<1>7. ASSUME NEW i \in 1..top
      PROVE  g[i] = ChunkStep(g, b, i)
  <2>1. \A j \in 1..Len(b) + 1 : j > i => f[j] = g[j]
    OBVIOUS
  <2> HIDE DEF g
  <2>2. ChunkStep(f, b, i) = ChunkStep(g, b, i)
    BY <2>1, ChunkStepsAgree
  <2>3. g[i] = f[i]
    BY DEF g
  <2> QED
    BY <1>6, <2>2, <2>3
<1>8. g = [i \in 1..top |-> ChunkStep(g, b, i)]
  <2>1. g = [i \in 1..top |-> g[i]]
    OBVIOUS
  <2> HIDE DEF g
  <2> QED
    BY <1>7, <2>1
<1> QED
  BY <1>8

\* What parse_chunked_body makes of a chunk, for what it makes of those after it.
Scans(f, b) == \A i \in 1..Len(b) + 1 : f[i] = ChunkStep(f, b, i)

LEMMA ParseScans ==
  ASSUME NEW b \in Units, NEW start
  PROVE  \E f : Scans(f, b) /\ ParseChunked(b, start) = f[start][0]
<1> DEFINE f == CHOOSE h : h = [i \in 1..Len(b) + 1 |-> ChunkStep(h, b, i)]
<1>1. f = [i \in 1..Len(b) + 1 |-> ChunkStep(f, b, i)]
  BY ScanExists
<1>2. ParseChunked(b, start) = f[start][0]
  BY DEF ParseChunked, ChunkStep, ChunkEnds, AfterChunk
<1> HIDE DEF f
<1>3. Scans(f, b)
  BY <1>1 DEF Scans
<1> QED
  BY <1>2, <1>3

\* From unit i on, b is scanned as the rest of a request of e units, with this data.
ScannedAs(f, b, i, before, e, data) ==
  /\ e <= Len(b) => f[i][before] = Result("COMPLETE", e, data)
  /\ Len(b) < e => \E c, d : f[i][before] = Result("BODY", c, d)

\* At the end of the buffer it waits.
LEMMA ScanNothing ==
  ASSUME NEW b \in Units, NEW f, Scans(f, b), NEW before \in 0..MaxBody
  PROVE  f[Len(b) + 1][before] = Wanting("BODY")
<1>1. Len(b) \in Nat
  BY LenProperties DEF Units
<1>2. f[Len(b) + 1] = ChunkStep(f, b, Len(b) + 1)
  BY <1>1 DEF Scans
<1> QED
  BY <1>2 DEF ChunkStep

\* The last chunk, and a trailer up to the blank line that is unit e.
LEMMA ScanLast ==
  ASSUME NEW u \in Units, NEW b \in Units, Starts(b, u), NEW f, Scans(f, b),
         NEW before \in 0..MaxBody, NEW i \in 1..Len(u) - 1, i <= Len(b) + 1,
         u[i].kind = "size", u[i].n = 0, u[Len(u)].kind = "crlf",
         \A j \in i + 1..Len(u) - 1 : u[j].kind # "crlf"
  PROVE  ScannedAs(f, b, i, before, Len(u), <<>>)
<1>1. /\ Len(b) \in Nat /\ DOMAIN b = 1..Len(b) /\ Len(u) \in Nat
      /\ \A j \in 1..Len(b) : j <= Len(u) => b[j] = u[j]
  BY BufferedUnits
<1>2. CASE i = Len(b) + 1
  <2>1. f[i][before] = Result("BODY", 0, <<>>)
    BY <1>2, ScanNothing DEF Wanting
  <2> QED
    BY <1>1, <1>2, <2>1 DEF ScannedAs
<1>3. CASE i <= Len(b)
  <2>1. b[i] = u[i] /\ i \in 1..Len(b)
    BY <1>1, <1>3
  <2>2. f[i] = ChunkStep(f, b, i) /\ i # Len(b) + 1
    BY <1>1, <2>1 DEF Scans
  <2>3. f[i][before] = IF ChunkEnds(b, i) = {} THEN Wanting("BODY")
                      ELSE Result("COMPLETE", First(ChunkEnds(b, i)), <<>>)
    BY <2>1, <2>2 DEF ChunkStep
  <2>4. \A j \in ChunkEnds(b, i) : j \in 1..Len(b) /\ j > i /\ b[j].kind = "crlf"
    BY <1>1 DEF ChunkEnds, Where
  <2>5. ASSUME NEW j \in ChunkEnds(b, i)
        PROVE  Len(u) <= j
    <3>1. j \in 1..Len(b) /\ j > i /\ b[j].kind = "crlf"
      BY <2>4
    <3>2. CASE j < Len(u)
      <4>1. j \in i + 1..Len(u) - 1 /\ b[j] = u[j]
        BY <1>1, <3>1, <3>2
      <4> QED
        BY <3>1, <4>1
    <3> QED
      BY <1>1, <3>1, <3>2
  <2>6. CASE Len(u) <= Len(b)
    <3>1. Len(u) \in 1..Len(b) /\ b[Len(u)] = u[Len(u)] /\ Len(u) > i
      BY <1>1, <2>6
    <3>2. Len(u) \in ChunkEnds(b, i)
      BY <1>1, <3>1 DEF ChunkEnds, Where
    <3>3. ChunkEnds(b, i) \subseteq Int
      BY <2>4
    <3>4. First(ChunkEnds(b, i)) = Len(u)
      BY <2>5, <3>2, <3>3, FirstIs
    <3> QED
      BY <1>1, <2>3, <2>6, <3>2, <3>4 DEF ScannedAs
  <2>7. CASE Len(b) < Len(u)
    <3>1. ChunkEnds(b, i) = {}
      BY <1>1, <2>4, <2>5, <2>7
    <3>2. f[i][before] = Result("BODY", 0, <<>>)
      BY <2>3, <3>1 DEF Wanting
    <3> QED
      BY <1>1, <2>7, <3>2 DEF ScannedAs
  <2> QED
    BY <1>1, <2>6, <2>7
<1> QED
  BY <1>1, <1>2, <1>3

\* A chunk within the limit, at unit i.
ChunkAt(u, i, one) ==
  /\ i \in 1..Len(u) /\ one \in Units /\ Len(one) # 0
  /\ u[i].kind = "size" /\ u[i].n = Len(one) /\ AfterChunk(u, i) <= Len(u)
  /\ \A j \in 1..Len(one) : u[i + j] = one[j]

\* A chunk that fits is skipped once it is there as a whole, and waited for until then.
LEMMA ChunkRead ==
  ASSUME NEW u \in Units, NEW b \in Units, Starts(b, u), NEW f, Scans(f, b),
         NEW before \in 0..MaxBody, NEW i, i <= Len(b) + 1, NEW one, ChunkAt(u, i, one),
         before + Len(one) <= MaxBody
  PROVE  /\ AfterChunk(u, i) > Len(b) + 1 => f[i][before] = Wanting("BODY")
         /\ AfterChunk(u, i) <= Len(b) + 1 =>
              \A s, c, d : f[AfterChunk(u, i)][before + Len(one)] = Result(s, c, d)
                            => f[i][before] = Result(s, c, one \o d)
<1>0. /\ i \in 1..Len(u) /\ one \in Units /\ Len(one) # 0
      /\ u[i].kind = "size" /\ u[i].n = Len(one) /\ AfterChunk(u, i) <= Len(u)
      /\ \A j \in 1..Len(one) : u[i + j] = one[j]
  BY DEF ChunkAt
<1>1. /\ Len(b) \in Nat /\ DOMAIN b = 1..Len(b) /\ Len(u) \in Nat /\ Len(one) \in Nat
      /\ i \in Nat /\ \A j \in 1..Len(b) : j <= Len(u) => b[j] = u[j]
  <2>1. Len(b) \in Nat /\ DOMAIN b = 1..Len(b) /\ Len(u) \in Nat
    BY BufferedUnits
  <2>2. \A j \in 1..Len(b) : j <= Len(u) => b[j] = u[j]
    BY BufferedUnits
  <2>3. Len(one) \in Nat
    BY <1>0, LenProperties DEF Units
  <2> QED
    BY <1>0, <2>1, <2>2, <2>3
<1>2. AfterChunk(u, i) = i + Len(one) + 2
  BY <1>0 DEF AfterChunk
<1>3. CASE i = Len(b) + 1
  <2>1. f[i][before] = Wanting("BODY") /\ AfterChunk(u, i) > Len(b) + 1
    BY <1>1, <1>2, <1>3, ScanNothing
  <2> QED
    BY <1>0, <1>1, <1>2, <2>1
<1>4. CASE i <= Len(b)
  <2>1. b[i] = u[i] /\ i \in 1..Len(b) /\ AfterChunk(b, i) = AfterChunk(u, i) /\ i # Len(b) + 1
    BY <1>0, <1>1, <1>4 DEF AfterChunk
  <2>2. f[i] = ChunkStep(f, b, i)
    BY <1>1, <2>1 DEF Scans
  <2>3. MaxBody \in Nat /\ ~(before + Len(one) > MaxBody) /\ before + Len(one) \in 0..MaxBody
    BY <1>1, ParserAssumption
  <2>4. f[i][before] = IF AfterChunk(u, i) > Len(b) + 1 THEN Wanting("BODY")
                      ELSE [f[AfterChunk(u, i)][before + Len(one)] EXCEPT
                              !.body = SubSeq(b, i + 1, i + Len(one)) \o @]
    BY <1>0, <2>1, <2>2, <2>3 DEF ChunkStep
  <2>5. CASE AfterChunk(u, i) > Len(b) + 1
    BY <1>0, <1>1, <1>2, <2>4, <2>5
  <2>6. CASE ~(AfterChunk(u, i) > Len(b) + 1)
    <3> DEFINE piece == SubSeq(b, i + 1, i + Len(one))
               rest == f[AfterChunk(u, i)][before + Len(one)]
    <3>1. piece = one
      <4>1. i + Len(one) <= Len(b)
        BY <1>0, <1>1, <1>2, <2>6
      <4>2. \A j \in 1..Len(one) : i + j \in 1..Len(b) /\ i + j <= Len(u)
        BY <1>0, <1>1, <1>2, <4>1
      <4>3. \A j \in 1..Len(one) : b[i + j] = one[j]
        BY <1>0, <1>1, <4>2
      <4> QED
        BY <1>0, <1>1, <4>1, <4>3, SubSeqIs
    <3>2. f[i][before] = [rest EXCEPT !.body = piece \o rest.body]
      BY <2>4, <2>6
    <3> HIDE DEF rest, piece
    <3>3. ASSUME NEW s, NEW c, NEW d, rest = Result(s, c, d)
          PROVE  f[i][before] = Result(s, c, one \o d)
      <4> DEFINE r == Result(s, c, d)
      <4>0. r.body = d
        BY DEF Result
      <4>1. \A e : [r EXCEPT !.body = e] = Result(s, c, e)
        BY DEF Result
      <4>2. rest = r
        BY <3>3
      <4> HIDE DEF r
      <4>3. [rest EXCEPT !.body = piece \o rest.body] = [r EXCEPT !.body = one \o d]
        BY <3>1, <4>0, <4>2
      <4> QED
        BY <3>2, <4>1, <4>3
    <3> QED
      BY <2>6, <3>3 DEF rest
  <2> QED
    BY <2>5, <2>6
<1> QED
  BY <1>0, <1>1, <1>3, <1>4

\* A chunk in front of the rest of a request.
LEMMA ScanChunk ==
  ASSUME NEW u \in Units, NEW b \in Units, Starts(b, u), NEW f, Scans(f, b),
         NEW before \in 0..MaxBody, NEW i, i <= Len(b) + 1, NEW one, ChunkAt(u, i, one),
         before + Len(one) <= MaxBody, NEW data,
         AfterChunk(u, i) <= Len(b) + 1 =>
           ScannedAs(f, b, AfterChunk(u, i), before + Len(one), Len(u), data)
  PROVE  ScannedAs(f, b, i, before, Len(u), one \o data)
<1>1. /\ Len(b) \in Nat /\ Len(u) \in Nat /\ Len(one) \in Nat /\ i \in Nat
      /\ AfterChunk(u, i) = i + Len(one) + 2 /\ AfterChunk(u, i) <= Len(u)
  BY BufferedUnits, LenProperties DEF Units, ChunkAt, AfterChunk
<1>2. CASE AfterChunk(u, i) > Len(b) + 1
  <2>1. f[i][before] = Result("BODY", 0, <<>>)
    BY <1>2, ChunkRead DEF Wanting
  <2>2. Len(b) < Len(u)
    BY <1>1, <1>2
  <2> QED
    BY <1>1, <2>1, <2>2 DEF ScannedAs
<1>3. CASE AfterChunk(u, i) <= Len(b) + 1
  <2>1. \A s, c, d : f[AfterChunk(u, i)][before + Len(one)] = Result(s, c, d)
                     => f[i][before] = Result(s, c, one \o d)
    BY <1>3, ChunkRead
  <2>2. CASE Len(u) <= Len(b)
    BY <1>1, <1>3, <2>1, <2>2 DEF ScannedAs
  <2>3. CASE Len(b) < Len(u)
    <3>1. PICK c, d : f[AfterChunk(u, i)][before + Len(one)] = Result("BODY", c, d)
      BY <1>3, <2>3 DEF ScannedAs
    <3>2. f[i][before] = Result("BODY", c, one \o d)
      BY <2>1, <3>1
    <3>3. \E x, y : f[i][before] = Result("BODY", x, y)
      BY <3>2
    <3> QED
      BY <1>1, <2>3, <3>3 DEF ScannedAs
  <2> QED
    BY <1>1, <2>2, <2>3
<1> QED
  BY <1>1, <1>2, <1>3

\* From unit i on, no request is complete.
NeverWhole(f, i, before) ==
  \E s \in {"BODY", "ERROR"} : \E c, d : f[i][before] = Result(s, c, d)

\* A chunk that makes the body too large is never read.
LEMMA ScanTooLarge ==
  ASSUME NEW u \in Units, NEW b \in Units, Starts(b, u), NEW f, Scans(f, b),
         NEW before \in 0..MaxBody, NEW i, i <= Len(b) + 1, NEW one, ChunkAt(u, i, one),
         ~(before + Len(one) <= MaxBody)
  PROVE  NeverWhole(f, i, before)
<1>1. /\ Len(b) \in Nat /\ DOMAIN b = 1..Len(b) /\ Len(u) \in Nat /\ Len(one) \in Nat
      /\ \A j \in 1..Len(b) : j <= Len(u) => b[j] = u[j]
      /\ i \in 1..Len(u) /\ u[i].kind = "size" /\ u[i].n = Len(one) /\ Len(one) # 0
  BY BufferedUnits, LenProperties DEF Units, ChunkAt
<1>2. MaxBody \in Nat
  BY ParserAssumption
<1>3. CASE i = Len(b) + 1
  <2>1. f[i][before] = Result("BODY", 0, <<>>)
    BY <1>3, ScanNothing DEF Wanting
  <2> QED
    BY <2>1 DEF NeverWhole
<1>4. CASE i <= Len(b)
  <2>1. b[i] = u[i] /\ i \in 1..Len(b) + 1 /\ i # Len(b) + 1 /\ before + Len(one) > MaxBody
    BY <1>1, <1>2, <1>4
  <2>2. f[i] = ChunkStep(f, b, i)
    BY <2>1 DEF Scans
  <2>3. f[i][before] = Result("ERROR", 0, <<>>)
    BY <1>1, <2>1, <2>2 DEF ChunkStep, Error
  <2> QED
    BY <2>3 DEF NeverWhole
<1> QED
  BY <1>1, <1>3, <1>4

\* Nor is what comes before a chunk that is never read.
LEMMA ScanBeforeRefused ==
  ASSUME NEW u \in Units, NEW b \in Units, Starts(b, u), NEW f, Scans(f, b),
         NEW before \in 0..MaxBody, NEW i, i <= Len(b) + 1, NEW one, ChunkAt(u, i, one),
         before + Len(one) <= MaxBody,
         AfterChunk(u, i) <= Len(b) + 1 => NeverWhole(f, AfterChunk(u, i), before + Len(one))
  PROVE  NeverWhole(f, i, before)
<1>1. /\ Len(b) \in Nat /\ Len(one) \in Nat /\ i \in Nat
      /\ AfterChunk(u, i) = i + Len(one) + 2
  BY BufferedUnits, LenProperties DEF Units, ChunkAt, AfterChunk
<1>2. CASE AfterChunk(u, i) > Len(b) + 1
  <2>1. f[i][before] = Result("BODY", 0, <<>>)
    BY <1>2, ChunkRead DEF Wanting
  <2> QED
    BY <2>1 DEF NeverWhole
<1>3. CASE AfterChunk(u, i) <= Len(b) + 1
  <2>1. \A s, c, d : f[AfterChunk(u, i)][before + Len(one)] = Result(s, c, d)
                     => f[i][before] = Result(s, c, one \o d)
    BY <1>3, ChunkRead
  <2>2. PICK s \in {"BODY", "ERROR"} :
               \E c, d : f[AfterChunk(u, i)][before + Len(one)] = Result(s, c, d)
    BY <1>3 DEF NeverWhole
  <2>3. PICK c, d : f[AfterChunk(u, i)][before + Len(one)] = Result(s, c, d)
    BY <2>2
  <2>4. f[i][before] = Result(s, c, one \o d)
    BY <2>1, <2>3
  <2> QED
    BY <2>4 DEF NeverWhole
<1> QED
  BY <1>1, <1>2, <1>3

-----------------------------------------------------------------------------
(* HttpParser: each kind of request.                                       *)

Names(head, kind) == \E i \in 1..Len(head) : head[i].kind = kind

\* What the header block of a request says, in terms of its lines.
LEMMA RequestHeader ==
  ASSUME NEW head \in Units, NEW rest \in Units, NEW body, NEW good,
         NEW r, r = Request(head, rest, body, good), ~Names(head, "blank")
  PROVE  /\ r.body = body /\ r.good = good
         /\ Len(r.units) = Len(head) + 2 + Len(rest)
         /\ HeaderOf(r.units, Len(head))
         /\ Passes(r.units, Len(head)) <=> Len(head) < MaxHeader /\ ~Names(head, "noise")
<1>1. r.body = body /\ r.good = good
  BY DEF Request
<1> DEFINE u == r.units
           h == Len(head)
<1>2. /\ u \in Units /\ h \in Nat /\ Len(rest) \in Nat /\ Len(u) = h + 2 + Len(rest)
      /\ u[1] = Unit("request") /\ u[h + 2] = Unit("blank")
      /\ \A i \in 1..h : u[i + 1] = head[i]
  <2>0. r = Request(head, rest, body, good)
    OBVIOUS
  <2>1. u = Request(head, rest, body, good).units
    BY <2>0
  <2> HIDE DEF u
  <2>2. h \in Nat /\ Len(rest) \in Nat
    BY LenProperties DEF Units
  <2>5. u \in Units
    BY <2>1, RequestLaidOut
  <2>6. Len(u) = h + 2 + Len(rest)
    <3>1. LaysOut(u, head, rest)
      BY <2>1, RequestLaidOut
    <3> QED
      BY <2>2, <3>1 DEF LaysOut
  <2>3. u[1] = Unit("request") /\ u[h + 2] = Unit("blank")
    BY <2>1, RequestLaidOut
  <2>4. \A i \in 1..h : u[i + 1] = head[i]
    BY <2>1, RequestLaidOut
  <2> QED
    BY <2>2, <2>3, <2>4, <2>5, <2>6
<1> HIDE DEF u
<1>3. \A i \in 2..h + 1 : i - 1 \in 1..h /\ u[i] = head[i - 1]
  <2> TAKE i \in 2..h + 1
  <2>1. i - 1 \in 1..h /\ (i - 1) + 1 = i
    BY <1>2
  <2> QED
    BY <1>2, <2>1
<1>4. \A i \in 2..h + 1 : u[i].kind # "blank"
  BY <1>3 DEF Names
<1>5. u[1].kind = "request" /\ u[h + 2].kind = "blank"
  BY <1>2 DEF Unit
<1>6. \A i \in 1..h + 1 : u[i].kind # "blank"
  <2> TAKE i \in 1..h + 1
  <2>1. i = 1 \/ i \in 2..h + 1
    BY <1>2
  <2> QED
    BY <1>4, <1>5, <2>1
<1>7. HeaderOf(u, h)
  BY <1>2, <1>5, <1>6 DEF HeaderOf
<1>8. (\A i \in 2..h + 1 : u[i].kind # "noise") <=> ~Names(head, "noise")
  <2>1. ASSUME NEW i \in 1..h
        PROVE  i + 1 \in 2..h + 1 /\ u[i + 1] = head[i]
    BY <1>2
  <2> QED
    BY <1>3, <2>1 DEF Names
<1> QED
  BY <1>1, <1>2, <1>5, <1>7, <1>8 DEF Passes, u

\* What frames its body.
LEMMA RequestFraming ==
  ASSUME NEW head \in Units, NEW rest \in Units, NEW body, NEW good,
         NEW r, r = Request(head, rest, body, good), ~Names(head, "blank"),
         NEW b \in Units, Starts(b, r.units), Len(head) + 2 <= Len(b)
  PROVE  LET framed == ParseFraming(b, Len(head) + 2) IN
         /\ Names(head, "badlength") /\ ~Names(head, "chunked") /\ ~Names(head, "length") =>
              framed = Error
         /\ ~Names(head, "badlength") /\ Names(head, "chunked") /\ Names(head, "length") =>
              framed = Error
         /\ ~Names(head, "badlength") /\ Names(head, "chunked") /\ ~Names(head, "length") =>
              framed = ParseChunked(b, Len(head) + 3)
         /\ ~Names(head, "badlength") /\ ~Names(head, "chunked") /\ Names(head, "length") =>
              framed = ParseSized(b, Len(head) + 3, b[First(Where(b, "length"))].n)
         /\ ~Names(head, "badlength") /\ ~Names(head, "chunked") /\ ~Names(head, "length") =>
              framed = Result("COMPLETE", Len(head) + 2, <<>>)
<1> DEFINE h == Len(head)
           u == r.units
<1>1. /\ u \in Units /\ h \in Nat /\ Len(rest) \in Nat /\ Len(u) = h + 2 + Len(rest)
      /\ \A i \in 1..h : u[i + 1] = head[i]
  BY SMTT(60), RequestLaidOut
<1>2. /\ Len(b) \in Nat /\ \A i \in 1..Len(b) : i <= Len(u) => b[i] = u[i]
  BY <1>1, BufferedUnits
<1> HIDE DEF u
<1>3. ASSUME NEW kind
      PROVE  (\E i \in 2..(h + 2) - 1 : b[i].kind = kind) <=> Names(head, kind)
  <2>1. ASSUME NEW i \in 2..(h + 2) - 1
        PROVE  i - 1 \in 1..h /\ b[i] = head[i - 1]
    <3>1. i - 1 \in 1..h /\ (i - 1) + 1 = i /\ i \in 1..Len(b) /\ i <= Len(u)
      BY <1>1, <1>2
    <3> QED
      BY <1>1, <1>2, <3>1
  <2>2. ASSUME NEW i \in 1..h
        PROVE  i + 1 \in 2..(h + 2) - 1 /\ b[i + 1] = head[i]
    <3>1. i + 1 \in 2..(h + 2) - 1 /\ i + 1 \in 1..Len(b) /\ i + 1 <= Len(u)
      BY <1>1, <1>2
    <3> QED
      BY <1>1, <1>2, <3>1
  <2> QED
    BY <2>1, <2>2 DEF Names
<1>4. /\ (\E i \in 2..(h + 2) - 1 : b[i].kind = "badlength") <=> Names(head, "badlength")
      /\ (\E i \in 2..(h + 2) - 1 : b[i].kind = "chunked") <=> Names(head, "chunked")
      /\ (\E i \in 2..(h + 2) - 1 : b[i].kind = "length") <=> Names(head, "length")
  BY <1>3
<1>5. (h + 2) + 1 = h + 3
  BY <1>1
<1> QED
  BY <1>4, <1>5 DEF ParseFraming

LEMMA NothingIsSeq == <<>> \in Units /\ Len(<<>>) = 0
BY EmptySeq DEF Units

LEMMA FieldsName ==
  ASSUME NEW f \in Nat, NEW kind, kind # "field"
  PROVE  ~Names(Fields(f), kind)
BY FieldsAre DEF Names, Unit

\* A request without a body.
LEMMA PlainTreated ==
  ASSUME NEW f \in Nat, NEW r, r = Request(Fields(f), <<>>, <<>>, f < MaxHeader)
  PROVE  Treated(r)
<1> DEFINE head == Fields(f)
<1>1. head \in Units /\ Len(head) = f
  BY FieldsAre
<1>2. /\ ~Names(head, "blank") /\ ~Names(head, "noise") /\ ~Names(head, "badlength")
      /\ ~Names(head, "chunked") /\ ~Names(head, "length")
  BY FieldsName
<1>3. r = Request(head, <<>>, <<>>, f < MaxHeader)
  OBVIOUS
<1> HIDE DEF head
<1>4. /\ r.body = <<>> /\ r.good = (f < MaxHeader)
      /\ Len(r.units) = f + 2 + 0 /\ HeaderOf(r.units, f)
      /\ Passes(r.units, f) <=> f < MaxHeader
  BY <1>1, <1>2, <1>3, NothingIsSeq, RequestHeader
<1>5. ASSUME NEW b \in Units, Starts(b, r.units), f + 2 <= Len(b)
      PROVE  ParseFraming(b, f + 2) = Result("COMPLETE", Len(r.units), <<>>)
  <2>1. ParseFraming(b, f + 2) = Result("COMPLETE", f + 2, <<>>)
    BY <1>1, <1>2, <1>3, <1>5, NothingIsSeq, RequestFraming
  <2> QED
    BY <1>4, <2>1
<1>6. ASSUME Passes(r.units, f)
      PROVE  Framed(r, f)
  <2> SUFFICES ASSUME NEW b \in Units, Starts(b, r.units), f + 2 <= Len(b)
               PROVE  /\ r.good /\ Len(r.units) <= Len(b) =>
                           ParseFraming(b, f + 2) = Result("COMPLETE", Len(r.units), r.body)
                      /\ r.good /\ Len(b) < Len(r.units) =>
                           ParseFraming(b, f + 2).state \notin {"COMPLETE", "ERROR"}
                      /\ ~r.good => ParseFraming(b, f + 2).state # "COMPLETE"
    BY DEF Framed
  <2>1. Len(b) \in Nat
    BY LenProperties DEF Units
  <2>2. ParseFraming(b, f + 2) = Result("COMPLETE", Len(r.units), <<>>)
    BY <1>5
  <2>3. f < MaxHeader /\ r.body = <<>> /\ ~(Len(b) < Len(r.units))
    BY <1>4, <1>6, <2>1
  <2>4. r.good
    BY <1>4, <2>3
  <2> QED
    BY <2>2, <2>3, <2>4
<1> QED
  BY <1>4, <1>6, FramedIsTreated

\* A request the server is to refuse, once it has the header block.
LEMMA NeverFramed ==
  ASSUME NEW r, NEW h, ~r.good,
         \A b \in Units : Starts(b, r.units) /\ h + 2 <= Len(b) =>
           ParseFraming(b, h + 2).state # "COMPLETE"
  PROVE  Framed(r, h)
BY DEF Framed

\* An unreadable header line, a length that is no number, a length beside chunks: what
\* follows is not read as a request.
LEMMA MalformedTreated ==
  ASSUME NEW head \in Units, NEW rest \in Units, NEW r, r = Request(head, rest, <<>>, FALSE),
         ~Names(head, "blank"),
         \/ Names(head, "noise")
         \/ Names(head, "badlength") /\ ~Names(head, "chunked") /\ ~Names(head, "length")
         \/ ~Names(head, "badlength") /\ Names(head, "chunked") /\ Names(head, "length")
  PROVE  Treated(r)
<1>1. /\ ~r.good /\ HeaderOf(r.units, Len(head))
      /\ Passes(r.units, Len(head)) => ~Names(head, "noise")
  BY ZenonT(30), RequestHeader
<1>2. ASSUME Passes(r.units, Len(head))
      PROVE  Framed(r, Len(head))
  <2>1. ASSUME NEW b \in Units, Starts(b, r.units), Len(head) + 2 <= Len(b)
        PROVE  ParseFraming(b, Len(head) + 2).state # "COMPLETE"
    <3>1. ParseFraming(b, Len(head) + 2) = Error
      BY <1>1, <1>2, <2>1, RequestFraming
    <3> QED
      BY <3>1 DEF Error, Result
  <2> QED
    BY <1>1, <2>1, NeverFramed
<1> QED
  BY <1>1, <1>2, FramedIsTreated

LEMMA SingleNames ==
  ASSUME NEW u \in [kind : Kinds, n : Nat], NEW kind
  PROVE  Names(<<u>>, kind) <=> u.kind = kind
BY Single DEF Names

LEMMA LengthLine ==
  ASSUME NEW f \in Nat, NEW n \in Nat
  PROVE  LET head == Fields(f) \o <<Number("length", n)>> IN
         /\ head \in Units /\ Len(head) = f + 1
         /\ \A i \in 1..f : head[i].kind = "field"
         /\ head[f + 1] = Number("length", n)
<1> DEFINE line == Number("length", n)
           a == Fields(f)
           z == <<line>>
           head == a \o z
<1>1. line \in [kind : Kinds, n : Nat]
  <2>1. "length" \in Kinds
    BY DEF Kinds
  <2> QED
    BY <2>1, UnitsAre
<1>2. z \in Units /\ Len(z) = 1 /\ z[1] = line
  BY <1>1, Single
<1>3. a \in Units /\ Len(a) = f /\ \A i \in 1..f : a[i] = Unit("field")
  BY FieldsAre
<1> HIDE DEF a, z, line
<1>4. /\ head \in Units /\ Len(head) = Len(a) + Len(z)
      /\ \A i \in 1..Len(a) : head[i] = a[i]
      /\ \A i \in 1..Len(z) : head[Len(a) + i] = z[i]
  BY <1>2, <1>3, LaidOut
<1> HIDE DEF head
<1>5. Len(head) = f + 1 /\ head[f + 1] = line
  BY <1>2, <1>3, <1>4
<1>6. \A i \in 1..f : head[i].kind = "field"
  BY <1>3, <1>4 DEF Unit
<1> QED
  BY <1>4, <1>5, <1>6 DEF head, a, z, line

\* A request with a Content-Length.
LEMMA SizedTreated ==
  ASSUME NEW f \in Nat, NEW n \in Nat, NEW plain \in BOOLEAN, NEW r, r = Sized(f, n, plain)
  PROVE  Treated(r)
<1> DEFINE head == Fields(f) \o <<Number("length", n)>>
           rest == Payload(n, plain)
           good == n <= MaxBody /\ f + 2 <= MaxHeader
<1>1. /\ head \in Units /\ Len(head) = f + 1
      /\ \A i \in 1..f : head[i].kind = "field"
      /\ head[f + 1] = Number("length", n)
  BY LengthLine
<1>2. rest \in Units /\ Len(rest) = n
  BY PayloadIs
<1>3. r = Request(head, rest, rest, good)
  BY DEF Sized
<1>4. MaxBody \in Nat /\ MaxHeader \in Nat
  BY ParserAssumption
<1> HIDE DEF head, rest
<1>5. head[f + 1].kind = "length" /\ head[f + 1].n = n
  BY <1>1 DEF Number
<1>6. \A i \in 1..Len(head) : i \in 1..f \/ i = f + 1
  BY <1>1
<1>7. Names(head, "length")
  BY <1>1, <1>5 DEF Names
<1>8. /\ ~Names(head, "blank") /\ ~Names(head, "noise") /\ ~Names(head, "badlength")
      /\ ~Names(head, "chunked")
  BY <1>1, <1>5, <1>6 DEF Names
<1>9. /\ r.body = rest /\ r.good = good
      /\ Len(r.units) = f + 3 + n /\ HeaderOf(r.units, f + 1)
      /\ Passes(r.units, f + 1) <=> f + 1 < MaxHeader
  <2>1. /\ r.body = rest /\ r.good = good
        /\ Len(r.units) = Len(head) + 2 + Len(rest)
        /\ HeaderOf(r.units, Len(head))
        /\ Passes(r.units, Len(head)) <=> Len(head) < MaxHeader /\ ~Names(head, "noise")
    BY <1>1, <1>2, <1>3, <1>8, RequestHeader
  <2> HIDE DEF good
  <2>2. Len(head) + 2 + Len(rest) = f + 3 + n
    BY <1>1, <1>2
  <2> QED
    BY <1>1, <1>8, <2>1, <2>2
<1>10. /\ r.units \in Units
       /\ \A i \in 1..f + 1 : r.units[i + 1] = head[i]
       /\ r.units[1] = Unit("request")
       /\ \A j \in 1..n : r.units[f + 3 + j] = rest[j]
  <2> HIDE DEF good
  <2>1. r.units = Request(head, rest, rest, good).units
    BY <1>3
  <2>2. /\ r.units \in Units
        /\ \A i \in 1..Len(head) : r.units[i + 1] = head[i]
        /\ r.units[1] = Unit("request")
        /\ \A i \in 1..Len(rest) : r.units[Len(head) + 2 + i] = rest[i]
    <3>1. r.units \in Units /\ r.units[1] = Unit("request")
      BY <1>1, <1>2, <2>1, RequestLaidOut
    <3>2. \A i \in 1..Len(head) : r.units[i + 1] = head[i]
      BY <1>1, <1>2, <2>1, RequestLaidOut
    <3>3. LaysOut(r.units, head, rest)
      BY <1>1, <1>2, <2>1, RequestLaidOut
    <3> QED
      BY <3>1, <3>2, <3>3 DEF LaysOut
  <2>3. Len(head) + 2 = f + 3
    BY <1>1
  <2> QED
    BY <1>1, <1>2, <2>2, <2>3
<1>11. ASSUME NEW b \in Units, Starts(b, r.units), f + 3 <= Len(b)
       PROVE  ParseFraming(b, f + 3) = ParseSized(b, f + 4, n)
  <2>1. /\ Len(b) \in Nat /\ DOMAIN b = 1..Len(b)
        /\ \A i \in 1..Len(b) : i <= Len(r.units) => b[i] = r.units[i]
    BY <1>10, <1>11, BufferedUnits
  <2>2. \A i \in 1..f + 2 : i \in 1..Len(b) /\ b[i] = r.units[i]
    BY <1>9, <1>11, <2>1
  <2>3. b[f + 2] = head[f + 1]
    BY <1>10, <2>2
  <2>4. ASSUME NEW i \in 1..f + 1
        PROVE  b[i].kind # "length"
    <3>1. CASE i = 1
      BY <1>10, <2>2, <3>1 DEF Unit
    <3>2. CASE i # 1
      <4>1. i - 1 \in 1..f /\ (i - 1) + 1 = i /\ i \in 1..f + 2 /\ i - 1 \in 1..f + 1
        BY <3>2
      <4>2. b[i] = head[i - 1]
        BY <1>10, <2>2, <4>1
      <4> QED
        BY <1>1, <4>1, <4>2
    <3> QED
      BY <3>1, <3>2
  <2>5. First(Where(b, "length")) = f + 2
    <3>1. f + 2 \in Where(b, "length")
      BY <1>5, <2>1, <2>2, <2>3 DEF Where
    <3>2. Where(b, "length") \subseteq Int
      BY <2>1 DEF Where
    <3>3. \A j \in Where(b, "length") : j \in 1..Len(b) /\ ~(j \in 1..f + 1)
      BY <2>1, <2>4 DEF Where
    <3>4. \A j \in Where(b, "length") : f + 2 <= j
      BY <2>1, <3>3
    <3> QED
      BY <3>1, <3>2, <3>4, FirstIs
  <2>6. b[First(Where(b, "length"))].n = n
    BY <1>5, <2>3, <2>5
  <2>7. Len(head) + 2 = f + 3 /\ Len(head) + 3 = f + 4
    BY <1>1
  <2>8. ParseFraming(b, Len(head) + 2) =
          ParseSized(b, Len(head) + 3, b[First(Where(b, "length"))].n)
    <3> HIDE DEF good
    <3>1. Len(head) + 2 <= Len(b)
      BY <1>11, <2>7
    <3> QED
      BY <1>1, <1>2, <1>3, <1>7, <1>8, <1>11, <3>1, RequestFraming
  <2> QED
    BY <2>6, <2>7, <2>8
<1>12. ASSUME NEW b \in Units, Starts(b, r.units), f + 3 <= Len(b), n <= MaxBody,
              f + 3 + n <= Len(b)
       PROVE  ParseSized(b, f + 4, n) = Result("COMPLETE", f + 3 + n, rest)
  <2>1. /\ Len(b) \in Nat
        /\ \A i \in 1..Len(b) : i <= Len(r.units) => b[i] = r.units[i]
    BY <1>10, <1>12, BufferedUnits
  <2>2. \A j \in 1..n : f + 3 + j \in 1..Len(b) /\ f + 3 + j <= Len(r.units)
    BY <1>9, <1>12, <2>1
  <2>3. \A j \in 1..Len(rest) : b[f + 3 + j] = rest[j]
    BY <1>2, <1>10, <2>1, <2>2
  <2>4. SubSeq(b, (f + 3) + 1, (f + 3) + Len(rest)) = rest
    BY <1>2, <1>12, <2>3, SubSeqIs
  <2>5. (f + 3) + 1 = f + 4 /\ f + 4 + n - 1 = f + 3 + n
    OBVIOUS
  <2>6. ~(n > MaxBody) /\ ~(Len(b) < f + 4 + n - 1)
    BY <1>4, <1>12, <2>1, <2>5
  <2> QED
    BY <1>2, <2>4, <2>5, <2>6 DEF ParseSized
<1>13. ASSUME NEW b \in Units, n <= MaxBody, Len(b) < f + 3 + n
       PROVE  ParseSized(b, f + 4, n) = Wanting("BODY")
  <2>1. Len(b) \in Nat
    BY LenProperties DEF Units
  <2>2. ~(n > MaxBody) /\ Len(b) < f + 4 + n - 1
    BY <1>4, <1>13, <2>1
  <2> QED
    BY <2>2 DEF ParseSized
<1>14. ASSUME NEW b, ~(n <= MaxBody)
       PROVE  ParseSized(b, f + 4, n) = Error
  BY <1>4, <1>14 DEF ParseSized
<1>15. ASSUME Passes(r.units, f + 1)
       PROVE  Framed(r, f + 1)
  <2>1. good <=> n <= MaxBody
    BY <1>4, <1>9, <1>15
  <2>2. r.good <=> n <= MaxBody
    <3> HIDE DEF good
    <3> QED
      BY <1>9, <2>1
  <2> SUFFICES ASSUME NEW b \in Units, Starts(b, r.units), (f + 1) + 2 <= Len(b)
               PROVE  /\ r.good /\ Len(r.units) <= Len(b) =>
                           ParseFraming(b, (f + 1) + 2) = Result("COMPLETE", Len(r.units), r.body)
                      /\ r.good /\ Len(b) < Len(r.units) =>
                           ParseFraming(b, (f + 1) + 2).state \notin {"COMPLETE", "ERROR"}
                      /\ ~r.good => ParseFraming(b, (f + 1) + 2).state # "COMPLETE"
    BY DEF Framed
  <2>3. f + 3 <= Len(b) /\ (f + 1) + 2 = f + 3
    OBVIOUS
  <2>4. ParseFraming(b, (f + 1) + 2) = ParseSized(b, f + 4, n)
    BY <1>11, <2>3
  <2>5. r.good /\ Len(r.units) <= Len(b) =>
          ParseSized(b, f + 4, n) = Result("COMPLETE", Len(r.units), r.body)
    BY <1>9, <1>12, <2>2, <2>3
  <2>6. r.good /\ Len(b) < Len(r.units) => ParseSized(b, f + 4, n) = Wanting("BODY")
    BY <1>9, <1>13, <2>2
  <2>7. ~r.good => ParseSized(b, f + 4, n) = Error
    BY <1>14, <2>2
  <2> QED
    BY <2>4, <2>5, <2>6, <2>7 DEF Wanting, Error, Result
<1>16. r.good => Passes(r.units, f + 1)
  <2>1. good => f + 1 < MaxHeader
    BY <1>4
  <2> HIDE DEF good
  <2> QED
    BY <1>9, <2>1
<1> QED
  BY <1>9, <1>15, <1>16, FramedIsTreated

\* A chunk on the wire.
LEMMA ChunkIs ==
  ASSUME NEW data \in Units
  PROVE  /\ Chunk(data) \in Units /\ Len(data) \in Nat /\ Len(Chunk(data)) = Len(data) + 2
         /\ Chunk(data)[1] = Number("size", Len(data))
         /\ \A j \in 1..Len(data) : Chunk(data)[1 + j] = data[j]
<1> DEFINE first == Number("size", Len(data))
           a == <<first>>
           z == <<Unit("crlf")>>
           ad == a \o data
           all == ad \o z
<1>1. Len(data) \in Nat
  BY LenProperties DEF Units
<1>2. first \in [kind : Kinds, n : Nat] /\ Unit("crlf") \in [kind : Kinds, n : Nat]
  <2>1. "size" \in Kinds /\ "crlf" \in Kinds
    BY DEF Kinds
  <2> QED
    BY <1>1, <2>1, UnitsAre
<1>3. a \in Units /\ Len(a) = 1 /\ a[1] = first /\ z \in Units /\ Len(z) = 1
  BY <1>2, Single
<1>4. Chunk(data) = all
  BY DEF Chunk
<1> HIDE DEF a, z, first
<1>5. /\ ad \in Units /\ Len(ad) = Len(a) + Len(data)
      /\ \A i \in 1..Len(a) : ad[i] = a[i]
      /\ \A i \in 1..Len(data) : ad[Len(a) + i] = data[i]
  BY <1>3, LaidOut
<1> HIDE DEF ad
<1>6. /\ all \in Units /\ Len(all) = Len(ad) + Len(z)
      /\ \A i \in 1..Len(ad) : all[i] = ad[i]
  BY <1>3, <1>5, LaidOut
<1> HIDE DEF all
<1>7. Len(all) = Len(data) + 2
  BY <1>1, <1>3, <1>5, <1>6
<1>8. 1 \in 1..Len(a) /\ 1 \in 1..Len(ad)
  BY <1>1, <1>3, <1>5
<1>9. all[1] = first
  BY <1>3, <1>5, <1>6, <1>8
<1>10. ASSUME NEW j \in 1..Len(data)
       PROVE  all[1 + j] = data[j]
  <2>1. 1 + j \in 1..Len(ad) /\ ad[1 + j] = data[j]
    BY <1>1, <1>3, <1>5
  <2> QED
    BY <1>6, <2>1
<1> QED
  BY <1>1, <1>4, <1>6, <1>7, <1>9, <1>10 DEF first

\* A chunk, unless there is no data.
ChunkOf(data) == IF data = <<>> THEN <<>> ELSE Chunk(data)

\* Where the parts of a chunked body are.
LEMMA ChunkedLaidOut ==
  ASSUME NEW one \in Units, NEW two \in Units, NEW trailer \in Units, NEW rest,
         rest = ChunkOf(one) \o ChunkOf(two) \o <<Number("size", 0)>> \o trailer \o <<Unit("crlf")>>
  PROVE  /\ ChunkOf(one) \in Units /\ ChunkOf(two) \in Units /\ rest \in Units
         /\ LET m == Len(ChunkOf(one))
                n == m + Len(ChunkOf(two))
            IN /\ \A j \in 1..m : rest[j] = ChunkOf(one)[j]
               /\ \A j \in 1..Len(ChunkOf(two)) : rest[m + j] = ChunkOf(two)[j]
               /\ rest[n + 1] = Number("size", 0)
               /\ \A j \in 1..Len(trailer) : rest[n + 1 + j] = trailer[j]
               /\ Len(rest) = n + 1 + Len(trailer) + 1
               /\ rest[Len(rest)] = Unit("crlf")
<1> DEFINE size == Number("size", 0)
           crlf == Unit("crlf")
           a == ChunkOf(one)
           b == ChunkOf(two)
           c == <<size>>
           d == <<crlf>>
           ab == a \o b
           abc == ab \o c
           abct == abc \o trailer
           all == abct \o d
<1>1. a \in Units /\ b \in Units
  BY ChunkIs, NothingIsSeq DEF ChunkOf
<1>2. size \in [kind : Kinds, n : Nat] /\ crlf \in [kind : Kinds, n : Nat]
  <2>1. "size" \in Kinds /\ "crlf" \in Kinds
    BY DEF Kinds
  <2> QED
    BY <2>1, UnitsAre
<1>3. c \in Units /\ Len(c) = 1 /\ c[1] = size /\ d \in Units /\ Len(d) = 1 /\ d[1] = crlf
  BY <1>2, Single
<1>4. rest = all
  OBVIOUS
<1> HIDE DEF a, b, c, d, size, crlf
<1>5. /\ ab \in Units /\ Len(ab) = Len(a) + Len(b) /\ Len(a) \in Nat /\ Len(b) \in Nat
      /\ \A i \in 1..Len(a) : ab[i] = a[i]
      /\ \A i \in 1..Len(b) : ab[Len(a) + i] = b[i]
  BY <1>1, LaidOut
<1> HIDE DEF ab
<1>6. /\ abc \in Units /\ Len(abc) = Len(ab) + Len(c)
      /\ \A i \in 1..Len(ab) : abc[i] = ab[i]
      /\ \A i \in 1..Len(c) : abc[Len(ab) + i] = c[i]
  BY <1>3, <1>5, LaidOut
<1> HIDE DEF abc
<1>7. /\ abct \in Units /\ Len(abct) = Len(abc) + Len(trailer) /\ Len(trailer) \in Nat
      /\ \A i \in 1..Len(abc) : abct[i] = abc[i]
      /\ \A i \in 1..Len(trailer) : abct[Len(abc) + i] = trailer[i]
  BY <1>6, LaidOut
<1> HIDE DEF abct
<1>8. /\ all \in Units /\ Len(all) = Len(abct) + Len(d)
      /\ \A i \in 1..Len(abct) : all[i] = abct[i]
      /\ \A i \in 1..Len(d) : all[Len(abct) + i] = d[i]
  BY <1>3, <1>7, LaidOut
<1> HIDE DEF all
<1> DEFINE m == Len(a)
           n == m + Len(b)
<1>9. Len(ab) = n /\ Len(abc) = n + 1 /\ Len(abct) = n + 1 + Len(trailer) /\ m \in Nat /\ n \in Nat
  BY <1>3, <1>5, <1>6, <1>7
<1>10. ASSUME NEW j \in 1..m
       PROVE  all[j] = a[j]
  <2>1. j \in 1..Len(ab) /\ j \in 1..Len(abc) /\ j \in 1..Len(abct)
    BY <1>5, <1>7, <1>9
  <2> QED
    BY <1>5, <1>6, <1>7, <1>8, <2>1
<1>11. ASSUME NEW j \in 1..Len(b)
       PROVE  all[m + j] = b[j]
  <2>1. m + j \in 1..Len(ab) /\ m + j \in 1..Len(abc) /\ m + j \in 1..Len(abct)
    BY <1>5, <1>7, <1>9
  <2>2. all[m + j] = ab[m + j]
    BY <1>6, <1>7, <1>8, <2>1
  <2> QED
    BY <1>5, <2>2
<1>12. all[n + 1] = size
  <2>1. n + 1 \in 1..Len(abc) /\ n + 1 \in 1..Len(abct) /\ 1 \in 1..Len(c)
    BY <1>3, <1>7, <1>9
  <2>2. all[n + 1] = abc[n + 1]
    BY <1>7, <1>8, <2>1
  <2>3. abc[n + 1] = c[1]
    BY <1>6, <1>9, <2>1
  <2> QED
    BY <1>3, <2>2, <2>3
<1>13. ASSUME NEW j \in 1..Len(trailer)
       PROVE  all[n + 1 + j] = trailer[j]
  <2>1. n + 1 + j \in 1..Len(abct)
    BY <1>7, <1>9
  <2>2. abct[n + 1 + j] = trailer[j]
    BY <1>7, <1>9
  <2> QED
    BY <1>8, <2>1, <2>2
<1>14. Len(all) = n + 1 + Len(trailer) + 1
  BY <1>3, <1>7, <1>8, <1>9
<1>15. all[Len(all)] = crlf
  <2>1. 1 \in 1..Len(d) /\ Len(all) = Len(abct) + 1
    BY <1>3, <1>8
  <2>2. all[Len(abct) + 1] = d[1]
    BY <1>8, <2>1
  <2> QED
    BY <1>3, <2>1, <2>2
<1>16. rest \in Units
  BY <1>4, <1>8
<1> HIDE DEF m, n
<1>17. /\ \A j \in 1..m : rest[j] = a[j]
       /\ \A j \in 1..Len(b) : rest[m + j] = b[j]
       /\ rest[n + 1] = size
       /\ \A j \in 1..Len(trailer) : rest[n + 1 + j] = trailer[j]
       /\ Len(rest) = n + 1 + Len(trailer) + 1
       /\ rest[Len(rest)] = crlf
  BY <1>4, <1>10, <1>11, <1>12, <1>13, <1>14, <1>15
<1> QED
  BY <1>1, <1>16, <1>17 DEF m, n, a, b, size, crlf

\* A chunk of a request is where the scan finds it: size, data and CRLF.
LEMMA ChunkStands ==
  ASSUME NEW u \in Units, NEW k \in Nat, NEW data \in Units, data # <<>>,
         \A j \in 1..Len(ChunkOf(data)) : u[k + j] = ChunkOf(data)[j],
         k + Len(ChunkOf(data)) < Len(u)
  PROVE  /\ ChunkAt(u, k + 1, data) /\ Len(ChunkOf(data)) = Len(data) + 2
         /\ AfterChunk(u, k + 1) = k + Len(ChunkOf(data)) + 1
<1>1. /\ Len(data) \in Nat /\ Len(u) \in Nat /\ Len(data) # 0
  BY LenProperties, EmptySeq DEF Units
<1>2. ChunkOf(data) = Chunk(data)
  BY DEF ChunkOf
<1>3. /\ Len(ChunkOf(data)) = Len(data) + 2
      /\ ChunkOf(data)[1] = Number("size", Len(data))
      /\ \A j \in 1..Len(data) : ChunkOf(data)[1 + j] = data[j]
  BY <1>2, ChunkIs
<1>4. u[k + 1].kind = "size" /\ u[k + 1].n = Len(data)
  <2>1. u[k + 1] = Number("size", Len(data))
    BY <1>1, <1>3
  <2> QED
    BY <2>1 DEF Number
<1>5. \A j \in 1..Len(data) : u[(k + 1) + j] = data[j]
  <2> TAKE j \in 1..Len(data)
  <2>1. 1 + j \in 1..Len(ChunkOf(data)) /\ k + (1 + j) = (k + 1) + j
    BY <1>1, <1>3
  <2>2. u[k + (1 + j)] = ChunkOf(data)[1 + j]
    BY <2>1
  <2> QED
    BY <1>3, <2>1, <2>2
<1>6. AfterChunk(u, k + 1) = k + Len(ChunkOf(data)) + 1 /\ AfterChunk(u, k + 1) <= Len(u)
  BY <1>1, <1>3, <1>4 DEF AfterChunk
<1>7. k + 1 \in 1..Len(u)
  BY <1>1, <1>3
<1> QED
  BY <1>1, <1>3, <1>4, <1>5, <1>6, <1>7 DEF ChunkAt

\* A chunk that may be missing, in front of the rest of a request.
LEMMA ScanChunkOf ==
  ASSUME NEW u \in Units, NEW k \in Nat, NEW one \in Units,
         \A j \in 1..Len(ChunkOf(one)) : u[k + j] = ChunkOf(one)[j],
         k + Len(ChunkOf(one)) < Len(u),
         NEW b \in Units, Starts(b, u), NEW f, Scans(f, b),
         NEW before \in 0..MaxBody, k + 1 <= Len(b) + 1, NEW data \in Units,
         before + Len(one) <= MaxBody,
         NEW next, next = k + Len(ChunkOf(one)) + 1,
         next <= Len(b) + 1 => ScannedAs(f, b, next, before + Len(one), Len(u), data)
  PROVE  ScannedAs(f, b, k + 1, before, Len(u), one \o data)
<1>1. CASE one = <<>>
  <2>1. /\ Len(ChunkOf(one)) = 0 /\ Len(one) = 0 /\ one \o data = data
    BY <1>1, NothingIsSeq, ConcatEmptySeq DEF ChunkOf, Units
  <2>2. next = k + 1 /\ before + Len(one) = before
    BY <2>1
  <2> QED
    BY <2>1, <2>2
<1>2. CASE one # <<>>
  <2>1. ChunkAt(u, k + 1, one) /\ AfterChunk(u, k + 1) = next
    BY <1>2, ChunkStands
  <2> QED
    BY <2>1, ScanChunk
<1> QED
  BY <1>1, <1>2

\* A body is never whole when a chunk of it, or a later one, is too large.
LEMMA NeverWholeFrom ==
  ASSUME NEW u \in Units, NEW k \in Nat, NEW one \in Units,
         \A j \in 1..Len(ChunkOf(one)) : u[k + j] = ChunkOf(one)[j],
         k + Len(ChunkOf(one)) < Len(u),
         NEW b \in Units, Starts(b, u), NEW f, Scans(f, b),
         NEW before \in 0..MaxBody, k + 1 <= Len(b) + 1,
         NEW next, next = k + Len(ChunkOf(one)) + 1,
         \/ one # <<>> /\ ~(before + Len(one) <= MaxBody)
         \/ /\ before + Len(one) <= MaxBody
            /\ next <= Len(b) + 1 => NeverWhole(f, next, before + Len(one))
  PROVE  NeverWhole(f, k + 1, before)
<1>1. CASE one = <<>>
  <2>1. Len(ChunkOf(one)) = 0 /\ Len(one) = 0
    BY <1>1, NothingIsSeq DEF ChunkOf
  <2>2. next = k + 1 /\ before + Len(one) = before
    BY <2>1
  <2> QED
    BY <1>1, <2>2
<1>2. CASE one # <<>>
  <2>1. ChunkAt(u, k + 1, one) /\ AfterChunk(u, k + 1) = next
    BY <1>2, ChunkStands
  <2>2. CASE ~(before + Len(one) <= MaxBody)
    BY <2>1, <2>2, ScanTooLarge
  <2>3. CASE before + Len(one) <= MaxBody
    BY <2>1, <2>3, ScanBeforeRefused
  <2> QED
    BY <2>2, <2>3
<1> QED
  BY <1>1, <1>2

\* What parse_chunked_body makes of a body of up to two chunks.
LEMMA ChunksScanned ==
  ASSUME NEW u \in Units, NEW one \in Units, NEW two \in Units, NEW trailer \in Units,
         NEW rest,
         rest = ChunkOf(one) \o ChunkOf(two) \o <<Number("size", 0)>> \o trailer \o <<Unit("crlf")>>,
         Len(u) = 3 + Len(rest), \A j \in 1..Len(rest) : u[3 + j] = rest[j],
         \A j \in 1..Len(trailer) : trailer[j].kind # "crlf",
         NEW b \in Units, Starts(b, u), 3 <= Len(b), NEW f, Scans(f, b)
  PROVE  /\ Len(one) + Len(two) <= MaxBody => ScannedAs(f, b, 4, 0, Len(u), one \o two)
         /\ ~(Len(one) + Len(two) <= MaxBody) => NeverWhole(f, 4, 0)
<1> DEFINE m == Len(ChunkOf(one))
           n == m + Len(ChunkOf(two))
           t == Len(trailer)
<1>1. /\ m \in Nat /\ Len(ChunkOf(two)) \in Nat /\ t \in Nat /\ Len(one) \in Nat /\ Len(two) \in Nat
      /\ Len(b) \in Nat /\ MaxBody \in Nat /\ Len(rest) \in Nat
  <2>1. ChunkOf(one) \in Units /\ ChunkOf(two) \in Units /\ rest \in Units
    BY ChunkedLaidOut
  <2>2. MaxBody \in Nat
    BY ParserAssumption
  <2> QED
    BY <2>1, <2>2, LenProperties DEF Units
<1>2. /\ \A j \in 1..m : rest[j] = ChunkOf(one)[j]
      /\ \A j \in 1..Len(ChunkOf(two)) : rest[m + j] = ChunkOf(two)[j]
      /\ rest[n + 1] = Number("size", 0)
      /\ \A j \in 1..t : rest[n + 1 + j] = trailer[j]
      /\ Len(rest) = n + 1 + t + 1
      /\ rest[Len(rest)] = Unit("crlf")
  <2>1. \A j \in 1..m : rest[j] = ChunkOf(one)[j]
    BY ChunkedLaidOut
  <2>2. \A j \in 1..Len(ChunkOf(two)) : rest[m + j] = ChunkOf(two)[j]
    BY ChunkedLaidOut
  <2>3. rest[n + 1] = Number("size", 0)
    BY ChunkedLaidOut
  <2>4. \A j \in 1..t : rest[n + 1 + j] = trailer[j]
    BY ChunkedLaidOut
  <2>5. Len(rest) = n + 1 + t + 1
    BY <1>1, ChunkedLaidOut
  <2>6. rest[Len(rest)] = Unit("crlf")
    BY ChunkedLaidOut
  <2> HIDE DEF m, n, t
  <2> QED
    BY <2>1, <2>2, <2>3, <2>4, <2>5, <2>6
<1>3. n \in Nat /\ Len(u) = n + t + 5
  BY <1>2, <1>1
<1>4. \A j \in 1..m : u[3 + j] = ChunkOf(one)[j]
  <2>1. \A j \in 1..m : j \in 1..Len(rest)
    BY <1>2, <1>1
  <2> QED
    BY <1>2, <2>1
<1>5. \A j \in 1..Len(ChunkOf(two)) : u[(3 + m) + j] = ChunkOf(two)[j]
  <2> TAKE j \in 1..Len(ChunkOf(two))
  <2>1. m + j \in 1..Len(rest) /\ 3 + (m + j) = (3 + m) + j
    BY <1>2, <1>1
  <2> QED
    BY <1>2, <2>1
<1>6. ASSUME NEW before \in 0..MaxBody, n + 4 <= Len(b) + 1
      PROVE  ScannedAs(f, b, n + 4, before, Len(u), <<>>)
  <2>1. n + 4 \in 1..Len(u) - 1
    BY <1>1, <1>3
  <2>2. u[n + 4].kind = "size" /\ u[n + 4].n = 0
    <3>1. n + 1 \in 1..Len(rest) /\ 3 + (n + 1) = n + 4
      BY <1>2, <1>1, <1>3
    <3>2. u[n + 4] = Number("size", 0)
      BY <1>2, <3>1
    <3> QED
      BY <3>2 DEF Number
  <2>3. u[Len(u)].kind = "crlf"
    <3>1. Len(rest) \in 1..Len(rest) /\ 3 + Len(rest) = Len(u)
      BY <1>2, <1>1, <1>3
    <3>2. u[Len(u)] = Unit("crlf")
      BY <1>2, <3>1
    <3> QED
      BY <3>2 DEF Unit
  <2>4. ASSUME NEW j \in (n + 4) + 1..Len(u) - 1
        PROVE  u[j].kind # "crlf"
    <3> DEFINE k == j - (n + 4)
    <3>1. k \in 1..t /\ n + 1 + k \in 1..Len(rest) /\ 3 + (n + 1 + k) = j
      BY <1>2, <1>1, <1>3
    <3>2. u[j] = rest[n + 1 + k]
      BY <3>1
    <3>3. rest[n + 1 + k] = trailer[k]
      BY <1>2, <3>1
    <3> QED
      BY <3>1, <3>2, <3>3
  <2> HIDE DEF n
  <2> QED
    BY <1>6, <2>1, <2>2, <2>3, <2>4, ScanLast
<1> DEFINE k == 3
           l == 3 + m
<1>7. /\ l + 1 = m + 4 /\ l + Len(ChunkOf(two)) + 1 = n + 4 /\ l + Len(ChunkOf(two)) < Len(u)
      /\ k + 1 = 4 /\ k + Len(ChunkOf(one)) + 1 = m + 4 /\ k + Len(ChunkOf(one)) < Len(u)
      /\ k \in Nat /\ l \in Nat /\ k + 1 <= Len(b) + 1
      /\ \A j \in 1..Len(ChunkOf(one)) : u[k + j] = ChunkOf(one)[j]
      /\ \A j \in 1..Len(ChunkOf(two)) : u[l + j] = ChunkOf(two)[j]
  BY <1>1, <1>3, <1>4, <1>5
<1> HIDE DEF m, n, t, k, l
<1>8. two \o <<>> = two
  BY ConcatEmptySeq DEF Units
<1>9. ASSUME Len(one) + Len(two) <= MaxBody
      PROVE  ScannedAs(f, b, 4, 0, Len(u), one \o two)
  <2>1. Len(one) \in 0..MaxBody /\ Len(one) + Len(two) \in 0..MaxBody /\ 0 \in 0..MaxBody
        /\ 0 + Len(one) = Len(one)
    BY <1>1, <1>9
  <2>2. ASSUME m + 4 <= Len(b) + 1
        PROVE  ScannedAs(f, b, m + 4, Len(one), Len(u), two)
    <3>1. n + 4 <= Len(b) + 1 => ScannedAs(f, b, n + 4, Len(one) + Len(two), Len(u), <<>>)
      BY <1>6, <2>1
    <3>2. ScannedAs(f, b, l + 1, Len(one), Len(u), two \o <<>>)
      BY <1>7, <1>9, <2>1, <2>2, <3>1, NothingIsSeq, ScanChunkOf
    <3> QED
      BY <1>7, <1>8, <3>2
  <2>3. 0 + Len(one) <= MaxBody
    BY <2>1
  <2>4. m + 4 <= Len(b) + 1 => ScannedAs(f, b, m + 4, 0 + Len(one), Len(u), two)
    BY <2>1, <2>2
  <2>5. ScannedAs(f, b, k + 1, 0, Len(u), one \o two)
    BY <1>7, <2>1, <2>3, <2>4, ScanChunkOf
  <2> QED
    BY <1>7, <2>5
<1>10. ASSUME ~(Len(one) + Len(two) <= MaxBody)
       PROVE  NeverWhole(f, 4, 0)
  <2>1. 0 \in 0..MaxBody /\ 0 + Len(one) = Len(one)
    BY <1>1
  <2>2. CASE Len(one) <= MaxBody
    <3>1. Len(one) \in 0..MaxBody
      BY <1>1, <2>2
    <3>2. two # <<>>
      BY <1>1, <1>10, <2>2, NothingIsSeq
    <3>3. ASSUME m + 4 <= Len(b) + 1
          PROVE  NeverWhole(f, m + 4, Len(one))
      <4>1. NeverWhole(f, l + 1, Len(one))
        BY <1>7, <1>10, <3>1, <3>2, <3>3, NeverWholeFrom
      <4> QED
        BY <1>7, <4>1
    <3>4. m + 4 <= Len(b) + 1 => NeverWhole(f, m + 4, 0 + Len(one))
      BY <2>1, <3>3
    <3>5. 0 + Len(one) <= MaxBody
      BY <2>1, <2>2
    <3>6. NeverWhole(f, k + 1, 0)
      BY ZenonT(30), <1>7, <2>1, <3>4, <3>5, NeverWholeFrom
    <3> QED
      BY <1>7, <3>6
  <2>3. CASE ~(Len(one) <= MaxBody)
    <3>1. one # <<>>
      BY <1>1, <2>3, NothingIsSeq
    <3>2. ~(0 + Len(one) <= MaxBody)
      BY <2>1, <2>3
    <3>3. NeverWhole(f, k + 1, 0)
      BY ZenonT(30), <1>7, <2>1, <3>1, <3>2, NeverWholeFrom
    <3> QED
      BY <1>7, <3>3
  <2> QED
    BY <2>2, <2>3
<1> QED
  BY <1>9, <1>10

LEMMA ChunkedLine ==
  LET head == <<Unit("chunked")>> IN
  /\ head \in Units /\ Len(head) = 1
  /\ \A kind : Names(head, kind) <=> kind = "chunked"
<1>1. Unit("chunked") \in [kind : Kinds, n : Nat] /\ Unit("chunked").kind = "chunked"
  BY UnitsAre DEF Kinds, Unit
<1> HIDE DEF Unit
<1>2. \A kind : Names(<<Unit("chunked")>>, kind) <=> kind = "chunked"
  BY <1>1, SingleNames
<1>3. <<Unit("chunked")>> \in Units /\ Len(<<Unit("chunked")>>) = 1
  BY <1>1, Single
<1> QED
  BY <1>2, <1>3

\* A request whose header block is one line.
IsLine(head) == head \in Units /\ Len(head) = 1

OneLined(u, rest) ==
  /\ u \in Units /\ Len(rest) \in Nat /\ Len(u) = 3 + Len(rest)
  /\ \A j \in 1..Len(rest) : u[3 + j] = rest[j]
  /\ HeaderOf(u, 1)

\* A request whose header block is a request line and one line more.
LEMMA OneLine ==
  ASSUME NEW head, IsLine(head), NEW rest \in Units, NEW body, NEW good,
         NEW r, r = Request(head, rest, body, good), ~Names(head, "blank")
  PROVE  /\ r.body = body /\ r.good = good /\ OneLined(r.units, rest)
         /\ Passes(r.units, 1) <=> 1 < MaxHeader /\ ~Names(head, "noise")
<1> DEFINE u == r.units
<1>0. u = Request(head, rest, body, good).units
  OBVIOUS
<1>11. head \in Units /\ Len(head) = 1
  BY DEF IsLine
<1>1. Len(rest) \in Nat /\ MaxHeader \in Nat
  BY LenProperties, ParserAssumption DEF Units
<1>2. r.body = body /\ r.good = good
  BY DEF Request
<1>3. HeaderOf(u, Len(head))
  BY <1>11, RequestHeader
<1>4. Passes(u, Len(head)) <=> Len(head) < MaxHeader /\ ~Names(head, "noise")
  BY <1>1, <1>11, RequestHeader
<1> HIDE DEF u
<1>5. u \in Units
  BY <1>0, <1>11, RequestLaidOut
<1>6. LaysOut(u, head, rest)
  BY <1>0, <1>11, RequestLaidOut
<1>7. Len(u) = 3 + Len(rest) /\ \A j \in 1..Len(rest) : u[3 + j] = rest[j]
  BY <1>1, <1>6, <1>11 DEF LaysOut
<1>8. HeaderOf(u, 1)
  BY <1>3, <1>11
<1>9. OneLined(u, rest)
  BY <1>1, <1>5, <1>7, <1>8 DEF OneLined
<1> QED
  BY <1>1, <1>2, <1>4, <1>9, <1>11 DEF u

\* What parse_chunked_body comes to.
ChunksEnd(f, b, u, one, two) ==
  /\ Len(one) + Len(two) <= MaxBody => ScannedAs(f, b, 4, 0, Len(u), one \o two)
  /\ ~(Len(one) + Len(two) <= MaxBody) => NeverWhole(f, 4, 0)

\* A chunked body ends after its trailer, with the data of its chunks.
LEMMA ChunksEndThere ==
  ASSUME NEW one \in Units, NEW two \in Units, NEW trailer \in Units, NEW rest,
         rest = ChunkOf(one) \o ChunkOf(two) \o <<Number("size", 0)>> \o trailer \o <<Unit("crlf")>>,
         NEW u, OneLined(u, rest),
         \A j \in 1..Len(trailer) : trailer[j].kind # "crlf",
         NEW b \in Units, Starts(b, u), 3 <= Len(b), NEW f, Scans(f, b)
  PROVE  ChunksEnd(f, b, u, one, two)
<1>1. u \in Units /\ Len(u) = 3 + Len(rest) /\ \A j \in 1..Len(rest) : u[3 + j] = rest[j]
  BY DEF OneLined
<1>2. Len(one) + Len(two) <= MaxBody => ScannedAs(f, b, 4, 0, Len(u), one \o two)
  BY <1>1, ChunksScanned
<1>3. ~(Len(one) + Len(two) <= MaxBody) => NeverWhole(f, 4, 0)
  BY <1>1, ChunksScanned
<1> QED
  BY <1>2, <1>3 DEF ChunksEnd

\* The line says the body is in chunks.
LEMMA ChunkedFraming ==
  ASSUME NEW head, IsLine(head), NEW rest \in Units, NEW body, NEW good,
         NEW r, r = Request(head, rest, body, good), ~Names(head, "blank"),
         ~Names(head, "badlength"), Names(head, "chunked"), ~Names(head, "length"),
         NEW b \in Units, Starts(b, r.units), 3 <= Len(b)
  PROVE  \E f : Scans(f, b) /\ ParseFraming(b, 3) = f[4][0]
<1>0. head \in Units
  BY DEF IsLine
<1>1. Len(head) + 2 = 3 /\ Len(head) + 3 = 4 /\ Len(head) + 2 <= Len(b)
  BY DEF IsLine
<1>2. ParseFraming(b, Len(head) + 2) = ParseChunked(b, Len(head) + 3)
  BY <1>0, <1>1, RequestFraming
<1> QED
  BY <1>1, <1>2, ParseScans

\* A header block that says the body is in chunks.
ChunkedHeader(head) ==
  /\ ~Names(head, "blank") /\ ~Names(head, "noise") /\ ~Names(head, "badlength")
  /\ Names(head, "chunked") /\ ~Names(head, "length")

\* The parts of a chunked request.
ChunkedOf(one, two, trailer, rest, body, good) ==
  /\ rest = ChunkOf(one) \o ChunkOf(two) \o <<Number("size", 0)>> \o trailer \o <<Unit("crlf")>>
  /\ body = one \o two
  /\ good <=> 2 <= MaxHeader /\ Len(one) + Len(two) <= MaxBody

\* A request with a chunked body: at most two chunks with data, and a trailer.
LEMMA ChunksTreated ==
  ASSUME NEW one \in Units, NEW two \in Units, NEW trailer \in Units,
         \A j \in 1..Len(trailer) : trailer[j].kind # "crlf",
         NEW head, IsLine(head), ChunkedHeader(head), NEW rest \in Units,
         NEW body, NEW good, ChunkedOf(one, two, trailer, rest, body, good),
         NEW r, r = Request(head, rest, body, good)
  PROVE  Treated(r)
<1> DEFINE u == r.units
<1>4. MaxBody \in Nat /\ MaxHeader \in Nat
  BY ParserAssumption
<1>6. ~Names(head, "blank") /\ ~Names(head, "noise")
  BY DEF ChunkedHeader
<1> HIDE DEF u
<1>7. /\ r.body = body /\ r.good = good /\ OneLined(u, rest)
      /\ Passes(u, 1) <=> 1 < MaxHeader
  BY <1>6, OneLine DEF u
<1>8. HeaderOf(u, 1)
  BY <1>7 DEF OneLined
<1>9. ASSUME NEW b \in Units, Starts(b, u), 3 <= Len(b)
      PROVE  \E f : Scans(f, b) /\ ParseFraming(b, 3) = f[4][0]
  BY <1>9, ChunkedFraming DEF u, ChunkedHeader
<1>10. ASSUME Passes(u, 1)
       PROVE  Framed(r, 1)
  <2>1. good <=> Len(one) + Len(two) <= MaxBody
    BY <1>4, <1>7, <1>10 DEF ChunkedOf
  <2>2. r.good <=> Len(one) + Len(two) <= MaxBody
    BY <1>7, <2>1
  <2> SUFFICES ASSUME NEW b \in Units, Starts(b, r.units), 1 + 2 <= Len(b)
               PROVE  /\ r.good /\ Len(r.units) <= Len(b) =>
                           ParseFraming(b, 1 + 2) = Result("COMPLETE", Len(r.units), r.body)
                      /\ r.good /\ Len(b) < Len(r.units) =>
                           ParseFraming(b, 1 + 2).state \notin {"COMPLETE", "ERROR"}
                      /\ ~r.good => ParseFraming(b, 1 + 2).state # "COMPLETE"
    BY DEF Framed
  <2>3. Starts(b, u) /\ 3 <= Len(b) /\ 1 + 2 = 3
    BY DEF u
  <2>4. PICK f : Scans(f, b) /\ ParseFraming(b, 1 + 2) = f[4][0]
    BY <1>9, <2>3
  <2>9. ChunksEnd(f, b, u, one, two)
    <3>1. rest = ChunkOf(one) \o ChunkOf(two) \o <<Number("size", 0)>> \o trailer \o <<Unit("crlf")>>
      BY DEF ChunkedOf
    <3> QED
      BY <1>7, <2>3, <2>4, <3>1, ChunksEndThere
  <2>5. /\ Len(one) + Len(two) <= MaxBody => ScannedAs(f, b, 4, 0, Len(u), one \o two)
        /\ ~(Len(one) + Len(two) <= MaxBody) => NeverWhole(f, 4, 0)
    BY <2>9 DEF ChunksEnd
  <2>6. ASSUME r.good, Len(u) <= Len(b)
        PROVE  f[4][0] = Result("COMPLETE", Len(u), r.body)
    <3>1. body = one \o two
      BY DEF ChunkedOf
    <3> QED
      BY <1>7, <2>2, <2>5, <2>6, <3>1 DEF ScannedAs
  <2>7. ASSUME r.good, Len(b) < Len(u)
        PROVE  f[4][0].state \notin {"COMPLETE", "ERROR"}
    <3>1. PICK c, d : f[4][0] = Result("BODY", c, d)
      BY <2>2, <2>5, <2>7 DEF ScannedAs
    <3> QED
      BY <3>1 DEF Result
  <2>8. ASSUME ~r.good
        PROVE  f[4][0].state # "COMPLETE"
    <3>1. PICK s \in {"BODY", "ERROR"} : \E c, d : f[4][0] = Result(s, c, d)
      BY <2>2, <2>5, <2>8 DEF NeverWhole
    <3>2. PICK c, d : f[4][0] = Result(s, c, d)
      BY <3>1
    <3>3. f[4][0].state = s
      BY <3>2 DEF Result
    <3> QED
      BY <3>3
  <2> QED
    BY <2>4, <2>6, <2>7, <2>8 DEF u
<1>11. r.good => Passes(u, 1)
  <2>1. good => 1 < MaxHeader
    BY <1>4 DEF ChunkedOf
  <2> QED
    BY <1>7, <2>1
<1> QED
  BY <1>8, <1>10, <1>11, FramedIsTreated DEF u

\* A chunked request.
LEMMA ChunkedTreated ==
  ASSUME NEW one \in Units, NEW two \in Units, NEW trailer \in Units,
         \A j \in 1..Len(trailer) : trailer[j].kind # "crlf",
         NEW r, r = Chunked(one, two, trailer)
  PROVE  Treated(r)
<1> DEFINE head == <<Unit("chunked")>>
           rest == ChunkOf(one) \o ChunkOf(two) \o <<Number("size", 0)>> \o trailer \o <<Unit("crlf")>>
           body == one \o two
           good == 2 <= MaxHeader /\ Len(one) + Len(two) <= MaxBody
<1>1. IsLine(head) /\ ChunkedHeader(head)
  BY ChunkedLine DEF IsLine, ChunkedHeader
<1>2. rest \in Units
  BY ChunkedLaidOut
<1>3. r = Request(head, rest, body, good)
  BY DEF Chunked, ChunkOf
<1>4. /\ rest = ChunkOf(one) \o ChunkOf(two) \o <<Number("size", 0)>> \o trailer \o <<Unit("crlf")>>
      /\ body = one \o two
  OBVIOUS
<1>6. good <=> 2 <= MaxHeader /\ Len(one) + Len(two) <= MaxBody
  OBVIOUS
<1> HIDE DEF head, rest, body, good
<1>5. ChunkedOf(one, two, trailer, rest, body, good)
  BY <1>4, <1>6 DEF ChunkedOf
<1> QED
  BY <1>1, <1>2, <1>3, <1>4, <1>5, ChunksTreated

\* A chunk whose size cannot be read.
LEMMA NoSizeTreated ==
  ASSUME NEW head, IsLine(head), ChunkedHeader(head),
         NEW rest \in Units, NEW bad, Len(rest) = 1, rest[1] = bad, bad.kind = "badsize",
         NEW body, NEW good, ~good, NEW r, r = Request(head, rest, body, good)
  PROVE  Treated(r)
<1> DEFINE u == r.units
<1>5. ~Names(head, "blank") /\ ~Names(head, "noise")
  BY DEF ChunkedHeader
<1> HIDE DEF u
<1>10. r.good = good /\ OneLined(u, rest)
  BY <1>5, OneLine DEF u
<1>6. ~r.good /\ HeaderOf(u, 1)
  BY <1>10 DEF OneLined
<1>7. u \in Units /\ Len(u) = 4 /\ u[4] = bad
  <2>1. u \in Units /\ Len(u) = 3 + Len(rest) /\ \A j \in 1..Len(rest) : u[3 + j] = rest[j]
    BY <1>10 DEF OneLined
  <2>2. 1 \in 1..Len(rest) /\ 3 + 1 = 4
    OBVIOUS
  <2> QED
    BY <2>1, <2>2
<1>8. ASSUME NEW b \in Units, Starts(b, r.units), 1 + 2 <= Len(b)
      PROVE  ParseFraming(b, 1 + 2).state # "COMPLETE"
  <2>0. 3 <= Len(b)
    BY <1>8
  <2>1. 1 + 2 = 3
    OBVIOUS
  <2>3. PICK f : Scans(f, b) /\ ParseFraming(b, 3) = f[4][0]
    BY <1>8, <2>0, ChunkedFraming DEF ChunkedHeader
  <2>4. /\ Len(b) \in Nat /\ \A i \in 1..Len(b) : i <= Len(u) => b[i] = u[i]
    BY <1>7, <1>8, BufferedUnits DEF u
  <2>5. 0 \in 0..MaxBody
    BY ParserAssumption
  <2>6. CASE Len(b) = 3
    <3>1. f[Len(b) + 1][0] = Wanting("BODY")
      BY <2>3, <2>5, ScanNothing
    <3>2. f[4][0] = Wanting("BODY")
      BY <2>6, <3>1
    <3> QED
      BY <2>1, <2>3, <3>2 DEF Wanting, Result
  <2>7. CASE Len(b) # 3
    <3>0. 4 <= Len(b)
      <4>1. \A n \in Nat : 3 <= n /\ n # 3 => 4 <= n
        OBVIOUS
      <4> QED
        BY <2>0, <2>4, <2>7, <4>1
    <3>1. 4 \in 1..Len(b) + 1 /\ 4 # Len(b) + 1 /\ 4 \in 1..Len(b) /\ 4 <= Len(u)
      BY <1>7, <2>4, <3>0
    <3>2. b[4].kind = "badsize"
      BY <1>7, <2>4, <3>1
    <3>3. f[4] = ChunkStep(f, b, 4)
      BY <2>3, <3>1 DEF Scans
    <3>4. f[4][0] = Error
      BY <2>5, <3>1, <3>2, <3>3 DEF ChunkStep
    <3> QED
      BY <2>1, <2>3, <3>4 DEF Error, Result
  <2> QED
    BY <2>6, <2>7
<1>9. Framed(r, 1)
  BY <1>6, <1>8, NeverFramed
<1> QED
  BY <1>6, <1>9, FramedIsTreated DEF u

\* A chunk whose size is not a number.
LEMMA BadSizeTreated ==
  ASSUME NEW r, r = Request(<<Unit("chunked")>>, <<Unit("badsize")>>, <<>>, FALSE)
  PROVE  Treated(r)
<1> DEFINE head == <<Unit("chunked")>>
           bad == Unit("badsize")
           rest == <<bad>>
           body == <<>>
           good == FALSE
<1>1. IsLine(head) /\ ChunkedHeader(head)
  BY ChunkedLine DEF IsLine, ChunkedHeader
<1>2. /\ bad \in [kind : Kinds, n : Nat] /\ bad.kind = "badsize"
  BY UnitsAre DEF Kinds, Unit
<1>3. rest \in Units /\ Len(rest) = 1 /\ rest[1] = bad
  BY <1>2, Single
<1>4. r = Request(head, rest, body, good) /\ ~good
  OBVIOUS
<1> HIDE DEF head, rest, bad, body, good
<1> QED
  BY <1>1, <1>2, <1>3, <1>4, NoSizeTreated

\* A request line that cannot be read.
LEMMA BadLineTreated ==
  ASSUME NEW r,
         r = [units |-> <<Unit("badline"), Unit("blank")>>, body |-> <<>>, good |-> FALSE]
  PROVE  Treated(r)
<1> DEFINE u == <<Unit("badline"), Unit("blank")>>
<1>1. r.units = u /\ ~r.good
  OBVIOUS
<1>2. /\ Unit("badline") \in [kind : Kinds, n : Nat] /\ Unit("badline").kind = "badline"
      /\ Unit("blank") \in [kind : Kinds, n : Nat] /\ Unit("blank").kind = "blank"
  BY UnitsAre DEF Kinds, Unit
<1>3. /\ u \in Units /\ Len(u) = 2 /\ u[1].kind = "badline" /\ u[2].kind = "blank"
  BY <1>2 DEF Units
<1> HIDE DEF u
<1>4. HeaderOf(u, 0)
  BY <1>3 DEF HeaderOf
<1>5. ~Passes(u, 0)
  BY <1>3 DEF Passes
<1> QED
  BY <1>1, <1>4, <1>5, FramedIsTreated

-----------------------------------------------------------------------------
(* HttpParser: whatever a client sends.                                    *)

Readable(r) == r.units \in Units /\ Len(r.units) # 0

LEMMA RequestReadable ==
  ASSUME NEW head \in Units, NEW rest \in Units, NEW body, NEW good,
         NEW r, r = Request(head, rest, body, good)
  PROVE  Readable(r)
<1> DEFINE u == r.units
<1>1. u = Request(head, rest, body, good).units
  OBVIOUS
<1> HIDE DEF u
<1>2. u \in Units /\ Len(head) \in Nat /\ Len(rest) \in Nat
  BY <1>1, RequestLaidOut
<1>3. LaysOut(u, head, rest)
  BY <1>1, RequestLaidOut
<1>4. Len(u) # 0
  BY <1>2, <1>3 DEF LaysOut
<1> QED
  BY <1>2, <1>4 DEF Readable, u

LEMMA PlainReadable ==
  ASSUME NEW f \in 0..MaxHeader, NEW r, r = Request(Fields(f), <<>>, <<>>, f < MaxHeader)
  PROVE  Treated(r) /\ Readable(r)
<1>1. f \in Nat
  BY ParserAssumption
<1>2. Treated(r)
  BY <1>1, PlainTreated
<1>3. Fields(f) \in Units
  BY <1>1, FieldsAre
<1>4. Readable(r)
  BY <1>3, NothingIsSeq, RequestReadable
<1> QED
  BY <1>2, <1>4

LEMMA SizedReadable ==
  ASSUME NEW f \in 0..1, NEW n \in 0..MaxBody + 1, NEW plain \in BOOLEAN,
         NEW r, r = Sized(f, n, plain)
  PROVE  Treated(r) /\ Readable(r)
<1>1. f \in Nat /\ n \in Nat
  BY ParserAssumption
<1>2. Treated(r)
  BY <1>1, SizedTreated
<1> DEFINE head == Fields(f) \o <<Number("length", n)>>
           rest == Payload(n, plain)
           good == n <= MaxBody /\ f + 2 <= MaxHeader
<1>3. head \in Units
  BY <1>1, LengthLine
<1>4. rest \in Units
  BY <1>1, PayloadIs
<1>5. r = Request(head, rest, rest, good)
  BY DEF Sized
<1> HIDE DEF head, rest, good
<1>6. Readable(r)
  BY <1>3, <1>4, <1>5, RequestReadable
<1> QED
  BY <1>2, <1>6

LEMMA ChunkedReadable ==
  ASSUME NEW m \in 0..2, NEW n \in 0..2, NEW plain \in BOOLEAN,
         NEW trailer \in {<<>>, <<Unit("trailer")>>},
         NEW r, r = Chunked(Payload(m, plain), Payload(n, plain), trailer)
  PROVE  Treated(r) /\ Readable(r)
<1> DEFINE one == Payload(m, plain)
           two == Payload(n, plain)
           head == <<Unit("chunked")>>
           rest == ChunkOf(one) \o ChunkOf(two) \o <<Number("size", 0)>> \o trailer \o <<Unit("crlf")>>
           body == one \o two
           good == 2 <= MaxHeader /\ Len(one) + Len(two) <= MaxBody
<1>1. one \in Units /\ two \in Units
  BY PayloadIs
<1>2. trailer \in Units /\ \A j \in 1..Len(trailer) : trailer[j].kind # "crlf"
  <2>1. Unit("trailer") \in [kind : Kinds, n : Nat] /\ Unit("trailer").kind = "trailer"
    BY UnitsAre DEF Kinds, Unit
  <2> HIDE DEF Unit
  <2>2. CASE trailer = <<>>
    BY <2>2, NothingIsSeq
  <2>3. CASE trailer = <<Unit("trailer")>>
    BY <2>1, <2>3, Single
  <2> QED
    BY <2>2, <2>3
<1>3. head \in Units
  BY ChunkedLine
<1>4. rest \in Units
  BY <1>1, <1>2, ChunkedLaidOut
<1>5. r = Request(head, rest, body, good)
  BY DEF Chunked, ChunkOf
<1>6. r = Chunked(one, two, trailer)
  OBVIOUS
<1> HIDE DEF one, two, head, rest, body, good
<1>7. Treated(r)
  BY <1>1, <1>2, <1>6, ChunkedTreated
<1>8. Readable(r)
  BY <1>3, <1>4, <1>5, RequestReadable
<1> QED
  BY <1>7, <1>8

LEMMA MalformedReadable ==
  ASSUME NEW head \in Units, NEW rest \in Units, NEW r, r = Request(head, rest, <<>>, FALSE),
         ~Names(head, "blank"),
         \/ Names(head, "noise")
         \/ Names(head, "badlength") /\ ~Names(head, "chunked") /\ ~Names(head, "length")
         \/ ~Names(head, "badlength") /\ Names(head, "chunked") /\ Names(head, "length")
  PROVE  Treated(r) /\ Readable(r)
<1>1. Treated(r)
  BY MalformedTreated
<1>2. Readable(r)
  BY RequestReadable
<1> QED
  BY <1>1, <1>2

LEMMA BadHeaderReadable ==
  ASSUME NEW bad \in {"noise", "badlength"},
         NEW r, r = Request(<<Unit(bad)>>, <<>>, <<>>, FALSE)
  PROVE  Treated(r) /\ Readable(r)
<1> DEFINE head == <<Unit(bad)>>
<1>1. Unit(bad) \in [kind : Kinds, n : Nat] /\ Unit(bad).kind = bad
  <2>1. bad \in Kinds
    BY DEF Kinds
  <2>2. Unit(bad).kind = bad
    BY DEF Unit
  <2> QED
    BY <2>1, <2>2, UnitsAre
<1>2. head \in Units /\ \A kind : Names(head, kind) <=> kind = bad
  <2> HIDE DEF Unit
  <2>1. \A kind : Names(<<Unit(bad)>>, kind) <=> Unit(bad).kind = kind
    BY <1>1, SingleNames
  <2> QED
    BY <1>1, <2>1, Single
<1>3. r = Request(head, <<>>, <<>>, FALSE)
  OBVIOUS
<1> HIDE DEF head
<1>4. /\ ~Names(head, "blank")
      /\ \/ Names(head, "noise")
         \/ Names(head, "badlength") /\ ~Names(head, "chunked") /\ ~Names(head, "length")
  BY <1>2
<1> QED
  BY <1>2, <1>3, <1>4, NothingIsSeq, MalformedReadable

LEMMA BothReadable ==
  ASSUME NEW r,
         r = Request(<<Number("length", 1), Unit("chunked")>>, Payload(1, TRUE), <<>>, FALSE)
  PROVE  Treated(r) /\ Readable(r)
<1> DEFINE a == Number("length", 1)
           z == Unit("chunked")
           head == <<a, z>>
           rest == Payload(1, TRUE)
<1>1. /\ a \in [kind : Kinds, n : Nat] /\ a.kind = "length"
      /\ z \in [kind : Kinds, n : Nat] /\ z.kind = "chunked"
  <2>1. "length" \in Kinds /\ "chunked" \in Kinds
    BY DEF Kinds
  <2>2. a.kind = "length" /\ z.kind = "chunked"
    BY DEF Number, Unit
  <2> QED
    BY <2>1, <2>2, UnitsAre
<1>2. rest \in Units
  BY PayloadIs
<1>3. r = Request(head, rest, <<>>, FALSE)
  OBVIOUS
<1> HIDE DEF a, z, rest
<1>4. head \in Units /\ \A kind : Names(head, kind) <=> kind \in {"length", "chunked"}
  <2>1. head \in Units /\ Len(head) = 2 /\ head[1] = a /\ head[2] = z
    BY <1>1 DEF Units
  <2> HIDE DEF head
  <2> QED
    BY <1>1, <2>1 DEF Names
<1> HIDE DEF head
<1>5. /\ ~Names(head, "blank")
      /\ ~Names(head, "badlength") /\ Names(head, "chunked") /\ Names(head, "length")
  BY <1>4
<1> QED
  BY <1>2, <1>3, <1>4, <1>5, MalformedReadable

LEMMA BadSizeReadable ==
  ASSUME NEW r, r = Request(<<Unit("chunked")>>, <<Unit("badsize")>>, <<>>, FALSE)
  PROVE  Treated(r) /\ Readable(r)
<1>1. Unit("badsize") \in [kind : Kinds, n : Nat]
  BY UnitsAre DEF Kinds
<1>2. <<Unit("chunked")>> \in Units /\ <<Unit("badsize")>> \in Units
  <2> HIDE DEF Unit
  <2> QED
    BY <1>1, ChunkedLine, Single
<1> QED
  BY <1>2, BadSizeTreated, RequestReadable

LEMMA BadLineReadable ==
  ASSUME NEW r,
         r = [units |-> <<Unit("badline"), Unit("blank")>>, body |-> <<>>, good |-> FALSE]
  PROVE  Treated(r) /\ Readable(r)
<1> DEFINE u == <<Unit("badline"), Unit("blank")>>
<1>1. r.units = u
  OBVIOUS
<1>2. Unit("badline") \in [kind : Kinds, n : Nat] /\ Unit("blank") \in [kind : Kinds, n : Nat]
  BY UnitsAre DEF Kinds
<1>3. u \in Units /\ Len(u) = 2
  BY <1>2 DEF Units
<1> HIDE DEF u
<1>4. Readable(r)
  BY <1>1, <1>3 DEF Readable
<1> QED
  BY <1>4, BadLineTreated

\* Whatever a client sends and wherever the reads cut it: a request the server is to
\* serve is complete exactly when all of it is there, with its own body and length,
\* whatever is buffered behind it; until then the parser waits, and never refuses it;
\* any other is never complete (HttpParser::parse_request on growing buffers).
THEOREM AllTreated ==
  ASSUME NEW r \in ClientRequests
  PROVE  Treated(r) /\ Readable(r)
<1>2. ASSUME r \in PlainRequests PROVE Treated(r) /\ Readable(r)
  <2>1. PICK f \in 0..MaxHeader : r = Request(Fields(f), <<>>, <<>>, f < MaxHeader)
    BY <1>2 DEF PlainRequests
  <2> QED
    BY <2>1, PlainReadable
<1>3. ASSUME r \in SizedRequests PROVE Treated(r) /\ Readable(r)
  <2>1. PICK f \in 0..1, n \in 0..MaxBody + 1, plain \in BOOLEAN : r = Sized(f, n, plain)
    BY <1>3 DEF SizedRequests
  <2> QED
    BY <2>1, SizedReadable
<1>4. ASSUME r \in ChunkedRequests PROVE Treated(r) /\ Readable(r)
  <2>1. PICK m \in 0..2, n \in 0..2, plain \in BOOLEAN, trailer \in {<<>>, <<Unit("trailer")>>} :
          r = Chunked(Payload(m, plain), Payload(n, plain), trailer)
    BY <1>4 DEF ChunkedRequests
  <2> QED
    BY <2>1, ChunkedReadable
<1>5. ASSUME r \in MalformedHeaders PROVE Treated(r) /\ Readable(r)
  <2>1. PICK bad \in {"noise", "badlength"} : r = Request(<<Unit(bad)>>, <<>>, <<>>, FALSE)
    BY <1>5 DEF MalformedHeaders
  <2> QED
    BY <2>1, BadHeaderReadable
<1>6. ASSUME r \in MalformedRequests PROVE Treated(r) /\ Readable(r)
  <2>1. CASE r = Request(<<Number("length", 1), Unit("chunked")>>, Payload(1, TRUE), <<>>, FALSE)
    BY <2>1, BothReadable
  <2>2. CASE r = Request(<<Unit("chunked")>>, <<Unit("badsize")>>, <<>>, FALSE)
    BY <2>2, BadSizeReadable
  <2>3. CASE r = [units |-> <<Unit("badline"), Unit("blank")>>, body |-> <<>>, good |-> FALSE]
    BY <2>3, BadLineReadable
  <2> QED
    BY <1>6, <2>1, <2>2, <2>3 DEF MalformedRequests
<1> QED
  BY <1>2, <1>3, <1>4, <1>5, <1>6 DEF ClientRequests

-----------------------------------------------------------------------------
(* HttpParser: what is still to come.                                      *)

WireStep(w, s, n) == IF n = 0 THEN <<>> ELSE w[n - 1] \o s[n].units

\* The units of the first n requests, for each n.
IsWire(w, s) == \A n \in 0..Len(s) : w[n] = WireStep(w, s, n)

\* The stream, request after request, exists; WireIs says that Wire chooses it.
LEMMA WireExists ==
  ASSUME NEW s \in Seq(ClientRequests)
  PROVE  \E w : w = [n \in 0..Len(s) |-> WireStep(w, s, n)]
<1> DEFINE top == Len(s)
           T == {k \in 0..top : \E w : \A n \in 0..k : w[n] = WireStep(w, s, n)}
<1>0. top \in Nat
  BY LenProperties
<1>1. 0 \in T
  <2> DEFINE w == [n \in 0..0 |-> <<>>]
  <2>1. \A n \in 0..0 : w[n] = WireStep(w, s, n)
    BY DEF WireStep
  <2> QED
    BY <1>0, <2>1
<1>2. ASSUME NEW k \in 0..top - 1, k \in T
      PROVE  k + 1 \in T
  <2>1. PICK w : \A n \in 0..k : w[n] = WireStep(w, s, n)
    BY <1>2
  <2> DEFINE x == [n \in 0..k + 1 |-> IF n = k + 1 THEN w[k] \o s[k + 1].units ELSE w[n]]
  <2>2. /\ x[k + 1] = w[k] \o s[k + 1].units /\ \A n \in 0..k : x[n] = w[n]
    BY <1>0
  <2> HIDE DEF x
  <2>3. ASSUME NEW n \in 0..k + 1
        PROVE  x[n] = WireStep(x, s, n)
    <3>1. CASE n = 0
      BY <2>1, <2>2, <3>1 DEF WireStep
    <3>2. CASE n = k + 1
      <4>1. n - 1 = k /\ k \in 0..k /\ n # 0
        BY <3>2
      <4> QED
        BY <2>2, <3>2, <4>1 DEF WireStep
    <3>3. CASE n # 0 /\ n # k + 1
      <4>1. n \in 0..k /\ n - 1 \in 0..k
        BY <3>3
      <4> QED
        BY <2>1, <2>2, <3>3, <4>1 DEF WireStep
    <3> QED
      BY <3>1, <3>2, <3>3
  <2>4. k + 1 \in 0..top
    BY <1>0
  <2> QED
    BY <2>3, <2>4
<1>3. \A k \in 0..top : k \in T
  <2>1. \A k \in 0..top - 1 : k \in T => k + 1 \in T
    BY <1>2
  <2> HIDE DEF T, top
  <2> QED
    BY <1>0, <1>1, <2>1, AllUpTo
<1>4. PICK w : \A n \in 0..top : w[n] = WireStep(w, s, n)
  BY <1>0, <1>3
<1> DEFINE x == [n \in 0..top |-> w[n]]
<1>5. ASSUME NEW n \in 0..top
      PROVE  x[n] = WireStep(x, s, n)
  <2>1. x[n] = w[n]
    OBVIOUS
  <2>2. n # 0 => x[n - 1] = w[n - 1]
    BY <1>0
  <2> HIDE DEF x
  <2> QED
    BY <1>4, <2>1, <2>2 DEF WireStep
<1>6. x = [n \in 0..top |-> WireStep(x, s, n)]
  <2>1. x = [n \in 0..top |-> x[n]]
    OBVIOUS
  <2> HIDE DEF x
  <2> QED
    BY <1>5, <2>1
<1> QED
  BY <1>6

LEMMA WireIs ==
  ASSUME NEW s \in Seq(ClientRequests)
  PROVE  \E w : IsWire(w, s) /\ Wire(s) = w[Len(s)]
<1> DEFINE w == CHOOSE w : w = [n \in 0..Len(s) |-> WireStep(w, s, n)]
<1>1. w = [n \in 0..Len(s) |-> WireStep(w, s, n)]
  BY WireExists
<1>2. Wire(s) = w[Len(s)]
  BY DEF Wire, WireStep
<1> HIDE DEF w
<1>3. IsWire(w, s)
  BY <1>1 DEF IsWire
<1> QED
  BY <1>2, <1>3

\* b is what the requests after the first k come to.
Remaining(b, s, k) == \E w : IsWire(w, s) /\ w[k] \o b = w[Len(s)]

LEMMA NothingAdded ==
  ASSUME NEW b \in Units
  PROVE  b \o <<>> = b /\ <<>> \o b = b
BY ConcatEmptySeq DEF Units

LEMMA Associative ==
  ASSUME NEW a \in Units, NEW b \in Units, NEW c \in Units
  PROVE  (a \o b) \o c = a \o (b \o c)
<1> DEFINE S == [kind : Kinds, n : Nat]
<1>1. a \in Seq(S) /\ b \in Seq(S) /\ c \in Seq(S)
  BY DEF Units
<1> HIDE DEF S
<1> QED
  BY <1>1, ConcatAssociative

LEMMA Cancelled ==
  ASSUME NEW a \in Units, NEW b \in Units, NEW c \in Units, a \o b = a \o c
  PROVE  b = c
BY ConcatSimplifications DEF Units

\* A later part of the stream starts where an earlier one ends.
LEMMA WireGrows ==
  ASSUME NEW s \in Seq(ClientRequests), NEW w, IsWire(w, s), NEW k \in 0..Len(s)
  PROVE  w[k] \in Units /\ \E t \in Units : w[Len(s)] = w[k] \o t
<1> DEFINE top == Len(s)
           T == {n \in 0..top : w[n] \in Units}
           D == {n \in 0..top : \E t \in Units : w[top] = w[n] \o t}
<1>0. top \in Nat
  BY LenProperties
<1>1. \A n \in 1..top : s[n].units \in Units
  BY ElementOfSeq, AllTreated DEF Readable
<1>2. \A n \in 0..top : w[n] = WireStep(w, s, n)
  BY DEF IsWire
<1>3. \A n \in 0..top : n \in T
  <2>1. 0 \in T
    BY <1>0, <1>2, NothingIsSeq DEF WireStep
  <2>2. ASSUME NEW n \in 0..top - 1, n \in T
        PROVE  n + 1 \in T
    <3>1. n + 1 \in 1..top /\ n + 1 \in 0..top /\ n + 1 # 0 /\ (n + 1) - 1 = n
      BY <1>0
    <3>2. w[n + 1] = w[n] \o s[n + 1].units
      BY <1>2, <3>1 DEF WireStep
    <3>3. w[n] \o s[n + 1].units \in Units
      BY <1>1, <2>2, <3>1, LaidOut
    <3> QED
      BY <3>1, <3>2, <3>3
  <2>3. \A n \in 0..top - 1 : n \in T => n + 1 \in T
    BY <2>2
  <2> HIDE DEF T, top
  <2> QED
    BY <1>0, <2>1, <2>3, AllUpTo
<1>4. \A n \in 0..top : w[n] \in Units
  BY <1>3
<1>5. \A n \in 0..top : n \in D
  <2>1. top \in D
    <3>0. top \in 0..top
      BY <1>0
    <3>1. w[top] \o <<>> = w[top]
      BY <1>4, <3>0, NothingAdded
    <3>2. \E t \in Units : w[top] = w[top] \o t
      BY <3>1, NothingIsSeq
    <3> QED
      BY <3>0, <3>2
  <2>2. ASSUME NEW n \in 0..top - 1, n + 1 \in D
        PROVE  n \in D
    <3>1. n + 1 \in 1..top /\ n + 1 \in 0..top /\ n + 1 # 0 /\ (n + 1) - 1 = n /\ n \in 0..top
      BY <1>0
    <3>2. PICK t \in Units : w[top] = w[n + 1] \o t
      BY <2>2
    <3>3. w[n + 1] = w[n] \o s[n + 1].units
      BY <1>2, <3>1 DEF WireStep
    <3>4. w[n] \in Units /\ s[n + 1].units \in Units
      BY <1>1, <1>4, <3>1
    <3>5. w[top] = w[n] \o (s[n + 1].units \o t)
      <4>1. (w[n] \o s[n + 1].units) \o t = w[n] \o (s[n + 1].units \o t)
        BY <3>2, <3>4, Associative
      <4> QED
        BY <3>2, <3>3, <4>1
    <3>6. s[n + 1].units \o t \in Units
      BY <3>2, <3>4, LaidOut
    <3> QED
      BY <3>1, <3>5, <3>6
  <2>3. \A n \in 0..top - 1 : n + 1 \in D => n \in D
    BY <2>2
  <2> HIDE DEF D, top
  <2> QED
    BY <1>0, <2>1, <2>3, AllDownFrom
<1> QED
  BY <1>4, <1>5

\* Before the first request, the whole stream remains.
LEMMA RemainingAll ==
  ASSUME NEW s \in Seq(ClientRequests)
  PROVE  Wire(s) \in Units /\ Remaining(Wire(s), s, 0)
<1>1. Len(s) \in Nat
  BY LenProperties
<1>2. PICK w : IsWire(w, s) /\ Wire(s) = w[Len(s)]
  BY WireIs
<1>3. w[0] = <<>>
  BY <1>1, <1>2 DEF IsWire, WireStep
<1>4. w[Len(s)] \in Units
  BY <1>1, <1>2, WireGrows
<1>5. w[0] \o w[Len(s)] = w[Len(s)]
  BY <1>3, <1>4, ConcatEmptySeq DEF Units
<1> QED
  BY <1>2, <1>4, <1>5 DEF Remaining

\* After the last request nothing remains.
LEMMA RemainingNone ==
  ASSUME NEW s \in Seq(ClientRequests), NEW b \in Units, Remaining(b, s, Len(s))
  PROVE  b = <<>>
<1>1. Len(s) \in Nat
  BY LenProperties
<1>2. PICK w : IsWire(w, s) /\ w[Len(s)] \o b = w[Len(s)]
  BY DEF Remaining
<1>3. w[Len(s)] \in Units
  BY <1>1, <1>2, WireGrows
<1> QED
  BY <1>2, <1>3, ConcatEqualIffEmpty DEF Units

\* What remains starts with the next request.
LEMMA RemainingNext ==
  ASSUME NEW s \in Seq(ClientRequests), NEW b \in Units, NEW k \in 0..Len(s) - 1,
         Remaining(b, s, k)
  PROVE  \E t \in Units : b = s[k + 1].units \o t /\ Remaining(t, s, k + 1)
<1>1. Len(s) \in Nat
  BY LenProperties
<1>2. PICK w : IsWire(w, s) /\ w[k] \o b = w[Len(s)]
  BY DEF Remaining
<1>3. k + 1 \in 0..Len(s) /\ k + 1 \in 1..Len(s) /\ k \in 0..Len(s) /\ k + 1 # 0 /\ (k + 1) - 1 = k
  BY <1>1
<1>4. w[k] \in Units
  BY <1>2, <1>3, WireGrows
<1>5. PICK t \in Units : w[Len(s)] = w[k + 1] \o t
  BY <1>2, <1>3, WireGrows
<1>6. w[k + 1] = w[k] \o s[k + 1].units
  BY <1>2, <1>3 DEF IsWire, WireStep
<1>7. s[k + 1].units \in Units
  BY <1>3, ElementOfSeq, AllTreated DEF Readable
<1>8. w[Len(s)] = w[k] \o (s[k + 1].units \o t)
  <2>1. (w[k] \o s[k + 1].units) \o t = w[k] \o (s[k + 1].units \o t)
    BY <1>4, <1>5, <1>7, Associative
  <2> QED
    BY <1>5, <1>6, <2>1
<1>9. s[k + 1].units \o t \in Units
  BY <1>5, <1>7, LaidOut
<1>10. b = s[k + 1].units \o t
  <2>1. w[k] \o b = w[k] \o (s[k + 1].units \o t)
    BY <1>2, <1>8
  <2> QED
    BY <1>4, <1>9, <2>1, Cancelled
<1>11. Remaining(t, s, k + 1)
  BY <1>2, <1>5 DEF Remaining
<1> QED
  BY <1>5, <1>10, <1>11

\* Wherever a read ends, the buffer is a start of the next request, or goes beyond it.
LEMMA StartsOf ==
  ASSUME NEW b \in Units, NEW a \in Units, NEW u \in Units, NEW t \in Units, b \o a = u \o t
  PROVE  Starts(b, u)
<1>1. /\ \A i \in 1..Len(b) : (b \o a)[i] = b[i]
      /\ \A i \in 1..Len(u) : (u \o t)[i] = u[i]
      /\ Len(b) \in Nat /\ Len(u) \in Nat
  BY LaidOut
<1>2. ASSUME NEW i \in 1..Len(b), i <= Len(u)
      PROVE  b[i] = u[i]
  <2>1. i \in 1..Len(u)
    BY <1>1, <1>2
  <2> QED
    BY <1>1, <2>1
<1> QED
  BY <1>2 DEF Starts

\* consume: a buffer cut after its first n units.
LEMMA CutIn ==
  ASSUME NEW b \in Units, NEW n \in 0..Len(b)
  PROVE  /\ SubSeq(b, 1, n) \in Units /\ SubSeq(b, n + 1, Len(b)) \in Units
         /\ Len(SubSeq(b, 1, n)) = n /\ Len(SubSeq(b, n + 1, Len(b))) = Len(b) - n
         /\ SubSeq(b, 1, n) \o SubSeq(b, n + 1, Len(b)) = b
<1> DEFINE S == [kind : Kinds, n : Nat]
<1>1. b \in Seq(S) /\ Units = Seq(S)
  BY DEF Units
<1> HIDE DEF S
<1>2. Len(b) \in Nat /\ \A i \in 1..Len(b) : b[i] \in S
  BY <1>1, LenProperties, ElementOfSeq
<1> DEFINE front == SubSeq(b, 1, n)
           back == SubSeq(b, n + 1, Len(b))
<1>3. /\ front \in Seq(S) /\ Len(front) = IF 1 <= n THEN n - 1 + 1 ELSE 0
  <2>1. \A i \in 1..n : b[i] \in S
    BY <1>2
  <2> QED
    BY <1>2, <2>1, SubSeqProperties
<1>4. /\ back \in Seq(S) /\ Len(back) = IF n + 1 <= Len(b) THEN Len(b) - (n + 1) + 1 ELSE 0
  <2>1. \A i \in n + 1..Len(b) : b[i] \in S
    BY <1>2
  <2> QED
    BY <1>2, <2>1, SubSeqProperties
<1>5. SubSeq(b, 1, n) \o SubSeq(b, n + 1, Len(b)) = SubSeq(b, 1, Len(b))
  <2>1. 1 \in 1..Len(b) + 1 /\ n \in 1 - 1..Len(b) /\ Len(b) \in n..Len(b)
    BY <1>2
  <2> QED
    BY <1>1, <2>1, ConcatAdjacentSubSeq
<1>6. SubSeq(b, 1, Len(b)) = b
  BY <1>1, SubSeqFull
<1>7. Len(front) = n /\ Len(back) = Len(b) - n
  <2> HIDE DEF front, back
  <2> QED
    BY <1>2, <1>3, <1>4
<1> QED
  BY <1>1, <1>3, <1>4, <1>5, <1>6, <1>7

\* Once u is consumed of b, t is what b and a were to bring after it.
Leaves(b, u, a, t) ==
  /\ Consume(b, Len(u)) \in Units /\ Len(Consume(b, Len(u))) <= Len(b)
  /\ Consume(b, Len(u)) \o a = t

\* Consuming a request leaves what is behind it: never less, never more.
LEMMA ConsumeIs ==
  ASSUME NEW b \in Units, NEW a \in Units, NEW u \in Units, NEW t \in Units,
         b \o a = u \o t, Len(u) <= Len(b)
  PROVE  Leaves(b, u, a, t)
<1> DEFINE n == Len(u)
           front == SubSeq(b, 1, n)
           back == SubSeq(b, n + 1, Len(b))
<1>1. n \in 0..Len(b) /\ n \in Nat /\ Len(b) \in Nat
  BY LenProperties DEF Units
<1>2. /\ front \in Units /\ back \in Units /\ Len(back) = Len(b) - n /\ front \o back = b
  BY <1>1, CutIn
<1>3. front = u
  <2>1. /\ \A i \in 1..Len(b) : (b \o a)[i] = b[i]
        /\ \A i \in 1..n : (u \o t)[i] = u[i]
    BY LaidOut
  <2>2. \A j \in 1..n : b[0 + j] = u[j]
    <3> TAKE j \in 1..n
    <3>1. j \in 1..Len(b) /\ 0 + j = j
      BY <1>1
    <3> QED
      BY <2>1, <3>1
  <2>3. SubSeq(b, 0 + 1, 0 + n) = u
    BY <1>1, <2>2, SubSeqIs
  <2> QED
    BY <1>1, <2>3
<1>4. Consume(b, n) = back
  BY DEF Consume
<1> HIDE DEF front, back, n
<1>5. u \o (back \o a) = u \o t
  <2>1. (u \o back) \o a = u \o (back \o a)
    BY <1>2, Associative
  <2> QED
    BY <1>2, <1>3, <2>1
<1>6. back \o a = t
  <2>1. back \o a \in Units
    BY <1>2, LaidOut
  <2> QED
    BY <1>5, <2>1, Cancelled
<1>7. Len(back) <= Len(b)
  BY <1>1, <1>2
<1>8. /\ Consume(b, Len(u)) \in Units /\ Len(Consume(b, Len(u))) <= Len(b)
      /\ Consume(b, Len(u)) \o a = t
  BY <1>2, <1>4, <1>6, <1>7 DEF n
<1> QED
  BY <1>8 DEF Leaves

-----------------------------------------------------------------------------
(* HttpParser: the connection.                                             *)

Bodies == {r.body : r \in ClientRequests}

\* The parser waits: what is buffered is neither a request nor none.
Waits(b) == Parse(b).state \notin {"COMPLETE", "ERROR"}

\* The first k requests of the stream, as they are served.
Served(k) ==
  \A i \in 1..k : stream[i].good /\ Len(stream[i].units) <= BufferSize

\* What was handed out, what is buffered and what was not received yet are the stream
\* between them; a connection with nothing in hand waits for what is not there; one
\* that was closed stopped before a request the server is to refuse.
ParserInv ==
  /\ stream \in Seq(ClientRequests)
  /\ buffer \in Units /\ unsent \in Units /\ Len(buffer) <= BufferSize
  /\ processing \in BOOLEAN /\ isOpen \in BOOLEAN
  /\ parsed \in Seq(Bodies) /\ Len(parsed) <= Len(stream) /\ Served(Len(parsed))
  /\ \A i \in 1..Len(parsed) : parsed[i] = stream[i].body
  /\ isOpen => Remaining(buffer \o unsent, stream, Len(parsed))
  /\ isOpen /\ ~processing => Waits(buffer)
  /\ ~isOpen => Len(parsed) < Len(stream) /\ Len(parsed) + 1 \in Unserved

LEMMA StreamLengths ==
  ASSUME ParserInv
  PROVE  /\ Len(stream) \in Nat /\ Len(parsed) \in Nat /\ Len(parsed) <= Len(stream)
         /\ Len(buffer) \in Nat /\ Len(unsent) \in Nat
         /\ DOMAIN stream = 1..Len(stream) /\ DOMAIN parsed = 1..Len(parsed)
         /\ MaxStream \in Nat /\ BufferSize \in Nat
<1>1. /\ stream \in Seq(ClientRequests) /\ parsed \in Seq(Bodies) /\ buffer \in Units
      /\ unsent \in Units /\ Len(parsed) <= Len(stream)
  BY DEF ParserInv
<1>2. Len(stream) \in Nat /\ DOMAIN stream = 1..Len(stream)
  BY <1>1, LenProperties
<1>3. Len(parsed) \in Nat /\ DOMAIN parsed = 1..Len(parsed)
  BY <1>1, LenProperties
<1>4. Len(buffer) \in Nat /\ Len(unsent) \in Nat
  BY <1>1, LenProperties DEF Units
<1>5. MaxStream \in Nat /\ BufferSize \in Nat
  BY ParserAssumption
<1> QED
  BY <1>1, <1>2, <1>3, <1>4, <1>5

LEMMA NothingWaits == Waits(<<>>)
<1>1. Where(<<>>, "blank") = {} /\ Len(<<>>) = 0
  BY NothingIsSeq DEF Where
<1>2. HeaderSpan(<<>>) = 0
  BY <1>1 DEF HeaderSpan
<1>3. ~(HeaderSpan(<<>>) > MaxHeader)
  BY <1>2, ParserAssumption
<1>4. Parse(<<>>) = Wanting("REQUEST_LINE")
  BY <1>3 DEF Parse
<1> QED
  BY <1>4 DEF Waits, Wanting, Result

\* Before anything is received.
LEMMA InitParserInv == ParserInit => ParserInv
<1> SUFFICES ASSUME ParserInit
             PROVE  ParserInv
  OBVIOUS
<1>1. stream \in Seq(ClientRequests)
  <2>1. PICK m \in 0..MaxStream : stream \in [1..m -> ClientRequests]
    BY DEF ParserInit
  <2>2. m \in Nat
    BY ParserAssumption
  <2> QED
    BY <2>1, <2>2
<1>2. Wire(stream) \in Units /\ Remaining(Wire(stream), stream, 0)
  BY <1>1, RemainingAll
<1>3. unsent = Wire(stream) /\ buffer = <<>> /\ processing = FALSE /\ isOpen = TRUE /\ parsed = <<>>
  BY DEF ParserInit
<1>4. buffer \in Units /\ Len(buffer) = 0 /\ buffer \o unsent = unsent
  BY <1>2, <1>3, NothingIsSeq, NothingAdded
<1>5. parsed \in Seq(Bodies) /\ Len(parsed) = 0
  BY <1>3
<1>6. Len(stream) \in Nat /\ BufferSize \in Nat
  BY <1>1, LenProperties, ParserAssumption
<1>7. Remaining(buffer \o unsent, stream, Len(parsed)) /\ Waits(buffer)
  BY <1>2, <1>3, <1>4, <1>5, NothingWaits
<1>8. Len(parsed) <= Len(stream) /\ Len(buffer) <= BufferSize /\ 1..Len(parsed) = {}
  BY <1>4, <1>5, <1>6
<1>9. unsent \in Units /\ isOpen /\ processing = FALSE /\ isOpen \in BOOLEAN
  BY <1>2, <1>3
<1> QED
  BY <1>1, <1>4, <1>5, <1>7, <1>8, <1>9 DEF ParserInv, Served

\* The request that is due, and what of it is buffered.
Upcoming(k) == stream[k + 1]

\* r is the next request of the stream, after k of them, when b and then a are left.
IsDue(b, a, r, k) ==
  /\ r \in ClientRequests /\ Treated(r) /\ r.units \in Units /\ Len(r.units) # 0
  /\ Starts(b, r.units)
  /\ \E t \in Units : b \o a = r.units \o t /\ Remaining(t, stream, k + 1)

\* While a request is left, the buffer is a start of it or goes beyond it.
LEMMA RequestDue ==
  ASSUME NEW b \in Units, NEW a \in Units, stream \in Seq(ClientRequests),
         NEW k \in Nat, k < Len(stream), Remaining(b \o a, stream, k)
  PROVE  IsDue(b, a, Upcoming(k), k)
<1> DEFINE r == Upcoming(k)
<1>1. Len(stream) \in Nat /\ k \in 0..Len(stream) - 1 /\ k + 1 \in 1..Len(stream)
  BY LenProperties
<1>0. r = stream[k + 1]
  BY DEF Upcoming
<1> HIDE DEF r
<1>2. r \in ClientRequests
  BY <1>0, <1>1, ElementOfSeq
<1>3. Treated(r) /\ r.units \in Units /\ Len(r.units) # 0
  BY <1>2, AllTreated DEF Readable
<1>4. b \o a \in Units
  BY LaidOut
<1>5. PICK t \in Units : b \o a = r.units \o t /\ Remaining(t, stream, k + 1)
  BY <1>0, <1>1, <1>4, RemainingNext
<1>6. Starts(b, r.units)
  BY <1>3, <1>5, StartsOf
<1>7. IsDue(b, a, r, k)
  BY <1>2, <1>3, <1>5, <1>6 DEF IsDue
<1> QED
  BY <1>7 DEF r

\* A connection waits, and there is a request for it: it is not there as a whole, or
\* the server is to refuse it.
LEMMA WaitsFor ==
  ASSUME NEW b \in Units, NEW a \in Units, stream \in Seq(ClientRequests), Waits(b),
         NEW k \in Nat, k < Len(stream), Remaining(b \o a, stream, k),
         Upcoming(k).good
  PROVE  Len(b) < Len(Upcoming(k).units)
<1> DEFINE r == Upcoming(k)
<1>0. IsDue(b, a, r, k)
  BY RequestDue
<1>1. Treated(r) /\ Starts(b, r.units) /\ r.units \in Units
  BY <1>0 DEF IsDue
<1>2. Len(b) \in Nat /\ Len(r.units) \in Nat
  BY <1>1, LenProperties DEF Units
<1>4. Len(r.units) <= Len(b) => Parse(b) = Result("COMPLETE", Len(r.units), r.body)
  BY <1>1 DEF Treated
<1>5. ~(Len(r.units) <= Len(b))
  BY <1>4 DEF Waits, Result
<1> QED
  BY <1>2, <1>5

\* What dispatch_next does with a request that is there, an error, or neither.
LEMMA DispatchIs ==
  ASSUME NEW b, Dispatch(b)
  PROVE  /\ Waits(b) => /\ parsed' = parsed /\ buffer' = b
                        /\ processing' = FALSE /\ isOpen' = TRUE
         /\ Parse(b).state = "ERROR" => /\ parsed' = parsed /\ buffer' = b
                                        /\ processing' = FALSE /\ isOpen' = FALSE
         /\ Parse(b).state = "COMPLETE" =>
              /\ parsed' = Append(parsed, Parse(b).body)
              /\ buffer' = Consume(b, Parse(b).consumed)
              /\ processing' = TRUE /\ isOpen' = TRUE
BY DEF Dispatch, Waits

\* Nothing is handed out.
LEMMA StillParserInv ==
  ASSUME ParserInv, parsed' = parsed, UNCHANGED stream,
         buffer' \in Units, unsent' \in Units, Len(buffer') <= BufferSize,
         processing' \in BOOLEAN, isOpen' \in BOOLEAN,
         isOpen' => Remaining(buffer' \o unsent', stream, Len(parsed)),
         isOpen' /\ ~processing' => Waits(buffer'),
         ~isOpen' => Len(parsed) < Len(stream) /\ Len(parsed) + 1 \in Unserved
  PROVE  ParserInv'
<1>1. Served(Len(parsed))'
  BY DEF ParserInv, Served
<1>2. ~isOpen' => (Len(parsed) < Len(stream) /\ Len(parsed) + 1 \in Unserved)'
  BY DEF Unserved
<1>3. (stream \in Seq(ClientRequests))'
  BY DEF ParserInv
<1>4. /\ (parsed \in Seq(Bodies))' /\ (Len(parsed) <= Len(stream))'
      /\ (\A i \in 1..Len(parsed) : parsed[i] = stream[i].body)'
  BY DEF ParserInv
<1>5. isOpen' => Remaining(buffer \o unsent, stream, Len(parsed))'
  OBVIOUS
<1>6. isOpen' /\ ~processing' => Waits(buffer)'
  OBVIOUS
<1> QED
  BY <1>1, <1>2, <1>3, <1>4, <1>5, <1>6 DEF ParserInv

\* A request is handed out.
LEMMA HandedOut ==
  ASSUME ParserInv, Len(parsed) < Len(stream), UNCHANGED stream,
         NEW r, r = Upcoming(Len(parsed)), r \in ClientRequests,
         r.good, Len(r.units) <= BufferSize,
         parsed' = Append(parsed, r.body), processing' = TRUE, isOpen' = TRUE,
         buffer' \in Units, unsent' \in Units, Len(buffer') <= BufferSize,
         Remaining(buffer' \o unsent', stream, Len(parsed) + 1)
  PROVE  ParserInv'
<1> DEFINE k == Len(parsed)
<1>0. k \in Nat /\ Len(stream) \in Nat
  BY StreamLengths
<1>1. r.body \in Bodies
  BY DEF Bodies
<1>2. parsed \in Seq(Bodies) /\ Served(k) /\ \A i \in 1..k : parsed[i] = stream[i].body
  BY DEF ParserInv
<1>3. /\ parsed' \in Seq(Bodies) /\ Len(parsed') = k + 1
      /\ \A i \in 1..k : parsed'[i] = parsed[i]
      /\ parsed'[k + 1] = r.body
  BY <1>1, <1>2, AppendProperties
<1>4. r = stream[k + 1]
  BY DEF Upcoming
<1> HIDE DEF k
<1>5. \A i \in 1..k + 1 : i \in 1..k \/ i = k + 1
  BY <1>0
<1>6. \A i \in 1..k + 1 : parsed'[i] = stream[i].body
  BY <1>2, <1>3, <1>4, <1>5
<1>7. Served(k + 1)
  BY <1>2, <1>4, <1>5 DEF Served
<1>8. k + 1 <= Len(stream)
  BY <1>0 DEF k
<1>9. Served(Len(parsed))'
  BY <1>3, <1>7 DEF Served
<1>10. /\ (parsed \in Seq(Bodies))' /\ (Len(parsed) <= Len(stream))'
       /\ (\A i \in 1..Len(parsed) : parsed[i] = stream[i].body)'
  BY <1>3, <1>6, <1>8
<1>11. (stream \in Seq(ClientRequests))'
  BY DEF ParserInv
<1>12. Remaining(buffer \o unsent, stream, Len(parsed))'
  BY <1>3 DEF k
<1> QED
  BY <1>9, <1>10, <1>11, <1>12 DEF ParserInv

\* dispatch_next keeps the invariant, after a read and after an answer alike.
LEMMA BufferDispatched ==
  ASSUME ParserInv, isOpen, NEW b \in Units, Len(b) <= BufferSize,
         unsent' \in Units, b \o unsent' = buffer \o unsent, Dispatch(b), UNCHANGED stream
  PROVE  ParserInv'
<1> DEFINE k == Len(parsed)
           a == unsent'
<1>1. /\ k \in Nat /\ Len(stream) \in Nat /\ k <= Len(stream) /\ Len(b) \in Nat /\ BufferSize \in Nat
      /\ stream \in Seq(ClientRequests)
  BY StreamLengths, LenProperties DEF Units, ParserInv
<1>2. Remaining(b \o a, stream, k)
  BY DEF ParserInv
<1>3. CASE Waits(b)
  <2>1. /\ parsed' = parsed /\ buffer' = b
        /\ processing' = FALSE /\ isOpen' = TRUE
    BY <1>3, DispatchIs
  <2> QED
    BY <1>2, <1>3, <2>1, StillParserInv
<1>4. ASSUME k = Len(stream)
      PROVE  Waits(b)
  <2>1. b \o a \in Units
    BY LaidOut
  <2>2. b \o a = <<>>
    BY <1>1, <1>2, <1>4, <2>1, RemainingNone
  <2>3. b = <<>>
    <3>1. Len(b \o a) = Len(b) + Len(a) /\ Len(a) \in Nat
      BY LaidOut
    <3>2. Len(b) = 0
      BY <1>1, <2>2, <3>1, NothingIsSeq
    <3> QED
      BY <3>2, EmptySeq DEF Units
  <2> QED
    BY <2>3, NothingWaits
<1>5. CASE k < Len(stream) /\ ~Waits(b)
  <2> DEFINE r == Upcoming(k)
  <2>0. a \in Units
    OBVIOUS
  <2>1. /\ r \in ClientRequests /\ Treated(r) /\ r.units \in Units /\ Len(r.units) # 0
        /\ Starts(b, r.units)
        /\ \E t \in Units : b \o a = r.units \o t /\ Remaining(t, stream, k + 1)
    <3> HIDE DEF k, a
    <3>1. IsDue(b, a, r, k)
      BY <1>1, <1>2, <1>5, <2>0, RequestDue
    <3> QED
      BY <3>1 DEF IsDue
  <2>2. PICK t \in Units : b \o a = r.units \o t /\ Remaining(t, stream, k + 1)
    BY <2>1
  <2>3. r = Upcoming(k) /\ r = stream[k + 1]
    BY DEF Upcoming
  <2>4. Len(r.units) \in Nat
    BY <2>1, LenProperties DEF Units
  <2> HIDE DEF r
  <2>5. CASE Parse(b).state = "ERROR"
    <3>1. ~r.good
      <4>1. ASSUME r.good PROVE FALSE
        <5>1. Len(r.units) <= Len(b) \/ Len(b) < Len(r.units)
          BY <1>1, <2>4
        <5>2. Result("COMPLETE", Len(r.units), r.body).state # "ERROR"
          BY DEF Result
        <5> QED
          BY <2>1, <2>5, <4>1, <5>1, <5>2 DEF Treated
      <4> QED
        BY <4>1
    <3>2. k + 1 \in Unserved
      <4>1. k + 1 \in DOMAIN stream
        BY <1>1, <1>5, LenProperties
      <4> QED
        BY <2>3, <3>1, <4>1 DEF Unserved
    <3>3. /\ parsed' = parsed /\ buffer' = b
          /\ processing' = FALSE /\ isOpen' = FALSE
      BY <2>5, DispatchIs
    <3> QED
      BY <1>5, <3>2, <3>3, StillParserInv
  <2>6. CASE Parse(b).state = "COMPLETE"
    <3>1. r.good /\ Len(r.units) <= Len(b)
      BY <1>1, <2>1, <2>4, <2>6 DEF Treated
    <3>2. Parse(b) = Result("COMPLETE", Len(r.units), r.body)
      BY <2>1, <3>1 DEF Treated
    <3>3. Parse(b).body = r.body /\ Parse(b).consumed = Len(r.units)
      BY <3>2 DEF Result
    <3>4. /\ parsed' = Append(parsed, r.body) /\ buffer' = Consume(b, Len(r.units))
          /\ processing' = TRUE /\ isOpen' = TRUE
      BY <2>6, <3>3, DispatchIs
    <3>5. /\ buffer' \in Units /\ Len(buffer') <= Len(b) /\ buffer' \o a = t
      <4> HIDE DEF a
      <4> DEFINE u == r.units
      <4>1. u \in Units /\ b \o a = u \o t /\ Len(u) <= Len(b)
        BY <2>1, <2>2, <3>1
      <4>2. buffer' = Consume(b, Len(u))
        BY <3>4
      <4> HIDE DEF u
      <4>3. /\ Consume(b, Len(u)) \in Units /\ Len(Consume(b, Len(u))) <= Len(b)
            /\ Consume(b, Len(u)) \o a = t
        <5>1. Leaves(b, u, a, t)
          BY <2>0, <2>2, <4>1, ConsumeIs
        <5> QED
          BY <5>1 DEF Leaves
      <4> QED
        BY <4>2, <4>3
    <3>6. Len(buffer') \in Nat
      BY <3>5, LenProperties DEF Units
    <3>7. Len(buffer') <= BufferSize /\ Len(r.units) <= BufferSize
      BY <1>1, <2>4, <3>1, <3>5, <3>6
    <3>8. Remaining(buffer' \o unsent', stream, Len(parsed) + 1)
      BY <2>2, <3>5
    <3> QED
      BY <1>5, <2>1, <2>3, <3>1, <3>4, <3>5, <3>7, <3>8, HandedOut
  <2> QED
    BY <1>5, <2>5, <2>6 DEF Waits
<1> QED
  BY <1>1, <1>3, <1>4, <1>5

\* One step of the connection: a read, a read without room, an answer.
LEMMA NextParserInv == ParserInv /\ [ParserNext]_parserVars => ParserInv'
<1> SUFFICES ASSUME ParserInv, [ParserNext]_parserVars
             PROVE  ParserInv'
  OBVIOUS
<1>0. /\ stream \in Seq(ClientRequests) /\ buffer \in Units /\ unsent \in Units
      /\ Len(stream) \in Nat /\ Len(parsed) \in Nat /\ Len(parsed) <= Len(stream)
      /\ Len(buffer) \in Nat /\ Len(unsent) \in Nat /\ BufferSize \in Nat
      /\ Len(buffer) <= BufferSize
  BY StreamLengths DEF ParserInv
<1>1. ASSUME NEW n \in 1..BufferSize, Receive(n)
      PROVE  ParserInv'
  <2> DEFINE front == SubSeq(unsent, 1, n)
             back == SubSeq(unsent, n + 1, Len(unsent))
             b == buffer \o front
  <2>1. /\ isOpen /\ n <= Len(unsent) /\ n <= BufferSize - Len(buffer)
        /\ unsent' = back /\ Dispatch(b) /\ UNCHANGED stream
    BY <1>1 DEF Receive
  <2>2. n \in 0..Len(unsent)
    BY <1>0, <2>1
  <2>3. /\ front \in Units /\ back \in Units /\ Len(front) = n /\ front \o back = unsent
    BY <1>0, <2>2, CutIn
  <2> HIDE DEF front, back
  <2>4. b \in Units /\ Len(b) = Len(buffer) + Len(front)
    BY <1>0, <2>3, LaidOut
  <2>5. b \o unsent' = buffer \o unsent
    BY <1>0, <2>1, <2>3, Associative
  <2> HIDE DEF b
  <2>6. Len(b) <= BufferSize
    BY <1>0, <2>1, <2>3, <2>4
  <2> QED
    BY <2>1, <2>3, <2>4, <2>5, <2>6, BufferDispatched
<1>2. ASSUME ReceiveNothing
      PROVE  ParserInv'
  <2>1. /\ isOpen /\ ~processing /\ unsent # <<>> /\ Len(buffer) = BufferSize
        /\ isOpen' = FALSE /\ UNCHANGED <<stream, unsent, buffer, processing, parsed>>
    BY <1>2 DEF ReceiveNothing
  <2>2. Remaining(buffer \o unsent, stream, Len(parsed)) /\ Waits(buffer)
    BY <2>1 DEF ParserInv
  <2>3. Len(parsed) < Len(stream)
    <3>1. ASSUME Len(parsed) = Len(stream) PROVE FALSE
      <4>1. buffer \o unsent \in Units
        BY <1>0, LaidOut
      <4>2. buffer \o unsent = <<>>
        BY <1>0, <2>2, <3>1, <4>1, RemainingNone
      <4>3. Len(buffer \o unsent) = Len(buffer) + Len(unsent)
        BY <1>0, LaidOut
      <4>4. Len(unsent) = 0
        BY <1>0, <4>2, <4>3, NothingIsSeq
      <4> QED
        BY <1>0, <2>1, <4>4, EmptySeq DEF Units
    <3> QED
      BY <1>0, <3>1
  <2> DEFINE r == Upcoming(Len(parsed))
  <2>4. r = Upcoming(Len(parsed)) /\ r = stream[Len(parsed) + 1]
    BY DEF Upcoming
  <2> HIDE DEF r
  <2>5. r.good => Len(buffer) < Len(r.units)
    BY <1>0, <2>2, <2>3, <2>4, WaitsFor
  <2>6. Len(parsed) + 1 \in Unserved
    <3>1. Len(parsed) + 1 \in DOMAIN stream
      BY <1>0, <2>3, LenProperties
    <3>2. ~stream[Len(parsed) + 1].good \/ Len(stream[Len(parsed) + 1].units) > BufferSize
      <4>1. r.units \in Units
        <5>1. IsDue(buffer, unsent, r, Len(parsed))
          BY <1>0, <2>2, <2>3, <2>4, RequestDue
        <5> QED
          BY <5>1 DEF IsDue
      <4>2. Len(r.units) \in Nat
        BY <4>1, LenProperties DEF Units
      <4> QED
        BY <1>0, <2>1, <2>4, <2>5, <4>2
    <3> DEFINE i == Len(parsed) + 1
    <3>3. i \in DOMAIN stream /\ (~stream[i].good \/ Len(stream[i].units) > BufferSize)
      BY <3>1, <3>2
    <3> HIDE DEF i
    <3>4. i \in Unserved
      BY <3>3 DEF Unserved
    <3> QED
      BY <3>4 DEF i
  <2>7. processing' \in BOOLEAN
    <3>1. processing \in BOOLEAN /\ processing' = processing
      BY <2>1 DEF ParserInv
    <3> QED
      BY <3>1
  <2>8. /\ buffer' \in Units /\ unsent' \in Units /\ Len(buffer') <= BufferSize
        /\ parsed' = parsed /\ UNCHANGED stream /\ isOpen' = FALSE
    BY <1>0, <2>1
  <2> QED
    BY <2>3, <2>6, <2>7, <2>8, StillParserInv
<1>3. ASSUME Answered
      PROVE  ParserInv'
  <2>1. isOpen /\ Dispatch(buffer) /\ UNCHANGED <<stream, unsent>>
    BY <1>3 DEF Answered
  <2> QED
    BY <1>0, <2>1, BufferDispatched
<1>4. ASSUME UNCHANGED parserVars
      PROVE  ParserInv'
  <2>1. /\ stream' = stream /\ unsent' = unsent /\ buffer' = buffer /\ parsed' = parsed
        /\ processing' = processing /\ isOpen' = isOpen
    BY <1>4 DEF parserVars
  <2> QED
    BY <2>1, StillParserInv DEF ParserInv
<1> QED
  BY <1>1, <1>2, <1>3, <1>4 DEF ParserNext, StreamEnded

\* The first of the requests it is about.
LEMMA FirstOf ==
  ASSUME NEW S, S \subseteq Nat, S # {}
  PROVE  First(S) \in S /\ \A i \in S : First(S) <= i
<1>0. S \subseteq Int
  OBVIOUS
<1>1. PICK k \in S : \A j \in S : k <= j
  BY Least
<1>2. First(S) = k
  BY <1>0, <1>1, FirstIs
<1> QED
  BY <1>1, <1>2

\* The invariant is what makes StreamServed hold.
LEMMA ServedFromInv == ParserInv => StreamServed
<1> SUFFICES ASSUME ParserInv
             PROVE  StreamServed
  OBVIOUS
<1> DEFINE k == Len(parsed)
<1>0. /\ stream \in Seq(ClientRequests) /\ buffer \in Units /\ unsent \in Units
      /\ Len(stream) \in Nat /\ k \in Nat /\ k <= Len(stream)
      /\ Len(buffer) \in Nat
      /\ DOMAIN stream = 1..Len(stream) /\ DOMAIN parsed = 1..k
      /\ Served(k) /\ \A i \in 1..k : parsed[i] = stream[i].body
  BY StreamLengths DEF ParserInv
<1>1. /\ isOpen => Remaining(buffer \o unsent, stream, k)
      /\ isOpen /\ ~processing => Waits(buffer)
      /\ ~isOpen => k < Len(stream) /\ k + 1 \in Unserved
  BY DEF ParserInv
<1> HIDE DEF k
<1>2. ParsedAsSent
  <2>1. k <= Acceptable
    <3>1. CASE \A i \in DOMAIN stream : stream[i].good
      BY <1>0, <3>1 DEF Acceptable
    <3>2. CASE ~(\A i \in DOMAIN stream : stream[i].good)
      <4> DEFINE bad == {i \in DOMAIN stream : ~stream[i].good}
      <4>1. bad \subseteq Nat /\ bad # {}
        BY <1>0, <3>2
      <4>2. First(bad) \in bad
        BY <4>1, FirstOf
      <4>3. First(bad) \in 1..Len(stream) /\ ~stream[First(bad)].good
        BY <1>0, <4>2
      <4>4. ~(First(bad) \in 1..k)
        BY <1>0, <4>3 DEF Served
      <4>5. k <= First(bad) - 1
        BY <1>0, <4>3, <4>4
      <4>6. Acceptable = First(bad) - 1
        BY <3>2 DEF Acceptable
      <4> QED
        BY <4>5, <4>6
    <3> QED
      BY <3>1, <3>2
  <2> QED
    BY <1>0, <2>1 DEF ParsedAsSent, k
<1>3. ASSUME ~isOpen
      PROVE  Unserved # {} /\ k = First(Unserved) - 1
  <2>1. k + 1 \in Unserved
    BY <1>1, <1>3
  <2>2. Unserved \subseteq Nat /\ Unserved \subseteq Int
    BY <1>0 DEF Unserved
  <2>3. ASSUME NEW j \in Unserved
        PROVE  k + 1 <= j
    <3>1. j \in 1..Len(stream) /\ (~stream[j].good \/ Len(stream[j].units) > BufferSize)
      BY <1>0 DEF Unserved
    <3>2. BufferSize \in Nat /\ Len(stream[j].units) \in Nat
      <4>1. stream[j] \in ClientRequests
        BY <1>0, <3>1, ElementOfSeq
      <4>2. stream[j].units \in Units
        BY <4>1, AllTreated DEF Readable
      <4> QED
        BY <4>2, ParserAssumption, LenProperties DEF Units
    <3>3. ~(j \in 1..k)
      <4>1. ASSUME j \in 1..k PROVE FALSE
        <5>1. stream[j].good /\ Len(stream[j].units) <= BufferSize
          BY <1>0, <4>1 DEF Served
        <5> QED
          BY <3>1, <3>2, <5>1
      <4> QED
        BY <4>1
    <3> QED
      BY <1>0, <3>1, <3>3
  <2>4. First(Unserved) = k + 1
    BY <2>1, <2>2, <2>3, FirstIs
  <2> QED
    BY <1>0, <2>1, <2>4
<1>4. ASSUME Unserved = {}, unsent = <<>>, ~processing
      PROVE  k = Len(stream)
  <2>1. isOpen
    BY <1>3, <1>4
  <2>2. Remaining(buffer \o unsent, stream, k) /\ Waits(buffer)
    BY <1>1, <1>4, <2>1
  <2>3. ASSUME k < Len(stream) PROVE FALSE
    <3> DEFINE r == Upcoming(k)
    <3>1. r = Upcoming(k) /\ r = stream[k + 1]
      BY DEF Upcoming
    <3> HIDE DEF r
    <3>2. r.good
      <4>1. k + 1 \in DOMAIN stream
        BY <1>0, <2>3
      <4> QED
        BY <1>4, <3>1, <4>1 DEF Unserved
    <3>3. Len(buffer) < Len(r.units)
      BY <1>0, <2>2, <2>3, <3>1, <3>2, WaitsFor
    <3>4. /\ r.units \in Units
          /\ \E t \in Units : buffer \o unsent = r.units \o t /\ Remaining(t, stream, k + 1)
      <4>1. IsDue(buffer, unsent, r, k)
        BY <1>0, <2>2, <2>3, <3>1, RequestDue
      <4> QED
        BY <4>1 DEF IsDue
    <3>5. PICK t \in Units : buffer \o unsent = r.units \o t
      BY <3>4
    <3>6. buffer = r.units \o t
      BY <1>0, <1>4, <3>5, NothingAdded
    <3> DEFINE u == r.units
    <3>7. Len(u \o t) = Len(u) + Len(t) /\ Len(u) \in Nat /\ Len(t) \in Nat
      BY <3>4, <3>5, LaidOut
    <3>8. Len(buffer) < Len(u)
      BY <3>3
    <3>10. buffer = u \o t
      BY <3>6
    <3> HIDE DEF u
    <3>9. Len(buffer) = Len(u) + Len(t)
      BY <3>7, <3>10
    <3>11. Len(u) \in Nat /\ Len(t) \in Nat
      BY <3>7
    <3> QED
      BY <1>0, <3>8, <3>9, <3>11
  <2>4. k \in Nat /\ Len(stream) \in Nat /\ k <= Len(stream)
    BY <1>0
  <2>5. ~(k < Len(stream))
    BY <2>3
  <2> QED
    BY <2>4, <2>5
<1>5. GoodClientsServed
  BY <1>3, <1>4 DEF GoodClientsServed, k
<1> QED
  BY <1>2, <1>5 DEF StreamServed

\* However the stream of requests a client sends is cut into reads, those handed out are
\* those sent, each with its own body, none after a malformed one; a client whose
\* requests the server is to serve is never cut off, none of its requests stays in
\* the buffer (HttpParser, the read buffer of Connection).
THEOREM StreamIsServed == ServicesSpec => []StreamServed
<1>1. ServicesInit => ParserInv
  BY InitParserInv DEF ServicesInit
<1>2. ParserInv /\ [ServicesNext]_<<part, limiterVars, routerVars, parserVars, timeoutVars,
                                    logVars, metricsVars, replyVars, appVars, viewVars>>
        => ParserInv'
  <2>1. [ServicesNext]_<<part, limiterVars, routerVars, parserVars, timeoutVars,
                         logVars, metricsVars, replyVars, appVars, viewVars>>
          => [ParserNext]_parserVars
    BY DEF ServicesNext
  <2> QED
    BY <2>1, NextParserInv
<1> QED
  BY <1>1, <1>2, ServedFromInv, PTL DEF ServicesSpec
=============================================================================
