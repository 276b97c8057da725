-------------------------------- MODULE Reply --------------------------------
(***************************************************************************)
(* What a worker makes of one request: middlewares, route, handler,        *)
(* compression and the semantics of HTTP, in that order (the lambda of     *)
(* dispatch_next, maybe_compress and apply_http_semantics in               *)
(* src/src/server/Server.cpp; src/include/oreshnek/server/Middleware.h).   *)
(* ResponseWriter has the arithmetic of ranges, and the sending.           *)
(*                                                                         *)
(* Of a response there are the headers that describe its body.  Sizes are  *)
(* those of a text: 1 is below min_bytes, 2 is what a coder makes of 4, and *)
(* of 5 it makes nothing shorter.                                          *)
(*                                                                         *)
(* An operator whose name starts with Faulty is a mutant of the definition *)
(* that follows it.                                                        *)
(***************************************************************************)
EXTENDS Integers, Sequences

VARIABLES
  setup,    \* middlewares_, the routes, the compression settings, what the handler does
  request,  \* what apply_http_semantics and the middlewares look at
  res       \* the response, or NoResponse

replyVars == <<setup, request, res>>

Codings == {"br", "gzip"}
Chains == {<<"logger", "cors">>, <<"cors", "jwt">>, <<"jwt", "cors">>, <<"throws", "jwt">>}

\* What a handler does: a body, a label of its own for it, an exception at the end.
HandlerKinds == [body : {"none", "file", "image", "text"}, size : {1, 4, 5},
             label : BOOLEAN, throws : BOOLEAN]

Setups == [chain : Chains, routes : {{}, {"GET"}, {"GET", "HEAD"}},
           handler : {h \in HandlerKinds : h.body # "text" => h.size = 4},
           coders : {{}, {"gzip"}, Codings}]

Asking == [method : {"GET", "HEAD", "POST", "OPTIONS"},
             access : {"open", "token", "denied"}, accepts : SUBSET Codings,
             asks : {"all", "if changed", "part", "beyond"}]

\* The response a HttpResponse starts as.  length is Content-Length, coding that of
\* the bytes, encoding what Content-Encoding says.
Absent == -1
FileSize == 8
PartSize == 3
Blank == [status |-> 200, body |-> "none", size |-> 0, coding |-> "none",
          encoding |-> "none", vary |-> FALSE, cors |-> FALSE, length |-> Absent,
          headOnly |-> FALSE, ran |-> FALSE]
NoResponse == [Blank EXCEPT !.status = 0]

ReplyInit == setup \in Setups /\ request \in Asking /\ res = NoResponse

-----------------------------------------------------------------------------
(* HttpResponse.                                                           *)

\* body: the other headers stay.
WithBody(r, kind, size) ==
  [r EXCEPT !.body = kind, !.size = size, !.coding = "none", !.length = size]

\* status and json, of an error.
Failed(r, status) == WithBody([r EXCEPT !.status = status], "text", 1)

-----------------------------------------------------------------------------
(* The task.                                                               *)

Step(go, r) == [go |-> go, res |-> r]

\* One middleware.
RunMiddleware(name, q, r) ==
  CASE name = "logger" -> Step(TRUE, r)
    [] name = "throws" -> Step(FALSE, Failed(r, 500))
    [] name = "cors" ->
         IF q.method = "OPTIONS"
         THEN Step(FALSE, [r EXCEPT !.cors = TRUE, !.status = 204, !.length = 0])
         ELSE Step(TRUE, [r EXCEPT !.cors = TRUE])
    [] name = "jwt" ->
         IF q.access = "denied" THEN Step(FALSE, Failed(r, 401)) ELSE Step(TRUE, r)

\* The chain, until one of them stops it.
RunChain(chain, q) ==
  LET after[i \in 0..Len(chain)] ==
        IF i = 0 THEN Step(TRUE, Blank)
        ELSE IF after[i - 1].go THEN RunMiddleware(chain[i], q, after[i - 1].res)
        ELSE after[i - 1]
  IN after[Len(chain)]

\* find_route: HEAD falls back to the handler of GET.
RouteFound(q) ==
  \/ q.method \in setup.routes
  \/ q.method = "HEAD" /\ "GET" \in setup.routes

\* The handler; what it throws turns its response into a 500.
RunHandler(r) ==
  LET h == setup.handler
      ran == [r EXCEPT !.ran = TRUE]
      bare == CASE h.body = "none" -> ran
                [] h.body = "file" -> [ran EXCEPT !.body = "file", !.length = FileSize]
                [] OTHER -> WithBody(ran, h.body, h.size)
      made == IF h.label THEN [bare EXCEPT !.encoding = "own", !.coding = "own"] ELSE bare
  IN IF h.throws THEN Failed(made, 500) ELSE made

\* maybe_compress: brotli before gzip, of what the client accepts.
MaybeCompress(q, r) ==
  LET codings == q.accepts \cap setup.coders
      coding == IF "br" \in codings THEN "br" ELSE "gzip"
  IN
    IF \/ codings = {} \/ r.headOnly
       \/ r.body # "text" \/ r.encoding # "none" \/ r.size # 4
    THEN r
    ELSE [WithBody(r, "text", 2) EXCEPT !.coding = coding, !.encoding = coding, !.vary = TRUE]

\* apply_http_semantics; the file is there.
ApplySemantics(q, r0) ==
  LET r == [r0 EXCEPT !.headOnly = @ \/ q.method = "HEAD"]
      empty == [r EXCEPT !.length = 0, !.headOnly = TRUE]
  IN
    IF r.body # "file" THEN r
    ELSE CASE q.asks = "all" -> r
           [] q.asks = "if changed" ->
                IF q.method \in {"GET", "HEAD"} THEN [empty EXCEPT !.status = 304] ELSE r
           [] q.asks = "part" -> [r EXCEPT !.status = 206, !.length = PartSize]
           [] q.asks = "beyond" -> [empty EXCEPT !.status = 416]

\* The semantics come first, and with them the mark of HEAD.
FaultyFinished(q, r) == MaybeCompress(q, ApplySemantics(q, r))

\* The order of the last two steps.
Finished(q, r) == ApplySemantics(q, MaybeCompress(q, r))

\* The whole task.
Answer(q) ==
  LET chained == RunChain(setup.chain, q) IN
    Finished(q, IF ~chained.go THEN chained.res
                ELSE IF RouteFound(q) THEN RunHandler(chained.res)
                ELSE Failed(chained.res, 404))

Serve == res = NoResponse /\ res' = Answer(request) /\ UNCHANGED <<setup, request>>
ReplyOver == res # NoResponse /\ UNCHANGED replyVars

ReplyNext == Serve \/ ReplyOver

ReplySpec == ReplyInit /\ [][ReplyNext]_replyVars

-----------------------------------------------------------------------------
(* Properties.                                                             *)

\* A response describes itself.
Consistent(r) ==
  /\ r.encoding = r.coding
  /\ r.body \in {"text", "image"} => r.length = r.size
  /\ r.length = 0 => r.headOnly \/ r.body = "none"

\* HEAD announces what GET would send (the comment before maybe_compress): with no
\* handler of its own, a HEAD request gets the status and the headers a GET gets,
\* Content-Length and Content-Encoding among them, through middlewares, errors,
\* compression, validators and ranges; and each of them describes the body it goes
\* with.  A handler that labels its body and then throws leaves its label on the error.
HeadAsGet ==
  res # NoResponse =>
    /\ request.method = "HEAD" /\ "HEAD" \notin setup.routes =>
         res = [Answer([request EXCEPT !.method = "GET"]) EXCEPT !.headOnly = TRUE]
    /\ ~(setup.handler.label /\ setup.handler.throws) => Consistent(res)
    /\ res.ran => \A i \in DOMAIN setup.chain :
         setup.chain[i] = "jwt" => request.access # "denied"
=============================================================================
